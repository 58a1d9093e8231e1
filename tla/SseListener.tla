---------------------------- MODULE SseListener ----------------------------
(***************************************************************************)
(* The Linux agent's SSE listener (linux/scripts/runtime/                  *)
(* openpath-sse-listener.sh) and the update coalescer it sources           *)
(* (linux/lib/sse-update-coalescer.sh).                                    *)
(*                                                                         *)
(* The listener reads the event stream and calls sse_trigger_update for    *)
(* every whitelist-changed line.  The coalescer keeps two marker files, the *)
(* time of the last trigger and a "deferred update pending" marker, and    *)
(* forks a subshell that sleeps until the cooldown is over and then calls  *)
(* sse_trigger_update again.  The subshells and the listener share the     *)
(* files without a lock, so every command of the scripts is a step here.   *)
(*                                                                         *)
(* The scripts run under "set -euo pipefail" inside a systemd service with *)
(* Restart=always and the default KillMode: when curl fails the pipeline   *)
(* fails, the script exits, and systemd kills the whole control group,     *)
(* sleeping subshells included, before it starts a new listener.  The      *)
(* `openpath` command restarts the service without the unit's delay.       *)
(***************************************************************************)
EXTENDS Naturals, Integers

CONSTANTS
  Deferred,      \* identities for the forked subshells
  Cooldown,      \* SSE_UPDATE_COOLDOWN, in seconds
  ReconnectMin,  \* SSE_RECONNECT_MIN
  ReconnectMax,  \* SSE_RECONNECT_MAX
  RestartSec,    \* RestartSec of the unit file
  MaxTime,       \* bound: the clock stops here
  MaxEvents      \* bound: whitelist-changed lines received

Listener == "listener"
Procs == {Listener} \cup Deferred

ASSUME TimesAssumption ==
  /\ Cooldown \in Nat \ {0}
  /\ ReconnectMin \in Nat /\ ReconnectMax \in Nat
  /\ RestartSec \in Nat
  /\ MaxTime \in Nat /\ MaxEvents \in Nat

ASSUME DeferredAssumption == Listener \notin Deferred

\* Both are 10 seconds as shipped (defaults.conf, services.sh).
ASSUME RestartAssumption == RestartSec >= Cooldown

VARIABLES
  now,         \* the wall clock, in seconds
  conn,        \* the listener process: down, connecting, streaming, backoff
  backoff,     \* its "backoff" variable
  wakeAt,      \* when its sleep, or systemd's restart delay, is over
  pc,          \* the next command of each process, "idle" when it has none
  stamp,       \* "now" of the sse_trigger_update call in progress
  remaining,   \* "remaining" of that call
  alarm,       \* when a sleeping subshell wakes
  lastUpdate,  \* content of sse-last-update, 0 when it does not exist
  pending,     \* does sse-pending-update exist?
  events,      \* whitelist-changed lines read so far
  owed,        \* history: a line was read and no update started since
  heard,       \* history: when the last of these lines was read
  interrupted, \* history: ... and the service was killed meanwhile
  cut          \* history: a restart by command left a marker within a cooldown

fileVars == <<lastUpdate, pending>>
connVars == <<conn, backoff, wakeAt>>
procVars == <<pc, stamp, remaining, alarm>>
histVars == <<owed, heard, interrupted, cut>>
vars == <<now, connVars, procVars, fileVars, events, histVars>>

\* The clock shows an epoch time: a missing last-update file (0) is stale.
Init ==
  /\ now = Cooldown
  /\ conn = "connecting" /\ backoff = ReconnectMin /\ wakeAt = 0
  /\ pc = [p \in Procs |-> "idle"]
  /\ stamp = [p \in Procs |-> 0]
  /\ remaining = [p \in Procs |-> 0]
  /\ alarm = [p \in Procs |-> 0]
  /\ lastUpdate = 0 /\ pending = FALSE
  /\ events = 0
  /\ owed = FALSE /\ heard = 0 /\ interrupted = FALSE /\ cut = FALSE

Goto(p, label) == pc' = [pc EXCEPT ![p] = label]

Tick ==
  /\ now < MaxTime
  /\ now' = now + 1
  /\ UNCHANGED <<connVars, procVars, fileVars, events, histVars>>

-----------------------------------------------------------------------------
(***************************************************************************)
(* run_sse_listener                                                        *)
(***************************************************************************)
Connect ==
  /\ conn = "connecting"
  /\ conn' = "streaming"
  /\ UNCHANGED <<now, backoff, wakeAt, procVars, fileVars, events, histVars>>

ReceiveEvent ==
  /\ conn = "streaming" /\ pc[Listener] = "idle"
  /\ events < MaxEvents
  /\ events' = events + 1
  /\ owed' = TRUE /\ heard' = now /\ interrupted' = FALSE
  /\ Goto(Listener, "date")
  /\ UNCHANGED <<now, conn, backoff, wakeAt, stamp, remaining, alarm, fileVars, cut>>

\* The server closes the stream: curl exits 0 and the loop goes on to sleep.
StreamClosed ==
  /\ conn = "streaming" /\ pc[Listener] = "idle"
  /\ conn' = "backoff" /\ wakeAt' = now + backoff
  /\ UNCHANGED <<now, backoff, procVars, fileVars, events, histVars>>

Min2(a, b) == IF a < b THEN a ELSE b

\* The read loop resets "backoff" when a line arrives, but in the subshell of
\* a pipeline: the loop around it goes on doubling.
Reconnect ==
  /\ conn = "backoff" /\ now >= wakeAt
  /\ conn' = "connecting"
  /\ backoff' = Min2(2 * backoff, ReconnectMax)
  /\ UNCHANGED <<now, wakeAt, procVars, fileVars, events, histVars>>

\* curl fails: pipefail and set -e end the script, systemd kills the rest of
\* the control group.  The files in /run/openpath stay.
CurlFailed ==
  /\ conn \in {"connecting", "streaming"} /\ pc[Listener] = "idle"
  /\ conn' = "down" /\ wakeAt' = now + RestartSec
  /\ pc' = [p \in Procs |-> "idle"]
  /\ interrupted' = owed /\ cut' = FALSE
  /\ UNCHANGED <<now, backoff, stamp, remaining, alarm, fileVars,
                 events, owed, heard>>

ServiceRestart ==
  /\ conn = "down" /\ now >= wakeAt
  /\ conn' = "connecting" /\ backoff' = ReconnectMin
  /\ UNCHANGED <<now, wakeAt, procVars, fileVars, events, histVars>>

\* `openpath restart` and the registration of a machine: the service is
\* restarted at once, whatever its processes are doing.
CommandRestart ==
  /\ conn' = "connecting" /\ backoff' = ReconnectMin
  /\ pc' = [p \in Procs |-> "idle"]
  /\ interrupted' = owed
  /\ cut' = (pending /\ now < lastUpdate + Cooldown)
  /\ UNCHANGED <<now, wakeAt, stamp, remaining, alarm, fileVars, events, owed, heard>>

-----------------------------------------------------------------------------
(***************************************************************************)
(* sse_trigger_update, run by the listener or by a deferred subshell       *)
(***************************************************************************)
TriggerDate(p) ==
  /\ pc[p] = "date"
  /\ stamp' = [stamp EXCEPT ![p] = now]
  /\ Goto(p, "read")
  /\ UNCHANGED <<now, connVars, remaining, alarm, fileVars, events, histVars>>

\* Mutant: a negative elapsed time is taken at face value.
UnclampedElapsed(t) == t - lastUpdate

Elapsed(t) == IF t - lastUpdate < 0 THEN Cooldown ELSE t - lastUpdate

TriggerRead(p) ==
  /\ pc[p] = "read"
  /\ \/ /\ Elapsed(stamp[p]) < Cooldown
        /\ remaining' = [remaining EXCEPT ![p] = Cooldown - Elapsed(stamp[p])]
        /\ Goto(p, "check")
     \/ /\ Elapsed(stamp[p]) >= Cooldown
        /\ Goto(p, "clear")
        /\ UNCHANGED remaining
  /\ UNCHANGED <<now, connVars, stamp, alarm, fileVars, events, histVars>>

\* sse_schedule_deferred_update: the marker test, then the marker and the fork.
ScheduleCheck(p) ==
  /\ pc[p] = "check"
  /\ Goto(p, IF pending THEN "idle" ELSE "fork")
  /\ UNCHANGED <<now, connVars, stamp, remaining, alarm, fileVars, events, histVars>>

ScheduleFork(p, d) ==
  /\ pc[p] = "fork"
  /\ d # p /\ pc[d] = "idle"
  /\ pending' = TRUE
  /\ pc' = [pc EXCEPT ![p] = "idle", ![d] = "sleep"]
  /\ alarm' = [alarm EXCEPT ![d] = now + remaining[p]]
  /\ UNCHANGED <<now, connVars, stamp, remaining, lastUpdate, events, histVars>>

\* The subshell wakes, removes the marker and triggers.
DeferredWake(d) ==
  /\ pc[d] = "sleep" /\ now >= alarm[d]
  /\ pending' = FALSE
  /\ Goto(d, "date")
  /\ UNCHANGED <<now, connVars, stamp, remaining, alarm, lastUpdate, events, histVars>>

\* Mutant: the immediate path leaves the marker alone.
RunKeep(p) ==
  /\ pc[p] = "clear"
  /\ Goto(p, "stamp")
  /\ UNCHANGED <<now, connVars, stamp, remaining, alarm, fileVars, events, histVars>>

\* sse_run_update_now: remove the marker, write the time, start the update.
RunClear(p) ==
  /\ pc[p] = "clear"
  /\ pending' = FALSE /\ cut' = FALSE
  /\ Goto(p, "stamp")
  /\ UNCHANGED <<now, connVars, stamp, remaining, alarm, lastUpdate, events, owed, heard,
                 interrupted>>

RunStamp(p) ==
  /\ pc[p] = "stamp"
  /\ lastUpdate' = stamp[p]
  /\ Goto(p, "start")
  /\ UNCHANGED <<now, connVars, stamp, remaining, alarm, pending, events, histVars>>

RunStart(p) ==
  /\ pc[p] = "start"
  /\ owed' = FALSE /\ interrupted' = FALSE
  /\ Goto(p, "idle")
  /\ UNCHANGED <<now, connVars, stamp, remaining, alarm, fileVars, events, heard, cut>>

Trigger(p) ==
  \/ TriggerDate(p) \/ TriggerRead(p)
  \/ ScheduleCheck(p) \/ \E d \in Deferred : ScheduleFork(p, d)
  \/ RunClear(p) \/ RunStamp(p) \/ RunStart(p)

Next ==
  \/ Tick
  \/ Connect \/ ReceiveEvent \/ StreamClosed \/ Reconnect
  \/ CurlFailed \/ ServiceRestart \/ CommandRestart
  \/ \E p \in Procs : Trigger(p)
  \/ \E d \in Deferred : DeferredWake(d)

Spec == Init /\ [][Next]_vars

-----------------------------------------------------------------------------
Labels == {"idle", "date", "read", "check", "fork", "sleep", "clear", "stamp", "start"}

TypeOK ==
  /\ now \in Nat /\ wakeAt \in Nat /\ backoff \in Nat
  /\ conn \in {"down", "connecting", "streaming", "backoff"}
  /\ pc \in [Procs -> Labels]
  /\ stamp \in [Procs -> Nat] /\ remaining \in [Procs -> Nat]
  /\ alarm \in [Procs -> Nat]
  /\ lastUpdate \in Nat /\ events \in Nat
  /\ pending \in BOOLEAN /\ owed \in BOOLEAN /\ interrupted \in BOOLEAN
  /\ heard \in Nat /\ cut \in BOOLEAN

Active == \E p \in Procs : pc[p] # "idle"
Sleeper == \E d \in Deferred : pc[d] = "sleep"

(***************************************************************************)
(* Coalescing loses a change in one way only: as long as the service has   *)
(* not been killed since the last whitelist-changed line, a line that no   *)
(* update followed yet has a process working for it, however the listener  *)
(* and the subshells interleave on the marker files and whatever a kill    *)
(* left there; unless a restart by command cut a running cooldown short,   *)
(* and then only if the line was read before that cooldown was over        *)
(* (sse_schedule_deferred_update returns at once when the marker exists).  *)
(***************************************************************************)
NoLostTrigger ==
  owed /\ ~interrupted => Active \/ (cut /\ heard < lastUpdate + Cooldown)

(***************************************************************************)
(* A coalesced change waits at most one cooldown: a sleeping subshell      *)
(* wakes within Cooldown seconds, also when the stored time is later than  *)
(* the caller's own (the elapsed < 0 case of sse_trigger_update).          *)
(***************************************************************************)
DeferralBounded == \A d \in Deferred : pc[d] = "sleep" => alarm[d] <= now + Cooldown

\* No stored time is ahead of the clock, no deferral longer than the cooldown.
TimesBounded ==
  /\ lastUpdate <= now /\ heard <= now
  /\ \A p \in Procs : stamp[p] <= now /\ remaining[p] <= Cooldown

\* While systemd waits to restart the service nothing of it runs.
DownIsIdle == conn = "down" => ~Active

(***************************************************************************)
(* A pending marker that nobody sleeps on, which only a kill leaves,       *)
(* swallows no change: by the time the restarted listener reads a line the *)
(* cooldown is over, so the line takes the immediate path of               *)
(* sse_trigger_update, which removes the marker.  Only a restart by        *)
(* command within the cooldown is quicker than that.                       *)
(***************************************************************************)
StaleMarkerHarmless ==
  pending /\ ~Sleeper /\ ~cut =>
    /\ lastUpdate + Cooldown <= (IF conn = "down" THEN wakeAt ELSE now)
    /\ \A p \in Procs :
         /\ pc[p] \in {"idle", "date", "read", "clear"}
         /\ pc[p] = "read" => lastUpdate + Cooldown <= stamp[p]

\* After such a restart the listener is alone with the marker, and goes past
\* its check only with a line read before the cooldown was over.
CutAlone ==
  cut =>
    /\ pending /\ conn # "down"
    /\ \A d \in Deferred : pc[d] = "idle"
    /\ pc[Listener] \in {"idle", "date", "read", "check", "clear"}
    /\ pc[Listener] \in {"read", "check"} => heard <= stamp[Listener]
    /\ pc[Listener] = "check" => stamp[Listener] < lastUpdate + Cooldown
=============================================================================
