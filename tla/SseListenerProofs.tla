------------------------- MODULE SseListenerProofs -------------------------
(***************************************************************************)
(* Proofs about SseListener, for every cooldown, restart delay and number  *)
(* of subshells: the coalescer loses no trigger and delays none for longer *)
(* than the cooldown.                                                      *)
(***************************************************************************)
EXTENDS SseListener, TLAPS

IInv ==
  /\ TypeOK
  /\ TimesBounded
  /\ DownIsIdle
  /\ CutAlone
  /\ StaleMarkerHarmless
  /\ NoLostTrigger

USE TimesAssumption, DeferredAssumption

\* The clamp of sse_trigger_update keeps the elapsed time a natural number.
LEMMA ElapsedNat ==
  ASSUME NEW t \in Nat, lastUpdate \in Nat
  PROVE  Elapsed(t) \in Nat
  BY DEF Elapsed

\* When the cooldown branch is not taken, the caller's time is past it or
\* behind the stored one.
LEMMA ElapsedLarge ==
  ASSUME NEW t \in Nat, lastUpdate \in Nat, lastUpdate + Cooldown <= t
  PROVE  Elapsed(t) >= Cooldown
  BY DEF Elapsed

\* Init establishes the inductive invariant.
LEMMA InitIInv == Init => IInv
<1> SUFFICES ASSUME Init PROVE IInv
  OBVIOUS
<1>1. TypeOK
  BY DEF Init, TypeOK, Labels
<1>2. TimesBounded
  BY DEF Init, TimesBounded
<1>3. DownIsIdle /\ CutAlone /\ StaleMarkerHarmless /\ NoLostTrigger
  BY DEF Init, DownIsIdle, CutAlone, StaleMarkerHarmless, NoLostTrigger
<1> QED
  BY <1>1, <1>2, <1>3 DEF IInv

\* Every step preserves the types (sse-update-coalescer.sh and the listener).
LEMMA TypeStep == TypeOK /\ [Next]_vars => TypeOK'
<1> SUFFICES ASSUME TypeOK, [Next]_vars PROVE TypeOK'
  OBVIOUS
<1> USE DEF TypeOK, Labels, Goto, connVars, procVars, fileVars, histVars
<1>1. CASE Tick
  BY <1>1 DEF Tick
<1>2. CASE Connect
  BY <1>2 DEF Connect
<1>9. CASE StreamClosed \/ ServiceRestart
  <2>1. CASE StreamClosed
    BY <2>1 DEF StreamClosed
  <2>2. CASE ServiceRestart
    BY <2>2 DEF ServiceRestart
  <2> QED
    BY <1>9, <2>1, <2>2
<1>3. CASE ReceiveEvent
  <2>1. pc' = [pc EXCEPT ![Listener] = "date"]
    BY <1>3 DEF ReceiveEvent
  <2>2. pc' \in [Procs -> Labels]
    BY <2>1 DEF Procs
  <2>3. events' \in Nat
    BY <1>3 DEF ReceiveEvent
  <2>4. /\ owed' \in BOOLEAN /\ interrupted' \in BOOLEAN
        /\ pending' \in BOOLEAN /\ cut' \in BOOLEAN /\ heard' \in Nat
    BY <1>3 DEF ReceiveEvent
  <2>5. UNCHANGED <<now, conn, backoff, wakeAt, stamp, remaining, alarm,
                    lastUpdate>>
    BY <1>3 DEF ReceiveEvent
  <2> QED
    BY <2>2, <2>3, <2>4, <2>5
<1>4. CASE Reconnect
  BY <1>4 DEF Reconnect, Min2
<1>5. CASE CurlFailed
  <2>1. cut' \in BOOLEAN /\ interrupted' \in BOOLEAN
    BY <1>5 DEF CurlFailed
  <2>2. conn' \in {"down", "connecting", "streaming", "backoff"} /\ wakeAt' \in Nat
    BY <1>5 DEF CurlFailed
  <2>3. pc' \in [Procs -> Labels]
    BY <1>5 DEF CurlFailed
  <2>4. UNCHANGED <<now, backoff, stamp, remaining, alarm, lastUpdate, pending, events,
                    owed, heard>>
    BY <1>5 DEF CurlFailed
  <2> QED
    BY <2>1, <2>2, <2>3, <2>4
<1>10. CASE CommandRestart
  <2>1. cut' \in BOOLEAN /\ interrupted' \in BOOLEAN
    BY <1>10 DEF CommandRestart
  <2> QED
    BY <1>10, <2>1 DEF CommandRestart
<1>6. ASSUME NEW p \in Procs, Trigger(p) PROVE TypeOK'
  <2>1. CASE TriggerDate(p)
    BY <2>1 DEF TriggerDate
  <2>2. CASE TriggerRead(p)
    <3>1. Elapsed(stamp[p]) \in Nat
      BY ElapsedNat, <1>6
    <3> QED
      BY <3>1, <2>2 DEF TriggerRead
  <2>3. CASE ScheduleCheck(p)
    BY <2>3 DEF ScheduleCheck
  <2>4. ASSUME NEW d \in Deferred, ScheduleFork(p, d) PROVE TypeOK'
    <3>1. d \in Procs
      BY DEF Procs
    <3> QED
      BY <3>1, <1>6, <2>4 DEF ScheduleFork
  <2>5. CASE RunClear(p)
    BY <2>5 DEF RunClear
  <2>6. CASE RunStamp(p)
    BY <2>6 DEF RunStamp
  <2>7. CASE RunStart(p)
    BY <2>7 DEF RunStart
  <2> QED
    BY <1>6, <2>1, <2>2, <2>3, <2>4, <2>5, <2>6, <2>7 DEF Trigger
<1>7. ASSUME NEW d \in Deferred, DeferredWake(d) PROVE TypeOK'
  BY <1>7 DEF DeferredWake
<1>8. CASE UNCHANGED vars
  BY <1>8 DEF vars
<1> QED
  BY <1>1, <1>2, <1>3, <1>4, <1>5, <1>6, <1>7, <1>8, <1>9, <1>10 DEF Next

\* No step stores a time from the future or a delay beyond the cooldown.
LEMMA TimesStep ==
  TypeOK /\ TimesBounded /\ [Next]_vars => TimesBounded'
<1> SUFFICES ASSUME TypeOK, TimesBounded, [Next]_vars PROVE TimesBounded'
  OBVIOUS
<1> USE DEF TypeOK, TimesBounded, Goto, connVars, procVars, fileVars, histVars
<1>1. CASE Tick
  BY <1>1 DEF Tick
<1>2. CASE \/ Connect \/ ReceiveEvent \/ StreamClosed \/ Reconnect
           \/ CurlFailed \/ ServiceRestart \/ CommandRestart
  <2>1. UNCHANGED <<now, lastUpdate, stamp, remaining>> /\ heard' \in {heard, now}
    BY <1>2 DEF Connect, ReceiveEvent, StreamClosed, Reconnect,
                CurlFailed, ServiceRestart, CommandRestart
  <2> QED
    BY <2>1
<1>3. ASSUME NEW p \in Procs, Trigger(p) PROVE TimesBounded'
  <2>1. CASE TriggerDate(p)
    BY <2>1 DEF TriggerDate
  <2>2. CASE TriggerRead(p)
    <3>1. Elapsed(stamp[p]) \in Nat
      BY ElapsedNat, <1>3
    <3> QED
      BY <3>1, <2>2 DEF TriggerRead
  <2>3. CASE ScheduleCheck(p) \/ (\E d \in Deferred : ScheduleFork(p, d))
             \/ RunClear(p) \/ RunStart(p)
    <3>1. UNCHANGED <<now, lastUpdate, stamp, remaining, heard>>
      BY <2>3 DEF ScheduleCheck, ScheduleFork, RunClear, RunStart
    <3> QED
      BY <3>1
  <2>4. CASE RunStamp(p)
    BY <2>4, <1>3 DEF RunStamp
  <2> QED
    BY <1>3, <2>1, <2>2, <2>3, <2>4 DEF Trigger
<1>4. ASSUME NEW d \in Deferred, DeferredWake(d) PROVE TimesBounded'
  BY <1>4 DEF DeferredWake
<1>5. CASE UNCHANGED vars
  BY <1>5 DEF vars
<1> QED
  BY <1>1, <1>2, <1>3, <1>4, <1>5 DEF Next

\* Only a process that is already running takes a step of the coalescer, and
\* only a listener that is up reads a line.
LEMMA DownStep == TypeOK /\ DownIsIdle /\ [Next]_vars => DownIsIdle'
<1> SUFFICES ASSUME TypeOK, DownIsIdle, [Next]_vars PROVE DownIsIdle'
  OBVIOUS
<1> USE DEF TypeOK, DownIsIdle, Active, Goto, connVars, procVars, fileVars, histVars
<1>1. CASE Tick \/ Connect \/ StreamClosed \/ Reconnect \/ ServiceRestart
  BY <1>1 DEF Tick, Connect, StreamClosed, Reconnect, ServiceRestart
<1>2. CASE ReceiveEvent
  BY <1>2 DEF ReceiveEvent
<1>3. CASE CurlFailed \/ CommandRestart
  BY <1>3 DEF CurlFailed, CommandRestart
<1>4. ASSUME NEW p \in Procs, Trigger(p) PROVE DownIsIdle'
  <2>1. pc[p] # "idle" /\ conn' = conn
    BY <1>4 DEF Trigger, TriggerDate, TriggerRead, ScheduleCheck, ScheduleFork,
                RunClear, RunStamp, RunStart
  <2> QED
    BY <2>1, <1>4
<1>5. ASSUME NEW d \in Deferred, DeferredWake(d) PROVE DownIsIdle'
  <2>1. d \in Procs
    BY DEF Procs
  <2> QED
    BY <1>5, <2>1 DEF DeferredWake
<1>6. CASE UNCHANGED vars
  BY <1>6 DEF vars
<1> QED
  BY <1>1, <1>2, <1>3, <1>4, <1>5, <1>6 DEF Next

\* A process that moves between two labels other than "sleep" neither adds nor
\* removes a sleeper.
LEMMA SameSleepers ==
  ASSUME TypeOK, NEW p \in Procs, NEW l, pc' = [pc EXCEPT ![p] = l],
         pc[p] # "sleep", ~Sleeper'
  PROVE  ~Sleeper
  BY DEF Sleeper, TypeOK, Procs

\* The argument of StaleMarkerHarmless: the marker without a sleeper appears
\* only when the control group is killed, the restart delay outlasts the
\* cooldown, and from then on only the immediate path is taken.
LEMMA StaleStep ==
  /\ TypeOK /\ TimesBounded /\ DownIsIdle /\ StaleMarkerHarmless
  /\ [Next]_vars
  => StaleMarkerHarmless'
<1> SUFFICES ASSUME TypeOK, TimesBounded, DownIsIdle, StaleMarkerHarmless,
                    [Next]_vars, pending', ~Sleeper', ~cut'
             PROVE  StaleMarkerHarmless'
  BY DEF StaleMarkerHarmless
<1> USE DEF TypeOK, StaleMarkerHarmless, Goto, connVars, procVars, fileVars, histVars
<1>1. CASE Tick \/ Connect \/ StreamClosed \/ Reconnect \/ ServiceRestart
           \/ UNCHANGED vars
  <2>1. pending /\ ~Sleeper /\ ~cut /\ UNCHANGED <<pc, stamp, lastUpdate>>
    BY <1>1 DEF Tick, Connect, StreamClosed, Reconnect,
                ServiceRestart, Sleeper, vars
  <2>2. lastUpdate + Cooldown <= (IF conn' = "down" THEN wakeAt' ELSE now')
    <3>1. CASE Tick
      BY <2>1, <3>1 DEF Tick
    <3>2. CASE Connect \/ StreamClosed \/ Reconnect
      BY <2>1, <3>2 DEF Connect, StreamClosed, Reconnect
    <3>3. CASE ServiceRestart
      BY <2>1, <3>3 DEF ServiceRestart
    <3>4. CASE UNCHANGED vars
      BY <2>1, <3>4 DEF vars
    <3> QED
      BY <1>1, <3>1, <3>2, <3>3, <3>4
  <2> QED
    BY <2>1, <2>2
<1>2. CASE ReceiveEvent
  <2>1. pending /\ ~Sleeper /\ ~cut
    BY <1>2, SameSleepers DEF ReceiveEvent, Procs
  <2> QED
    BY <1>2, <2>1 DEF ReceiveEvent
<1>3. CASE CurlFailed
  BY <1>3, RestartAssumption DEF CurlFailed, TimesBounded
<1>6. CASE CommandRestart
  <2>1. lastUpdate + Cooldown <= now
    BY <1>6 DEF CommandRestart
  <2> QED
    BY <1>6, <2>1 DEF CommandRestart
<1>4. ASSUME NEW p \in Procs, Trigger(p) PROVE StaleMarkerHarmless'
  <2>1. conn # "down"
    BY <1>4 DEF DownIsIdle, Active, Trigger, TriggerDate, TriggerRead,
                ScheduleCheck, ScheduleFork, RunClear, RunStamp, RunStart
  <2>2. CASE TriggerDate(p)
    <3>1. pending /\ ~Sleeper /\ ~cut
      BY <2>2, <1>4, SameSleepers DEF TriggerDate
    <3> QED
      BY <2>1, <2>2, <3>1, <1>4 DEF TriggerDate
  <2>3. CASE TriggerRead(p)
    <3>1. pending /\ ~Sleeper /\ ~cut
      <4>1. \E l : pc' = [pc EXCEPT ![p] = l]
        BY <2>3 DEF TriggerRead
      <4>2. PICK l : pc' = [pc EXCEPT ![p] = l]
        BY <4>1
      <4>3. pc[p] # "sleep" /\ pending /\ ~cut
        BY <2>3 DEF TriggerRead
      <4> QED
        BY <4>2, <4>3, <1>4, SameSleepers
    <3>2. lastUpdate + Cooldown <= stamp[p]
      BY <2>3, <3>1, <1>4 DEF TriggerRead
    <3>3. Elapsed(stamp[p]) >= Cooldown /\ Elapsed(stamp[p]) \in Nat
      BY <3>2, <1>4, ElapsedLarge, ElapsedNat
    <3>4. /\ pc' = [pc EXCEPT ![p] = "clear"]
          /\ UNCHANGED <<lastUpdate, conn, wakeAt, now, stamp>>
      BY <3>3, <2>3 DEF TriggerRead
    <3> QED
      BY <3>1, <3>4, <2>1, <1>4
  <2>4. CASE ScheduleCheck(p)
    <3>1. pending /\ ~Sleeper /\ ~cut
      BY <2>4, <1>4, SameSleepers DEF ScheduleCheck
    <3> QED
      BY <2>4, <3>1, <1>4 DEF ScheduleCheck
  <2>5. ASSUME NEW d \in Deferred, ScheduleFork(p, d) PROVE FALSE
    <3>1. d \in Procs
      BY DEF Procs
    <3>2. pc'[d] = "sleep"
      BY <2>5, <3>1, <1>4 DEF ScheduleFork
    <3> QED
      BY <3>2 DEF Sleeper
  <2>6. CASE RunClear(p)
    BY <2>6 DEF RunClear
  <2>7. CASE RunStamp(p) \/ RunStart(p)
    <3>1. pending /\ ~Sleeper /\ ~cut
      BY <2>7, <1>4, SameSleepers DEF RunStamp, RunStart
    <3> QED
      BY <2>7, <3>1, <1>4 DEF RunStamp, RunStart
  <2> QED
    BY <1>4, <2>2, <2>3, <2>4, <2>5, <2>6, <2>7 DEF Trigger
<1>5. ASSUME NEW d \in Deferred, DeferredWake(d) PROVE StaleMarkerHarmless'
  BY <1>5 DEF DeferredWake
<1> QED
  BY <1>1, <1>2, <1>3, <1>4, <1>5, <1>6 DEF Next

\* A restart by command finds the listener idle and leaves it the marker alone;
\* nobody forks while the marker is there.
LEMMA CutStep ==
  TypeOK /\ TimesBounded /\ CutAlone /\ [Next]_vars => CutAlone'
<1> SUFFICES ASSUME TypeOK, TimesBounded, CutAlone, [Next]_vars, cut' PROVE CutAlone'
  BY DEF CutAlone
<1> USE DEF TypeOK, CutAlone, Goto, connVars, procVars, fileVars, histVars
<1>1. CASE Tick \/ Connect \/ StreamClosed \/ Reconnect \/ ServiceRestart \/ UNCHANGED vars
  BY <1>1 DEF Tick, Connect, StreamClosed, Reconnect, ServiceRestart, vars
<1>2. CASE ReceiveEvent
  BY <1>2 DEF ReceiveEvent, Procs
<1>3. CASE CurlFailed
  BY <1>3 DEF CurlFailed
<1>4. CASE CommandRestart
  BY <1>4 DEF CommandRestart, Procs
<1>5. ASSUME NEW p \in Procs, Trigger(p) PROVE CutAlone'
  <2>1. CASE p = Listener /\ cut
    <3>1. CASE TriggerDate(p)
      BY <2>1, <3>1, <1>5 DEF TriggerDate, TimesBounded
    <3>2. CASE TriggerRead(p)
      <4>1. stamp[p] - lastUpdate < Cooldown \/ pc' = [pc EXCEPT ![p] = "clear"]
        BY <3>2, <1>5 DEF TriggerRead, Elapsed
      <4>2. /\ UNCHANGED <<conn, stamp, pending, lastUpdate, heard>>
            /\ heard <= stamp[p]
        BY <2>1, <3>2 DEF TriggerRead
      <4>3. \/ pc' = [pc EXCEPT ![p] = "clear"]
            \/ pc' = [pc EXCEPT ![p] = "check"] /\ stamp[p] < lastUpdate + Cooldown
        BY <3>2, <4>1, <1>5 DEF TriggerRead
      <4> QED
        BY <2>1, <4>2, <4>3, <1>5 DEF Procs
    <3>3. CASE ScheduleCheck(p)
      BY <2>1, <3>3, <1>5 DEF ScheduleCheck
    <3> QED
      BY <2>1, <3>1, <3>2, <3>3, <1>5
         DEF Trigger, ScheduleFork, RunClear, RunStamp, RunStart
  <2>2. CASE ~cut
    BY <2>2, <1>5 DEF Trigger, TriggerDate, TriggerRead, ScheduleCheck, ScheduleFork,
                      RunClear, RunStamp, RunStart
  <2>3. CASE cut /\ p # Listener
    BY <2>3, <1>5 DEF Procs, Trigger, TriggerDate, TriggerRead, ScheduleCheck, ScheduleFork,
                      RunClear, RunStamp, RunStart
  <2> QED
    BY <2>1, <2>2, <2>3
<1>6. ASSUME NEW d \in Deferred, DeferredWake(d) PROVE CutAlone'
  BY <1>6 DEF DeferredWake
<1> QED
  BY <1>1, <1>2, <1>3, <1>4, <1>5, <1>6 DEF Next

\* A trigger leaves the scene only when an update started, when its successor
\* sleeps, or when another sleeper is already there.
LEMMA NoLostStep ==
  /\ TypeOK /\ CutAlone /\ StaleMarkerHarmless /\ NoLostTrigger /\ [Next]_vars
  => NoLostTrigger'
<1> SUFFICES ASSUME TypeOK, CutAlone, StaleMarkerHarmless, NoLostTrigger, [Next]_vars,
                    owed', ~interrupted', ~(cut' /\ heard' < lastUpdate' + Cooldown)
             PROVE  Active'
  BY DEF NoLostTrigger
<1> USE DEF TypeOK, NoLostTrigger, Active, Goto, connVars, procVars, fileVars, histVars
<1>1. CASE Tick \/ Connect \/ StreamClosed \/ Reconnect \/ ServiceRestart
           \/ UNCHANGED vars
  BY <1>1 DEF Tick, Connect, StreamClosed, Reconnect, ServiceRestart, vars
<1>2. CASE ReceiveEvent
  BY <1>2 DEF ReceiveEvent, Procs
<1>3. CASE CurlFailed \/ CommandRestart
  BY <1>3 DEF CurlFailed, CommandRestart
<1>4. ASSUME NEW p \in Procs, Trigger(p) PROVE Active'
  <2>1. CASE TriggerDate(p) \/ TriggerRead(p) \/ RunClear(p) \/ RunStamp(p)
    <3>1. pc'[p] # "idle"
      BY <2>1, <1>4 DEF TriggerDate, TriggerRead, RunClear, RunStamp
    <3> QED
      BY <3>1
  <2>2. CASE ScheduleCheck(p)
    <3>1. CASE pending
      <4>0. ~cut
        BY <2>2, <1>4 DEF ScheduleCheck, CutAlone, Procs
      <4>1. PICK d \in Deferred : pc[d] = "sleep"
        BY <2>2, <3>1, <4>0, <1>4 DEF ScheduleCheck, StaleMarkerHarmless, Sleeper
      <4>2. d \in Procs /\ pc'[d] = "sleep"
        BY <2>2, <4>1, <1>4 DEF ScheduleCheck, Procs
      <4> QED
        BY <4>2
    <3>2. CASE ~pending
      BY <2>2, <3>2, <1>4 DEF ScheduleCheck
    <3> QED
      BY <3>1, <3>2
  <2>3. ASSUME NEW d \in Deferred, ScheduleFork(p, d) PROVE Active'
    <3>1. d \in Procs
      BY DEF Procs
    <3>2. pc'[d] = "sleep"
      BY <2>3, <3>1, <1>4 DEF ScheduleFork
    <3> QED
      BY <3>1, <3>2
  <2>4. CASE RunStart(p)
    BY <2>4 DEF RunStart
  <2> QED
    BY <1>4, <2>1, <2>2, <2>3, <2>4 DEF Trigger
<1>5. ASSUME NEW d \in Deferred, DeferredWake(d) PROVE Active'
  <2>1. d \in Procs
    BY DEF Procs
  <2>2. pc'[d] = "date"
    BY <1>5, <2>1 DEF DeferredWake
  <2> QED
    BY <2>1, <2>2
<1> QED
  BY <1>1, <1>2, <1>3, <1>4, <1>5 DEF Next

(***************************************************************************)
(* The coalescer loses no trigger: for any cooldown not longer than the    *)
(* service's restart delay, every interleaving of the listener with its    *)
(* subshells, and any number of kills, a change whose update has not       *)
(* started yet has a process working for it.                               *)
(***************************************************************************)
THEOREM TriggersAreKept == Spec => []NoLostTrigger
<1>1. IInv /\ [Next]_vars => IInv'
  BY TypeStep, TimesStep, DownStep, CutStep, StaleStep, NoLostStep DEF IInv
<1>2. IInv => NoLostTrigger
  BY DEF IInv
<1> QED
  BY InitIInv, <1>1, <1>2, PTL DEF Spec

(***************************************************************************)
(* A marker left behind by a kill never swallows a change.                 *)
(***************************************************************************)
THEOREM StaleMarkers == Spec => []StaleMarkerHarmless
<1>1. IInv /\ [Next]_vars => IInv'
  BY TypeStep, TimesStep, DownStep, CutStep, StaleStep, NoLostStep DEF IInv
<1>2. IInv => StaleMarkerHarmless
  BY DEF IInv
<1> QED
  BY InitIInv, <1>1, <1>2, PTL DEF Spec

(***************************************************************************)
(* No deferral is longer than the cooldown.                                *)
(***************************************************************************)
THEOREM DeferralsAreBounded == Spec => []DeferralBounded
<1> DEFINE J == TypeOK /\ TimesBounded /\ DeferralBounded
<1>1. Init => J
  BY InitIInv DEF IInv, Init, DeferralBounded, Procs
<1>2. J /\ [Next]_vars => DeferralBounded'
  <2> SUFFICES ASSUME J, [Next]_vars, NEW d \in Deferred, pc'[d] = "sleep"
               PROVE  alarm'[d] <= now' + Cooldown
    BY DEF DeferralBounded
  <2> USE DEF TypeOK, Goto, connVars, procVars, fileVars, histVars
  <2>1. d \in Procs
    BY DEF Procs
  <2>2. CASE alarm'[d] = alarm[d] /\ pc[d] = "sleep" /\ now' \in {now, now + 1}
    BY <2>1, <2>2 DEF DeferralBounded
  <2>3. CASE Tick \/ Connect \/ StreamClosed \/ Reconnect
             \/ ServiceRestart \/ UNCHANGED vars
    BY <2>2, <2>3 DEF Tick, Connect, StreamClosed, Reconnect,
                      ServiceRestart, vars
  <2>4. CASE ReceiveEvent \/ CurlFailed \/ CommandRestart
    BY <2>1, <2>2, <2>4 DEF ReceiveEvent, CurlFailed, CommandRestart
  <2>5. ASSUME NEW p \in Procs, Trigger(p) PROVE alarm'[d] <= now' + Cooldown
    <3>1. ASSUME NEW e \in Deferred, ScheduleFork(p, e) PROVE alarm'[d] <= now' + Cooldown
      <4>1. CASE e = d
        BY <4>1, <3>1, <2>1, <2>5 DEF ScheduleFork, TimesBounded
      <4>2. CASE e # d
        BY <4>2, <3>1, <2>1, <2>2, <2>5 DEF ScheduleFork
      <4> QED
        BY <4>1, <4>2
    <3>2. CASE ~ \E e \in Deferred : ScheduleFork(p, e)
      BY <3>2, <2>1, <2>2, <2>5 DEF Trigger, TriggerDate, TriggerRead,
           ScheduleCheck, RunClear, RunStamp, RunStart
    <3> QED
      BY <3>1, <3>2
  <2>6. ASSUME NEW e \in Deferred, DeferredWake(e) PROVE alarm'[d] <= now' + Cooldown
    BY <2>6, <2>1, <2>2 DEF DeferredWake
  <2> QED
    BY <2>3, <2>4, <2>5, <2>6 DEF Next
<1>3. J /\ [Next]_vars => J'
  BY <1>2, TypeStep, TimesStep
<1> QED
  BY <1>1, <1>3, PTL DEF Spec
=============================================================================
