------------------------- MODULE ClassroomSchedules -------------------------
(***************************************************************************)
(* One classroom with one machine: its manual and default group, its       *)
(* weekly and one-off schedules, the machine's exemptions, and the tick    *)
(* that announces what the clock alone changes                             *)
(* (api/src/services/schedule-command-*.service.ts,                        *)
(* schedule-change-delivery.service.ts,                                    *)
(* classroom-exemption-command.service.ts,                                 *)
(* classroom-classroom-command.service.ts and the storage under them).     *)
(*                                                                         *)
(* The clock counts half minutes of one weekday.  A schedule starts and    *)
(* ends on a quarter of an hour, an operational exemption anywhere.  A     *)
(* command reads (access, row, conflict), awaits, writes, and dispatches   *)
(* its event; between these steps other commands, the clock and the tick   *)
(* move on.                                                                *)
(***************************************************************************)
EXTENDS Naturals, FiniteSets

CONSTANTS
  Groups,       \* identifiers of groups
  Users, Admins, Approves,
                \* callers, the administrators, and the groups of each teacher
  RowIds,       \* identifiers of schedules (uuid: never used twice)
  Lessons,      \* schedules one of which may be there at the start
  None, Gone,   \* no row yet, a deleted row; None is also SQL's NULL
  Quarter,      \* half minutes in a "quarter of an hour"
  Horizon,      \* bound: last half minute
  Durations,    \* lengths offered for operational exemptions
  MaxCommands,  \* bound: commands begun
  MaxExempt,    \* bound: exemptions
  MaxFaults     \* bound: failing ticks

Kinds == {"weekly", "one_off"}
Boundaries == {t \in 0 .. Horizon + 1 : t % Quarter = 0}

ScheduleRow == [kind : Kinds, group : Groups, owner : Users,
                start : Boundaries, end : Boundaries]

\* A row of machine_exemptions: "no" is its id, and tells the order of createdAt.
Exemption == [no : Nat, schedule : RowIds \cup {None}, group : Groups \cup {None},
              expires : Nat, source : {"schedule", "operational"}]

ASSUME SchedulesAssumption ==
  /\ Admins \subseteq Users
  /\ Approves \in [Users -> SUBSET Groups]
  /\ Quarter \in Nat \ {0} /\ Quarter % 2 = 0
  /\ Horizon \in Nat /\ Durations \subseteq Nat \ {0}
  /\ MaxCommands \in Nat /\ MaxExempt \in Nat /\ MaxFaults \in Nat
  /\ Lessons \subseteq {r \in ScheduleRow : r.start < r.end}
  /\ None # Gone /\ {None, Gone} \cap (Groups \cup RowIds \cup Boundaries) = {}
  /\ {None, Gone} \cap ScheduleRow = {}

VARIABLES
  clock,     \* the time
  room,      \* [active, default] or Gone
  row,       \* schedule -> None, Gone or its row
  exempt,    \* the machine's exemptions
  made,      \* exemptions inserted so far
  scmd,      \* user -> the command in flight
  tick,      \* the tick in flight
  faults,    \* failures so far
  commands,  \* commands begun
  indexed,   \* the group the hub has indexed the machine's stream under
  told,      \* history: the policy the machine fetched when it was last signalled
  granted,   \* history: at the last event an exemption granted a group
  since,     \* history: the time up to which ticks and events are complete
  fresh,     \* history: the users in whose command's reads no schedule has
             \* changed since
  raced,     \* history: rows written by a command whose reads were not fresh
  edited,    \* history: rows updated
  forgot     \* history: a tick deleted expired exemptions and then failed

hubVars == <<indexed, told, granted>>
csVars == <<clock, room, row, exempt, made, scmd, tick, faults, commands,
            hubVars, since, fresh, raced, edited, forgot>>

Minute(t) == t \div 2
Live == {i \in RowIds : row[i] \notin {None, Gone}}
Schedules(k) == {i \in Live : row[i].kind = k}

-----------------------------------------------------------------------------
(***************************************************************************)
(* The policy.                                                             *)
(***************************************************************************)
Running(k, t) == {i \in Schedules(k) : row[i].start <= t /\ row[i].end > t}

\* getCurrentSchedule: a one-off schedule first, the one that started first;
\* the weekly query has no order, so any of several running ones.
CurrentSchedules(t) ==
  LET oneOff == Running("one_off", t) IN
  IF oneOff # {}
  THEN {i \in oneOff : \A j \in oneOff : row[i].start <= row[j].start}
  ELSE Running("weekly", t)

\* resolveCurrentGroup: manual, then schedule, then default.
Scopes(t) ==
  IF room.active # None THEN {<<room.active, "manual">>}
  ELSE IF CurrentSchedules(t) # {}
       THEN {<<row[i].group, "schedule">> : i \in CurrentSchedules(t)}
       ELSE {<<room.default, "default">>}

ActiveExemptions(t) == {x \in exempt : x.expires > t}

GrantsGroup(t) == \E x \in ActiveExemptions(t) : x.group # None

Newest(rows) == CHOOSE x \in rows : \A y \in rows : y.no <= x.no

\* getActiveMachineExemption prefers the newest that grants a group; the others
\* grant none.
ExemptGroup(t) ==
  IF GrantsGroup(t) THEN Newest({x \in ActiveExemptions(t) : x.group # None}).group ELSE None

\* resolveEffectiveMachineEnforcementPolicyContext; None is unrestricted.
Policies(t) ==
  IF room = Gone THEN {Gone}
  ELSE IF ActiveExemptions(t) # {} THEN {ExemptGroup(t)}
  ELSE {s[1] : s \in Scopes(t)}

\* The group the hub gives the machine: unrestricted for every exempt host,
\* whatever its exemption grants.
HubGroups(t) ==
  IF ActiveExemptions(t) # {} THEN {None} ELSE {s[1] : s \in Scopes(t)}

-----------------------------------------------------------------------------
\* A command in flight: its step, and what it has read and means to write.
NoCmd == [op |-> "none", at |-> "idle", read |-> None]
NoTick == [at |-> "idle", now |-> 0, found |-> FALSE]

CSInit ==
  /\ clock = 0
  /\ room \in [active : {None}, default : Groups \cup {None}]
  /\ row \in [RowIds -> {None} \cup Lessons]
  /\ \A i, j \in Live : i = j
  /\ exempt = {} /\ made = 0
  /\ scmd = [u \in Users |-> NoCmd]
  /\ tick = NoTick
  /\ faults = 0 /\ commands = 0
  /\ told \in Policies(0) /\ indexed = told /\ granted = FALSE
  /\ since = 0 /\ fresh = {} /\ raced = {} /\ edited = {} /\ forgot = FALSE

CanUse(u) ==
  \/ u \in Admins
  \/ \E s \in Scopes(clock) : Approves[u] \cap {room.active, s[1], room.default} # {}

CanApproveGroup(u, g) == u \in Admins \/ g \in Approves[u]

\* The reads of a command.  (A command's reads are one step: they are of
\* different rows.)
ReadsThen(u, op, c) ==
  /\ scmd' = [scmd EXCEPT ![u] = [op |-> op, at |-> "write", read |-> c]]
  /\ fresh' = IF op \in {"create", "update"} THEN fresh \cup {u} ELSE fresh
  /\ commands' = commands + 1
  /\ UNCHANGED <<clock, room, row, exempt, made, tick, faults, hubVars, since, forgot, raced,
                 edited>>

Writing(u, op) == scmd[u].op = op /\ scmd[u].at = "write"

Done(u, event) ==
  scmd' = [scmd EXCEPT ![u] =
             [op |-> "none", at |-> IF event THEN "dispatch" ELSE "idle", read |-> None]]

\* An exception or an early return.
Failed(u) ==
  /\ Done(u, FALSE)
  /\ fresh' = fresh \ {u}
  /\ UNCHANGED <<room, row, exempt, made, raced, edited>>

\* publishClassroomChangedLocal for the policy at t: a machine whose group is
\* not the one it is indexed under is signalled, and fetches what holds now.
Announce(t) ==
  /\ IF room = Gone THEN UNCHANGED hubVars
     ELSE \E g \in HubGroups(t) :
            /\ indexed' = g
            /\ IF g = indexed THEN UNCHANGED told ELSE told' \in Policies(clock)
            /\ granted' = GrantsGroup(t)
  /\ since' = t
  /\ forgot' = FALSE

DispatchEvent(u) ==
  /\ scmd[u].at = "dispatch"
  /\ scmd' = [scmd EXCEPT ![u] = NoCmd]
  /\ Announce(clock)
  /\ UNCHANGED <<clock, room, row, exempt, made, tick, faults, commands, fresh, raced, edited>>

-----------------------------------------------------------------------------
(***************************************************************************)
(* Schedules.                                                              *)
(***************************************************************************)
MinOf(a, b) == IF a < b THEN a ELSE b
MaxOf(a, b) == IF a < b THEN b ELSE a

\* findConflict: SQL's OVERLAPS orders the ends of a period, and takes a
\* period without length as an instant.  findOneOffConflict: plain comparisons.
Overlaps(k, s, e, r) ==
  LET lo == MinOf(r.start, r.end)
      hi == MaxOf(r.start, r.end)
  IN IF k = "one_off" THEN r.start < e /\ r.end > s
     ELSE IF lo = hi THEN s <= lo /\ lo < e
     ELSE s < hi /\ lo < e

\* Mutant: only schedules that start within the new one are looked for.
ConflictsStartingInside(k, s, e, others) ==
  {i \in others \cap Schedules(k) : row[i].start >= s /\ row[i].start < e}

Conflicts(k, s, e, others) ==
  {i \in others \cap Schedules(k) : Overlaps(k, s, e, row[i])}

\* assertValid*: quarters of an hour, the start before the end.
ValidPeriod(s, e) == s % Quarter = 0 /\ e % Quarter = 0 /\ s < e

BeginCreateSchedule(u, k, g, s, e) ==
  /\ CanApproveGroup(u, g)
  /\ ValidPeriod(s, e)
  /\ Conflicts(k, s, e, RowIds) = {}
  /\ ReadsThen(u, "create", [kind |-> k, group |-> g, owner |-> u, start |-> s, end |-> e])

\* The insert; nothing in the schema refuses an overlapping row.
WriteCreateSchedule(u) ==
  LET new == scmd[u].read IN
  /\ Writing(u, "create")
  /\ IF room # Gone
     THEN \E i \in RowIds :
            /\ row[i] = None
            /\ row' = [row EXCEPT ![i] = new]
            /\ raced' = IF u \in fresh THEN raced ELSE raced \cup {i}
            /\ fresh' = {}
            /\ Done(u, TRUE)
            /\ UNCHANGED <<room, exempt, made, edited>>
     ELSE Failed(u)
  /\ UNCHANGED <<clock, tick, faults, commands, hubVars, since, forgot>>

\* The row after an update; None is for a field left alone.
Merged(i, c) ==
  [row[i] EXCEPT !.start = IF c.start = None THEN @ ELSE c.start,
                 !.end = IF c.end = None THEN @ ELSE c.end,
                 !.group = IF c.group = None THEN @ ELSE c.group]

\* updateSchedule and updateOneOffSchedule.  The
\* new period is checked with the fields read, the update sets only its own.
\* (Sending the group the row already has is left out: it changes nothing.)
BeginUpdateSchedule(u, i, s, e, g) ==
  /\ i \in Live
  /\ u \in Admins \/ row[i].owner = u
  /\ g # row[i].group
  /\ g # None => CanApproveGroup(u, g)
  /\ LET new == Merged(i, [start |-> s, end |-> e, group |-> g])
     IN /\ ValidPeriod(new.start, new.end)
        /\ Conflicts(new.kind, new.start, new.end, RowIds \ {i}) = {}
  /\ ReadsThen(u, "update", [id |-> i, start |-> s, end |-> e, group |-> g])

WriteUpdateSchedule(u) ==
  LET c == scmd[u].read IN
  /\ Writing(u, "update")
  /\ IF c.id \in Live
     THEN /\ row' = [row EXCEPT ![c.id] = Merged(c.id, c)]
          /\ raced' = IF u \in fresh THEN raced ELSE raced \cup {c.id}
          /\ fresh' = {}
          /\ edited' = edited \cup {c.id}
          /\ Done(u, TRUE)
          /\ UNCHANGED <<room, exempt, made>>
     ELSE Failed(u)
  /\ UNCHANGED <<clock, tick, faults, commands, hubVars, since, forgot>>

BeginDeleteSchedule(u, i) ==
  /\ i \in Live
  /\ u \in Admins \/ row[i].owner = u
  /\ ReadsThen(u, "delete", i)

\* Mutant: the exemptions stay.
WriteDeleteKeepsExemptions(u) ==
  /\ Writing(u, "delete")
  /\ row' = [row EXCEPT ![scmd[u].read] = Gone]
  /\ Done(u, TRUE)
  /\ UNCHANGED <<clock, room, exempt, made, tick, faults, commands, hubVars, since, forgot, fresh,
                 raced, edited>>

\* The exemptions of the schedule go with it (ON DELETE CASCADE); the event is
\* published whether a row was deleted or not.
WriteDeleteSchedule(u) ==
  LET i == scmd[u].read IN
  /\ Writing(u, "delete")
  /\ row' = [row EXCEPT ![i] = Gone]
  /\ exempt' = {x \in exempt : x.schedule # i}
  /\ Done(u, TRUE)
  /\ UNCHANGED <<clock, room, made, tick, faults, commands, hubVars, since, forgot, fresh, raced,
                 edited>>

-----------------------------------------------------------------------------
(***************************************************************************)
(* Exemptions.                                                             *)
(***************************************************************************)
\* insertOrReuseExemption: one row per machine, schedule and expiry; a second
\* request changes its group.
InsertOrReuse(x) ==
  LET same == {y \in exempt : y.schedule = x.schedule /\ y.expires = x.expires} IN
  /\ exempt' = IF same = {} THEN exempt \cup {[x EXCEPT !.no = made]}
               ELSE (exempt \ same) \cup {[y EXCEPT !.group = x.group] : y \in same}
  /\ made' = IF same = {} THEN made + 1 ELSE made

\* Only while a schedule controls the room, and for that schedule.  The
\* expiry is the end of the schedule as it was read.
BeginExempt(u, i, g) ==
  /\ \E s \in Scopes(clock) : s[2] = "schedule"
  /\ i \in CurrentSchedules(clock)
  /\ g # None => CanApproveGroup(u, g)
  /\ Cardinality(exempt) < MaxExempt
  /\ ReadsThen(u, "exempt", [no |-> 0, schedule |-> i, group |-> g, expires |-> row[i].end,
                             source |-> "schedule"])

BeginOperational(u, d) ==
  /\ u \in Admins
  /\ Cardinality(exempt) < MaxExempt
  /\ ReadsThen(u, "exempt", [no |-> 0, schedule |-> None, group |-> None,
                             expires |-> clock + d, source |-> "operational"])

\* The foreign keys refuse an exemption whose schedule or room is gone.
WriteExempt(u) ==
  LET x == scmd[u].read IN
  /\ Writing(u, "exempt")
  /\ IF room # Gone /\ x.schedule \in Live \cup {None}
     THEN /\ InsertOrReuse(x)
          /\ Done(u, TRUE)
          /\ UNCHANGED <<room, row, fresh, raced, edited>>
     ELSE Failed(u)
  /\ UNCHANGED <<clock, tick, faults, commands, hubVars, since, forgot>>

BeginRevoke(u, x) ==
  /\ x.source = "operational" => u \in Admins
  /\ ReadsThen(u, "revoke", x.no)

WriteRevoke(u) ==
  LET rest == {x \in exempt : x.no # scmd[u].read} IN
  /\ Writing(u, "revoke")
  /\ exempt' = rest
  /\ Done(u, rest # exempt)
  /\ UNCHANGED <<clock, room, row, made, tick, faults, commands, hubVars, since, forgot, fresh,
                 raced, edited>>

-----------------------------------------------------------------------------
(***************************************************************************)
(* The classroom.                                                          *)
(***************************************************************************)
BeginSetActive(u, g) ==
  /\ g # None => CanApproveGroup(u, g)
  /\ ReadsThen(u, "active", g)

BeginSetDefault(u, g) ==
  /\ u \in Admins
  /\ ReadsThen(u, "default", g)

WriteRoom(u) ==
  LET g == scmd[u].read IN
  /\ Writing(u, "active") \/ Writing(u, "default")
  /\ IF room # Gone
     THEN /\ room' = IF Writing(u, "active") THEN [room EXCEPT !.active = g]
                     ELSE [room EXCEPT !.default = g]
          /\ Done(u, TRUE)
          /\ UNCHANGED <<row, exempt, made, fresh, raced, edited>>
     ELSE Failed(u)
  /\ UNCHANGED <<clock, tick, faults, commands, hubVars, since, forgot>>

\* deleteClassroom: the schedules and exemptions go by cascade; no event.
DeleteClassroom(u) ==
  /\ u \in Admins
  /\ scmd[u].at = "idle" /\ commands < MaxCommands
  /\ room # Gone
  /\ room' = Gone
  /\ row' = [i \in RowIds |-> IF i \in Live THEN Gone ELSE row[i]]
  /\ exempt' = {}
  /\ commands' = commands + 1
  /\ UNCHANGED <<clock, made, scmd, tick, faults, hubVars, since, forgot, fresh, raced, edited>>

-----------------------------------------------------------------------------
(***************************************************************************)
(* The clock and the tick.                                                 *)
(***************************************************************************)
TimePasses ==
  /\ clock < Horizon
  /\ clock' = clock + 1
  /\ UNCHANGED <<room, row, exempt, made, scmd, tick, faults, commands, hubVars, since, forgot,
                 fresh, raced, edited>>

\* Mutant: the ends of schedules are not boundaries.
HasStart(t) == \E i \in Live : t = row[i].start

HasBoundary(t) == \E i \in Live : t \in {row[i].start, row[i].end}

\* getClassroomIdsWithBoundaryAt: the seconds are cut off.
TickBoundary ==
  /\ tick.at = "idle"
  /\ tick' = [at |-> "clean", now |-> clock, found |-> HasBoundary(2 * Minute(clock))]
  /\ UNCHANGED <<clock, room, row, exempt, made, scmd, faults, commands, hubVars, since, forgot,
                 fresh, raced, edited>>

\* deleteExpiredMachineExemptions: a failure is logged, the rows remain.
Expired(x) == x.expires <= tick.now
TickClean(fails) ==
  /\ tick.at = "clean"
  /\ fails => faults < MaxFaults
  /\ IF fails
     THEN /\ tick' = [tick EXCEPT !.at = "failedEmit"]
          /\ faults' = faults + 1
          /\ UNCHANGED exempt
     ELSE LET kept == {x \in exempt : ~Expired(x)} IN
          /\ exempt' = kept
          /\ tick' = [tick EXCEPT !.at = "emit", !.found = tick.found \/ kept # exempt]
          /\ UNCHANGED faults
  /\ UNCHANGED <<clock, room, row, made, scmd, commands, hubVars, since, forgot, fresh, raced,
                 edited>>

\* emitScheduleChangeDelivery.  The hub of the ticker's process looks at the
\* tick's time, that of another process at its own.  A tick that has found
\* nothing is complete up to its time when no minute was left out before it.
TickEmit ==
  /\ tick.at \in {"emit", "failedEmit"}
  /\ tick' = NoTick
  /\ IF tick.found
     THEN Announce(tick.now) \/ Announce(clock)
     ELSE /\ since' = IF tick.at = "emit" /\ Minute(tick.now) <= Minute(since) + 1
                      THEN MaxOf(since, tick.now) ELSE since
          /\ UNCHANGED <<hubVars, forgot>>
  /\ UNCHANGED <<clock, room, row, exempt, made, scmd, faults, commands, fresh, raced, edited>>

\* A query throws, or the process ends: what the tick had found is forgotten.
TickFails ==
  /\ tick.at # "idle"
  /\ faults < MaxFaults
  /\ faults' = faults + 1
  /\ tick' = NoTick
  /\ forgot' = (forgot \/ (tick.at = "emit" /\ tick.found))
  /\ UNCHANGED <<clock, room, row, exempt, made, scmd, commands, hubVars, since, fresh, raced,
                 edited>>

-----------------------------------------------------------------------------
\* ensureUserCanAccessClassroom comes first in every command.
BeginCommand(u) ==
  /\ scmd[u].at = "idle" /\ commands < MaxCommands
  /\ room # Gone
  /\ CanUse(u)
  /\ \/ \E k \in Kinds, g \in Groups, s, e \in Boundaries : BeginCreateSchedule(u, k, g, s, e)
     \/ \E i \in RowIds, s, e \in Boundaries \cup {None}, g \in Groups \cup {None} :
          BeginUpdateSchedule(u, i, s, e, g)
     \/ \E i \in RowIds : BeginDeleteSchedule(u, i)
     \/ \E i \in RowIds, g \in Groups \cup {None} : BeginExempt(u, i, g)
     \/ \E d \in Durations : BeginOperational(u, d)
     \/ \E x \in exempt : BeginRevoke(u, x)
     \/ \E g \in Groups \cup {None} : BeginSetActive(u, g)
     \/ \E g \in Groups : BeginSetDefault(u, g)

WriteCommand(u) ==
  \/ WriteCreateSchedule(u) \/ WriteUpdateSchedule(u) \/ WriteDeleteSchedule(u)
  \/ WriteExempt(u) \/ WriteRevoke(u) \/ WriteRoom(u)

CSNext ==
  \/ \E u \in Users : \/ BeginCommand(u) \/ WriteCommand(u)
                      \/ DispatchEvent(u) \/ DeleteClassroom(u)
  \/ TimePasses
  \/ TickBoundary \/ TickEmit \/ TickFails
  \/ \E fails \in BOOLEAN : TickClean(fails)

CSSpec == CSInit /\ [][CSNext]_csVars

-----------------------------------------------------------------------------
\* Types; no tick works for a time that has not come (the seconds of its time
\* are cut off, never rounded up).
CSTypeOK ==
  /\ clock \in 0 .. Horizon
  /\ room = Gone \/ room \in [active : Groups \cup {None}, default : Groups \cup {None}]
  /\ row \in [RowIds -> {None, Gone} \cup ScheduleRow]
  /\ exempt \subseteq Exemption /\ made \in Nat
  /\ \A u \in Users : scmd[u].at \in {"idle", "write", "dispatch"}
  /\ tick.at \in {"idle", "clean", "emit", "failedEmit"}
  /\ tick.now \in 0 .. clock /\ since \in 0 .. clock
  /\ fresh \subseteq Users /\ raced \subseteq RowIds /\ edited \subseteq RowIds

\* The conflict check is exact unless two commands race: of two schedules of a
\* kind that overlap, or of a period whose start is not before its end, some
\* row was written after what it had been checked against changed
\* (api/src/lib/schedule-storage-command.ts: check, await, write).
OverlapNeedsRace ==
  /\ \A i \in Live \ raced : row[i].start < row[i].end
  /\ \A k \in Kinds : \A i, j \in Schedules(k) \ raced :
       i # j => row[i].end <= row[j].start \/ row[j].end <= row[i].start

\* The timetable as the commands and the tick may rely on it: overlaps only out
\* of a race between check and write, and no tick ahead of its time.
TimetableInv == CSTypeOK /\ OverlapNeedsRace

\* The group the hub compares with is what the machine was told, and no
\* exemption grants a group.  Otherwise the hub may take a change for none: to
\* it an exempt host is unrestricted, and a machine that fetched after the
\* next boundary still has the policy it was signalled for.
HubIsRight == indexed = told /\ ~granted

\* The hub has indexed the machine as it would have at some time since the last
\* event or the last tick of an unbroken series, whichever is later, and where
\* it is right the machine enforces the policy of that time: no boundary, no
\* expiry and no command is left unannounced, whatever ticks and commands
\* interleave, unless a tick deleted an exemption and did not live to tell.
PolicyIsAnnounced ==
  (room # Gone /\ ~forgot /\ tick.at # "emit"
     /\ \A u \in Users : scmd[u].at # "dispatch") =>
    \E t \in since .. clock :
      indexed \in HubGroups(t) /\ (HubIsRight => told \in Policies(t))

\* "Temporary exemption must bypass enforcement for the active occurrence,
\* delete cleanly, and expire at the schedule boundary"
\* (docs/testing/student-policy-contract-matrix.md:23): with schedules nobody
\* edited, an exemption is only active while its schedule runs.
ExemptionEndsWithLesson ==
  \A x \in exempt :
    (x.source = "schedule" /\ x.schedule \notin edited /\ x.expires > clock) =>
      x.schedule \in Live /\ clock >= row[x.schedule].start /\ clock < row[x.schedule].end

\* The same without the condition on edits; TLC refutes it, because an update
\* that shortens a schedule leaves the expiry of its exemptions.
ExemptionExpiresAtBoundary ==
  \A x \in exempt :
    (x.source = "schedule" /\ x.expires > clock) => clock < row[x.schedule].end
=============================================================================
