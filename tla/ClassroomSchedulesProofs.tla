---------------------- MODULE ClassroomSchedulesProofs ----------------------
(***************************************************************************)
(* Proofs about a classroom's timetable: schedules overlap only out of a   *)
(* race between check and write, no tick runs ahead of its time, an        *)
(* exemption from a lesson that nobody edited ends with the lesson, and    *)
(* every change of policy is announced.                                    *)
(***************************************************************************)
EXTENDS ClassroomSchedules, TLAPS

\* The fields an update sends.
Patch == [id : RowIds, start : Boundaries \cup {None}, end : Boundaries \cup {None},
          group : Groups \cup {None}]

\* What a command has read, by its kind.
ReadTyped(op, c) ==
  /\ op = "create" => c \in ScheduleRow
  /\ op = "update" => c \in Patch
  /\ op = "delete" => c \in RowIds
  /\ op = "exempt" => c \in Exemption /\ (c.source = "schedule" => c.schedule \in RowIds)
  /\ op \in {"active", "default"} => c \in Groups \cup {None}

\* The shape of the state, in parts.
CommandsOK ==
  /\ scmd = [u \in Users |-> scmd[u]]
  /\ \A u \in Users :
       /\ scmd[u].at \in {"idle", "write", "dispatch"}
       /\ ReadTyped(scmd[u].op, scmd[u].read)

TablesOK ==
  /\ room = Gone \/ room \in [active : Groups \cup {None}, default : Groups \cup {None}]
  /\ row \in [RowIds -> {None, Gone} \cup ScheduleRow]
  /\ exempt \subseteq Exemption /\ made \in Nat

TimesOK ==
  /\ clock \in 0 .. Horizon
  /\ tick = [at |-> tick.at, now |-> tick.now, found |-> tick.found]
  /\ tick.at \in {"idle", "clean", "emit", "failedEmit"}
  /\ tick.now \in 0 .. clock /\ since \in 0 .. clock

HistoryOK == fresh \subseteq Users /\ raced \subseteq RowIds /\ edited \subseteq RowIds

Shape == CommandsOK /\ TablesOK /\ TimesOK /\ HistoryOK

\* A row that could be written now: its period is one, and nothing of its kind
\* among the others overlaps it.
Fits(r, others) ==
  ValidPeriod(r.start, r.end) /\ Conflicts(r.kind, r.start, r.end, others) = {}

\* What a command was checked against still holds while its reads are fresh.
ChecksHold ==
  \A u \in fresh :
    LET c == scmd[u].read IN
    /\ Writing(u, "create") => Fits(c, RowIds)
    /\ Writing(u, "update") /\ c.id \in Live => Fits(Merged(c.id, c), RowIds \ {c.id})

\* An exemption from a lesson that was not edited since: it began while the
\* lesson ran, and has its end.
OfLesson(x) ==
  x.schedule \notin edited =>
    row[x.schedule].start <= clock /\ x.expires = row[x.schedule].end

ExemptionsOfLessons ==
  /\ \A x \in exempt : x.source = "schedule" => x.schedule \in Live /\ OfLesson(x)
  /\ \A u \in Users :
       LET x == scmd[u].read IN
       Writing(u, "exempt") /\ x.source = "schedule" =>
         row[x.schedule] # None /\ (x.schedule \in Live => OfLesson(x))

\* The inductive invariant.
CSInd == Shape /\ OverlapNeedsRace /\ ChecksHold /\ ExemptionsOfLessons

-----------------------------------------------------------------------------
(***************************************************************************)
(* Rows.                                                                   *)
(***************************************************************************)
\* A row is a row, with the fields of its table.
LEMMA RowFacts ==
  /\ None # Gone /\ None \notin ScheduleRow /\ Gone \notin ScheduleRow
  /\ None \notin RowIds /\ None \notin Boundaries
  /\ Boundaries \subseteq Nat
  /\ \A r \in ScheduleRow : r.kind \in Kinds /\ r.start \in Nat /\ r.end \in Nat
BY SchedulesAssumption DEF ScheduleRow, Boundaries

\* Which schedules are there.
LEMMA LiveRows ==
  ASSUME row \in [RowIds -> {None, Gone} \cup ScheduleRow]
  PROVE  Live = {i \in RowIds : row[i] \in ScheduleRow}
BY RowFacts DEF Live

\* The same after a step.
LEMMA LiveRowsNext ==
  ASSUME row' \in [RowIds -> {None, Gone} \cup ScheduleRow]
  PROVE  Live' = {i \in RowIds : row'[i] \in ScheduleRow}
BY RowFacts DEF Live

\* Changing one column of a schedule.
LEMMA RowColumns ==
  ASSUME NEW r \in ScheduleRow
  PROVE  /\ \A s \in Boundaries : LET q == [r EXCEPT !.start = s] IN
              q \in ScheduleRow /\ q.kind = r.kind /\ q.end = r.end /\ q.group = r.group
         /\ \A e \in Boundaries : LET q == [r EXCEPT !.end = e] IN
              q \in ScheduleRow /\ q.kind = r.kind /\ q.group = r.group
         /\ \A g \in Groups : LET q == [r EXCEPT !.group = g] IN
              q \in ScheduleRow /\ q.kind = r.kind
<1>1. /\ r = [kind |-> r.kind, group |-> r.group, owner |-> r.owner, start |-> r.start,
              end |-> r.end]
      /\ r.kind \in Kinds /\ r.group \in Groups /\ r.owner \in Users
      /\ r.start \in Boundaries /\ r.end \in Boundaries
  BY DEF ScheduleRow
<1>2. \A s \in Boundaries : [r EXCEPT !.start = s] =
        [kind |-> r.kind, group |-> r.group, owner |-> r.owner, start |-> s, end |-> r.end]
  BY <1>1
<1>3. \A e \in Boundaries : [r EXCEPT !.end = e] =
        [kind |-> r.kind, group |-> r.group, owner |-> r.owner, start |-> r.start, end |-> e]
  BY <1>1
<1>4. \A g \in Groups : [r EXCEPT !.group = g] =
        [kind |-> r.kind, group |-> g, owner |-> r.owner, start |-> r.start, end |-> r.end]
  BY <1>1
<1> QED
  BY <1>1, <1>2, <1>3, <1>4 DEF ScheduleRow

\* An update changes the fields it sends, and leaves a row of the table.
LEMMA MergedRow ==
  ASSUME NEW i, row[i] \in ScheduleRow, NEW c,
         c.start \in Boundaries \cup {None}, c.end \in Boundaries \cup {None},
         c.group \in Groups \cup {None}
  PROVE  Merged(i, c) \in ScheduleRow /\ Merged(i, c).kind = row[i].kind
<1>1. PICK r \in ScheduleRow : r = row[i]
  OBVIOUS
<1>2. PICK s \in Boundaries : s = IF c.start = None THEN r.start ELSE c.start
  BY DEF ScheduleRow
<1>3. PICK e \in Boundaries : e = IF c.end = None THEN r.end ELSE c.end
  BY DEF ScheduleRow
<1>4. PICK g \in Groups : g = IF c.group = None THEN r.group ELSE c.group
  BY DEF ScheduleRow
<1>5. PICK r1 : r1 = [r EXCEPT !.start = s]
  OBVIOUS
<1>6. r1 \in ScheduleRow /\ r1.kind = r.kind /\ r1.end = r.end /\ r1.group = r.group
  BY <1>5, RowColumns
<1>7. PICK r2 : r2 = [r1 EXCEPT !.end = e]
  OBVIOUS
<1>8. r2 \in ScheduleRow /\ r2.kind = r.kind /\ r2.group = r.group
  <2>1. r2 \in ScheduleRow /\ r2.kind = r1.kind /\ r2.group = r1.group
    BY <1>6, <1>7, RowColumns
  <2> QED
    BY <1>6, <2>1
<1>9. PICK r3 : r3 = [r2 EXCEPT !.group = g]
  OBVIOUS
<1>10. r3 \in ScheduleRow /\ r3.kind = r2.kind
  BY <1>8, <1>9, RowColumns
<1>11. Merged(i, c) = r3
  BY <1>1, <1>2, <1>3, <1>4, <1>5, <1>6, <1>7, <1>8, <1>9 DEF Merged
<1> QED
  BY <1>1, <1>8, <1>10, <1>11

\* The conflict check is exact for periods.
LEMMA CheckIsExact ==
  ASSUME NEW r \in ScheduleRow, NEW q \in ScheduleRow,
         r.start < r.end, q.start < q.end, r.kind = q.kind,
         ~Overlaps(r.kind, r.start, r.end, q)
  PROVE  r.end <= q.start \/ q.end <= r.start
BY RowFacts DEF Overlaps, MinOf, MaxOf, Kinds

\* What a row that fits among others means.
LEMMA FitMeans ==
  ASSUME row \in [RowIds -> {None, Gone} \cup ScheduleRow],
         NEW r \in ScheduleRow, NEW others \in SUBSET RowIds, Fits(r, others)
  PROVE  /\ r.start < r.end
         /\ \A j \in others : row[j] \in ScheduleRow /\ row[j].kind = r.kind
                                => ~Overlaps(r.kind, r.start, r.end, row[j])
<1>1. r.start < r.end
  BY DEF Fits, ValidPeriod
<1>2. \A j \in others \cap Schedules(r.kind) : ~Overlaps(r.kind, r.start, r.end, row[j])
  BY DEF Fits, Conflicts
<1> QED
  BY <1>1, <1>2, LiveRows DEF Schedules

\* What it takes to fit after rows have been deleted.
LEMMA FitsStill ==
  ASSUME row \in [RowIds -> {None, Gone} \cup ScheduleRow],
         row' \in [RowIds -> {None, Gone} \cup ScheduleRow],
         \A i \in RowIds : row'[i] \in ScheduleRow => row'[i] = row[i],
         NEW r, NEW others, Fits(r, others)
  PROVE  /\ ValidPeriod(r.start, r.end)
         /\ Conflicts(r.kind, r.start, r.end, others)' = {}
<1>1. ValidPeriod(r.start, r.end) /\ Conflicts(r.kind, r.start, r.end, others) = {}
  BY DEF Fits
<1>2. Conflicts(r.kind, r.start, r.end, others)' = {}
  BY <1>1, LiveRows, LiveRowsNext DEF Conflicts, Schedules, Overlaps, MinOf, MaxOf
<1> QED
  BY <1>1, <1>2

-----------------------------------------------------------------------------
(***************************************************************************)
(* Steps by what they leave alone.                                         *)
(***************************************************************************)
\* Rows stay or are deleted.
RowsOnlyGo ==
  /\ row' \in [RowIds -> {None, Gone} \cup ScheduleRow]
  /\ \A i \in RowIds : row'[i] \in ScheduleRow => row'[i] = row[i]
  /\ \A i \in RowIds : row'[i] = None => row[i] = None

\* One command moves on, to one that is well-formed.
LEMMA CommandMoves ==
  ASSUME CommandsOK, NEW u \in Users, NEW c, scmd' = [scmd EXCEPT ![u] = c],
         c.at \in {"idle", "write", "dispatch"}, ReadTyped(c.op, c.read)
  PROVE  /\ CommandsOK'
         /\ \A v \in Users : v # u => scmd'[v] = scmd[v]
         /\ scmd'[u] = c
<1>1. /\ \A v \in Users : v # u => scmd'[v] = scmd[v]
      /\ scmd'[u] = c
      /\ scmd' = [v \in Users |-> scmd'[v]]
  BY DEF CommandsOK
<1>2. ASSUME NEW v \in Users
      PROVE  /\ scmd'[v].at \in {"idle", "write", "dispatch"}
             /\ ReadTyped(scmd'[v].op, scmd'[v].read)
  <2>1. CASE v = u
    BY <1>1, <2>1
  <2>2. CASE v # u
    BY <1>1, <2>2 DEF CommandsOK
  <2> QED
    BY <2>1, <2>2
<1> QED
  BY <1>1, <1>2 DEF CommandsOK

\* A command has read.
LEMMA CommandReads ==
  ASSUME CommandsOK, NEW u \in Users, NEW op, NEW d, ReadTyped(op, d),
         ReadsThen(u, op, d)
  PROVE  /\ CommandsOK'
         /\ \A v \in Users : v # u => scmd'[v] = scmd[v]
         /\ scmd'[u].op = op /\ scmd'[u].at = "write" /\ scmd'[u].read = d
<1>1. PICK c : c = [op |-> op, at |-> "write", read |-> d]
  OBVIOUS
<1>2. c.op = op /\ c.at = "write" /\ c.read = d
  BY <1>1
<1>3. scmd' = [scmd EXCEPT ![u] = c]
  BY <1>1 DEF ReadsThen
<1>4. c.at \in {"idle", "write", "dispatch"} /\ ReadTyped(c.op, c.read)
  BY <1>2
<1> QED
  BY <1>2, <1>3, <1>4, CommandMoves

\* A command has written, and its event is due or not.
LEMMA CommandEnds ==
  ASSUME CommandsOK, NEW u \in Users, NEW event, Done(u, event)
  PROVE  /\ CommandsOK'
         /\ \A v \in Users : v # u => scmd'[v] = scmd[v]
         /\ scmd'[u].at # "write"
<1>1. PICK c : c = [op |-> "none", at |-> IF event THEN "dispatch" ELSE "idle", read |-> None]
  OBVIOUS
<1>2. c.op = "none" /\ c.at \in {"idle", "dispatch"}
  BY <1>1
<1>3. scmd' = [scmd EXCEPT ![u] = c]
  BY <1>1 DEF Done
<1>4. ReadTyped(c.op, c.read)
  BY <1>2 DEF ReadTyped
<1>5. c.at \in {"idle", "write", "dispatch"}
  BY <1>2
<1>6. /\ CommandsOK'
      /\ \A v \in Users : v # u => scmd'[v] = scmd[v]
      /\ scmd'[u] = c
  BY <1>3, <1>4, <1>5, CommandMoves
<1> QED
  BY <1>2, <1>6

\* Nothing is written to the timetable, and no check is added.
LEMMA TimetableStays ==
  ASSUME TablesOK, OverlapNeedsRace, ChecksHold, RowsOnlyGo,
         UNCHANGED raced, fresh' \subseteq fresh,
         \A u \in fresh' : \/ scmd'[u] = scmd[u]
                           \/ scmd'[u].op \notin {"create", "update"}
                           \/ scmd'[u].at # "write"
  PROVE  OverlapNeedsRace' /\ ChecksHold'
<1>1. /\ row \in [RowIds -> {None, Gone} \cup ScheduleRow]
      /\ row' \in [RowIds -> {None, Gone} \cup ScheduleRow]
      /\ \A i \in RowIds : row'[i] \in ScheduleRow => row'[i] = row[i]
  BY DEF TablesOK, RowsOnlyGo
<1>2. /\ Live = {i \in RowIds : row[i] \in ScheduleRow}
      /\ Live' = {i \in RowIds : row'[i] \in ScheduleRow}
  BY <1>1, LiveRows, LiveRowsNext
<1>3. \A i \in Live' : i \in Live /\ row'[i] = row[i]
  BY <1>1, <1>2
<1>4. OverlapNeedsRace'
  <2>1. \A i \in Live' \ raced' : row'[i].start < row'[i].end
    BY <1>3 DEF OverlapNeedsRace
  <2>2. \A k \in Kinds : \A i, j \in Schedules(k)' \ raced' :
          i # j => row'[i].end <= row'[j].start \/ row'[j].end <= row'[i].start
    BY <1>3 DEF OverlapNeedsRace, Schedules
  <2> QED
    BY <2>1, <2>2 DEF OverlapNeedsRace
<1>5. ASSUME NEW u \in fresh'
      PROVE  (LET c == scmd[u].read IN
              /\ Writing(u, "create") => Fits(c, RowIds)
              /\ Writing(u, "update") /\ c.id \in Live =>
                   Fits(Merged(c.id, c), RowIds \ {c.id}))'
  <2>1. CASE scmd'[u].op \notin {"create", "update"} \/ scmd'[u].at # "write"
    BY <2>1 DEF Writing
  <2>2. CASE scmd'[u] = scmd[u]
    <3>1. PICK c : c = scmd[u].read
      OBVIOUS
    <3>2. /\ Writing(u, "create")' => Fits(c, RowIds)
          /\ Writing(u, "update")' /\ c.id \in Live =>
               Fits(Merged(c.id, c), RowIds \ {c.id})
      BY <2>2, <3>1 DEF ChecksHold, Writing
    <3>3. Fits(c, RowIds) => Fits(c, RowIds)'
      BY <1>1, FitsStill DEF Fits
    <3>4. ASSUME c.id \in Live', Fits(Merged(c.id, c), RowIds \ {c.id})
          PROVE  Fits(Merged(c.id, c), RowIds \ {c.id})'
      <4>1. PICK r : r = Merged(c.id, c)
        OBVIOUS
      <4>2. r = Merged(c.id, c)'
        BY <1>3, <3>4, <4>1 DEF Merged
      <4>3. Fits(r, RowIds \ {c.id})
        BY <3>4, <4>1
      <4>4. /\ ValidPeriod(r.start, r.end)
            /\ Conflicts(r.kind, r.start, r.end, RowIds \ {c.id})' = {}
        BY <1>1, <4>3, FitsStill
      <4> QED
        BY <4>2, <4>4 DEF Fits
    <3> QED
      BY <1>3, <2>2, <3>1, <3>2, <3>3, <3>4
  <2> QED
    BY <2>1, <2>2
<1>6. ChecksHold'
  BY <1>5 DEF ChecksHold
<1> QED
  BY <1>4, <1>6

\* Exemptions stay, are deleted with their schedule or otherwise, or change
\* their group; the rows of those that stay are there and as they were.
LEMMA ExemptionsStay ==
  ASSUME CommandsOK, TablesOK, TimesOK, ExemptionsOfLessons, RowsOnlyGo,
         clock' \in Nat, clock <= clock', UNCHANGED edited,
         \A x \in exempt' :
           /\ \E y \in exempt : /\ x.schedule = y.schedule /\ x.expires = y.expires
                                /\ x.source = y.source
           /\ x.source = "schedule" => x.schedule \in Live',
         \A u \in Users : \/ scmd'[u] = scmd[u]
                          \/ scmd'[u].op # "exempt"
                          \/ scmd'[u].at # "write"
  PROVE  ExemptionsOfLessons'
<1>1. /\ row \in [RowIds -> {None, Gone} \cup ScheduleRow]
      /\ row' \in [RowIds -> {None, Gone} \cup ScheduleRow]
      /\ \A i \in RowIds : row'[i] \in ScheduleRow => row'[i] = row[i]
  BY DEF TablesOK, RowsOnlyGo
<1>2. \A i \in Live' : /\ i \in Live /\ row'[i] = row[i]
                       /\ row[i].start \in Nat
  BY <1>1, LiveRows, LiveRowsNext, RowFacts
<1>3. clock \in Nat
  BY SchedulesAssumption DEF TimesOK
<1>4. ASSUME NEW x \in exempt', x.source = "schedule"
      PROVE  x.schedule \in Live' /\ OfLesson(x)'
  <2>1. PICK y \in exempt : /\ x.schedule = y.schedule /\ x.expires = y.expires
                            /\ x.source = y.source
    OBVIOUS
  <2>2. x.schedule \in Live' /\ OfLesson(y)
    BY <1>4, <2>1 DEF ExemptionsOfLessons
  <2>3. OfLesson(x)'
    BY <1>2, <1>3, <2>1, <2>2 DEF OfLesson
  <2> QED
    BY <2>2, <2>3
<1>5. ASSUME NEW u \in Users, Writing(u, "exempt")', scmd'[u].read.source = "schedule"
      PROVE  (LET x == scmd[u].read IN
              row[x.schedule] # None /\ (x.schedule \in Live => OfLesson(x)))'
  <2>1. scmd'[u] = scmd[u]
    BY <1>5 DEF Writing
  <2>2. PICK x : x = scmd[u].read
    OBVIOUS
  <2>3. row[x.schedule] # None /\ (x.schedule \in Live => OfLesson(x))
    BY <1>5, <2>1, <2>2 DEF ExemptionsOfLessons, Writing
  <2>4. x.schedule \in RowIds
    BY <1>5, <2>1, <2>2 DEF CommandsOK, ReadTyped, Writing
  <2>5. row'[x.schedule] # None
    BY <2>3, <2>4 DEF RowsOnlyGo
  <2>6. x.schedule \in Live' => OfLesson(x)'
    BY <1>2, <1>3, <2>3 DEF OfLesson
  <2> QED
    BY <2>1, <2>2, <2>5, <2>6
<1> QED
  BY <1>4, <1>5 DEF ExemptionsOfLessons

\* The rows are not touched.
LEMMA RowsStay ==
  ASSUME TablesOK, UNCHANGED row
  PROVE  RowsOnlyGo /\ Live' = Live
BY DEF TablesOK, RowsOnlyGo, Live

-----------------------------------------------------------------------------
(***************************************************************************)
(* The reads of the commands.                                              *)
(***************************************************************************)
\* A command that begins with checks that hold.
LEMMA ReadsStep ==
  ASSUME CSInd, NEW u \in Users, NEW op, NEW c, ReadsThen(u, op, c), ReadTyped(op, c),
         op = "create" => Fits(c, RowIds),
         op = "update" => Fits(Merged(c.id, c), RowIds \ {c.id}),
         op = "exempt" =>
           (c.source = "schedule" => row[c.schedule] # None /\ OfLesson(c))
  PROVE  CSInd'
<1>0. CommandsOK /\ TablesOK /\ TimesOK /\ HistoryOK
  BY DEF CSInd, Shape
<1>1. /\ UNCHANGED <<clock, room, row, exempt, made, tick, since, raced, edited>>
      /\ scmd' = [scmd EXCEPT ![u] = [op |-> op, at |-> "write", read |-> c]]
      /\ fresh' = IF op \in {"create", "update"} THEN fresh \cup {u} ELSE fresh
  BY DEF ReadsThen
<1>2. /\ CommandsOK'
      /\ \A v \in Users : v # u => scmd'[v] = scmd[v]
      /\ scmd'[u].op = op /\ scmd'[u].at = "write" /\ scmd'[u].read = c
  BY <1>0, CommandReads
<1>3. TablesOK' /\ TimesOK'
  BY <1>0, <1>1 DEF TablesOK, TimesOK
<1>4. HistoryOK'
  BY <1>0, <1>1 DEF HistoryOK
<1>5. OverlapNeedsRace'
  BY <1>1 DEF CSInd, OverlapNeedsRace, Live, Schedules
<1>6. /\ \A r, S : Fits(r, S)' <=> Fits(r, S)
      /\ \A i, d : Merged(i, d)' = Merged(i, d)
      /\ Live' = Live
      /\ \A x : OfLesson(x)' <=> OfLesson(x)
  BY <1>1 DEF Fits, Conflicts, Schedules, Live, Merged, OfLesson
<1>7. ChecksHold'
  <2>1. ASSUME NEW v \in fresh'
        PROVE  (LET d == scmd[v].read IN
                /\ Writing(v, "create") => Fits(d, RowIds)
                /\ Writing(v, "update") /\ d.id \in Live =>
                     Fits(Merged(d.id, d), RowIds \ {d.id}))'
    <3>1. CASE v = u
      <4>1. /\ Writing(v, "create")' => op = "create"
            /\ Writing(v, "update")' => op = "update"
        BY <1>2, <3>1 DEF Writing
      <4> QED
        BY <1>2, <1>6, <3>1, <4>1
    <3>2. CASE v # u
      <4>1. v \in fresh /\ v \in Users
        BY <1>0, <1>1, <3>2 DEF HistoryOK
      <4>2. /\ Writing(v, "create")' <=> Writing(v, "create")
            /\ Writing(v, "update")' <=> Writing(v, "update")
            /\ scmd'[v] = scmd[v]
        BY <1>2, <3>2, <4>1 DEF Writing
      <4> QED
        BY <1>6, <4>1, <4>2 DEF CSInd, ChecksHold
    <3> QED
      BY <3>1, <3>2
  <2> QED
    BY <2>1 DEF ChecksHold
<1>8. ExemptionsOfLessons'
  <2>1. \A x \in exempt' : x.source = "schedule" => x.schedule \in Live' /\ OfLesson(x)'
    BY <1>1, <1>6 DEF CSInd, ExemptionsOfLessons
  <2>2. ASSUME NEW v \in Users
        PROVE  (LET x == scmd[v].read IN
                Writing(v, "exempt") /\ x.source = "schedule" =>
                  row[x.schedule] # None /\ (x.schedule \in Live => OfLesson(x)))'
    <3>1. CASE v = u
      <4>1. Writing(v, "exempt")' => op = "exempt"
        BY <1>2, <3>1 DEF Writing
      <4> QED
        BY <1>1, <1>2, <1>6, <3>1, <4>1
    <3>2. CASE v # u
      <4>1. (Writing(v, "exempt")' <=> Writing(v, "exempt")) /\ scmd'[v] = scmd[v]
        BY <1>2, <3>2 DEF Writing
      <4> QED
        BY <1>1, <1>6, <4>1 DEF CSInd, ExemptionsOfLessons
    <3> QED
      BY <3>1, <3>2
  <2> QED
    BY <2>1, <2>2 DEF ExemptionsOfLessons
<1> QED
  BY <1>2, <1>3, <1>4, <1>5, <1>7, <1>8 DEF CSInd, Shape

\* A command with no checks to keep.
LEMMA PlainReads ==
  ASSUME CSInd, NEW u \in Users, NEW op \in {"delete", "revoke", "active", "default"}, NEW c,
         ReadsThen(u, op, c), ReadTyped(op, c)
  PROVE  CSInd'
BY ReadsStep

\* Every command's reads.
LEMMA BeginStep ==
  ASSUME CSInd, NEW u \in Users, BeginCommand(u)
  PROVE  CSInd'
<1>0. TablesOK /\ Live = {i \in RowIds : row[i] \in ScheduleRow}
  BY LiveRows DEF CSInd, Shape, TablesOK
<1>1. ASSUME NEW k \in Kinds, NEW g \in Groups, NEW s \in Boundaries, NEW e \in Boundaries,
             BeginCreateSchedule(u, k, g, s, e)
      PROVE  CSInd'
  <2>1. PICK r \in ScheduleRow :
          r = [kind |-> k, group |-> g, owner |-> u, start |-> s, end |-> e]
    BY DEF ScheduleRow
  <2>2. Fits(r, RowIds)
    BY <1>1, <2>1 DEF BeginCreateSchedule, Fits
  <2>3. ReadsThen(u, "create", r)
    BY <1>1, <2>1 DEF BeginCreateSchedule
  <2>4. ReadTyped("create", r)
    BY DEF ReadTyped
  <2> QED
    BY <2>2, <2>3, <2>4, ReadsStep
<1>2. ASSUME NEW i \in RowIds, NEW s \in Boundaries \cup {None},
             NEW e \in Boundaries \cup {None}, NEW g \in Groups \cup {None},
             BeginUpdateSchedule(u, i, s, e, g)
      PROVE  CSInd'
  <2>0. PICK c : c = [id |-> i, start |-> s, end |-> e, group |-> g]
    OBVIOUS
  <2>1. c \in Patch /\ c.id = i /\ c.start = s /\ c.end = e /\ c.group = g
    BY <2>0 DEF Patch
  <2>2. PICK r : r = Merged(i, c)
    OBVIOUS
  <2>3. Merged(i, [start |-> s, end |-> e, group |-> g]) = r
    BY <2>1, <2>2 DEF Merged
  <2>4. Fits(r, RowIds \ {i})
    BY <1>2, <2>3 DEF BeginUpdateSchedule, Fits
  <2>5. ReadsThen(u, "update", c)
    BY <1>2, <2>0 DEF BeginUpdateSchedule
  <2>6. ReadTyped("update", c)
    BY <2>1 DEF ReadTyped
  <2> QED
    BY <2>1, <2>2, <2>4, <2>5, <2>6, ReadsStep
<1>3. ASSUME NEW i \in RowIds, BeginDeleteSchedule(u, i)
      PROVE  CSInd'
  <2>1. ReadsThen(u, "delete", i)
    BY <1>3 DEF BeginDeleteSchedule
  <2>2. ReadTyped("delete", i)
    BY DEF ReadTyped
  <2> QED
    BY <2>1, <2>2, PlainReads
<1>4. ASSUME NEW i \in RowIds, NEW g \in Groups \cup {None}, BeginExempt(u, i, g)
      PROVE  CSInd'
  <2>0. i \in CurrentSchedules(clock)
    BY <1>4 DEF BeginExempt
  <2>1. i \in Live /\ row[i].start <= clock
    BY <2>0 DEF CurrentSchedules, Running, Schedules
  <2>2. row[i].end \in Nat
    BY <1>0, <2>1, RowFacts
  <2>a. PICK x : x = [no |-> 0, schedule |-> i, group |-> g, expires |-> row[i].end,
                      source |-> "schedule"]
    OBVIOUS
  <2>3. x \in Exemption /\ x.schedule = i /\ x.expires = row[i].end
    BY <2>2, <2>a DEF Exemption
  <2>4. row[x.schedule] # None /\ OfLesson(x)
    BY <1>0, <2>1, <2>3, RowFacts DEF OfLesson
  <2>5. ReadsThen(u, "exempt", x)
    BY <1>4, <2>a DEF BeginExempt
  <2>6. ReadTyped("exempt", x)
    BY <2>3 DEF ReadTyped
  <2> QED
    BY <2>4, <2>5, <2>6, ReadsStep
<1>5. ASSUME NEW d \in Durations, BeginOperational(u, d)
      PROVE  CSInd'
  <2>1. clock + d \in Nat
    BY SchedulesAssumption DEF CSInd, Shape, TimesOK
  <2>a. PICK x : x = [no |-> 0, schedule |-> None, group |-> None, expires |-> clock + d,
                      source |-> "operational"]
    OBVIOUS
  <2>2. x \in Exemption /\ x.source = "operational"
    BY <2>1, <2>a DEF Exemption
  <2>3. ReadsThen(u, "exempt", x)
    BY <1>5, <2>a DEF BeginOperational
  <2>4. ReadTyped("exempt", x)
    BY <2>2 DEF ReadTyped
  <2> QED
    BY <2>2, <2>3, <2>4, ReadsStep
<1>6. ASSUME NEW x \in exempt, BeginRevoke(u, x)
      PROVE  CSInd'
  <2>1. ReadsThen(u, "revoke", x.no)
    BY <1>6 DEF BeginRevoke
  <2>2. ReadTyped("revoke", x.no)
    BY DEF ReadTyped
  <2> QED
    BY <2>1, <2>2, PlainReads
<1>7. ASSUME NEW g \in Groups \cup {None}, BeginSetActive(u, g)
      PROVE  CSInd'
  <2>1. ReadsThen(u, "active", g)
    BY <1>7 DEF BeginSetActive
  <2>2. ReadTyped("active", g)
    BY DEF ReadTyped
  <2> QED
    BY <2>1, <2>2, PlainReads
<1>8. ASSUME NEW g \in Groups, BeginSetDefault(u, g)
      PROVE  CSInd'
  <2>1. ReadsThen(u, "default", g)
    BY <1>8 DEF BeginSetDefault
  <2>2. ReadTyped("default", g)
    BY DEF ReadTyped
  <2> QED
    BY <2>1, <2>2, PlainReads
<1> QED
  BY <1>1, <1>2, <1>3, <1>4, <1>5, <1>6, <1>7, <1>8 DEF BeginCommand

-----------------------------------------------------------------------------
(***************************************************************************)
(* Steps that write no schedule and add no exemption.                      *)
(***************************************************************************)
\* Rows are at most deleted, exemptions at most deleted or given a group.
LEMMA QuietStep ==
  ASSUME CSInd, Shape', RowsOnlyGo, clock <= clock',
         UNCHANGED <<raced, edited>>, fresh' \subseteq fresh,
         \A x \in exempt' :
           /\ \E y \in exempt : /\ x.schedule = y.schedule /\ x.expires = y.expires
                                /\ x.source = y.source
           /\ x.source = "schedule" => x.schedule \in Live',
         \A u \in Users : scmd'[u] = scmd[u] \/ scmd'[u].at # "write"
  PROVE  CSInd'
<1>1. /\ CommandsOK /\ TablesOK /\ TimesOK /\ OverlapNeedsRace /\ ChecksHold
      /\ ExemptionsOfLessons /\ fresh' \subseteq Users /\ clock' \in Nat
  BY SchedulesAssumption DEF CSInd, Shape, TimesOK, HistoryOK
<1>2. OverlapNeedsRace' /\ ChecksHold'
  <2>1. \A u \in fresh' : \/ scmd'[u] = scmd[u]
                          \/ scmd'[u].op \notin {"create", "update"}
                          \/ scmd'[u].at # "write"
    BY <1>1
  <2> QED
    BY <1>1, <2>1, TimetableStays
<1>3. ExemptionsOfLessons'
  BY <1>1, ExemptionsStay
<1> QED
  BY <1>2, <1>3 DEF CSInd

\* The rows are left alone and no exemption is added.
LEMMA RowsKept ==
  ASSUME CSInd, Shape', UNCHANGED <<row, raced, edited>>, clock <= clock',
         exempt' \subseteq exempt, fresh' \subseteq fresh,
         \A u \in Users : scmd'[u] = scmd[u] \/ scmd'[u].at # "write"
  PROVE  CSInd'
<1>1. RowsOnlyGo /\ Live' = Live
  BY RowsStay DEF CSInd, Shape
<1>2. \A x \in exempt' :
        /\ \E y \in exempt : /\ x.schedule = y.schedule /\ x.expires = y.expires
                             /\ x.source = y.source
        /\ x.source = "schedule" => x.schedule \in Live'
  BY <1>1 DEF CSInd, ExemptionsOfLessons
<1> QED
  BY <1>1, <1>2, QuietStep

\* A command that ends and leaves the timetable and the exemptions alone.
LEMMA FailedStep ==
  ASSUME CSInd, NEW u \in Users, Failed(u), UNCHANGED <<clock, tick, since>>
  PROVE  CSInd'
<1>1. /\ UNCHANGED <<room, row, exempt, made, raced, edited>>
      /\ fresh' = fresh \ {u} /\ Done(u, FALSE)
  BY DEF Failed
<1>2. /\ CommandsOK'
      /\ \A v \in Users : v # u => scmd'[v] = scmd[v]
      /\ scmd'[u].at # "write"
  BY <1>1, CommandEnds DEF CSInd, Shape
<1>3. TablesOK' /\ TimesOK' /\ HistoryOK' /\ clock <= clock'
  BY <1>1, SchedulesAssumption DEF CSInd, Shape, TablesOK, TimesOK, HistoryOK
<1> QED
  BY <1>1, <1>2, <1>3, RowsKept DEF Shape

\* The classroom is written.
LEMMA WriteRoomStep ==
  ASSUME CSInd, NEW u \in Users, WriteRoom(u)
  PROVE  CSInd'
<1>1. UNCHANGED <<clock, tick, since>>
  BY DEF WriteRoom
<1>2. CASE room = Gone
  BY <1>1, <1>2, FailedStep DEF WriteRoom
<1>3. CASE room # Gone
  <2>1. /\ UNCHANGED <<row, exempt, made, fresh, raced, edited>>
        /\ Done(u, TRUE)
    BY <1>3 DEF WriteRoom
  <2>2. /\ CommandsOK'
        /\ \A v \in Users : v # u => scmd'[v] = scmd[v]
        /\ scmd'[u].at # "write"
    BY <2>1, CommandEnds DEF CSInd, Shape
  <2>3. scmd[u].read \in Groups \cup {None}
    BY DEF WriteRoom, Writing, CSInd, Shape, CommandsOK, ReadTyped
  <2>4. room' \in [active : Groups \cup {None}, default : Groups \cup {None}]
    BY <1>3, <2>3 DEF WriteRoom, CSInd, Shape, TablesOK
  <2>5. TablesOK' /\ HistoryOK'
    BY <2>1, <2>4 DEF CSInd, Shape, TablesOK, HistoryOK
  <2>6. TimesOK' /\ clock <= clock'
    BY <1>1, SchedulesAssumption DEF CSInd, Shape, TimesOK
  <2> QED
    BY <1>1, <2>1, <2>2, <2>5, <2>6, RowsKept DEF Shape
<1> QED
  BY <1>2, <1>3

\* A schedule is deleted, with its exemptions.
LEMMA WriteDeleteStep ==
  ASSUME CSInd, NEW u \in Users, WriteDeleteSchedule(u)
  PROVE  CSInd'
<1>1. PICK i : i = scmd[u].read
  OBVIOUS
<1>2. /\ UNCHANGED <<clock, room, made, tick, since, fresh, raced, edited>>
      /\ row' = [row EXCEPT ![i] = Gone]
      /\ exempt' = {x \in exempt : x.schedule # i}
      /\ Done(u, TRUE)
  BY <1>1 DEF WriteDeleteSchedule
<1>3. /\ CommandsOK'
      /\ \A v \in Users : v # u => scmd'[v] = scmd[v]
      /\ scmd'[u].at # "write"
  BY <1>2, CommandEnds DEF CSInd, Shape
<1>4. i \in RowIds
  BY <1>1 DEF WriteDeleteSchedule, Writing, CSInd, Shape, CommandsOK, ReadTyped
<1>5. /\ row \in [RowIds -> {None, Gone} \cup ScheduleRow]
      /\ row' \in [RowIds -> {None, Gone} \cup ScheduleRow]
      /\ \A j \in RowIds : j # i => row'[j] = row[j]
      /\ row'[i] = Gone
  BY <1>2, <1>4 DEF CSInd, Shape, TablesOK
<1>6. RowsOnlyGo
  BY <1>5, RowFacts DEF RowsOnlyGo
<1>7. \A x \in exempt' :
        /\ \E y \in exempt : /\ x.schedule = y.schedule /\ x.expires = y.expires
                             /\ x.source = y.source
        /\ x.source = "schedule" => x.schedule \in Live'
  BY <1>2, <1>5, LiveRows, LiveRowsNext DEF CSInd, ExemptionsOfLessons
<1>8. TablesOK' /\ HistoryOK'
  BY <1>2, <1>5 DEF CSInd, Shape, TablesOK, HistoryOK
<1>9. TimesOK' /\ clock <= clock'
  BY <1>2, SchedulesAssumption DEF CSInd, Shape, TimesOK
<1> QED
  BY <1>2, <1>3, <1>6, <1>7, <1>8, <1>9, QuietStep DEF Shape

\* An exemption is revoked.
LEMMA WriteRevokeStep ==
  ASSUME CSInd, NEW u \in Users, WriteRevoke(u)
  PROVE  CSInd'
<1>1. /\ UNCHANGED <<clock, room, row, made, tick, since, fresh, raced, edited>>
      /\ exempt' \subseteq exempt
  BY DEF WriteRevoke
<1>2. PICK event : Done(u, event)
  BY DEF WriteRevoke
<1>3. /\ CommandsOK'
      /\ \A v \in Users : v # u => scmd'[v] = scmd[v]
      /\ scmd'[u].at # "write"
  BY <1>2, CommandEnds DEF CSInd, Shape
<1>4. TablesOK' /\ HistoryOK'
  BY <1>1 DEF CSInd, Shape, TablesOK, HistoryOK
<1>5. TimesOK' /\ clock <= clock'
  BY <1>1, SchedulesAssumption DEF CSInd, Shape, TimesOK
<1> QED
  BY <1>1, <1>3, <1>4, <1>5, RowsKept DEF Shape

\* An event is dispatched.
LEMMA DispatchStep ==
  ASSUME CSInd, NEW u \in Users, DispatchEvent(u)
  PROVE  CSInd'
<1>1. /\ UNCHANGED <<clock, room, row, exempt, made, tick, fresh, raced, edited>>
      /\ scmd' = [scmd EXCEPT ![u] = NoCmd] /\ since' = clock
  BY DEF DispatchEvent, Announce
<1>2. Done(u, FALSE)
  BY <1>1 DEF Done, NoCmd
<1>3. /\ CommandsOK'
      /\ \A v \in Users : v # u => scmd'[v] = scmd[v]
      /\ scmd'[u].at # "write"
  BY <1>2, CommandEnds DEF CSInd, Shape
<1>4. TablesOK' /\ HistoryOK'
  BY <1>1 DEF CSInd, Shape, TablesOK, HistoryOK
<1>5. TimesOK' /\ clock <= clock'
  BY <1>1, SchedulesAssumption DEF CSInd, Shape, TimesOK
<1> QED
  BY <1>1, <1>3, <1>4, <1>5, RowsKept DEF Shape

\* The classroom is deleted, with its schedules and exemptions.
LEMMA DeleteClassroomStep ==
  ASSUME CSInd, NEW u \in Users, DeleteClassroom(u)
  PROVE  CSInd'
<1>1. /\ UNCHANGED <<clock, made, scmd, tick, since, fresh, raced, edited>>
      /\ room' = Gone /\ exempt' = {}
      /\ row' = [i \in RowIds |-> IF i \in Live THEN Gone ELSE row[i]]
  BY DEF DeleteClassroom
<1>2. row \in [RowIds -> {None, Gone} \cup ScheduleRow]
  BY DEF CSInd, Shape, TablesOK
<1>3. row' \in [RowIds -> {None, Gone} \cup ScheduleRow]
  BY <1>1, <1>2
<1>4. RowsOnlyGo
  BY <1>1, <1>2, <1>3, RowFacts DEF RowsOnlyGo
<1>5. CommandsOK' /\ TablesOK' /\ HistoryOK'
  BY <1>1, <1>3 DEF CSInd, Shape, CommandsOK, TablesOK, HistoryOK
<1>6. TimesOK' /\ clock <= clock'
  BY <1>1, SchedulesAssumption DEF CSInd, Shape, TimesOK
<1> QED
  BY <1>1, <1>4, <1>5, <1>6, QuietStep DEF Shape

\* The clock and the tick touch at most expired exemptions.
LEMMA TickStep ==
  ASSUME CSInd, \/ TimePasses \/ TickBoundary \/ TickEmit \/ TickFails
                \/ \E fails \in BOOLEAN : TickClean(fails)
                \/ UNCHANGED csVars
  PROVE  CSInd'
<1>1. /\ UNCHANGED <<room, row, made, scmd, fresh, raced, edited>>
      /\ exempt' \subseteq exempt
  BY DEF TimePasses, TickBoundary, TickEmit, TickFails, TickClean, csVars
<1>2. CommandsOK' /\ TablesOK' /\ HistoryOK'
  BY <1>1 DEF CSInd, Shape, CommandsOK, TablesOK, HistoryOK
<1>3. /\ TimesOK /\ Horizon \in Nat /\ clock \in Nat /\ tick.now \in Nat /\ since \in Nat
      /\ tick.now <= clock /\ since <= clock
  BY SchedulesAssumption DEF CSInd, Shape, TimesOK
<1>4. TimesOK' /\ clock <= clock'
  <2>1. CASE TimePasses
    BY <1>3, <2>1 DEF TimePasses, TimesOK
  <2>2. CASE TickBoundary
    <3>1. PICK found : found = HasBoundary(2 * Minute(clock))
      OBVIOUS
    <3>2. /\ UNCHANGED <<clock, since>>
          /\ tick' = [at |-> "clean", now |-> clock, found |-> found]
      BY <2>2, <3>1 DEF TickBoundary
    <3> QED
      BY <1>3, <3>2 DEF TimesOK
  <2>3. CASE TickEmit
    <3>1. clock' = clock /\ tick' = NoTick /\ since' \in {clock, tick.now, since, MaxOf(since, tick.now)}
      BY <2>3 DEF TickEmit, Announce
    <3>2. since' \in 0 .. clock
      BY <1>3, <3>1 DEF MaxOf
    <3> QED
      BY <1>3, <3>1, <3>2 DEF TimesOK, NoTick
  <2>4. CASE TickFails
    <3>1. UNCHANGED <<clock, since>> /\ tick' = NoTick
      BY <2>4 DEF TickFails
    <3> QED
      BY <1>3, <3>1 DEF TimesOK, NoTick
  <2>5. ASSUME NEW fails \in BOOLEAN, TickClean(fails)
        PROVE  TimesOK' /\ clock <= clock'
    <3>1. UNCHANGED <<clock, since>>
      BY <2>5 DEF TickClean
    <3>2. PICK found : found = (tick.found \/ {x \in exempt : ~Expired(x)} # exempt)
      OBVIOUS
    <3>3. CASE fails
      <4>1. tick' = [tick EXCEPT !.at = "failedEmit"]
        BY <2>5, <3>3 DEF TickClean
      <4>2. tick' = [at |-> "failedEmit", now |-> tick.now, found |-> tick.found]
        BY <1>3, <4>1 DEF TimesOK
      <4> QED
        BY <1>3, <3>1, <4>2 DEF TimesOK
    <3>4. CASE ~fails
      <4>1. tick' = [tick EXCEPT !.at = "emit", !.found = found]
        BY <2>5, <3>2, <3>4 DEF TickClean
      <4>2. tick' = [at |-> "emit", now |-> tick.now, found |-> found]
        BY <1>3, <4>1 DEF TimesOK
      <4> QED
        BY <1>3, <3>1, <4>2 DEF TimesOK
    <3> QED
      BY <3>3, <3>4
  <2>6. CASE UNCHANGED csVars
    BY <1>3, <2>6 DEF TimesOK, csVars
  <2> QED
    BY <2>1, <2>2, <2>3, <2>4, <2>5, <2>6
<1> QED
  BY <1>1, <1>2, <1>4, RowsKept DEF Shape

-----------------------------------------------------------------------------
(***************************************************************************)
(* The writes.                                                             *)
(***************************************************************************)
\* A row is written that fits among the others, or is one that lost a race.
LEMMA RowWritten ==
  ASSUME TablesOK, OverlapNeedsRace, NEW i \in RowIds, NEW r \in ScheduleRow,
         row' = [row EXCEPT ![i] = r],
         \/ raced' = raced /\ Fits(r, RowIds \ {i})
         \/ raced' = raced \cup {i}
  PROVE  /\ row' \in [RowIds -> {None, Gone} \cup ScheduleRow]
         /\ row'[i] = r /\ \A j \in RowIds : j # i => row'[j] = row[j]
         /\ Live' = Live \cup {i}
         /\ OverlapNeedsRace'
<1>1. /\ row \in [RowIds -> {None, Gone} \cup ScheduleRow]
      /\ row' \in [RowIds -> {None, Gone} \cup ScheduleRow]
      /\ row'[i] = r /\ \A j \in RowIds : j # i => row'[j] = row[j]
  BY DEF TablesOK
<1>2. /\ Live = {j \in RowIds : row[j] \in ScheduleRow}
      /\ Live' = {j \in RowIds : row'[j] \in ScheduleRow}
  BY <1>1, LiveRows, LiveRowsNext
<1>3. Live' = Live \cup {i}
  BY <1>1, <1>2
<1>4. ASSUME i \notin raced'
      PROVE  /\ r.start < r.end
             /\ \A j \in RowIds \ {i} : row[j] \in ScheduleRow /\ row[j].kind = r.kind
                                          => ~Overlaps(r.kind, r.start, r.end, row[j])
  <2>1. PICK others \in SUBSET RowIds : others = RowIds \ {i}
    OBVIOUS
  <2>2. Fits(r, others)
    BY <1>4, <2>1
  <2> QED
    BY <1>1, <2>1, <2>2, FitMeans
<1>5. \A j \in Live' \ raced' : row'[j].start < row'[j].end
  BY <1>1, <1>3, <1>4 DEF OverlapNeedsRace
<1>6. ASSUME NEW j \in Live' \ raced', j # i, row'[j].kind = r.kind, i \notin raced'
      PROVE  r.end <= row'[j].start \/ row'[j].end <= r.start
  <2>1. PICK q \in ScheduleRow : q = row[j]
    BY <1>2, <1>3, <1>6
  <2>2. row'[j] = q /\ q.start < q.end /\ q.kind = r.kind
    BY <1>1, <1>2, <1>5, <1>6, <2>1
  <2>3. r.start < r.end /\ ~Overlaps(r.kind, r.start, r.end, q)
    BY <1>2, <1>4, <1>6, <2>1, <2>2
  <2> QED
    BY <2>2, <2>3, CheckIsExact
<1>7. ASSUME NEW k \in Kinds, NEW j \in Schedules(k)' \ raced',
             NEW l \in Schedules(k)' \ raced', j # l
      PROVE  row'[j].end <= row'[l].start \/ row'[l].end <= row'[j].start
  <2>1. /\ j \in Live' /\ l \in Live' /\ row'[j].kind = k /\ row'[l].kind = k
        /\ j \notin raced' /\ l \notin raced'
    BY DEF Schedules
  <2>2. CASE j = i
    BY <1>1, <1>6, <1>7, <2>1, <2>2
  <2>3. CASE l = i
    BY <1>1, <1>6, <1>7, <2>1, <2>3
  <2>4. CASE j # i /\ l # i
    <3>1. /\ j \in Schedules(k) \ raced /\ l \in Schedules(k) \ raced
          /\ row'[j] = row[j] /\ row'[l] = row[l]
      BY <1>1, <1>2, <1>3, <2>1, <2>4 DEF Schedules
    <3> QED
      BY <1>7, <3>1 DEF OverlapNeedsRace
  <2> QED
    BY <2>2, <2>3, <2>4
<1> QED
  BY <1>1, <1>3, <1>5, <1>7 DEF OverlapNeedsRace

\* A schedule is inserted.
LEMMA WriteCreateStep ==
  ASSUME CSInd, NEW u \in Users, WriteCreateSchedule(u)
  PROVE  CSInd'
<1>0. /\ CommandsOK /\ TablesOK /\ TimesOK /\ HistoryOK /\ OverlapNeedsRace /\ ChecksHold
      /\ ExemptionsOfLessons /\ UNCHANGED <<clock, tick, since>>
  BY DEF CSInd, Shape, WriteCreateSchedule
<1>1. CASE room = Gone
  BY <1>0, <1>1, FailedStep DEF WriteCreateSchedule
<1>2. CASE room # Gone
  <2>1. PICK r : r = scmd[u].read
    OBVIOUS
  <2>2. PICK i \in RowIds :
          /\ row[i] = None
          /\ row' = [row EXCEPT ![i] = r]
          /\ raced' = IF u \in fresh THEN raced ELSE raced \cup {i}
          /\ fresh' = {} /\ Done(u, TRUE)
          /\ UNCHANGED <<room, exempt, made, edited>>
    BY <1>2, <2>1 DEF WriteCreateSchedule
  <2>3. r \in ScheduleRow /\ (u \in fresh => Fits(r, RowIds))
    BY <1>0, <2>1 DEF WriteCreateSchedule, Writing, CommandsOK, ReadTyped, ChecksHold
  <2>4. Fits(r, RowIds) => Fits(r, RowIds \ {i})
    BY DEF Fits, Conflicts
  <2>5. (raced' = raced /\ Fits(r, RowIds \ {i})) \/ raced' = raced \cup {i}
    BY <2>2, <2>3, <2>4
  <2>6. /\ row' \in [RowIds -> {None, Gone} \cup ScheduleRow]
        /\ row'[i] = r /\ \A j \in RowIds : j # i => row'[j] = row[j]
        /\ Live' = Live \cup {i}
        /\ OverlapNeedsRace'
    BY <1>0, <2>2, <2>3, <2>5, RowWritten
  <2>7. /\ CommandsOK'
        /\ \A v \in Users : v # u => scmd'[v] = scmd[v]
        /\ scmd'[u].at # "write"
    BY <1>0, <2>2, CommandEnds
  <2>8. TablesOK' /\ TimesOK' /\ HistoryOK'
    BY <1>0, <2>2, <2>6 DEF TablesOK, TimesOK, HistoryOK
  <2>9. ChecksHold'
    BY <2>2 DEF ChecksHold
  <2>10. ExemptionsOfLessons'
    <3>1. i \notin Live /\ Live \subseteq RowIds
      BY <2>2 DEF Live
    <3>2. \A x \in exempt' : x.source = "schedule" => x.schedule \in Live' /\ OfLesson(x)'
      BY <1>0, <2>2, <2>6, <3>1 DEF ExemptionsOfLessons, OfLesson
    <3>3. ASSUME NEW v \in Users, Writing(v, "exempt")', scmd'[v].read.source = "schedule"
          PROVE  (LET x == scmd[v].read IN
                  row[x.schedule] # None /\ (x.schedule \in Live => OfLesson(x)))'
      <4>1. v # u /\ scmd'[v] = scmd[v] /\ Writing(v, "exempt")
        BY <2>7, <3>3 DEF Writing
      <4>2. PICK x : x = scmd[v].read
        OBVIOUS
      <4>3. /\ x.schedule \in RowIds /\ row[x.schedule] # None
            /\ x.schedule \in Live => OfLesson(x)
        BY <1>0, <3>3, <4>1, <4>2
        DEF CommandsOK, ReadTyped, Writing, ExemptionsOfLessons
      <4>4. row'[x.schedule] = row[x.schedule] /\ (x.schedule \in Live' <=> x.schedule \in Live)
        BY <2>2, <2>6, <3>1, <4>3
      <4>5. OfLesson(x)' <=> OfLesson(x)
        BY <1>0, <2>2, <4>4 DEF OfLesson
      <4> QED
        BY <4>1, <4>2, <4>3, <4>4, <4>5
    <3> QED
      BY <3>2, <3>3 DEF ExemptionsOfLessons
  <2> QED
    BY <2>6, <2>7, <2>8, <2>9, <2>10 DEF CSInd, Shape
<1> QED
  BY <1>1, <1>2

\* A schedule is updated.
LEMMA WriteUpdateStep ==
  ASSUME CSInd, NEW u \in Users, WriteUpdateSchedule(u)
  PROVE  CSInd'
<1>0. /\ CommandsOK /\ TablesOK /\ TimesOK /\ HistoryOK /\ OverlapNeedsRace /\ ChecksHold
      /\ ExemptionsOfLessons /\ UNCHANGED <<clock, tick, since>>
  BY DEF CSInd, Shape, WriteUpdateSchedule
<1>1. PICK c : c = scmd[u].read
  OBVIOUS
<1>2. CASE c.id \notin Live
  BY <1>0, <1>1, <1>2, FailedStep DEF WriteUpdateSchedule
<1>3. CASE c.id \in Live
  <2>1. PICK i : i = c.id
    OBVIOUS
  <2>2. PICK r : r = Merged(i, c)
    OBVIOUS
  <2>3. /\ row' = [row EXCEPT ![i] = r]
        /\ raced' = IF u \in fresh THEN raced ELSE raced \cup {i}
        /\ fresh' = {} /\ edited' = edited \cup {i} /\ Done(u, TRUE)
        /\ UNCHANGED <<room, exempt, made>>
    BY <1>1, <1>3, <2>1, <2>2 DEF WriteUpdateSchedule
  <2>4. /\ c.start \in Boundaries \cup {None} /\ c.end \in Boundaries \cup {None}
        /\ c.group \in Groups \cup {None}
    <3>1. c \in Patch
      BY <1>0, <1>1 DEF WriteUpdateSchedule, Writing, CommandsOK, ReadTyped
    <3> QED
      BY <3>1 DEF Patch
  <2>5. i \in RowIds /\ i \in Live /\ row[i] \in ScheduleRow
    BY <1>0, <1>3, <2>1, LiveRows DEF TablesOK
  <2>6. r \in ScheduleRow
    BY <2>2, <2>4, <2>5, MergedRow
  <2>7. u \in fresh => Fits(r, RowIds \ {i})
    BY <1>0, <1>1, <1>3, <2>1, <2>2 DEF WriteUpdateSchedule, Writing, ChecksHold
  <2>8. (raced' = raced /\ Fits(r, RowIds \ {i})) \/ raced' = raced \cup {i}
    BY <2>3, <2>7
  <2>9. /\ row' \in [RowIds -> {None, Gone} \cup ScheduleRow]
        /\ row'[i] = r /\ \A j \in RowIds : j # i => row'[j] = row[j]
        /\ Live' = Live \cup {i}
        /\ OverlapNeedsRace'
    BY <1>0, <2>3, <2>5, <2>6, <2>8, RowWritten
  <2>10. /\ CommandsOK'
         /\ \A v \in Users : v # u => scmd'[v] = scmd[v]
         /\ scmd'[u].at # "write"
    BY <1>0, <2>3, CommandEnds
  <2>11. TablesOK' /\ TimesOK' /\ HistoryOK'
    BY <1>0, <2>3, <2>5, <2>9 DEF TablesOK, TimesOK, HistoryOK
  <2>12. ChecksHold'
    BY <2>3 DEF ChecksHold
  <2>13. ExemptionsOfLessons'
    <3>1. Live' = Live /\ Live \subseteq RowIds
      BY <2>5, <2>9 DEF Live
    <3>2. ASSUME NEW x, x.schedule \in RowIds, OfLesson(x)
          PROVE  OfLesson(x)'
      BY <1>0, <2>3, <2>9, <3>2 DEF OfLesson
    <3>3. \A x \in exempt' : x.source = "schedule" => x.schedule \in Live' /\ OfLesson(x)'
      BY <1>0, <2>3, <3>1, <3>2 DEF ExemptionsOfLessons
    <3>4. ASSUME NEW v \in Users, Writing(v, "exempt")', scmd'[v].read.source = "schedule"
          PROVE  (LET x == scmd[v].read IN
                  row[x.schedule] # None /\ (x.schedule \in Live => OfLesson(x)))'
      <4>1. v # u /\ scmd'[v] = scmd[v] /\ Writing(v, "exempt")
        BY <2>10, <3>4 DEF Writing
      <4>2. PICK x : x = scmd[v].read
        OBVIOUS
      <4>3. /\ x.schedule \in RowIds /\ row[x.schedule] # None
            /\ x.schedule \in Live => OfLesson(x)
        BY <1>0, <3>4, <4>1, <4>2
        DEF CommandsOK, ReadTyped, Writing, ExemptionsOfLessons
      <4>4. row'[x.schedule] # None
        BY <2>6, <2>9, <4>3, RowFacts
      <4> QED
        BY <3>1, <3>2, <4>1, <4>2, <4>3, <4>4
    <3> QED
      BY <3>3, <3>4 DEF ExemptionsOfLessons
  <2> QED
    BY <2>9, <2>10, <2>11, <2>12, <2>13 DEF CSInd, Shape
<1> QED
  BY <1>2, <1>3

\* An exemption is inserted, or the one that is there is given another group.
LEMMA WriteExemptStep ==
  ASSUME CSInd, NEW u \in Users, WriteExempt(u)
  PROVE  CSInd'
<1>0. /\ CommandsOK /\ TablesOK /\ TimesOK /\ HistoryOK /\ OverlapNeedsRace /\ ChecksHold
      /\ ExemptionsOfLessons /\ UNCHANGED <<clock, tick, since>>
  BY DEF CSInd, Shape, WriteExempt
<1>1. PICK x : x = scmd[u].read
  OBVIOUS
<1>2. CASE ~(room # Gone /\ x.schedule \in Live \cup {None})
  BY <1>0, <1>1, <1>2, FailedStep DEF WriteExempt
<1>3. CASE room # Gone /\ x.schedule \in Live \cup {None}
  <2>1. /\ InsertOrReuse(x) /\ Done(u, TRUE)
        /\ UNCHANGED <<room, row, fresh, raced, edited>>
    BY <1>1, <1>3 DEF WriteExempt
  <2>2. x \in Exemption /\ (x.source = "schedule" => x.schedule \in Live /\ OfLesson(x))
    <3>1. x \in Exemption /\ (x.source = "schedule" => x.schedule \in RowIds)
      BY <1>0, <1>1 DEF WriteExempt, Writing, CommandsOK, ReadTyped
    <3>2. x.source = "schedule" => x.schedule \in Live
      BY <1>3, <3>1, RowFacts
    <3>3. x.source = "schedule" => OfLesson(x)
      BY <1>0, <1>1, <3>2 DEF WriteExempt, Writing, ExemptionsOfLessons
    <3> QED
      BY <3>1, <3>2, <3>3
  <2>3. /\ CommandsOK'
        /\ \A v \in Users : v # u => scmd'[v] = scmd[v]
        /\ scmd'[u].at # "write"
    BY <1>0, <2>1, CommandEnds
  <2>4. /\ RowsOnlyGo /\ Live' = Live
        /\ \A y : OfLesson(y)' <=> OfLesson(y)
    BY <1>0, <2>1, RowsStay DEF OfLesson
  <2>5. /\ \A y \in Exemption, n \in Nat : LET z == [y EXCEPT !.no = n] IN
             /\ z \in Exemption /\ z.schedule = y.schedule /\ z.expires = y.expires
             /\ z.source = y.source
        /\ \A y \in Exemption, g \in Groups \cup {None} :
             LET z == [y EXCEPT !.group = g] IN
             /\ z \in Exemption /\ z.schedule = y.schedule /\ z.expires = y.expires
             /\ z.source = y.source
    BY DEF Exemption
  <2>6. made \in Nat /\ exempt \subseteq Exemption /\ x.group \in Groups \cup {None}
    BY <1>0, <2>2 DEF TablesOK, Exemption
  <2>7. made' \in Nat
    BY <2>1, <2>6 DEF InsertOrReuse
  <2>8. \A z \in exempt' :
          /\ z \in Exemption
          /\ \E y \in exempt \cup {x} : /\ z.schedule = y.schedule /\ z.expires = y.expires
                                        /\ z.source = y.source
    <3>1. PICK same \in SUBSET exempt :
            exempt' = IF same = {} THEN exempt \cup {[x EXCEPT !.no = made]}
                      ELSE (exempt \ same) \cup {[y EXCEPT !.group = x.group] : y \in same}
      BY <2>1 DEF InsertOrReuse
    <3>2. ASSUME NEW z \in exempt'
          PROVE  \/ z \in exempt
                 \/ z = [x EXCEPT !.no = made]
                 \/ \E y \in exempt : z = [y EXCEPT !.group = x.group]
      BY <3>1
    <3>3. \A z \in exempt : z \in Exemption
      BY <2>6
    <3>4. LET z == [x EXCEPT !.no = made] IN
          /\ z \in Exemption /\ z.schedule = x.schedule /\ z.expires = x.expires
          /\ z.source = x.source
      BY <2>2, <2>5, <2>6
    <3>5. \A y \in exempt : LET z == [y EXCEPT !.group = x.group] IN
            /\ z \in Exemption /\ z.schedule = y.schedule /\ z.expires = y.expires
            /\ z.source = y.source
      BY <2>5, <2>6
    <3>6. ASSUME NEW z \in exempt'
          PROVE  /\ z \in Exemption
                 /\ \E y \in exempt \cup {x} :
                      /\ z.schedule = y.schedule /\ z.expires = y.expires
                      /\ z.source = y.source
      <4>1. CASE z \in exempt
        BY <3>3, <4>1
      <4>2. CASE z = [x EXCEPT !.no = made]
        BY <3>4, <4>2
      <4>3. ASSUME NEW y \in exempt, z = [y EXCEPT !.group = x.group]
            PROVE  /\ z \in Exemption /\ z.schedule = y.schedule
                   /\ z.expires = y.expires /\ z.source = y.source
        BY <3>5, <4>3
      <4> QED
        BY <3>2, <4>1, <4>2, <4>3
    <3> QED
      BY <3>6
  <2>9. TablesOK' /\ TimesOK' /\ HistoryOK'
    BY <1>0, <2>1, <2>7, <2>8 DEF TablesOK, TimesOK, HistoryOK
  <2>10. OverlapNeedsRace' /\ ChecksHold'
    <3>1. \A v \in fresh' : \/ scmd'[v] = scmd[v]
                            \/ scmd'[v].op \notin {"create", "update"}
                            \/ scmd'[v].at # "write"
      BY <2>3, <2>9 DEF HistoryOK
    <3> QED
      BY <1>0, <2>1, <2>4, <3>1, TimetableStays
  <2>11. ExemptionsOfLessons'
    <3>1. \A z \in exempt' : z.source = "schedule" => z.schedule \in Live' /\ OfLesson(z)'
      BY <1>0, <2>2, <2>4, <2>8 DEF ExemptionsOfLessons, OfLesson
    <3>2. ASSUME NEW v \in Users, Writing(v, "exempt")', scmd'[v].read.source = "schedule"
          PROVE  (LET y == scmd[v].read IN
                  row[y.schedule] # None /\ (y.schedule \in Live => OfLesson(y)))'
      <4>1. v # u /\ scmd'[v] = scmd[v] /\ Writing(v, "exempt")
        BY <2>3, <3>2 DEF Writing
      <4> QED
        BY <1>0, <2>1, <2>4, <3>2, <4>1 DEF ExemptionsOfLessons
    <3> QED
      BY <3>1, <3>2 DEF ExemptionsOfLessons
  <2> QED
    BY <2>3, <2>9, <2>10, <2>11 DEF CSInd, Shape
<1> QED
  BY <1>2, <1>3

-----------------------------------------------------------------------------
(***************************************************************************)
(* The theorems.                                                           *)
(***************************************************************************)
\* At the start there is at most one schedule, and it is a period.
LEMMA CSStart == CSInit => CSInd
<1> SUFFICES ASSUME CSInit PROVE CSInd
  OBVIOUS
<1>1. /\ clock = 0 /\ exempt = {} /\ made = 0 /\ tick = NoTick /\ since = 0
      /\ fresh = {} /\ raced = {} /\ edited = {}
      /\ scmd = [u \in Users |-> NoCmd]
      /\ room \in [active : {None}, default : Groups \cup {None}]
      /\ row \in [RowIds -> {None} \cup Lessons]
      /\ \A i, j \in Live : i = j
  BY DEF CSInit
<1>2. CommandsOK
  <2>1. \A u \in Users : scmd[u].at = "idle" /\ scmd[u].op = "none"
    BY <1>1 DEF NoCmd
  <2>2. scmd = [u \in Users |-> scmd[u]]
    BY <1>1
  <2> QED
    BY <2>1, <2>2 DEF CommandsOK, ReadTyped
<1>3. TablesOK
  BY <1>1, SchedulesAssumption DEF TablesOK
<1>4. TimesOK /\ HistoryOK
  BY <1>1, SchedulesAssumption DEF TimesOK, HistoryOK, NoTick
<1>5. OverlapNeedsRace
  <2>1. \A i \in Live : row[i] \in Lessons
    BY <1>1 DEF Live
  <2>2. \A i \in Live : row[i].start < row[i].end
    BY <2>1, SchedulesAssumption
  <2>3. \A k \in Kinds : \A i, j \in Schedules(k) : i = j
    BY <1>1 DEF Schedules
  <2> QED
    BY <2>2, <2>3 DEF OverlapNeedsRace
<1>6. ChecksHold
  BY <1>1 DEF ChecksHold
<1>7. ExemptionsOfLessons
  BY <1>1 DEF ExemptionsOfLessons, Writing, NoCmd
<1> QED
  BY <1>2, <1>3, <1>4, <1>5, <1>6, <1>7 DEF CSInd, Shape

\* Every step keeps the invariant.
LEMMA CSStep == CSInd /\ [CSNext]_csVars => CSInd'
<1> SUFFICES ASSUME CSInd, [CSNext]_csVars PROVE CSInd'
  OBVIOUS
<1>1. ASSUME NEW u \in Users, WriteCommand(u) PROVE CSInd'
  BY <1>1, WriteCreateStep, WriteUpdateStep, WriteDeleteStep, WriteExemptStep,
     WriteRevokeStep, WriteRoomStep
  DEF WriteCommand
<1> QED
  BY <1>1, BeginStep, DispatchStep, DeleteClassroomStep, TickStep DEF CSNext

\* The inductive invariant holds throughout.
LEMMA CSInvariant == CSSpec => []CSInd
<1> QED
  BY CSStart, CSStep, PTL DEF CSSpec

\* The timetable holds together: its tables have their types, no tick works for
\* a time that has not come, and two schedules of a kind overlap only when one
\* of them was written after a change of what it had been checked against
\* (api/src/lib/schedule-storage-command.ts: check, await, write).
THEOREM TimetableHolds == CSSpec => []TimetableInv
<1>1. CSInd => TimetableInv
  BY DEF CSInd, Shape, CommandsOK, TablesOK, TimesOK, HistoryOK, TimetableInv, CSTypeOK
<1> QED
  BY <1>1, CSInvariant, PTL

\* An exemption from a lesson nobody edited is active only while the lesson
\* runs (api/src/services/classroom-exemption-command.service.ts: the expiry is
\* the end of the schedule as it was read, and the schedule may be deleted, or
\* time may pass, before the exemption is written).
THEOREM ExemptionsEndWithLessons == CSSpec => []ExemptionEndsWithLesson
<1>1. CSInd => ExemptionEndsWithLesson
  <2> SUFFICES ASSUME CSInd, NEW x \in exempt, x.source = "schedule",
                      x.schedule \notin edited, x.expires > clock
               PROVE  /\ x.schedule \in Live /\ clock >= row[x.schedule].start
                      /\ clock < row[x.schedule].end
    BY DEF ExemptionEndsWithLesson
  <2>1. /\ x.schedule \in Live
        /\ row[x.schedule].start <= clock /\ x.expires = row[x.schedule].end
    BY DEF CSInd, ExemptionsOfLessons, OfLesson
  <2>2. row[x.schedule].start \in Nat /\ row[x.schedule].end \in Nat /\ clock \in Nat
    BY <2>1, LiveRows, RowFacts, SchedulesAssumption DEF CSInd, Shape, TablesOK, TimesOK
  <2> QED
    BY <2>1, <2>2
<1> QED
  BY <1>1, CSInvariant, PTL

-----------------------------------------------------------------------------
(***************************************************************************)
(* Announcements.  While nothing is on its way to the machine, the group   *)
(* it is indexed under is one the hub would have given it at some time     *)
(* since `since`, a time when no exemption granted a group unless one did  *)
(* at the last event.  A tick that found nothing moves `since` on, which   *)
(* is right because of what it looked at: there was no boundary at its     *)
(* minute and, once it has cleaned up, no exemption that had expired by    *)
(* its time.                                                               *)
(***************************************************************************)
Quiet ==
  /\ room # Gone /\ ~forgot /\ ~(tick.at = "emit" /\ tick.found)
  /\ \A u \in Users : scmd[u].at # "dispatch"

IndexedInTime ==
  \E t \in since .. clock : indexed \in HubGroups(t) /\ (GrantsGroup(t) => granted)

TickKnows ==
  ~tick.found /\ since < tick.now =>
    /\ tick.at \in {"clean", "emit"} => ~HasBoundary(2 * Minute(tick.now))
    /\ tick.at = "emit" => \A x \in exempt : x.expires > tick.now

AnnouncedInd == Quiet => IndexedInTime /\ TickKnows

\* A quarter of an hour is a whole number of minutes.
LEMMA BoundariesAreEven ==
  ASSUME NEW b \in Boundaries
  PROVE  b \in Nat /\ b % 2 = 0
<1>1. b \in Nat /\ b % Quarter = 0 /\ Quarter \in Nat \ {0} /\ Quarter % 2 = 0
  BY SchedulesAssumption DEF Boundaries
<1>2. PICK q \in Nat : b = Quarter * q
  BY <1>1
<1>3. PICK k \in Nat : Quarter = 2 * k
  BY <1>1
<1>4. PICK m \in Nat : m = k * q
  OBVIOUS
<1>5. b = 2 * m
  BY <1>2, <1>3, <1>4
<1> QED
  BY <1>1, <1>5

\* From one minute to the next the only boundary is at the full minute.
LEMMA NoBoundaryBetween ==
  ASSUME NEW b \in Boundaries, NEW t \in Nat, NEW n \in Nat, t <= n,
         Minute(n) <= Minute(t) + 1, b # 2 * Minute(n)
  PROVE  b <= t <=> b <= n
BY BoundariesAreEven DEF Minute

\* To the hub and to the machine the policy is the same when no exemption
\* grants a group.
LEMMA HubKnowsPolicy ==
  ASSUME room # Gone, NEW t, ~GrantsGroup(t)
  PROVE  HubGroups(t) = Policies(t)
BY DEF HubGroups, Policies, ExemptGroup

\* Without a boundary at the minute and with no exemption that expires, a
\* minute changes nothing for the hub.
LEMMA ViewHolds ==
  ASSUME TablesOK, NEW t \in Nat, NEW n \in Nat, t <= n, Minute(n) <= Minute(t) + 1,
         ~HasBoundary(2 * Minute(n)), \A x \in exempt : x.expires > n
  PROVE  HubGroups(t) = HubGroups(n) /\ (GrantsGroup(t) <=> GrantsGroup(n))
<1>1. Live = {i \in RowIds : row[i] \in ScheduleRow}
  BY LiveRows DEF TablesOK
<1>2. ASSUME NEW i \in Live
      PROVE  /\ row[i].start <= t <=> row[i].start <= n
             /\ row[i].end > t <=> row[i].end > n
  <2>1. PICK s \in Boundaries : s = row[i].start
    BY <1>1 DEF ScheduleRow
  <2>2. PICK e \in Boundaries : e = row[i].end
    BY <1>1 DEF ScheduleRow
  <2>3. s # 2 * Minute(n) /\ e # 2 * Minute(n)
    BY <2>1, <2>2 DEF HasBoundary
  <2>4. (s <= t <=> s <= n) /\ (e <= t <=> e <= n)
    BY <2>3, NoBoundaryBetween
  <2>5. s \in Nat /\ e \in Nat
    BY RowFacts
  <2> QED
    BY <2>1, <2>2, <2>4, <2>5
<1>3. \A k : Running(k, t) = Running(k, n)
  BY <1>2 DEF Running, Schedules
<1>4. CurrentSchedules(t) = CurrentSchedules(n)
  BY <1>3 DEF CurrentSchedules
<1>5. Scopes(t) = Scopes(n)
  BY <1>4 DEF Scopes
<1>6. ActiveExemptions(t) = ActiveExemptions(n)
  <2>1. \A x \in exempt : x.expires \in Nat
    BY DEF TablesOK, Exemption
  <2> QED
    BY <2>1 DEF ActiveExemptions
<1> QED
  BY <1>5, <1>6 DEF HubGroups, GrantsGroup

\* The hub's view is a matter of three tables.
LEMMA ViewSame ==
  ASSUME UNCHANGED <<room, row, exempt>>
  PROVE  /\ \A t : HubGroups(t)' = HubGroups(t)
         /\ \A t : GrantsGroup(t)' <=> GrantsGroup(t)
         /\ \A t : HasBoundary(t)' <=> HasBoundary(t)
<1>1. Live' = Live /\ \A k, t : Running(k, t)' = Running(k, t)
  BY DEF Live, Running, Schedules
<1>2. \A t : CurrentSchedules(t)' = CurrentSchedules(t)
  BY <1>1 DEF CurrentSchedules
<1>3. \A t : Scopes(t)' = Scopes(t)
  BY <1>2 DEF Scopes
<1>4. \A t : ActiveExemptions(t)' = ActiveExemptions(t)
  BY DEF ActiveExemptions
<1>5. \A t : GrantsGroup(t)' <=> GrantsGroup(t)
  BY <1>4 DEF GrantsGroup
<1>6. \A t : HasBoundary(t)' <=> HasBoundary(t)
  BY <1>1 DEF HasBoundary
<1> QED
  BY <1>3, <1>4, <1>5, <1>6 DEF HubGroups

\* The times are numbers in order.
LEMMA Times ==
  ASSUME Shape
  PROVE  /\ clock \in Nat /\ since \in Nat /\ tick.now \in Nat
         /\ since <= clock /\ tick.now <= clock
         /\ tick.at \in {"idle", "clean", "emit", "failedEmit"}
BY SchedulesAssumption DEF Shape, TimesOK

\* Steps that leave the tables, the tick and the hub alone.
LEMMA NothingMoves ==
  ASSUME Shape, Shape', AnnouncedInd, Quiet' => Quiet, clock <= clock',
         UNCHANGED <<room, row, exempt, hubVars, since, tick>>
  PROVE  AnnouncedInd'
<1> SUFFICES ASSUME Quiet' PROVE IndexedInTime' /\ TickKnows'
  BY DEF AnnouncedInd
<1>1. IndexedInTime /\ TickKnows
  BY DEF AnnouncedInd
<1>2. /\ \A t : HubGroups(t)' = HubGroups(t)
      /\ \A t : GrantsGroup(t)' <=> GrantsGroup(t)
      /\ \A t : HasBoundary(t)' <=> HasBoundary(t)
  BY ViewSame
<1>3. clock \in Nat /\ since \in Nat /\ clock' \in Nat /\ since' = since
  BY Times, SchedulesAssumption DEF Shape, TimesOK
<1>4. IndexedInTime'
  BY <1>1, <1>2, <1>3 DEF IndexedInTime, hubVars
<1>5. TickKnows'
  BY <1>1, <1>2 DEF TickKnows, Minute
<1> QED
  BY <1>4, <1>5

\* The hub indexes the machine for a time.
LEMMA Announced ==
  ASSUME Shape, Shape', NEW t \in {clock, tick.now}, Announce(t),
         t = clock \/ tick' = NoTick, UNCHANGED <<room, row, exempt, clock>>
  PROVE  AnnouncedInd'
<1> SUFFICES ASSUME Quiet' PROVE IndexedInTime' /\ TickKnows'
  BY DEF AnnouncedInd
<1>1. room # Gone
  BY DEF Quiet
<1>2. /\ indexed' \in HubGroups(t) /\ (GrantsGroup(t) => granted')
      /\ since' = t
  BY <1>1 DEF Announce
<1>3. /\ clock \in Nat /\ t \in Nat /\ t <= clock
      /\ tick'.now \in Nat /\ tick'.now <= clock
  BY Times DEF Shape, TimesOK
<1>4. t \in since' .. clock'
  BY <1>2, <1>3
<1>5. indexed' \in HubGroups(t)' /\ (GrantsGroup(t)' => granted')
  BY <1>2, ViewSame
<1>6. IndexedInTime'
  BY <1>4, <1>5 DEF IndexedInTime
<1>7. TickKnows'
  BY <1>2, <1>3 DEF TickKnows, NoTick
<1> QED
  BY <1>6, <1>7

\* A command that ends with an event leaves something to be announced; one that
\* ends without is as if it had not been.
LEMMA DoneStep ==
  ASSUME CommandsOK, NEW u \in Users, NEW event, Done(u, event), scmd[u].at # "dispatch"
  PROVE  /\ event => scmd'[u].at = "dispatch"
         /\ \A v \in Users : scmd'[v].at # "dispatch" => scmd[v].at # "dispatch"
<1>1. /\ \A v \in Users : v # u => scmd'[v] = scmd[v]
      /\ scmd'[u] = [op |-> "none", at |-> IF event THEN "dispatch" ELSE "idle", read |-> None]
  BY DEF Done, CommandsOK
<1> QED
  BY <1>1

\* A command that fails.
LEMMA FailedAnnounces ==
  ASSUME Shape, Shape', AnnouncedInd, NEW u \in Users, Failed(u), scmd[u].at = "write",
         UNCHANGED <<clock, tick, hubVars, since, forgot>>
  PROVE  AnnouncedInd'
<1>1. UNCHANGED <<room, row, exempt>> /\ Done(u, FALSE)
  BY DEF Failed
<1>2. scmd[u].at # "dispatch"
  OBVIOUS
<1>3. \A v \in Users : scmd'[v].at # "dispatch" => scmd[v].at # "dispatch"
  BY <1>1, <1>2, DoneStep DEF Shape
<1>4. Quiet' => Quiet
  BY <1>1, <1>3 DEF Quiet
<1>5. clock <= clock'
  BY Times
<1> QED
  BY <1>1, <1>4, <1>5, NothingMoves

\* A command that succeeds.
LEMMA DoneAnnounces ==
  ASSUME CommandsOK, NEW u \in Users, Done(u, TRUE), scmd[u].at = "write"
  PROVE  AnnouncedInd'
<1>1. PICK event : event = TRUE
  OBVIOUS
<1>2. scmd'[u].at = "dispatch"
  BY <1>1, DoneStep
<1> QED
  BY <1>2 DEF AnnouncedInd, Quiet

\* The writes.
LEMMA WriteAnnounces ==
  ASSUME Shape, Shape', AnnouncedInd, NEW u \in Users, WriteCommand(u)
  PROVE  AnnouncedInd'
<1>0. CommandsOK /\ scmd[u].at = "write" /\ UNCHANGED <<clock, tick, hubVars, since, forgot>>
  BY DEF Shape, WriteCommand, WriteCreateSchedule, WriteUpdateSchedule, WriteDeleteSchedule,
         WriteExempt, WriteRevoke, WriteRoom, Writing
<1>1. CASE Failed(u)
  BY <1>0, <1>1, FailedAnnounces
<1>2. CASE Done(u, TRUE)
  BY <1>0, <1>2, DoneAnnounces
<1>3. CASE WriteRevoke(u)
  <2>1. PICK event : event = ({x \in exempt : x.no # scmd[u].read} # exempt)
    OBVIOUS
  <2>2. /\ UNCHANGED <<room, row>> /\ Done(u, event)
        /\ exempt' = {x \in exempt : x.no # scmd[u].read}
    BY <1>3, <2>1 DEF WriteRevoke
  <2>3. /\ event => scmd'[u].at = "dispatch"
        /\ \A v \in Users : scmd'[v].at # "dispatch" => scmd[v].at # "dispatch"
    BY <1>0, <2>2, DoneStep
  <2>4. CASE exempt' = exempt
    <3>1. Quiet' => Quiet
      BY <1>0, <2>2, <2>3, <2>4 DEF Quiet
    <3>2. clock <= clock'
      BY <1>0, Times
    <3> QED
      BY <1>0, <2>2, <2>4, <3>1, <3>2, NothingMoves
  <2>5. CASE exempt' # exempt
    <3>1. scmd'[u].at = "dispatch"
      BY <2>1, <2>2, <2>3, <2>5
    <3> QED
      BY <3>1 DEF AnnouncedInd, Quiet
  <2> QED
    BY <2>4, <2>5
<1>4. WriteRevoke(u) \/ Failed(u) \/ Done(u, TRUE)
  BY DEF WriteCommand, WriteCreateSchedule, WriteUpdateSchedule, WriteDeleteSchedule,
         WriteExempt, WriteRoom
<1> QED
  BY <1>1, <1>2, <1>3, <1>4

\* The reads.
LEMMA BeginAnnounces ==
  ASSUME Shape, Shape', AnnouncedInd, NEW u \in Users, BeginCommand(u)
  PROVE  AnnouncedInd'
<1>1. PICK op, c : ReadsThen(u, op, c)
  BY DEF BeginCommand, BeginCreateSchedule, BeginUpdateSchedule, BeginDeleteSchedule,
         BeginExempt, BeginOperational, BeginRevoke, BeginSetActive, BeginSetDefault
<1>2. scmd[u].at = "idle"
  BY DEF BeginCommand
<1>3. /\ UNCHANGED <<clock, room, row, exempt, tick, hubVars, since, forgot>>
      /\ scmd' = [scmd EXCEPT ![u] = [op |-> op, at |-> "write", read |-> c]]
  BY <1>1 DEF ReadsThen
<1>4. \A v \in Users : scmd'[v].at # "dispatch" => scmd[v].at # "dispatch"
  BY <1>2, <1>3 DEF Shape, CommandsOK
<1>5. Quiet' => Quiet
  BY <1>3, <1>4 DEF Quiet
<1>6. clock <= clock'
  BY <1>3, Times
<1> QED
  BY <1>3, <1>5, <1>6, NothingMoves

\* The tick reads the boundaries of its minute.
LEMMA BoundaryAnnounces ==
  ASSUME Shape, Shape', AnnouncedInd, TickBoundary
  PROVE  AnnouncedInd'
<1> SUFFICES ASSUME Quiet' PROVE IndexedInTime' /\ TickKnows'
  BY DEF AnnouncedInd
<1>1. PICK found : found = HasBoundary(2 * Minute(clock))
  OBVIOUS
<1>2. /\ UNCHANGED <<clock, room, row, exempt, scmd, hubVars, since, forgot>>
      /\ tick.at = "idle"
      /\ tick' = [at |-> "clean", now |-> clock, found |-> found]
  BY <1>1 DEF TickBoundary
<1>3. tick'.at = "clean" /\ tick'.now = clock /\ tick'.found = found
  BY <1>2
<1>4. Quiet
  BY <1>2 DEF Quiet
<1>5. IndexedInTime'
  BY <1>2, <1>4, ViewSame DEF AnnouncedInd, IndexedInTime, hubVars
<1>6. TickKnows'
  <2>1. ~tick'.found => ~HasBoundary(2 * Minute(clock))'
    BY <1>1, <1>2, <1>3, ViewSame
  <2> QED
    BY <1>2, <1>3, <2>1 DEF TickKnows, Minute
<1> QED
  BY <1>5, <1>6

\* The tick deletes what has expired.
LEMMA CleanAnnounces ==
  ASSUME Shape, Shape', AnnouncedInd, NEW fails \in BOOLEAN, TickClean(fails)
  PROVE  AnnouncedInd'
<1> SUFFICES ASSUME Quiet' PROVE IndexedInTime' /\ TickKnows'
  BY DEF AnnouncedInd
<1>0. /\ UNCHANGED <<clock, room, row, scmd, hubVars, since, forgot>>
      /\ tick.at = "clean"
      /\ tick = [at |-> tick.at, now |-> tick.now, found |-> tick.found]
  BY DEF TickClean, Shape, TimesOK
<1>1. Quiet
  BY <1>0 DEF Quiet
<1>2. IndexedInTime /\ TickKnows
  BY <1>1 DEF AnnouncedInd
<1>3. CASE fails
  <2>1. exempt' = exempt /\ tick' = [tick EXCEPT !.at = "failedEmit"]
    BY <1>3 DEF TickClean
  <2>2. tick'.at = "failedEmit"
    BY <1>0, <2>1
  <2>3. IndexedInTime'
    BY <1>0, <1>2, <2>1, ViewSame DEF IndexedInTime, hubVars
  <2>4. TickKnows'
    BY <2>2 DEF TickKnows
  <2> QED
    BY <2>3, <2>4
<1>4. CASE ~fails
  <2>1. PICK kept : kept = {x \in exempt : ~Expired(x)}
    OBVIOUS
  <2>2. PICK found : found = (tick.found \/ kept # exempt)
    OBVIOUS
  <2>3. exempt' = kept /\ tick' = [tick EXCEPT !.at = "emit", !.found = found]
    BY <1>4, <2>1, <2>2 DEF TickClean
  <2>4. tick'.at = "emit" /\ tick'.now = tick.now /\ tick'.found = found
    BY <1>0, <2>3
  <2>5. ~found
    BY <2>4 DEF Quiet
  <2>6. exempt' = exempt /\ ~tick.found
    BY <2>2, <2>3, <2>5
  <2>7. IndexedInTime'
    BY <1>0, <1>2, <2>6, ViewSame DEF IndexedInTime, hubVars
  <2>8. \A x \in exempt' : x.expires > tick'.now
    <3>1. \A x \in exempt : x.expires \in Nat /\ ~(x.expires <= tick.now)
      BY <2>1, <2>3, <2>6 DEF Expired, Shape, TablesOK, Exemption
    <3>2. tick.now \in Nat
      BY Times
    <3> QED
      BY <2>4, <2>6, <3>1, <3>2
  <2>9. since < tick.now => ~HasBoundary(2 * Minute(tick.now))
    BY <1>0, <1>2, <2>6 DEF TickKnows
  <2>10. since' < tick'.now => ~HasBoundary(2 * Minute(tick.now))'
    BY <1>0, <2>4, <2>6, <2>9, ViewSame DEF Minute
  <2>11. TickKnows'
    BY <2>4, <2>8, <2>10 DEF TickKnows, Minute
  <2> QED
    BY <2>7, <2>11
<1> QED
  BY <1>3, <1>4

\* The tick announces what it found, or counts its minute as complete.
LEMMA EmitAnnounces ==
  ASSUME Shape, Shape', AnnouncedInd, TickEmit
  PROVE  AnnouncedInd'
<1>0. /\ UNCHANGED <<clock, room, row, exempt, scmd>>
      /\ tick' = NoTick
  BY DEF TickEmit
<1>1. CASE tick.found
  <2>1. PICK t \in {clock, tick.now} : Announce(t)
    BY <1>1 DEF TickEmit
  <2> QED
    BY <1>0, <2>1, Announced
<1>2. CASE ~tick.found
  <2> SUFFICES ASSUME Quiet' PROVE IndexedInTime' /\ TickKnows'
    BY DEF AnnouncedInd
  <2>1. /\ UNCHANGED <<hubVars, forgot>>
        /\ since' = IF tick.at = "emit" /\ Minute(tick.now) <= Minute(since) + 1
                    THEN MaxOf(since, tick.now) ELSE since
    BY <1>2 DEF TickEmit
  <2>2. Quiet
    BY <1>0, <1>2, <2>1 DEF Quiet
  <2>3. IndexedInTime /\ TickKnows
    BY <2>2 DEF AnnouncedInd
  <2>4. PICK t \in since .. clock : indexed \in HubGroups(t) /\ (GrantsGroup(t) => granted)
    BY <2>3 DEF IndexedInTime
  <2>5. /\ clock \in Nat /\ since \in Nat /\ tick.now \in Nat /\ t \in Nat
        /\ since <= clock /\ tick.now <= clock /\ since <= t /\ t <= clock
    BY <2>4, Times
  <2>6. PICK s \in since' .. clock : indexed \in HubGroups(s) /\ (GrantsGroup(s) => granted)
    <3>1. CASE since' <= t
      <4>1. since' \in Nat
        BY SchedulesAssumption DEF Shape, TimesOK
      <4>2. t \in since' .. clock
        BY <2>5, <3>1, <4>1
      <4> QED
        BY <2>4, <4>2
    <3>2. CASE ~(since' <= t)
      <4>1. /\ tick.at = "emit" /\ Minute(tick.now) <= Minute(since) + 1
            /\ since' = tick.now /\ since < tick.now /\ t <= tick.now
        BY <2>1, <2>5, <3>2 DEF MaxOf
      <4>2. /\ ~HasBoundary(2 * Minute(tick.now))
            /\ \A x \in exempt : x.expires > tick.now
        BY <1>2, <2>3, <4>1 DEF TickKnows
      <4>3. Minute(tick.now) <= Minute(t) + 1
        BY <2>5, <4>1 DEF Minute
      <4>4. HubGroups(t) = HubGroups(tick.now) /\ (GrantsGroup(t) <=> GrantsGroup(tick.now))
        BY <2>5, <4>1, <4>2, <4>3, ViewHolds DEF Shape
      <4>5. tick.now \in since' .. clock
        BY <2>5, <4>1
      <4> QED
        BY <2>4, <4>4, <4>5
    <3> QED
      BY <3>1, <3>2
  <2>7. IndexedInTime'
    BY <1>0, <2>1, <2>6, ViewSame DEF IndexedInTime, hubVars
  <2>8. TickKnows'
    BY <1>0 DEF TickKnows, NoTick
  <2> QED
    BY <2>7, <2>8
<1> QED
  BY <1>1, <1>2

\* The tick dies.
LEMMA FailingTickAnnounces ==
  ASSUME Shape, Shape', AnnouncedInd, TickFails
  PROVE  AnnouncedInd'
<1> SUFFICES ASSUME Quiet' PROVE IndexedInTime' /\ TickKnows'
  BY DEF AnnouncedInd
<1>1. /\ UNCHANGED <<clock, room, row, exempt, scmd, hubVars, since>>
      /\ tick' = NoTick
      /\ forgot' = (forgot \/ (tick.at = "emit" /\ tick.found))
  BY DEF TickFails
<1>2. Quiet
  BY <1>1 DEF Quiet
<1>3. IndexedInTime'
  BY <1>1, <1>2, ViewSame DEF AnnouncedInd, IndexedInTime, hubVars
<1>4. TickKnows'
  BY <1>1 DEF TickKnows, NoTick
<1> QED
  BY <1>3, <1>4

\* Every step keeps it.
LEMMA AnnouncedStep ==
  Shape /\ Shape' /\ AnnouncedInd /\ [CSNext]_csVars => AnnouncedInd'
<1> SUFFICES ASSUME Shape, Shape', AnnouncedInd, [CSNext]_csVars PROVE AnnouncedInd'
  OBVIOUS
<1>1. ASSUME NEW u \in Users, DispatchEvent(u) PROVE AnnouncedInd'
  <2>1. /\ UNCHANGED <<clock, room, row, exempt, tick>>
        /\ Announce(clock)
    BY <1>1 DEF DispatchEvent
  <2> QED
    BY <2>1, Announced
<1>2. ASSUME NEW u \in Users, DeleteClassroom(u) PROVE AnnouncedInd'
  BY <1>2 DEF DeleteClassroom, AnnouncedInd, Quiet
<1>3. CASE TimePasses
  <2>1. /\ UNCHANGED <<room, row, exempt, scmd, tick, hubVars, since, forgot>>
        /\ clock <= clock'
    BY <1>3, Times DEF TimePasses
  <2>2. Quiet' => Quiet
    BY <2>1 DEF Quiet
  <2> QED
    BY <2>1, <2>2, NothingMoves
<1>4. CASE UNCHANGED csVars
  <2>1. /\ UNCHANGED <<room, row, exempt, scmd, tick, hubVars, since, forgot>>
        /\ clock <= clock'
    BY <1>4, Times DEF csVars
  <2>2. Quiet' => Quiet
    BY <2>1 DEF Quiet
  <2> QED
    BY <2>1, <2>2, NothingMoves
<1> QED
  BY <1>1, <1>2, <1>3, <1>4, BeginAnnounces, WriteAnnounces, BoundaryAnnounces,
     CleanAnnounces, EmitAnnounces, FailingTickAnnounces
  DEF CSNext

\* For any schedules, exemptions, users and failures: with no event and no tick
\* under way, the hub has the machine where it belongs at some time since the
\* last event or the last tick of an unbroken series, and where the hub's group
\* is the machine's own, the machine enforces the policy of that time
\* (emitScheduleChangeDelivery of schedule-change-delivery.service.ts,
\* publishClassroomChangedLocal of api/src/lib/sse-hub.ts).
THEOREM PolicyChangesAreAnnounced == CSSpec => []PolicyIsAnnounced
<1>1. CSInit => AnnouncedInd
  <2> SUFFICES ASSUME CSInit, Quiet PROVE IndexedInTime /\ TickKnows
    BY DEF AnnouncedInd
  <2>1. /\ clock = 0 /\ since = 0 /\ tick = NoTick
        /\ told \in Policies(0) /\ indexed = told
        /\ exempt = {} /\ room # Gone
    BY DEF CSInit, Quiet
  <2>2. ~GrantsGroup(0)
    BY <2>1 DEF GrantsGroup, ActiveExemptions
  <2>3. indexed \in HubGroups(0)
    BY <2>1, <2>2, HubKnowsPolicy
  <2>4. 0 \in since .. clock
    BY <2>1
  <2>a. IndexedInTime
    BY <2>2, <2>3, <2>4 DEF IndexedInTime
  <2>b. TickKnows
    BY <2>1 DEF TickKnows, NoTick
  <2> QED
    BY <2>a, <2>b
<1>2. CSInd => Shape
  BY DEF CSInd
<1>3. AnnouncedInd => PolicyIsAnnounced
  <2> SUFFICES ASSUME AnnouncedInd, room # Gone, ~forgot, tick.at # "emit",
                      \A u \in Users : scmd[u].at # "dispatch"
               PROVE  \E t \in since .. clock :
                        indexed \in HubGroups(t) /\ (HubIsRight => told \in Policies(t))
    BY DEF PolicyIsAnnounced
  <2>1. PICK t \in since .. clock : indexed \in HubGroups(t) /\ (GrantsGroup(t) => granted)
    BY DEF AnnouncedInd, Quiet, IndexedInTime
  <2>2. ASSUME HubIsRight PROVE told \in Policies(t)
    BY <2>1, <2>2, HubKnowsPolicy DEF HubIsRight
  <2> QED
    BY <2>1, <2>2
<1> QED
  BY <1>1, <1>2, <1>3, AnnouncedStep, CSInvariant, PTL DEF CSSpec

=============================================================================
