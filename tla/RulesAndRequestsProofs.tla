----------------------- MODULE RulesAndRequestsProofs -----------------------
(***************************************************************************)
(* Proofs about the commands on groups, rules and requests: foreign keys   *)
(* hold, every change of an export is announced, a rejection is final and  *)
(* an approval writes rule and status together or not at all.              *)
(***************************************************************************)
EXTENDS RulesAndRequests, TLAPS

Places == {"idle", "write", "reread", "commit", "roles", "dispatch"}

\* A rule that some command read stays what it was: its row is there or gone,
\* and a row keeps its group for ever.
WasRuleOf(i, gs) ==
  /\ i \in RuleIds /\ rule[i] # None
  /\ rule[i] # Gone => rule[i].group \in gs

\* What a command read, by its kind.
ReadOK(u) ==
  LET op == cmd[u].op
      c == cmd[u].read
  IN
  /\ op \in {"create", "enable", "update", "createGroup", "clone", "updateGroup",
             "deleteGroup", "request", "approve"} => c.group \in Groups
  /\ op = "create" => c.type \in Types /\ c.values \subseteq Domains
  /\ op \in {"delete", "bulkEnable"} => c.groups \subseteq Groups
  /\ op = "delete" => \A i \in c.ids : WasRuleOf(i, Groups)
  /\ op = "bulkEnable" => \A i \in c.ids : WasRuleOf(i, c.groups)
  /\ op \in {"enable", "update"} => WasRuleOf(c.id, {c.group})
  /\ op \in {"enable", "bulkEnable"} => c.enabled \in BOOLEAN
  /\ op = "update" => c.value \in Domains
  /\ op \in {"updateGroup", "toggle"} => c.to \in {"on", "off"}
  /\ op \in {"request", "approve"} => c.domain \in Domains
  /\ op \in {"approve", "reject", "deleteRequest"} => c.id \in RequestIds

\* Where a command is, by its kind.
PlaceOK(u) ==
  LET c == cmd[u] IN
  /\ c = [op |-> c.op, at |-> c.at, events |-> c.events, read |-> c.read]
  /\ c.at = "idle" => c.op = "none"
  /\ c.at = "roles" => c.op = "deleteGroup"
  /\ c.at = "commit" => c.op = "approve" /\ c.events \subseteq {c.read.group}
  /\ c.at = "reread" /\ c.op # "toggle" =>
       c.op = "updateGroup" /\ c.events \subseteq {c.read.group}

\* The shape of the commands and of the history.
CommandsOK ==
  /\ cmd = [u \in Users |-> cmd[u]]
  /\ told = [g \in Groups |-> told[g]]
  /\ \A u \in Users : ReadOK(u) /\ PlaceOK(u)

\* The inductive invariant.
RRInd == RRTypeOK /\ CommandsOK /\ ChangesAreAnnounced

-----------------------------------------------------------------------------
(***************************************************************************)
(* Rows.                                                                   *)
(***************************************************************************)

\* A row is a row: not None, not Gone, and with the fields of its table.
LEMMA RowFacts ==
  /\ None # Gone /\ None \notin {"on", "off"} /\ Gone \notin {"on", "off"}
  /\ \A x \in RuleRow : x # None /\ x # Gone /\ x.group \in Groups /\ x.type \in Types
                        /\ x.value \in Domains
  /\ \A x \in RequestRow : x # None /\ x # Gone /\ x.group \in Groups
BY RulesAssumption DEF RuleRow, RequestRow

\* Changing one column of a rule.
LEMMA RuleColumns ==
  ASSUME NEW x \in RuleRow
  PROVE  /\ \A e \in BOOLEAN : /\ [x EXCEPT !.enabled = e] \in RuleRow
                               /\ [x EXCEPT !.enabled = e].group = x.group
         /\ \A v \in Domains : /\ [x EXCEPT !.value = v] \in RuleRow
                               /\ [x EXCEPT !.value = v].group = x.group
         /\ \A h \in Groups : /\ [x EXCEPT !.group = h, !.enabled = TRUE] \in RuleRow
                              /\ [x EXCEPT !.group = h, !.enabled = TRUE].group = h
<1>1. x = [group |-> x.group, type |-> x.type, value |-> x.value, enabled |-> x.enabled]
  BY DEF RuleRow
<1>2. \A e \in BOOLEAN : [x EXCEPT !.enabled = e] =
        [group |-> x.group, type |-> x.type, value |-> x.value, enabled |-> e]
  BY <1>1
<1>3. \A v \in Domains : [x EXCEPT !.value = v] =
        [group |-> x.group, type |-> x.type, value |-> v, enabled |-> x.enabled]
  BY <1>1
<1>4. \A h \in Groups : [x EXCEPT !.group = h, !.enabled = TRUE] =
        [group |-> h, type |-> x.type, value |-> x.value, enabled |-> TRUE]
  <2> SUFFICES ASSUME NEW h \in Groups
               PROVE  [x EXCEPT !.group = h, !.enabled = TRUE] =
                        [group |-> h, type |-> x.type, value |-> x.value, enabled |-> TRUE]
    OBVIOUS
  <2>1. [x EXCEPT !.group = h] =
          [group |-> h, type |-> x.type, value |-> x.value, enabled |-> x.enabled]
    BY <1>1
  <2>2. PICK y : y = [group |-> h, type |-> x.type, value |-> x.value, enabled |-> x.enabled]
    OBVIOUS
  <2>3. [y EXCEPT !.enabled = TRUE] =
          [group |-> h, type |-> x.type, value |-> x.value, enabled |-> TRUE]
    <3>1. \A e \in BOOLEAN : [y EXCEPT !.enabled = e] =
                              [group |-> h, type |-> x.type, value |-> x.value, enabled |-> e]
      BY <2>2
    <3> QED
      BY <3>1, Zenon
  <2>4. [x EXCEPT !.group = h, !.enabled = TRUE] = [[x EXCEPT !.group = h] EXCEPT !.enabled = TRUE]
    OBVIOUS
  <2> QED
    BY <2>1, <2>2, <2>3, <2>4
<1> QED
  BY <1>2, <1>3, <1>4 DEF RuleRow

\* Changing the status of a request.
LEMMA RequestColumns ==
  ASSUME NEW x \in RequestRow, NEW st \in {"pending", "approved", "rejected"}
  PROVE  /\ [x EXCEPT !.status = st] \in RequestRow
         /\ [x EXCEPT !.status = st].group = x.group
         /\ [x EXCEPT !.status = st].status = st
<1>1. x = [group |-> x.group, domain |-> x.domain, status |-> x.status]
  BY DEF RequestRow
<1>2. [x EXCEPT !.status = st] = [group |-> x.group, domain |-> x.domain, status |-> st]
  BY <1>1
<1> QED
  BY <1>2 DEF RequestRow

\* The types, and which indices have rows.
LEMMA Tables ==
  ASSUME RRInd
  PROVE  /\ rule \in [RuleIds -> {None, Gone} \cup RuleRow]
         /\ request \in [RequestIds -> {None, Gone} \cup RequestRow]
         /\ group \in [Groups -> {None, "on", "off", Gone}]
         /\ roles \subseteq Groups /\ stale \subseteq Groups
         /\ Rows(rule) = {i \in RuleIds : rule[i] \in RuleRow}
         /\ Rows(request) = {r \in RequestIds : request[r] \in RequestRow}
         /\ \A i \in RuleIds : rule[i] \in RuleRow => Exists(rule[i].group)
         /\ \A r \in RequestIds : request[r] \in RequestRow => Exists(request[r].group)
         /\ cmd = [u \in Users |-> cmd[u]]
         /\ told = [g \in Groups |-> told[g]]
<1>1. /\ rule \in [RuleIds -> {None, Gone} \cup RuleRow]
      /\ request \in [RequestIds -> {None, Gone} \cup RequestRow]
      /\ group \in [Groups -> {None, "on", "off", Gone}]
      /\ roles \subseteq Groups /\ stale \subseteq Groups
      /\ \A i \in Rows(rule) : Exists(rule[i].group)
      /\ \A r \in Rows(request) : Exists(request[r].group)
      /\ cmd = [u \in Users |-> cmd[u]]
      /\ told = [g \in Groups |-> told[g]]
  BY DEF RRInd, RRTypeOK, CommandsOK
<1>2. Rows(rule) = {i \in RuleIds : rule[i] \in RuleRow}
  BY <1>1, RowFacts DEF Rows
<1>3. Rows(request) = {r \in RequestIds : request[r] \in RequestRow}
  BY <1>1, RowFacts DEF Rows
<1> QED
  BY <1>1, <1>2, <1>3

\* The same two facts about the tables after a step.
LEMMA TablesNext ==
  /\ rule' \in [RuleIds -> {None, Gone} \cup RuleRow] =>
       Rows(rule)' = {i \in RuleIds : rule'[i] \in RuleRow}
  /\ request' \in [RequestIds -> {None, Gone} \cup RequestRow] =>
       Rows(request)' = {r \in RequestIds : request'[r] \in RequestRow}
BY RowFacts DEF Rows

\* A group's export depends on its row and on its rules alone.
LEMMA SameExport ==
  ASSUME RRInd, NEW g \in Groups,
         rule' \in [RuleIds -> {None, Gone} \cup RuleRow],
         group'[g] = group[g],
         \A i \in RuleIds :
           \/ rule'[i] = rule[i]
           \/ /\ rule[i] \in RuleRow => rule[i].group # g
              /\ rule'[i] \in RuleRow => rule'[i].group # g
  PROVE  Export(g)' = Export(g)
<1>1. RulesOf(g) = {i \in RuleIds : rule[i] \in RuleRow /\ rule[i].group = g}
  BY Tables DEF RulesOf
<1>2. RulesOf(g)' = {i \in RuleIds : rule'[i] \in RuleRow /\ rule'[i].group = g}
  BY TablesNext DEF RulesOf
<1>3. RulesOf(g)' = RulesOf(g) /\ \A i \in RulesOf(g) : rule'[i] = rule[i]
  BY <1>1, <1>2
<1>4. {j \in RulesOf(g)' : rule'[j].enabled} = {j \in RulesOf(g) : rule[j].enabled}
  BY <1>3
<1>5. {<<rule'[i].type, rule'[i].value>> : i \in {j \in RulesOf(g)' : rule'[j].enabled}}
        = {<<rule[i].type, rule[i].value>> : i \in {j \in RulesOf(g) : rule[j].enabled}}
  BY <1>3, <1>4
<1> QED
  BY <1>5 DEF Export

-----------------------------------------------------------------------------
(***************************************************************************)
(* Commands.                                                               *)
(***************************************************************************)

\* A rule that was inserted is not inserted again, and keeps its group.
RulesKeepGroups ==
  \A i \in RuleIds : rule[i] # None =>
    /\ rule'[i] # None
    /\ rule'[i] # Gone => rule[i] # Gone /\ rule'[i].group = rule[i].group

\* Only the command of user u changes.
OnlyCommandOf(u) ==
  /\ cmd' = [v \in Users |-> cmd'[v]]
  /\ \A v \in Users : v # u => cmd'[v] = cmd[v]

\* The command of user u ends with these events to dispatch.
EndsWith(u, gs) ==
  /\ OnlyCommandOf(u)
  /\ gs = {} => cmd'[u] = NoCommand
  /\ gs # {} => cmd'[u] = [op |-> cmd[u].op, at |-> "dispatch", events |-> gs,
                           read |-> cmd[u].read]

\* One component of cmd is assigned.
LEMMA Assigned ==
  ASSUME RRInd, NEW u \in Users, NEW x, cmd' = [cmd EXCEPT ![u] = x]
  PROVE  OnlyCommandOf(u) /\ cmd'[u] = x
<1>1. cmd = [v \in Users |-> cmd[v]]
  BY Tables
<1> QED
  BY <1>1 DEF OnlyCommandOf

\* A command's record has its four fields.
LEMMA Fields ==
  ASSUME RRInd, NEW u \in Users
  PROVE  cmd[u] = [op |-> cmd[u].op, at |-> cmd[u].at, events |-> cmd[u].events,
                   read |-> cmd[u].read]
BY DEF RRInd, CommandsOK, PlaceOK

\* The transaction committed.
LEMMA CommittedEnds ==
  ASSUME RRInd, NEW u \in Users, NEW gs, Committed(u, gs)
  PROVE  EndsWith(u, gs)
<1>1. PICK c, o, e, r : c = cmd[u] /\ o = c.op /\ r = c.read /\ e = c.events
  OBVIOUS
<1>2. c = [op |-> o, at |-> c.at, events |-> e, read |-> r]
  BY <1>1, Fields
<1>3. [c EXCEPT !.at = "dispatch", !.events = gs] =
        [op |-> o, at |-> "dispatch", events |-> gs, read |-> r]
  <2>1. PICK d : d = [c EXCEPT !.at = "dispatch"]
    OBVIOUS
  <2>2. d = [op |-> o, at |-> "dispatch", events |-> e, read |-> r]
    BY <1>2, <2>1
  <2>3. [d EXCEPT !.events = gs] = [op |-> o, at |-> "dispatch", events |-> gs, read |-> r]
    BY <2>2
  <2> QED
    BY <2>1, <2>3
<1>4. CASE gs = {}
  BY <1>4, Assigned DEF Committed, EndsWith
<1>5. CASE gs # {}
  <2>1. cmd' = [cmd EXCEPT ![u] = [c EXCEPT !.at = "dispatch", !.events = gs]]
    BY <1>1, <1>5 DEF Committed
  <2>2. OnlyCommandOf(u) /\ cmd'[u] = [op |-> o, at |-> "dispatch", events |-> gs, read |-> r]
    BY <1>3, <2>1, Assigned
  <2> QED
    BY <1>1, <1>5, <2>2 DEF EndsWith
<1> QED
  BY <1>4, <1>5

\* What a command read stays true while rules keep their groups.
LEMMA ReadsStay ==
  ASSUME RRInd, RulesKeepGroups, NEW v \in Users,
         cmd'[v] = NoCommand \/ (cmd'[v].op = cmd[v].op /\ cmd'[v].read = cmd[v].read)
  PROVE  ReadOK(v)'
<1>1. CASE cmd'[v] = NoCommand
  BY <1>1 DEF ReadOK, NoCommand
<1>2. CASE cmd'[v].op = cmd[v].op /\ cmd'[v].read = cmd[v].read
  <2>1. ReadOK(v)
    BY DEF RRInd, CommandsOK
  <2>2. ASSUME NEW i, NEW gs, WasRuleOf(i, gs)
        PROVE  i \in RuleIds /\ rule'[i] # None /\ (rule'[i] # Gone => rule'[i].group \in gs)
    BY <2>2 DEF WasRuleOf, RulesKeepGroups
  <2> QED
    BY <1>2, <2>1, <2>2 DEF ReadOK, WasRuleOf
<1> QED
  BY <1>1, <1>2

\* The types after a step, when the command of u has moved on.
LEMMA TypesAfter ==
  ASSUME RRInd, NEW u \in Users, OnlyCommandOf(u), RulesKeepGroups,
         ReadOK(u)', PlaceOK(u)',
         cmd'[u].at \in Places,
         cmd'[u].events \subseteq Groups,
         rule' \in [RuleIds -> {None, Gone} \cup RuleRow],
         request' \in [RequestIds -> {None, Gone} \cup RequestRow],
         group' \in [Groups -> {None, "on", "off", Gone}],
         roles' \subseteq Groups, stale' \subseteq Groups, begun' \in 0 .. MaxCommands,
         told' = [g \in Groups |-> told'[g]],
         \A i \in RuleIds : rule'[i] \in RuleRow => group'[rule'[i].group] \in {"on", "off"},
         \A r \in RequestIds : request'[r] \in RequestRow =>
                                 group'[request'[r].group] \in {"on", "off"}
  PROVE  RRTypeOK' /\ CommandsOK'
<1>1. ASSUME NEW v \in Users, v # u
      PROVE  /\ ReadOK(v)' /\ PlaceOK(v)'
             /\ cmd'[v].at \in Places
             /\ cmd'[v].events \subseteq Groups
  <2>1. cmd'[v] = cmd[v]
    BY <1>1 DEF OnlyCommandOf
  <2>2. ReadOK(v)'
    BY <2>1, ReadsStay
  <2> QED
    BY <2>1, <2>2 DEF RRInd, RRTypeOK, CommandsOK, PlaceOK, Places
<1>2. CommandsOK'
  BY <1>1 DEF CommandsOK, OnlyCommandOf
<1>3. RRTypeOK'
  BY <1>1, TablesNext DEF RRTypeOK, Exists, Places
<1> QED
  BY <1>2, <1>3

\* The command of u is neither dispatching nor cleaning roles up.
Writing(u) == cmd[u].at \in {"write", "commit"}

\* A write: every group whose export it changes has an event to come, or is known
\* to be stale.
LEMMA WriteMoves ==
  ASSUME RRInd, NEW u \in Users, Writing(u), OnlyCommandOf(u),
         cmd'[u] = NoCommand \/ (cmd'[u].op = cmd[u].op /\ cmd'[u].read = cmd[u].read),
         PlaceOK(u)', cmd'[u].at \in Places, cmd'[u].events \subseteq Groups,
         RulesKeepGroups,
         rule' \in [RuleIds -> {None, Gone} \cup RuleRow],
         request' \in [RequestIds -> {None, Gone} \cup RequestRow],
         group' \in [Groups -> {None, "on", "off", Gone}],
         \A g \in Groups : Exists(g) => group'[g] \in {"on", "off"},
         \A i \in RuleIds : rule'[i] \in RuleRow => group'[rule'[i].group] \in {"on", "off"},
         \A r \in RequestIds : request'[r] \in RequestRow =>
                                 group'[request'[r].group] \in {"on", "off"},
         stale \subseteq stale', stale' \subseteq Groups,
         UNCHANGED <<roles, told, begun>>,
         \A g \in Groups : Announcing(g)' \/ g \in stale' \/ Export(g)' = Export(g)
  PROVE  RRInd'
<1>1. ReadOK(u)'
  BY ReadsStay
<1>2. begun' \in 0 .. MaxCommands /\ roles' \subseteq Groups /\ told' = [g \in Groups |-> told'[g]]
  BY Tables DEF RRInd, RRTypeOK
<1>3. RRTypeOK' /\ CommandsOK'
  BY <1>1, <1>2, TypesAfter
<1>4. ASSUME NEW g \in Groups, g \notin stale', ~Announcing(g)'
      PROVE  told'[g] = Export(g)'
  <2>1. Export(g)' = Export(g) /\ g \notin stale
    BY <1>4
  <2>2. ~Announcing(g)
    BY <1>4 DEF Announcing, OnlyCommandOf, Writing, Exists
  <2> QED
    BY <2>1, <2>2 DEF RRInd, ChangesAreAnnounced
<1>5. ChangesAreAnnounced'
  BY <1>4 DEF ChangesAreAnnounced
<1> QED
  BY <1>3, <1>5 DEF RRInd

\* A write that ends with its events.
LEMMA WriteStep ==
  ASSUME RRInd, NEW u \in Users, NEW gs \in SUBSET Groups, Writing(u), EndsWith(u, gs),
         RulesKeepGroups,
         rule' \in [RuleIds -> {None, Gone} \cup RuleRow],
         request' \in [RequestIds -> {None, Gone} \cup RequestRow],
         group' \in [Groups -> {None, "on", "off", Gone}],
         \A g \in Groups : Exists(g) => group'[g] \in {"on", "off"},
         \A i \in RuleIds : rule'[i] \in RuleRow => group'[rule'[i].group] \in {"on", "off"},
         \A r \in RequestIds : request'[r] \in RequestRow =>
                                 group'[request'[r].group] \in {"on", "off"},
         stale \subseteq stale', stale' \subseteq Groups,
         UNCHANGED <<roles, told, begun>>,
         \A g \in Groups : g \in gs \/ g \in stale' \/ Export(g)' = Export(g)
  PROVE  RRInd'
<1>1. OnlyCommandOf(u)
  BY DEF EndsWith
<1>2. cmd'[u] = NoCommand \/ (cmd'[u].op = cmd[u].op /\ cmd'[u].read = cmd[u].read)
  BY DEF EndsWith
<1>3. PlaceOK(u)' /\ cmd'[u].at \in Places /\ cmd'[u].events \subseteq Groups
  <2>1. CASE gs = {}
    BY <2>1 DEF EndsWith, NoCommand, PlaceOK, Places
  <2>2. CASE gs # {}
    BY <2>2 DEF EndsWith, PlaceOK, Places
  <2> QED
    BY <2>1, <2>2
<1>4. \A g \in gs : Announcing(g)'
  BY DEF Announcing, EndsWith
<1>5. \A g \in Groups : Announcing(g)' \/ g \in stale' \/ Export(g)' = Export(g)
  BY <1>4
<1> QED
  BY <1>1, <1>2, <1>3, <1>5, WriteMoves

\* A command that is refused changes nothing.
LEMMA RefusedStep ==
  ASSUME RRInd, NEW u \in Users, Writing(u), Refused(u), UNCHANGED <<told, begun>>
  PROVE  RRInd'
<1>1. UNCHANGED <<group, rule, request, roles, stale>>
  BY DEF Refused
<1>2. EndsWith(u, {})
  BY Assigned DEF Refused, EndsWith
<1>3. \A g \in Groups : Export(g)' = Export(g)
  BY <1>1, Tables, SameExport
<1>4. RulesKeepGroups
  BY <1>1, Tables, RowFacts DEF RulesKeepGroups
<1>5. \A g \in Groups : Exists(g) => group'[g] \in {"on", "off"}
  BY <1>1 DEF Exists
<1> QED
  BY <1>1, <1>2, <1>3, <1>4, <1>5, Tables, WriteStep DEF Exists

\* A write of requests, and of the rules of groups that have an event or are stale.
LEMMA RuleAndRequestStep ==
  ASSUME RRInd, NEW u \in Users, NEW gs \in SUBSET Groups, NEW hs \in SUBSET Groups,
         Writing(u), Committed(u, gs),
         rule' \in [RuleIds -> {None, Gone} \cup RuleRow],
         UNCHANGED <<group, roles, told, begun>>,
         request' \in [RequestIds -> {None, Gone} \cup RequestRow],
         \A r \in RequestIds : request'[r] \in RequestRow => Exists(request'[r].group),
         stale' = stale \cup hs,
         \A i \in RuleIds :
           \/ rule'[i] = rule[i]
           \/ rule[i] = None /\ rule'[i] \in RuleRow /\ Exists(rule'[i].group)
              /\ rule'[i].group \in gs
           \/ rule[i] \in RuleRow /\ rule[i].group \in gs \cup hs
              /\ (rule'[i] = Gone \/ (rule'[i] \in RuleRow /\ rule'[i].group = rule[i].group))
  PROVE  RRInd'
<1>1. EndsWith(u, gs)
  BY CommittedEnds
<1>2. RulesKeepGroups
  BY Tables, RowFacts DEF RulesKeepGroups
<1>3. \A i \in RuleIds : rule'[i] \in RuleRow => group'[rule'[i].group] \in {"on", "off"}
  BY Tables, RowFacts DEF Exists
<1>4. ASSUME NEW g \in Groups, g \notin gs, g \notin stale'
      PROVE  Export(g)' = Export(g)
  <2>1. \A i \in RuleIds :
           \/ rule'[i] = rule[i]
           \/ /\ rule[i] \in RuleRow => rule[i].group # g
              /\ rule'[i] \in RuleRow => rule'[i].group # g
    BY <1>4, RowFacts
  <2> QED
    BY <2>1, SameExport
<1> QED
  BY <1>1, <1>2, <1>3, <1>4, Tables, WriteStep DEF Exists

\* A write of the rules of some groups, which have an event or are stale.
LEMMA RuleStep ==
  ASSUME RRInd, NEW u \in Users, NEW gs \in SUBSET Groups, NEW hs \in SUBSET Groups,
         Writing(u), Committed(u, gs),
         rule' \in [RuleIds -> {None, Gone} \cup RuleRow],
         UNCHANGED <<group, request, roles, told, begun>>,
         stale' = stale \cup hs,
         \A i \in RuleIds :
           \/ rule'[i] = rule[i]
           \/ rule[i] = None /\ rule'[i] \in RuleRow /\ Exists(rule'[i].group)
              /\ rule'[i].group \in gs
           \/ rule[i] \in RuleRow /\ rule[i].group \in gs \cup hs
              /\ (rule'[i] = Gone \/ (rule'[i] \in RuleRow /\ rule'[i].group = rule[i].group))
  PROVE  RRInd'
<1>1. /\ request' \in [RequestIds -> {None, Gone} \cup RequestRow]
      /\ \A r \in RequestIds : request'[r] \in RequestRow => Exists(request'[r].group)
  BY Tables
<1> QED
  BY <1>1, RuleAndRequestStep

-----------------------------------------------------------------------------
(***************************************************************************)
(* The writes of rules.                                                    *)
(***************************************************************************)

\* createRule: the new rows are of the command's group, which exists.
LEMMA WriteCreateStep ==
  ASSUME RRInd, NEW u \in Users, WriteCreate(u)
  PROVE  RRInd'
<1> DEFINE c == cmd[u].read
           new == {v \in c.values : SameRule(c.group, c.type, v) = {}}
<1>1. Writing(u) /\ cmd[u].op = "create" /\ UNCHANGED <<told, begun>>
  BY DEF WriteCreate, Writes, Writing
<1>2. c.group \in Groups /\ c.type \in Types /\ c.values \subseteq Domains
  BY <1>1 DEF RRInd, CommandsOK, ReadOK
<1>3. CASE Exists(c.group) /\ new # {}
  <2>1. PICK f \in [new -> {i \in RuleIds : rule[i] = None}] :
          rule' = [i \in RuleIds |->
                    IF \E v \in new : f[v] = i
                    THEN [group |-> c.group, type |-> c.type, enabled |-> TRUE,
                          value |-> CHOOSE v \in new : f[v] = i]
                    ELSE rule[i]]
    BY <1>3 DEF WriteCreate
  <2>2. Committed(u, {c.group}) /\ UNCHANGED <<group, request, roles, stale>>
    BY <1>3 DEF WriteCreate
  <2>3. new \subseteq Domains
    BY <1>2
  <2> HIDE DEF new
  <2>4. PICK h \in Groups, t \in Types : h = c.group /\ t = c.type
    BY <1>2
  <2>5. ASSUME NEW i \in RuleIds, \E v \in new : f[v] = i
        PROVE  rule[i] = None /\ rule'[i] \in RuleRow /\ rule'[i].group = h
    <3>1. rule[i] = None
      BY <2>5
    <3>2. PICK w : w = CHOOSE v \in new : f[v] = i
      OBVIOUS
    <3>3. w \in Domains
      BY <2>3, <2>5, <3>2
    <3>4. rule'[i] = [group |-> h, type |-> t, enabled |-> TRUE, value |-> w]
      BY <2>1, <2>4, <2>5, <3>2
    <3> QED
      BY <3>1, <3>3, <3>4 DEF RuleRow
  <2>6. \A i \in RuleIds : (~\E v \in new : f[v] = i) => rule'[i] = rule[i]
    BY <2>1
  <2>7. rule' \in [RuleIds -> {None, Gone} \cup RuleRow]
    <3>1. \A i \in RuleIds : rule'[i] \in {None, Gone} \cup RuleRow
      BY <2>5, <2>6, Tables
    <3>2. rule' = [i \in RuleIds |-> rule'[i]]
      BY <2>1
    <3> QED
      BY <3>1, <3>2
  <2>8. PICK gs \in SUBSET Groups, hs \in SUBSET Groups : gs = {h} /\ hs = {}
    OBVIOUS
  <2>9. \A i \in RuleIds :
          rule'[i] = rule[i] \/ (/\ rule[i] = None /\ rule'[i] \in RuleRow
                                 /\ Exists(rule'[i].group) /\ rule'[i].group \in gs)
    BY <2>4, <2>5, <2>6, <2>8, <1>3
  <2>10. stale' = stale \cup hs /\ Committed(u, gs)
    BY <2>2, <2>4, <2>8
  <2> HIDE DEF c
  <2> QED
    BY <1>1, <2>2, <2>7, <2>9, <2>10, RuleStep
<1>4. CASE ~(Exists(c.group) /\ new # {})
  <2>1. Refused(u)
    BY <1>4 DEF WriteCreate
  <2> QED
    BY <2>1, <1>1, RefusedStep
<1> QED
  BY <1>3, <1>4

\* deleteRule: the groups of the rows that are left have an event, or are stale.
LEMMA WriteDeleteStep ==
  ASSUME RRInd, NEW u \in Users, WriteDelete(u)
  PROVE  RRInd'
<1>1. PICK c : c = cmd[u].read
  OBVIOUS
<1>2. Writing(u) /\ cmd[u].op = "delete" /\ UNCHANGED <<told, begun>>
  BY DEF WriteDelete, Writes, Writing
<1>3. c.groups \subseteq Groups /\ \A i \in c.ids : i \in RuleIds /\ rule[i] # None
  BY <1>1, <1>2 DEF RRInd, CommandsOK, ReadOK, WasRuleOf
<1>4. CASE c.ids \cap Rows(rule) # {}
  <2>1. /\ rule' = [i \in RuleIds |-> IF i \in c.ids THEN Gone ELSE rule[i]]
        /\ Committed(u, c.groups) /\ UNCHANGED <<group, request, roles>>
        /\ stale' = stale \cup ({rule[i].group : i \in c.ids \cap Rows(rule)} \ c.groups)
    BY <1>1, <1>4 DEF WriteDelete
  <2>2. rule' \in [RuleIds -> {None, Gone} \cup RuleRow]
    BY <2>1, Tables
  <2>3. PICK gs \in SUBSET Groups, hs \in SUBSET Groups :
          gs = c.groups /\ hs = {rule[i].group : i \in c.ids \cap Rows(rule)} \ c.groups
    BY <1>3, Tables, RowFacts
  <2>4. ASSUME NEW i \in RuleIds
        PROVE  \/ rule'[i] = rule[i]
               \/ rule[i] \in RuleRow /\ rule[i].group \in gs \cup hs /\ rule'[i] = Gone
    <3>1. rule[i] \in RuleRow => i \in Rows(rule)
      BY Tables
    <3>2. i \in c.ids /\ rule[i] \in RuleRow => rule[i].group \in gs \cup hs
      BY <2>3, <3>1
    <3>3. i \in c.ids => rule'[i] = Gone
      BY <2>1
    <3>4. i \notin c.ids => rule'[i] = rule[i]
      BY <2>1
    <3> QED
      BY <3>2, <3>3, <3>4, <1>3, Tables
  <2>5. stale' = stale \cup hs /\ Committed(u, gs)
    BY <2>1, <2>3
  <2> QED
    BY <1>2, <2>1, <2>2, <2>4, <2>5, RuleStep
<1>5. CASE c.ids \cap Rows(rule) = {}
  BY <1>1, <1>2, <1>5, RefusedStep DEF WriteDelete
<1> QED
  BY <1>4, <1>5

\* setRuleEnabled.
LEMMA WriteSetEnabledStep ==
  ASSUME RRInd, NEW u \in Users, WriteSetEnabled(u)
  PROVE  RRInd'
<1>1. PICK c : c = cmd[u].read
  OBVIOUS
<1>2. Writing(u) /\ cmd[u].op = "enable" /\ UNCHANGED <<told, begun>>
  BY DEF WriteSetEnabled, Writes, Writing
<1>3. c.group \in Groups /\ WasRuleOf(c.id, {c.group}) /\ c.enabled \in BOOLEAN
  BY <1>1, <1>2 DEF RRInd, CommandsOK, ReadOK
<1>4. CASE c.id \in Rows(rule)
  <2>1. /\ rule' = [rule EXCEPT ![c.id] = [rule[c.id] EXCEPT !.enabled = c.enabled]]
        /\ UNCHANGED <<group, request, roles>>
        /\ Committed(u, IF c.differs THEN {c.group} ELSE {})
        /\ stale' = IF ~c.differs /\ rule[c.id].enabled # c.enabled
                    THEN stale \cup {c.group} ELSE stale
    BY <1>1, <1>4 DEF WriteSetEnabled, Outdated
  <2>2. c.id \in RuleIds /\ rule[c.id] \in RuleRow /\ rule[c.id].group = c.group
    BY <1>3, <1>4, Tables, RowFacts DEF WasRuleOf
  <2>3. PICK w \in RuleRow : w = [rule[c.id] EXCEPT !.enabled = c.enabled] /\ w.group = c.group
    <3>1. PICK x \in RuleRow, e \in BOOLEAN : x = rule[c.id] /\ e = c.enabled
      BY <2>2, <1>3
    <3>2. [x EXCEPT !.enabled = e] \in RuleRow /\ [x EXCEPT !.enabled = e].group = x.group
      BY RuleColumns
    <3> QED
      BY <2>2, <3>1, <3>2
  <2>4. /\ rule' \in [RuleIds -> {None, Gone} \cup RuleRow]
        /\ \A i \in RuleIds : rule'[i] = IF i = c.id THEN w ELSE rule[i]
    BY <2>1, <2>2, <2>3, Tables
  <2>5. PICK gs \in SUBSET Groups : gs = IF c.differs THEN {c.group} ELSE {}
    BY <1>3
  <2>6. PICK hs \in SUBSET Groups :
          hs = IF ~c.differs /\ rule[c.id].enabled # c.enabled THEN {c.group} ELSE {}
    BY <1>3
  <2>7. stale' = stale \cup hs
    BY <2>1, <2>6
  <2>8. ~c.differs /\ rule[c.id].enabled = c.enabled => w = rule[c.id]
    BY <2>2, <2>3 DEF RuleRow
  <2>9. ASSUME NEW i \in RuleIds
        PROVE  \/ rule'[i] = rule[i]
               \/ rule[i] \in RuleRow /\ rule[i].group \in gs \cup hs
                  /\ rule'[i] \in RuleRow /\ rule'[i].group = rule[i].group
    BY <2>2, <2>3, <2>4, <2>5, <2>6, <2>8
  <2> QED
    BY <1>2, <2>1, <2>4, <2>5, <2>7, <2>9, RuleStep
<1>5. CASE c.id \notin Rows(rule)
  BY <1>1, <1>2, <1>5, RefusedStep DEF WriteSetEnabled
<1> QED
  BY <1>4, <1>5

\* bulkSetRulesEnabled.
LEMMA WriteBulkSetEnabledStep ==
  ASSUME RRInd, NEW u \in Users, WriteBulkSetEnabled(u)
  PROVE  RRInd'
<1>1. PICK c : c = cmd[u].read
  OBVIOUS
<1>2. Writing(u) /\ cmd[u].op = "bulkEnable" /\ UNCHANGED <<told, begun>>
  BY DEF WriteBulkSetEnabled, Writes, Writing
<1>3. /\ c.groups \subseteq Groups /\ \A i \in c.ids : WasRuleOf(i, c.groups)
      /\ c.enabled \in BOOLEAN
  BY <1>1, <1>2 DEF RRInd, CommandsOK, ReadOK
<1>4. CASE c.ids \cap Rows(rule) # {}
  <2>1. /\ rule' = [i \in RuleIds |-> IF i \in c.ids \cap Rows(rule)
                                      THEN [rule[i] EXCEPT !.enabled = c.enabled] ELSE rule[i]]
        /\ Committed(u, c.groups) /\ UNCHANGED <<group, request, roles, stale>>
    BY <1>1, <1>4 DEF WriteBulkSetEnabled
  <2>2. PICK gs \in SUBSET Groups, hs \in SUBSET Groups : gs = c.groups /\ hs = {}
    BY <1>3
  <2>3. ASSUME NEW i \in RuleIds
        PROVE  \/ rule'[i] = rule[i]
               \/ rule[i] \in RuleRow /\ rule[i].group \in gs \cup hs
                  /\ rule'[i] \in RuleRow /\ rule'[i].group = rule[i].group
    <3>1. CASE i \in c.ids \cap Rows(rule)
      <4>1. PICK x \in RuleRow, e \in BOOLEAN : x = rule[i] /\ e = c.enabled
        BY <3>1, <1>3, Tables
      <4>2. [x EXCEPT !.enabled = e] \in RuleRow /\ [x EXCEPT !.enabled = e].group = x.group
        BY RuleColumns
      <4>3. rule[i].group \in gs
        BY <3>1, <4>1, <2>2, <1>3, RowFacts DEF WasRuleOf
      <4> QED
        BY <3>1, <4>1, <4>2, <4>3, <2>1
    <3>2. CASE i \notin c.ids \cap Rows(rule)
      BY <3>2, <2>1
    <3> QED
      BY <3>1, <3>2
  <2>4. rule' \in [RuleIds -> {None, Gone} \cup RuleRow]
    <3>1. rule' = [i \in RuleIds |-> rule'[i]]
      BY <2>1
    <3> QED
      BY <3>1, <2>3, Tables
  <2>5. stale' = stale \cup hs /\ Committed(u, gs)
    BY <2>1, <2>2
  <2>6. UNCHANGED <<group, request, roles, told, begun>>
    BY <2>1, <1>2
  <2> QED
    BY <1>2, <2>3, <2>4, <2>5, <2>6, RuleStep
<1>5. CASE c.ids \cap Rows(rule) = {}
  BY <1>1, <1>2, <1>5, RefusedStep DEF WriteBulkSetEnabled
<1> QED
  BY <1>4, <1>5

\* updateRule.
LEMMA WriteUpdateStep ==
  ASSUME RRInd, NEW u \in Users, WriteUpdate(u)
  PROVE  RRInd'
<1>1. PICK c : c = cmd[u].read
  OBVIOUS
<1>2. Writing(u) /\ cmd[u].op = "update" /\ UNCHANGED <<told, begun>>
  BY DEF WriteUpdate, Writes, Writing
<1>3. c.group \in Groups /\ WasRuleOf(c.id, {c.group}) /\ c.value \in Domains
  BY <1>1, <1>2 DEF RRInd, CommandsOK, ReadOK
<1>4. CASE c.id \in Rows(rule) /\ SameRule(c.group, rule[c.id].type, c.value) \subseteq {c.id}
  <2>1. /\ rule' = [rule EXCEPT ![c.id] = [rule[c.id] EXCEPT !.value = c.value]]
        /\ UNCHANGED <<group, request, roles>>
        /\ Committed(u, IF c.differs THEN {c.group} ELSE {})
        /\ stale' = IF ~c.differs /\ rule[c.id].value # c.value
                    THEN stale \cup {c.group} ELSE stale
    BY <1>1, <1>4 DEF WriteUpdate, Outdated
  <2>2. c.id \in RuleIds /\ rule[c.id] \in RuleRow /\ rule[c.id].group = c.group
    BY <1>3, <1>4, Tables, RowFacts DEF WasRuleOf
  <2>3. PICK w \in RuleRow : w = [rule[c.id] EXCEPT !.value = c.value] /\ w.group = c.group
    <3>1. PICK x \in RuleRow, v \in Domains : x = rule[c.id] /\ v = c.value
      BY <2>2, <1>3
    <3>2. [x EXCEPT !.value = v] \in RuleRow /\ [x EXCEPT !.value = v].group = x.group
      BY RuleColumns
    <3> QED
      BY <2>2, <3>1, <3>2
  <2>4. /\ rule' \in [RuleIds -> {None, Gone} \cup RuleRow]
        /\ \A i \in RuleIds : rule'[i] = IF i = c.id THEN w ELSE rule[i]
    BY <2>1, <2>2, <2>3, Tables
  <2>5. PICK gs \in SUBSET Groups : gs = IF c.differs THEN {c.group} ELSE {}
    BY <1>3
  <2>6. PICK hs \in SUBSET Groups :
          hs = IF ~c.differs /\ rule[c.id].value # c.value THEN {c.group} ELSE {}
    BY <1>3
  <2>7. stale' = stale \cup hs
    BY <2>1, <2>6
  <2>8. ~c.differs /\ rule[c.id].value = c.value => w = rule[c.id]
    BY <2>2, <2>3 DEF RuleRow
  <2>9. ASSUME NEW i \in RuleIds
        PROVE  \/ rule'[i] = rule[i]
               \/ rule[i] \in RuleRow /\ rule[i].group \in gs \cup hs
                  /\ rule'[i] \in RuleRow /\ rule'[i].group = rule[i].group
    BY <2>2, <2>3, <2>4, <2>5, <2>6, <2>8
  <2> QED
    BY <1>2, <2>1, <2>4, <2>5, <2>7, <2>9, RuleStep
<1>5. CASE ~(c.id \in Rows(rule) /\ SameRule(c.group, rule[c.id].type, c.value) \subseteq {c.id})
  BY <1>1, <1>2, <1>5, RefusedStep DEF WriteUpdate
<1> QED
  BY <1>4, <1>5

-----------------------------------------------------------------------------
(***************************************************************************)
(* The writes of requests.                                                 *)
(***************************************************************************)

\* A write of one request that the agents need not hear of.
LEMMA RequestStep ==
  ASSUME RRInd, NEW u \in Users, Writing(u), Committed(u, {}),
         NEW r \in RequestIds, NEW x \in {Gone} \cup RequestRow,
         x # Gone => Exists(x.group),
         request' = [request EXCEPT ![r] = x],
         UNCHANGED <<group, rule, roles, told, stale, begun>>
  PROVE  RRInd'
<1>1. /\ request' \in [RequestIds -> {None, Gone} \cup RequestRow]
      /\ \A q \in RequestIds : request'[q] \in RequestRow => Exists(request'[q].group)
  BY Tables, RowFacts
<1>2. PICK gs \in SUBSET Groups, hs \in SUBSET Groups : gs = {} /\ hs = {}
  OBVIOUS
<1>3. stale' = stale \cup hs /\ Committed(u, gs)
  BY <1>2
<1> QED
  BY <1>1, <1>3, Tables, RuleAndRequestStep

\* createRequest: the group still exists.
LEMMA WriteRequestStep ==
  ASSUME RRInd, NEW u \in Users, WriteRequest(u)
  PROVE  RRInd'
<1>1. PICK c : c = cmd[u].read
  OBVIOUS
<1>2. Writing(u) /\ cmd[u].op = "request" /\ UNCHANGED <<told, begun>>
  BY DEF WriteRequest, Writes, Writing
<1>3. c.group \in Groups /\ c.domain \in Domains
  BY <1>1, <1>2 DEF RRInd, CommandsOK, ReadOK
<1>4. CASE Exists(c.group)
  <2>1. PICK r \in RequestIds :
          /\ request' = [request EXCEPT ![r] =
                           [domain |-> c.domain, group |-> c.group, status |-> "pending"]]
          /\ Committed(u, {}) /\ UNCHANGED <<group, rule, roles, stale>>
    BY <1>1, <1>4 DEF WriteRequest
  <2>2. PICK x \in RequestRow :
          x = [domain |-> c.domain, group |-> c.group, status |-> "pending"] /\ x.group = c.group
    <3>1. [domain |-> c.domain, group |-> c.group, status |-> "pending"] \in RequestRow
      BY <1>3 DEF RequestRow
    <3> QED
      BY <3>1
  <2> QED
    BY <2>1, <2>2, <1>2, <1>4, RequestStep
<1>5. CASE ~Exists(c.group)
  BY <1>1, <1>2, <1>5, RefusedStep DEF WriteRequest
<1> QED
  BY <1>4, <1>5

\* rejectRequest.
LEMMA WriteRejectStep ==
  ASSUME RRInd, NEW u \in Users, WriteReject(u)
  PROVE  RRInd'
<1>1. PICK r : r = cmd[u].read.id
  OBVIOUS
<1>2. Writing(u) /\ cmd[u].op = "reject" /\ UNCHANGED <<told, begun>>
  BY DEF WriteReject, Writes, Writing
<1>3. CASE r \in Rows(request)
  <2>1. /\ request' = [request EXCEPT ![r] = [request[r] EXCEPT !.status = "rejected"]]
        /\ Committed(u, {}) /\ UNCHANGED <<group, rule, roles, stale>>
    BY <1>1, <1>3 DEF WriteReject
  <2>2. PICK x \in RequestRow : x = request[r] /\ r \in RequestIds /\ Exists(x.group)
    BY <1>3, Tables
  <2>3. PICK y \in RequestRow : y = [x EXCEPT !.status = "rejected"] /\ y.group = x.group
    BY RequestColumns
  <2> QED
    BY <2>1, <2>2, <2>3, <1>2, RequestStep
<1>4. CASE r \notin Rows(request)
  BY <1>1, <1>2, <1>4, RefusedStep DEF WriteReject
<1> QED
  BY <1>3, <1>4

\* deleteRequest.
LEMMA WriteDeleteRequestStep ==
  ASSUME RRInd, NEW u \in Users, WriteDeleteRequest(u)
  PROVE  RRInd'
<1>1. Writing(u) /\ cmd[u].op = "deleteRequest"
  BY DEF WriteDeleteRequest, Writes, Writing
<1>2. PICK r \in RequestIds : r = cmd[u].read.id
  BY <1>1 DEF RRInd, CommandsOK, ReadOK
<1>3. /\ request' = [request EXCEPT ![r] = Gone] /\ Committed(u, {})
      /\ UNCHANGED <<group, rule, roles, told, stale, begun>>
  BY <1>2 DEF WriteDeleteRequest
<1> QED
  BY <1>1, <1>3, RequestStep

-----------------------------------------------------------------------------
(***************************************************************************)
(* Steps that leave the tables alone.                                      *)
(***************************************************************************)

\* A step of a command that writes no table and forgets no event.
LEMMA CommandMoves ==
  ASSUME RRInd, NEW u \in Users, OnlyCommandOf(u), ReadOK(u)', PlaceOK(u)',
         cmd'[u].at \in Places,
         cmd'[u].events \subseteq Groups,
         UNCHANGED <<group, rule, request, told>>,
         roles' \subseteq Groups, begun' \in 0 .. MaxCommands,
         stale \subseteq stale', stale' \subseteq Groups,
         \A g \in Groups : Announcing(g) => Announcing(g)' \/ g \in stale'
  PROVE  RRInd'
<1>1. RulesKeepGroups
  BY DEF RulesKeepGroups
<1>2. RRTypeOK' /\ CommandsOK'
  BY <1>1, Tables, TypesAfter DEF Exists
<1>3. \A g \in Groups : Export(g)' = Export(g)
  BY Tables, SameExport
<1>4. ChangesAreAnnounced'
  BY <1>3 DEF RRInd, ChangesAreAnnounced
<1> QED
  BY <1>2, <1>4 DEF RRInd

\* The types of a command in flight.
LEMMA Command ==
  ASSUME RRInd, NEW u \in Users
  PROVE  /\ ReadOK(u) /\ PlaceOK(u) /\ cmd[u].events \subseteq Groups
         /\ cmd[u].at \in Places
         /\ begun \in 0 .. MaxCommands
BY DEF RRInd, RRTypeOK, CommandsOK, Places

\* The first statement of an approval's transaction.
LEMMA ApproveLooksStep ==
  ASSUME RRInd, NEW u \in Users, ApproveLooks(u)
  PROVE  RRInd'
<1>1. cmd[u].op = "approve" /\ cmd[u].at = "write"
  BY DEF ApproveLooks, Writes
<1>2. PICK h \in Groups : h = cmd[u].read.group
  BY <1>1, Command DEF ReadOK
<1>3. PICK c, o, e, r : c = cmd[u] /\ o = c.op /\ r = c.read /\ e = c.events
  OBVIOUS
<1>4. PICK gs \in SUBSET {h} :
        gs = IF SameRule(cmd[u].read.group, "whitelist", cmd[u].read.domain) = {} THEN {h} ELSE {}
  OBVIOUS
<1>5. cmd' = [cmd EXCEPT ![u] = [[c EXCEPT !.at = "commit"] EXCEPT !.events = gs]]
  <2>1. cmd' = [cmd EXCEPT ![u].at = "commit", ![u].events = gs]
    BY <1>2, <1>4 DEF ApproveLooks
  <2>2. cmd = [v \in Users |-> cmd[v]]
    BY Tables
  <2> QED
    BY <1>3, <2>1, <2>2
<1>6. [[c EXCEPT !.at = "commit"] EXCEPT !.events = gs] =
        [op |-> o, at |-> "commit", events |-> gs, read |-> r]
  <2>1. c = [op |-> o, at |-> c.at, events |-> e, read |-> r]
    BY <1>3, Fields
  <2>2. PICK d : d = [c EXCEPT !.at = "commit"]
    OBVIOUS
  <2>3. d = [op |-> o, at |-> "commit", events |-> e, read |-> r]
    BY <2>1, <2>2
  <2>4. [d EXCEPT !.events = gs] = [op |-> o, at |-> "commit", events |-> gs, read |-> r]
    BY <2>3
  <2> QED
    BY <2>2, <2>4
<1>7. OnlyCommandOf(u) /\ cmd'[u] = [op |-> o, at |-> "commit", events |-> gs, read |-> r]
  BY <1>5, <1>6, Assigned
<1>8. UNCHANGED <<group, rule, request, roles, told, stale, begun>>
  BY DEF ApproveLooks
<1>9. ReadOK(u)'
  <2>1. RulesKeepGroups
    BY <1>8 DEF RulesKeepGroups
  <2> QED
    BY <2>1, <1>3, <1>7, ReadsStay
<1>10. PlaceOK(u)'
  BY <1>1, <1>2, <1>3, <1>4, <1>7 DEF PlaceOK
<1>11. \A g \in Groups : Announcing(g) => Announcing(g)'
  BY <1>1, <1>7, <1>8 DEF Announcing, OnlyCommandOf, Exists
<1>12. /\ cmd'[u].at \in Places
       /\ cmd'[u].events \subseteq Groups
  BY <1>7 DEF Places
<1> QED
  BY <1>7, <1>8, <1>9, <1>10, <1>11, <1>12, Tables, Command, CommandMoves

\* The roles are cleaned up: the event follows.
LEMMA RemoveFromRolesStep ==
  ASSUME RRInd, NEW u \in Users, RemoveFromRoles(u)
  PROVE  RRInd'
<1>1. cmd[u].at = "roles" /\ cmd[u].op = "deleteGroup"
  BY Command DEF RemoveFromRoles, PlaceOK
<1>2. PICK gs \in SUBSET Groups : gs = {cmd[u].read.group}
  BY <1>1, Command DEF ReadOK
<1>3. Committed(u, gs) /\ UNCHANGED <<group, rule, request, told, stale, begun>>
      /\ roles' \subseteq Groups
  BY <1>2, Tables DEF RemoveFromRoles
<1>4. EndsWith(u, gs)
  BY <1>3, CommittedEnds
<1>5. OnlyCommandOf(u) /\ cmd'[u] = [op |-> cmd[u].op, at |-> "dispatch", events |-> gs,
                                     read |-> cmd[u].read]
  BY <1>2, <1>4 DEF EndsWith
<1>6. ReadOK(u)' /\ PlaceOK(u)'
  <2>1. RulesKeepGroups
    BY <1>3 DEF RulesKeepGroups
  <2>2. ReadOK(u)'
    BY <2>1, <1>5, ReadsStay
  <2> QED
    BY <2>2, <1>5 DEF PlaceOK
<1>7. \A g \in Groups : Announcing(g) => Announcing(g)'
  BY <1>1, <1>2, <1>3, <1>5 DEF Announcing, OnlyCommandOf, Exists
<1>8. /\ cmd'[u].at \in Places
      /\ cmd'[u].events \subseteq Groups
  BY <1>5 DEF Places
<1> QED
  BY <1>3, <1>5, <1>6, <1>7, <1>8, Tables, Command, CommandMoves

\* The roles are not cleaned up: nobody is told, and the group counts as stale.
LEMMA RemoveFromRolesFailsStep ==
  ASSUME RRInd, NEW u \in Users, RemoveFromRolesFails(u)
  PROVE  RRInd'
<1>1. cmd[u].at = "roles" /\ cmd[u].op = "deleteGroup"
  BY Command DEF RemoveFromRolesFails, PlaceOK
<1>2. cmd[u].read.group \in Groups
  BY <1>1, Command DEF ReadOK
<1>3. /\ OnlyCommandOf(u) /\ cmd'[u] = NoCommand
      /\ stale' = stale \cup {cmd[u].read.group}
      /\ UNCHANGED <<group, rule, request, roles, told, begun>>
  BY Assigned DEF RemoveFromRolesFails, Outdated
<1>4. ReadOK(u)' /\ PlaceOK(u)'
  BY <1>3 DEF ReadOK, PlaceOK, NoCommand
<1>5. \A g \in Groups : Announcing(g) => Announcing(g)' \/ g \in stale'
  BY <1>1, <1>3 DEF Announcing, OnlyCommandOf, Exists
<1>6. /\ cmd'[u].at \in Places
      /\ cmd'[u].events \subseteq Groups
  BY <1>3 DEF NoCommand, Places
<1> QED
  BY <1>2, <1>3, <1>4, <1>5, <1>6, Tables, Command, CommandMoves

\* flush(): the agents fetch what is exported now.
LEMMA DispatchStep ==
  ASSUME RRInd, NEW u \in Users, Dispatch(u)
  PROVE  RRInd'
<1>1. /\ cmd[u].at = "dispatch" /\ OnlyCommandOf(u) /\ cmd'[u] = NoCommand
      /\ told' = [g \in Groups |-> IF g \in cmd[u].events THEN Export(g) ELSE told[g]]
      /\ stale' = stale \ cmd[u].events
      /\ UNCHANGED <<group, rule, request, roles, begun>>
  BY Assigned DEF Dispatch
<1>2. ReadOK(u)' /\ PlaceOK(u)'
  BY <1>1 DEF ReadOK, PlaceOK, NoCommand
<1>3. /\ cmd'[u].at \in Places
      /\ cmd'[u].events \subseteq Groups
  BY <1>1 DEF NoCommand, Places
<1>4. RulesKeepGroups
  BY <1>1 DEF RulesKeepGroups
<1>5. told' = [g \in Groups |-> told'[g]]
  BY <1>1
<1>6. RRTypeOK' /\ CommandsOK'
  BY <1>1, <1>2, <1>3, <1>4, <1>5, Tables, Command, TypesAfter DEF Exists
<1>7. \A g \in Groups : Export(g)' = Export(g)
  BY <1>1, Tables, SameExport
<1>8. ASSUME NEW g \in Groups, g \notin stale', ~Announcing(g)'
      PROVE  told'[g] = Export(g)
  <2>1. CASE g \in cmd[u].events
    BY <2>1, <1>1
  <2>2. CASE g \notin cmd[u].events
    <3>1. ~Announcing(g) /\ g \notin stale
      BY <2>2, <1>1, <1>8 DEF Announcing, OnlyCommandOf, Exists
    <3> QED
      BY <2>2, <3>1, <1>1 DEF RRInd, ChangesAreAnnounced
  <2> QED
    BY <2>1, <2>2
<1>9. ChangesAreAnnounced'
  BY <1>7, <1>8 DEF ChangesAreAnnounced
<1> QED
  BY <1>6, <1>9 DEF RRInd

-----------------------------------------------------------------------------
(***************************************************************************)
(* The writes of groups, and the approval.                                 *)
(***************************************************************************)

\* A group that does not exist has no rows, by the foreign keys.
LEMMA NoRowsOf ==
  ASSUME RRInd, NEW h \in Groups, group[h] = None
  PROVE  /\ \A i \in RuleIds : rule[i] \in RuleRow => rule[i].group # h
         /\ \A r \in RequestIds : request[r] \in RequestRow => request[r].group # h
BY Tables, RowFacts DEF Exists

\* createGroup: a new group exports nothing.
LEMMA WriteCreateGroupStep ==
  ASSUME RRInd, NEW u \in Users, WriteCreateGroup(u)
  PROVE  RRInd'
<1>1. Writing(u) /\ cmd[u].op = "createGroup" /\ begun' = begun
  BY DEF WriteCreateGroup, Writes, Writing
<1>2. PICK h \in Groups : h = cmd[u].read.group
  BY <1>1, Command DEF ReadOK
<1>3. CASE group[h] = None
  <2>1. /\ group' = [group EXCEPT ![h] = "on"] /\ told' = [told EXCEPT ![h] = {}]
        /\ Committed(u, {}) /\ UNCHANGED <<rule, request, roles, stale>>
    BY <1>2, <1>3 DEF WriteCreateGroup
  <2>2. OnlyCommandOf(u) /\ cmd'[u] = NoCommand
    BY <2>1, CommittedEnds DEF EndsWith
  <2>3. ReadOK(u)' /\ PlaceOK(u)'
    BY <2>2 DEF ReadOK, PlaceOK, NoCommand
  <2>4. /\ cmd'[u].at \in Places
        /\ cmd'[u].events \subseteq Groups
    BY <2>2 DEF NoCommand, Places
  <2>5. /\ group' \in [Groups -> {None, "on", "off", Gone}]
        /\ \A g \in Groups : group'[g] = IF g = h THEN "on" ELSE group[g]
    BY <2>1, Tables
  <2>6. /\ told' = [g \in Groups |-> told'[g]]
        /\ \A g \in Groups : told'[g] = IF g = h THEN {} ELSE told[g]
    BY <2>1, Tables
  <2>7. RulesKeepGroups
    BY <2>1 DEF RulesKeepGroups
  <2>8. /\ \A i \in RuleIds : rule'[i] \in RuleRow => group'[rule'[i].group] \in {"on", "off"}
        /\ \A r \in RequestIds : request'[r] \in RequestRow =>
                                   group'[request'[r].group] \in {"on", "off"}
    BY <2>1, <2>5, Tables, RowFacts DEF Exists
  <2>9. RRTypeOK' /\ CommandsOK'
    BY <1>1, <2>1, <2>2, <2>3, <2>4, <2>5, <2>6, <2>7, <2>8, Tables, Command, TypesAfter
  <2>10. Export(h)' = {}
    <3>1. RulesOf(h)' = {}
      BY <2>1, <1>3, NoRowsOf, Tables, TablesNext DEF RulesOf
    <3> QED
      BY <3>1, <2>5 DEF Export
  <2>11. ASSUME NEW g \in Groups, g # h, g \notin stale, ~Announcing(g)'
         PROVE  told'[g] = Export(g)'
    <3>1. Export(g)' = Export(g)
      BY <2>1, <2>5, <2>11, Tables, SameExport
    <3>2. ~Announcing(g)
      BY <1>1, <2>2, <2>5, <2>11 DEF Announcing, OnlyCommandOf, Writing, Exists
    <3> QED
      BY <3>1, <3>2, <2>6, <2>11 DEF RRInd, ChangesAreAnnounced
  <2>12. ChangesAreAnnounced'
    BY <2>1, <2>6, <2>10, <2>11 DEF ChangesAreAnnounced
  <2> QED
    BY <2>9, <2>12 DEF RRInd
<1>4. CASE group[h] # None
  BY <1>1, <1>2, <1>4, RefusedStep DEF WriteCreateGroup
<1> QED
  BY <1>3, <1>4

\* cloneGroup: the copies belong to the new group alone.
LEMMA WriteCloneStep ==
  ASSUME RRInd, NEW u \in Users, WriteClone(u)
  PROVE  RRInd'
<1> DEFINE c == cmd[u].read
           source == RulesOf(c.from)
           free == {i \in RuleIds : rule[i] = None}
<1>1. Writing(u) /\ cmd[u].op = "clone" /\ UNCHANGED <<told, begun>>
  BY DEF WriteClone, Writes, Writing
<1>2. c.group \in Groups
  BY <1>1, Command DEF ReadOK
<1>3. CASE group[c.group] = None
  <2>1. PICK f \in [source -> free] :
          rule' = [k \in RuleIds |->
                    IF \E i \in source : f[i] = k
                    THEN [rule[CHOOSE i \in source : f[i] = k]
                            EXCEPT !.group = c.group, !.enabled = TRUE]
                    ELSE rule[k]]
    BY <1>3 DEF WriteClone
  <2>2. /\ group' = [group EXCEPT ![c.group] = "on"]
        /\ Committed(u, {c.group}) /\ UNCHANGED <<request, roles, stale>>
    BY <1>3 DEF WriteClone
  <2>3. \A i \in source : i \in RuleIds /\ rule[i] \in RuleRow
    BY Tables DEF RulesOf
  <2> HIDE DEF source
  <2>4. PICK h \in Groups : h = c.group
    BY <1>2
  <2>5. ASSUME NEW k \in RuleIds, \E i \in source : f[i] = k
        PROVE  rule[k] = None /\ rule'[k] \in RuleRow /\ rule'[k].group = h
    <3>1. rule[k] = None
      BY <2>5
    <3>2. PICK j : j = CHOOSE i \in source : f[i] = k
      OBVIOUS
    <3>3. PICK x \in RuleRow : x = rule[j]
      BY <2>3, <2>5, <3>2
    <3>4. rule'[k] = [x EXCEPT !.group = h, !.enabled = TRUE]
      BY <2>1, <2>4, <2>5, <3>2, <3>3
    <3>5. PICK y : y = [x EXCEPT !.group = h, !.enabled = TRUE]
      OBVIOUS
    <3>6. y \in RuleRow /\ y.group = h
      BY <3>5, RuleColumns, Zenon
    <3> QED
      BY <3>1, <3>4, <3>5, <3>6
  <2>6. \A k \in RuleIds : (~\E i \in source : f[i] = k) => rule'[k] = rule[k]
    BY <2>1
  <2>7. rule' \in [RuleIds -> {None, Gone} \cup RuleRow]
    <3>1. \A i \in RuleIds : rule'[i] \in {None, Gone} \cup RuleRow
      BY <2>5, <2>6, Tables
    <3>2. rule' = [i \in RuleIds |-> rule'[i]]
      BY <2>1
    <3> QED
      BY <3>1, <3>2
  <2>8. \A i \in RuleIds :
          rule'[i] = rule[i] \/ (rule[i] = None /\ rule'[i] \in RuleRow /\ rule'[i].group = h)
    BY <2>5, <2>6
  <2>9. /\ group' \in [Groups -> {None, "on", "off", Gone}]
        /\ \A g \in Groups : group'[g] = IF g = h THEN "on" ELSE group[g]
    BY <2>2, <2>4, Tables
  <2>10. PICK gs \in SUBSET Groups : gs = {h}
    OBVIOUS
  <2>11. EndsWith(u, gs)
    BY <2>2, <2>4, <2>10, CommittedEnds
  <2>12. RulesKeepGroups
    BY <2>8 DEF RulesKeepGroups
  <2>13. /\ \A i \in RuleIds : rule'[i] \in RuleRow => group'[rule'[i].group] \in {"on", "off"}
         /\ \A r \in RequestIds : request'[r] \in RequestRow =>
                                    group'[request'[r].group] \in {"on", "off"}
    BY <2>2, <2>8, <2>9, Tables, RowFacts DEF Exists
  <2>14. ASSUME NEW g \in Groups, g \notin gs PROVE Export(g)' = Export(g)
    <3>1. group'[g] = group[g] /\ g # h
      BY <2>9, <2>10, <2>14
    <3>2. \A i \in RuleIds :
           \/ rule'[i] = rule[i]
           \/ /\ rule[i] \in RuleRow => rule[i].group # g
              /\ rule'[i] \in RuleRow => rule'[i].group # g
      BY <3>1, <2>8, RowFacts
    <3> QED
      BY <3>1, <3>2, <2>7, SameExport
  <2>15. UNCHANGED <<roles, told, begun, request, stale>>
    BY <1>1, <2>2
  <2>16. request' \in [RequestIds -> {None, Gone} \cup RequestRow]
         /\ stale \subseteq stale' /\ stale' \subseteq Groups
    BY <2>15, Tables
  <2> HIDE DEF c
  <2> QED
    BY <1>1, <2>7, <2>9, <2>11, <2>12, <2>13, <2>14, <2>15, <2>16, WriteStep DEF Exists
<1>4. CASE group[c.group] # None
  <2>1. Refused(u)
    BY <1>4 DEF WriteClone
  <2> QED
    BY <2>1, <1>1, RefusedStep
<1> QED
  BY <1>3, <1>4

\* A command writes outside a transaction, and reads what it wrote.
LEMMA Rereads ==
  ASSUME RRInd, NEW u \in Users, NEW gs, RereadsFor(u, gs)
  PROVE  /\ OnlyCommandOf(u)
         /\ cmd'[u] = [op |-> cmd[u].op, at |-> "reread", events |-> gs, read |-> cmd[u].read]
<1>1. PICK c, o, e, r : c = cmd[u] /\ o = c.op /\ r = c.read /\ e = c.events
  OBVIOUS
<1>2. c = [op |-> o, at |-> c.at, events |-> e, read |-> r]
  BY <1>1, Fields
<1>3. PICK d : d = [c EXCEPT !.at = "reread"]
  OBVIOUS
<1>4. d = [op |-> o, at |-> "reread", events |-> e, read |-> r]
  BY <1>2, <1>3
<1>5. [d EXCEPT !.events = gs] = [op |-> o, at |-> "reread", events |-> gs, read |-> r]
  BY <1>4
<1>6. cmd' = [cmd EXCEPT ![u] = [d EXCEPT !.events = gs]]
  <2>1. cmd' = [cmd EXCEPT ![u].at = "reread", ![u].events = gs]
    BY DEF RereadsFor
  <2>2. cmd = [v \in Users |-> cmd[v]]
    BY Tables
  <2> QED
    BY <1>1, <1>3, <2>1, <2>2
<1> QED
  BY <1>1, <1>5, <1>6, Assigned

\* A write that switches groups on or off.
LEMMA SwitchStep ==
  ASSUME RRInd, NEW u \in Users, NEW gs \in SUBSET Groups, Writing(u), RereadsFor(u, gs),
         cmd[u].op = "toggle" \/ (cmd[u].op = "updateGroup" /\ gs \subseteq {cmd[u].read.group}
                                  /\ group'[cmd[u].read.group] \in {"on", "off"}),
         group' \in [Groups -> {None, "on", "off", Gone}],
         \A g \in Groups : Exists(g) => group'[g] \in {"on", "off"},
         \A g \in Groups : g \in gs \/ g \in stale' \/ group'[g] = group[g],
         stale \subseteq stale', stale' \subseteq Groups,
         UNCHANGED <<rule, request, roles, told, begun>>
  PROVE  RRInd'
<1>1. /\ OnlyCommandOf(u)
      /\ cmd'[u] = [op |-> cmd[u].op, at |-> "reread", events |-> gs, read |-> cmd[u].read]
  BY Rereads
<1>2. RulesKeepGroups
  BY DEF RulesKeepGroups
<1>3. /\ \A i \in RuleIds : rule'[i] \in RuleRow => group'[rule'[i].group] \in {"on", "off"}
      /\ \A r \in RequestIds : request'[r] \in RequestRow =>
                                 group'[request'[r].group] \in {"on", "off"}
  BY Tables, RowFacts
<1>4. /\ PlaceOK(u)' /\ cmd'[u].at \in Places /\ cmd'[u].events \subseteq Groups
      /\ cmd'[u].op = cmd[u].op /\ cmd'[u].read = cmd[u].read
  BY <1>1 DEF PlaceOK, Places
<1>5. ASSUME NEW g \in Groups
      PROVE  Announcing(g)' \/ g \in stale' \/ Export(g)' = Export(g)
  <2>1. CASE g \in gs
    BY <2>1, <1>1 DEF Announcing, Exists
  <2>2. CASE g \notin gs /\ g \notin stale'
    BY <2>2, Tables, SameExport
  <2> QED
    BY <2>1, <2>2
<1> QED
  BY <1>1, <1>2, <1>3, <1>4, <1>5, Tables, WriteMoves

\* updateGroup.
LEMMA WriteUpdateGroupStep ==
  ASSUME RRInd, NEW u \in Users, WriteUpdateGroup(u)
  PROVE  RRInd'
<1>1. PICK c : c = cmd[u].read
  OBVIOUS
<1>2. Writing(u) /\ cmd[u].op = "updateGroup" /\ UNCHANGED <<told, begun>>
  BY DEF WriteUpdateGroup, Writes, Writing
<1>3. c.group \in Groups /\ c.to \in {"on", "off"}
  BY <1>1, <1>2, Command DEF ReadOK
<1>4. CASE Exists(c.group)
  <2>1. /\ group' = [group EXCEPT ![c.group] = c.to]
        /\ UNCHANGED <<rule, request, roles>>
        /\ RereadsFor(u, IF c.differs THEN {c.group} ELSE {})
        /\ stale' = IF ~c.differs /\ group[c.group] # c.to THEN stale \cup {c.group} ELSE stale
    BY <1>1, <1>4 DEF WriteUpdateGroup, Outdated
  <2>2. PICK gs \in SUBSET Groups : gs = IF c.differs THEN {c.group} ELSE {}
    BY <1>3
  <2>3. /\ group' \in [Groups -> {None, "on", "off", Gone}]
        /\ \A g \in Groups : group'[g] = IF g = c.group THEN c.to ELSE group[g]
    BY <2>1, <1>3, Tables
  <2>4. \A g \in Groups : Exists(g) => group'[g] \in {"on", "off"}
    BY <2>3, <1>3 DEF Exists
  <2>5. \A g \in Groups : g \in gs \/ g \in stale' \/ group'[g] = group[g]
    BY <2>1, <2>2, <2>3
  <2>6. stale \subseteq stale' /\ stale' \subseteq Groups
    BY <2>1, <1>3, Tables
  <2>7. /\ RereadsFor(u, gs) /\ gs \subseteq {cmd[u].read.group}
        /\ group'[cmd[u].read.group] \in {"on", "off"}
    BY <2>1, <2>2, <2>3, <1>1, <1>3
  <2> QED
    BY <1>2, <2>1, <2>3, <2>4, <2>5, <2>6, <2>7, SwitchStep
<1>5. CASE ~Exists(c.group)
  BY <1>1, <1>2, <1>5, RefusedStep DEF WriteUpdateGroup
<1> QED
  BY <1>4, <1>5

\* toggleSystemStatus.
LEMMA WriteToggleStep ==
  ASSUME RRInd, NEW u \in Users, WriteToggle(u)
  PROVE  RRInd'
<1>1. PICK to \in {"on", "off"} : to = cmd[u].read.to
  BY Command DEF WriteToggle, Writes, ReadOK
<1>2. /\ Writing(u) /\ cmd[u].op = "toggle" /\ RereadsFor(u, Groups)
      /\ group' = [g \in Groups |-> IF Exists(g) THEN to ELSE group[g]]
      /\ UNCHANGED <<rule, request, roles, told, stale, begun>>
  BY <1>1 DEF WriteToggle, Writes, Writing
<1>3. /\ group' \in [Groups -> {None, "on", "off", Gone}]
      /\ \A g \in Groups : Exists(g) => group'[g] \in {"on", "off"}
  BY <1>2, Tables
<1>4. PICK gs \in SUBSET Groups : gs = Groups
  OBVIOUS
<1> QED
  BY <1>2, <1>3, <1>4, Tables, SwitchStep

\* What was written is read again: the event follows, unless the group is gone.
LEMMA RereadStep ==
  ASSUME RRInd, NEW u \in Users, Reread(u)
  PROVE  RRInd'
<1>1. PICK gs \in SUBSET Groups :
        gs = IF cmd[u].op = "updateGroup" /\ ~Exists(cmd[u].read.group)
             THEN {} ELSE cmd[u].events
  BY Command
<1>2. /\ cmd[u].at = "reread" /\ EndsWith(u, gs)
      /\ UNCHANGED <<group, rule, request, roles, told, stale, begun>>
  BY <1>1, CommittedEnds DEF Reread
<1>3. OnlyCommandOf(u) /\ RulesKeepGroups
  BY <1>2 DEF EndsWith, RulesKeepGroups
<1>4. ReadOK(u)'
  BY <1>2, <1>3, ReadsStay DEF EndsWith
<1>5. PlaceOK(u)' /\ cmd'[u].at \in Places /\ cmd'[u].events \subseteq Groups
  <2>1. CASE gs = {}
    BY <2>1, <1>2 DEF EndsWith, NoCommand, PlaceOK, Places
  <2>2. CASE gs # {}
    BY <2>2, <1>2 DEF EndsWith, PlaceOK, Places
  <2> QED
    BY <2>1, <2>2
<1>6. ASSUME NEW g \in Groups, Announcing(g) PROVE Announcing(g)'
  <2>1. PICK v \in Users :
          \/ cmd[v].at = "dispatch" /\ g \in cmd[v].events
          \/ cmd[v].at = "reread" /\ g \in cmd[v].events /\ (cmd[v].op = "toggle" \/ Exists(g))
          \/ cmd[v].at = "roles" /\ cmd[v].read.group = g
    BY <1>6 DEF Announcing
  <2>2. CASE v # u
    BY <2>1, <2>2, <1>2, <1>3 DEF Announcing, OnlyCommandOf, Exists
  <2>3. CASE v = u
    <3>1. g \in cmd[u].events /\ (cmd[u].op = "toggle" \/ Exists(g))
      BY <2>1, <2>3, <1>2
    <3>2. cmd[u].op # "toggle" => g = cmd[u].read.group
      BY <3>1, <1>2, Command DEF PlaceOK
    <3>3. g \in gs
      BY <3>1, <3>2, <1>1
    <3> QED
      BY <3>3, <1>2 DEF Announcing, EndsWith
  <2> QED
    BY <2>2, <2>3
<1> QED
  BY <1>2, <1>3, <1>4, <1>5, <1>6, Tables, Command, CommandMoves

\* The reading fails: nobody is told, and the groups count as stale.
LEMMA RereadFailsStep ==
  ASSUME RRInd, NEW u \in Users, RereadFails(u)
  PROVE  RRInd'
<1>1. /\ cmd[u].at = "reread" /\ OnlyCommandOf(u) /\ cmd'[u] = NoCommand
      /\ stale' = stale \cup cmd[u].events
      /\ UNCHANGED <<group, rule, request, roles, told, begun>>
  BY Assigned DEF RereadFails
<1>2. ReadOK(u)' /\ PlaceOK(u)'
  BY <1>1 DEF ReadOK, PlaceOK, NoCommand
<1>3. \A g \in Groups : Announcing(g) => Announcing(g)' \/ g \in stale'
  BY <1>1 DEF Announcing, OnlyCommandOf, Exists
<1>4. /\ cmd'[u].at \in Places
      /\ cmd'[u].events \subseteq Groups
  BY <1>1 DEF NoCommand, Places
<1> QED
  BY <1>1, <1>2, <1>3, <1>4, Tables, Command, CommandMoves

\* deleteGroup: the rows that refer to the group go with it, and the event
\* follows the roles.
LEMMA WriteDeleteGroupStep ==
  ASSUME RRInd, NEW u \in Users, WriteDeleteGroup(u)
  PROVE  RRInd'
<1>1. Writing(u) /\ cmd[u].op = "deleteGroup" /\ UNCHANGED <<told, begun>>
  BY DEF WriteDeleteGroup, Writes, Writing
<1>2. PICK h \in Groups : h = cmd[u].read.group
  BY <1>1, Command DEF ReadOK
<1>3. CASE Exists(h)
  <2>1. /\ group' = [group EXCEPT ![h] = Gone]
        /\ rule' = [i \in RuleIds |-> IF i \in RulesOf(h) THEN Gone ELSE rule[i]]
        /\ request' = [r \in RequestIds |->
               IF r \in Rows(request) /\ request[r].group = h THEN Gone ELSE request[r]]
        /\ cmd' = [cmd EXCEPT ![u].at = "roles"]
        /\ UNCHANGED <<roles, stale>>
    BY <1>2, <1>3 DEF WriteDeleteGroup
  <2>2. /\ OnlyCommandOf(u) /\ cmd'[u].op = cmd[u].op /\ cmd'[u].read = cmd[u].read
        /\ cmd'[u].at = "roles" /\ cmd'[u].events = cmd[u].events
        /\ cmd'[u] = [op |-> cmd'[u].op, at |-> cmd'[u].at, events |-> cmd'[u].events,
                      read |-> cmd'[u].read]
    <3>1. PICK c, o, e, r, d : /\ c = cmd[u] /\ o = c.op /\ r = c.read /\ e = c.events
                               /\ d = [c EXCEPT !.at = "roles"]
      OBVIOUS
    <3>2. c = [op |-> o, at |-> c.at, events |-> e, read |-> r]
      BY <3>1, Fields
    <3>3. d = [op |-> o, at |-> "roles", events |-> e, read |-> r]
      BY <3>1, <3>2
    <3>4. cmd' = [cmd EXCEPT ![u] = d]
      BY <2>1, <3>1
    <3>5. OnlyCommandOf(u) /\ cmd'[u] = d
      BY <3>4, Assigned
    <3> QED
      BY <3>1, <3>3, <3>5
  <2>3. /\ group' \in [Groups -> {None, "on", "off", Gone}]
        /\ \A g \in Groups : group'[g] = IF g = h THEN Gone ELSE group[g]
    BY <2>1, Tables
  <2>4. /\ rule' \in [RuleIds -> {None, Gone} \cup RuleRow]
        /\ \A i \in RuleIds : IF rule[i] \in RuleRow /\ rule[i].group = h
                              THEN rule'[i] = Gone ELSE rule'[i] = rule[i]
    BY <2>1, Tables DEF RulesOf
  <2>5. /\ request' \in [RequestIds -> {None, Gone} \cup RequestRow]
        /\ \A r \in RequestIds : IF request[r] \in RequestRow /\ request[r].group = h
                                 THEN request'[r] = Gone ELSE request'[r] = request[r]
    BY <2>1, Tables
  <2>6. /\ \A i \in RuleIds : rule'[i] \in RuleRow => group'[rule'[i].group] \in {"on", "off"}
        /\ \A r \in RequestIds : request'[r] \in RequestRow =>
                                   group'[request'[r].group] \in {"on", "off"}
    BY <2>3, <2>4, <2>5, Tables, RowFacts DEF Exists
  <2>7. RulesKeepGroups
    BY <2>4, RowFacts DEF RulesKeepGroups
  <2>8. ReadOK(u)'
    BY <2>2, <2>7, ReadsStay
  <2>9. PlaceOK(u)'
    BY <2>2, <1>1 DEF PlaceOK
  <2>10. /\ cmd'[u].at \in Places
         /\ cmd'[u].events \subseteq Groups
    BY <2>2, Command DEF Places
  <2>11. RRTypeOK' /\ CommandsOK'
    BY <1>1, <2>1, <2>2, <2>3, <2>4, <2>5, <2>6, <2>7, <2>8, <2>9, <2>10, Tables, Command,
       TypesAfter
  <2>12. ASSUME NEW g \in Groups, g \notin stale, ~Announcing(g)'
         PROVE  told'[g] = Export(g)'
    <3>1. g # h
      BY <2>2, <2>12, <1>2 DEF Announcing
    <3>2. Export(g)' = Export(g)
      <4>1. \A i \in RuleIds :
              \/ rule'[i] = rule[i]
              \/ /\ rule[i] \in RuleRow => rule[i].group # g
                 /\ rule'[i] \in RuleRow => rule'[i].group # g
        BY <2>4, <3>1, RowFacts
      <4>2. group'[g] = group[g]
        BY <2>3, <3>1
      <4> QED
        BY <4>1, <4>2, <2>4, SameExport
    <3>3. ~Announcing(g)
      BY <1>1, <2>2, <2>3, <2>12, <3>1 DEF Announcing, OnlyCommandOf, Writing, Exists
    <3> QED
      BY <3>2, <3>3, <2>12, <1>1 DEF RRInd, ChangesAreAnnounced
  <2>13. ChangesAreAnnounced'
    BY <2>1, <2>12 DEF ChangesAreAnnounced
  <2> QED
    BY <2>11, <2>13 DEF RRInd
<1>4. CASE ~Exists(h)
  BY <1>1, <1>2, <1>4, RefusedStep DEF WriteDeleteGroup
<1> QED
  BY <1>3, <1>4

\* What an approval that commits does: the request was pending, and the rule is
\* inserted for a group that has an event.
LEMMA Approved ==
  ASSUME RRInd, NEW u \in Users, ApproveCommits(u), ~Refused(u)
  PROVE  \E r \in RequestIds, x \in RequestRow :
           /\ r = cmd[u].read.id /\ x = request[r] /\ x.status = "pending"
           /\ request' = [request EXCEPT ![r] = [x EXCEPT !.status = "approved"]]
           /\ Committed(u, cmd[u].events) /\ UNCHANGED <<group, roles, stale>>
           /\ \/ UNCHANGED rule
              \/ /\ cmd[u].events # {} /\ Exists(cmd[u].read.group)
                 /\ InsertApproved(cmd[u].read)
<1> DEFINE c == cmd[u].read
           inserts == cmd[u].events # {}
           possible == /\ c.id \in Rows(request) /\ request[c.id].status = "pending"
                       /\ inserts => /\ Exists(c.group)
                                     /\ SameRule(c.group, "whitelist", c.domain) = {}
<1>1. possible
  BY DEF ApproveCommits
<1>2. /\ request' = [request EXCEPT ![c.id].status = "approved"]
      /\ IF inserts THEN InsertApproved(c) ELSE UNCHANGED rule
      /\ Committed(u, cmd[u].events) /\ UNCHANGED <<group, roles, stale>>
  BY <1>1 DEF ApproveCommits
<1>3. c.id \in RequestIds /\ request[c.id] \in RequestRow
  BY <1>1, Tables
<1>4. request' = [request EXCEPT ![c.id] = [request[c.id] EXCEPT !.status = "approved"]]
  BY <1>2
<1>5. \/ UNCHANGED rule
      \/ cmd[u].events # {} /\ Exists(c.group) /\ InsertApproved(c)
  BY <1>1, <1>2
<1> QED
  BY <1>1, <1>2, <1>3, <1>4, <1>5

\* The rest of an approval's transaction.
LEMMA ApproveCommitsStep ==
  ASSUME RRInd, NEW u \in Users, ApproveCommits(u)
  PROVE  RRInd'
<1>1. /\ cmd[u].op = "approve" /\ cmd[u].at = "commit" /\ Writing(u)
      /\ UNCHANGED <<told, begun>>
  BY DEF ApproveCommits, Writing
<1>2. CASE Refused(u)
  BY <1>1, <1>2, RefusedStep
<1>3. CASE ~Refused(u)
  <2>1. PICK r \in RequestIds, x \in RequestRow :
           /\ r = cmd[u].read.id /\ x = request[r] /\ x.status = "pending"
           /\ request' = [request EXCEPT ![r] = [x EXCEPT !.status = "approved"]]
           /\ Committed(u, cmd[u].events) /\ UNCHANGED <<group, roles, stale>>
           /\ \/ UNCHANGED rule
              \/ /\ cmd[u].events # {} /\ Exists(cmd[u].read.group)
                 /\ InsertApproved(cmd[u].read)
    BY <1>3, Approved
  <2>2. PICK y \in RequestRow : y = [x EXCEPT !.status = "approved"] /\ y.group = x.group
    BY RequestColumns
  <2>3. /\ request' \in [RequestIds -> {None, Gone} \cup RequestRow]
        /\ \A q \in RequestIds : request'[q] \in RequestRow => Exists(request'[q].group)
    BY <2>1, <2>2, Tables
  <2>4. PICK h \in Groups, d \in Domains : h = cmd[u].read.group /\ d = cmd[u].read.domain
    BY <1>1, Command DEF ReadOK
  <2>5. PICK gs \in SUBSET Groups, hs \in SUBSET Groups : gs = cmd[u].events /\ hs = {}
    BY Command
  <2>6. gs \subseteq {h}
    BY <1>1, <2>4, <2>5, Command DEF PlaceOK
  <2>7. Committed(u, gs) /\ stale' = stale \cup hs /\ UNCHANGED <<group, roles, told, begun>>
    BY <1>1, <2>1, <2>5
  <2>8. /\ rule' \in [RuleIds -> {None, Gone} \cup RuleRow]
        /\ \A i \in RuleIds :
             \/ rule'[i] = rule[i]
             \/ rule[i] = None /\ rule'[i] \in RuleRow /\ Exists(rule'[i].group)
                /\ rule'[i].group \in gs
    <3>1. CASE UNCHANGED rule
      BY <3>1, Tables
    <3>2. CASE gs # {} /\ Exists(h) /\ InsertApproved(cmd[u].read)
      <4>1. PICK j \in RuleIds :
              /\ rule[j] = None
              /\ rule' = [rule EXCEPT ![j] = [group |-> cmd[u].read.group, type |-> "whitelist",
                                              value |-> cmd[u].read.domain, enabled |-> TRUE]]
        BY <3>2 DEF InsertApproved
      <4>2. PICK w : w = [group |-> h, type |-> "whitelist", value |-> d, enabled |-> TRUE]
        OBVIOUS
      <4>3. w \in RuleRow /\ w.group = h /\ h \in gs
        BY <4>2, <3>2, <2>6 DEF RuleRow, Types
      <4>4. rule' = [rule EXCEPT ![j] = w]
        BY <4>1, <4>2, <2>4
      <4> QED
        BY <4>1, <4>3, <4>4, <3>2, Tables
    <3> QED
      BY <3>1, <3>2, <2>1, <2>4, <2>5
  <2> QED
    BY <1>1, <2>3, <2>7, <2>8, RuleAndRequestStep
<1> QED
  BY <1>2, <1>3

-----------------------------------------------------------------------------
(***************************************************************************)
(* The reads of a command.                                                 *)
(***************************************************************************)

\* A command begins with what it read.
LEMMA ReadSets ==
  ASSUME RRInd, NEW u \in Users, NEW op, NEW c, Read(u, op, c)
  PROVE  /\ OnlyCommandOf(u)
         /\ cmd'[u] = [op |-> op, at |-> "write", events |-> {}, read |-> c]
         /\ cmd'[u].op = op /\ cmd'[u].read = c
         /\ UNCHANGED <<group, rule, request, roles, told, stale>> /\ UNCHANGED rule
<1>1. PICK x : x = [op |-> op, at |-> "write", events |-> {}, read |-> c]
  OBVIOUS
<1>2. cmd' = [cmd EXCEPT ![u] = x] /\ UNCHANGED <<group, rule, request, roles, told, stale>>
  BY <1>1 DEF Read
<1>3. OnlyCommandOf(u) /\ cmd'[u] = x
  BY <1>2, Assigned
<1>4. x.op = op /\ x.read = c
  BY <1>1
<1> QED
  BY <1>1, <1>2, <1>3, <1>4

\* It is enough that what it read has the types of its kind.
LEMMA ReadStep ==
  ASSUME RRInd, NEW u \in Users, NEW op, NEW c, Idle(u), Read(u, op, c), ReadOK(u)'
  PROVE  RRInd'
<1>1. /\ OnlyCommandOf(u)
      /\ cmd'[u] = [op |-> op, at |-> "write", events |-> {}, read |-> c]
      /\ UNCHANGED <<group, rule, request, roles, told, stale>>
  BY ReadSets
<1>2. PlaceOK(u)'
  BY <1>1 DEF PlaceOK
<1>3. begun' \in 0 .. MaxCommands
  BY Command, RulesAssumption DEF Idle, Read
<1>4. \A g \in Groups : Announcing(g) => Announcing(g)'
  BY <1>1 DEF Announcing, OnlyCommandOf, Idle, Exists
<1>5. /\ cmd'[u].at \in Places
      /\ cmd'[u].events \subseteq Groups
  BY <1>1 DEF Places
<1> QED
  BY <1>1, <1>2, <1>3, <1>4, <1>5, Tables, CommandMoves

\* The rules a command reads are rules of the groups it notes.
LEMMA RulesRead ==
  ASSUME RRInd, NEW i \in Rows(rule)
  PROVE  i \in RuleIds /\ rule[i] # None /\ rule[i] # Gone /\ rule[i].group \in Groups
BY Tables, RowFacts

\* The commands on sets of rules.
LEMMA BeginManyStep ==
  ASSUME RRInd, NEW u \in Users, Idle(u), NEW ids \in SUBSET RuleIds,
         BeginDelete(u, ids) \/ \E e \in BOOLEAN : BeginBulkSetEnabled(u, ids, e)
  PROVE  RRInd'
<1>1. PICK gs \in SUBSET Groups : gs = {rule[i].group : i \in ids}
  BY RulesRead DEF BeginDelete, BeginBulkSetEnabled
<1>2. \A i \in ids : /\ i \in RuleIds /\ rule[i] # None /\ rule[i].group \in gs
  BY <1>1, RulesRead DEF BeginDelete, BeginBulkSetEnabled
<1>3. CASE BeginDelete(u, ids)
  <2>1. PICK c : c = [ids |-> ids, groups |-> gs]
    OBVIOUS
  <2>2. Read(u, "delete", c)
    BY <1>1, <1>3, <2>1 DEF BeginDelete
  <2>3. cmd'[u].op = "delete" /\ cmd'[u].read = c /\ UNCHANGED rule
    BY <2>2, ReadSets
  <2>4. ReadOK(u)'
    BY <1>2, <2>1, <2>3 DEF ReadOK, WasRuleOf
  <2> QED
    BY <2>2, <2>4, ReadStep
<1>4. ASSUME NEW e \in BOOLEAN, BeginBulkSetEnabled(u, ids, e) PROVE RRInd'
  <2>1. PICK c : c = [ids |-> ids, enabled |-> e, groups |-> gs]
    OBVIOUS
  <2>2. Read(u, "bulkEnable", c)
    BY <1>1, <1>4, <2>1 DEF BeginBulkSetEnabled
  <2>3. cmd'[u].op = "bulkEnable" /\ cmd'[u].read = c /\ UNCHANGED rule
    BY <2>2, ReadSets
  <2>4. ReadOK(u)'
    BY <1>2, <2>1, <2>3 DEF ReadOK, WasRuleOf
  <2> QED
    BY <2>2, <2>4, ReadStep
<1> QED
  BY <1>3, <1>4

\* The commands on one rule.
LEMMA BeginOneStep ==
  ASSUME RRInd, NEW u \in Users, Idle(u), NEW i \in RuleIds,
         \/ \E e \in BOOLEAN : BeginSetEnabled(u, i, e)
         \/ \E v \in Domains : BeginUpdate(u, i, v)
         \/ \E h \in Groups : BeginDeleteNaming(u, i, h)
  PROVE  RRInd'
<1>1. PICK g \in Groups : g = rule[i].group /\ rule[i] # None
  BY RulesRead DEF BeginSetEnabled, BeginUpdate, BeginDeleteNaming
<1>2. ASSUME NEW e \in BOOLEAN, BeginSetEnabled(u, i, e) PROVE RRInd'
  <2>1. PICK d : d = (rule[i].enabled # e)
    OBVIOUS
  <2>2. PICK c : c = [id |-> i, group |-> g, enabled |-> e, differs |-> d]
    OBVIOUS
  <2>3. Read(u, "enable", c)
    BY <1>1, <1>2, <2>1, <2>2 DEF BeginSetEnabled
  <2>4. cmd'[u].op = "enable" /\ cmd'[u].read = c /\ UNCHANGED rule
    BY <2>3, ReadSets
  <2>5. c.id = i /\ c.group = g /\ c.enabled \in BOOLEAN
    BY <2>2
  <2>6. ReadOK(u)'
    BY <1>1, <2>4, <2>5 DEF ReadOK, WasRuleOf
  <2> QED
    BY <2>3, <2>6, ReadStep
<1>3. ASSUME NEW v \in Domains, BeginUpdate(u, i, v) PROVE RRInd'
  <2>1. PICK d : d = (rule[i].value # v)
    OBVIOUS
  <2>2. PICK c : c = [id |-> i, group |-> g, value |-> v, differs |-> d]
    OBVIOUS
  <2>3. Read(u, "update", c)
    BY <1>1, <1>3, <2>1, <2>2 DEF BeginUpdate
  <2>4. cmd'[u].op = "update" /\ cmd'[u].read = c /\ UNCHANGED rule
    BY <2>3, ReadSets
  <2>5. c.id = i /\ c.group = g /\ c.value \in Domains
    BY <2>2
  <2>6. ReadOK(u)'
    BY <1>1, <2>4, <2>5 DEF ReadOK, WasRuleOf
  <2> QED
    BY <2>3, <2>6, ReadStep
<1>4. ASSUME NEW h \in Groups, BeginDeleteNaming(u, i, h) PROVE RRInd'
  <2>1. PICK is \in SUBSET RuleIds, hs \in SUBSET Groups : is = {i} /\ hs = {h}
    OBVIOUS
  <2>2. PICK c : c = [ids |-> is, groups |-> hs]
    OBVIOUS
  <2>3. Read(u, "delete", c)
    BY <1>4, <2>1, <2>2 DEF BeginDeleteNaming
  <2>4. cmd'[u].op = "delete" /\ cmd'[u].read = c
    BY <2>3, ReadSets
  <2>5. i \in Rows(rule) /\ UNCHANGED rule
    BY <1>4, <2>3, ReadSets DEF BeginDeleteNaming
  <2>6. WasRuleOf(i, Groups)'
    BY <2>5, RulesRead DEF WasRuleOf
  <2>7. \A j \in c.ids : WasRuleOf(j, Groups)'
    BY <2>1, <2>2, <2>6
  <2>8. ReadOK(u)'
    BY <2>2, <2>4, <2>7 DEF ReadOK
  <2> QED
    BY <2>3, <2>8, ReadStep
<1> QED
  BY <1>2, <1>3, <1>4

\* The commands on groups.
LEMMA BeginGroupStep ==
  ASSUME RRInd, NEW u \in Users, Idle(u),
         \/ \E g \in Groups, t \in Types, vs \in SUBSET Domains : BeginCreate(u, g, t, vs)
         \/ \E g \in Groups : BeginCreateGroup(u, g) \/ BeginDeleteGroup(u, g)
         \/ \E g, h \in Groups : BeginClone(u, g, h)
         \/ \E g \in Groups, e \in {"on", "off"} : BeginUpdateGroup(u, g, e)
         \/ \E e \in {"on", "off"} : BeginToggle(u, e)
  PROVE  RRInd'
<1>1. ASSUME NEW g \in Groups, NEW t \in Types, NEW vs \in SUBSET Domains, BeginCreate(u, g, t, vs)
      PROVE  RRInd'
  <2>1. PICK c : c = [group |-> g, type |-> t, values |-> vs] /\ Read(u, "create", c)
    BY <1>1 DEF BeginCreate
  <2>2. cmd'[u].op = "create" /\ cmd'[u].read = c
    <3>1. Read(u, "create", c)
      BY <2>1
    <3> QED
      BY <3>1, ReadSets
  <2>3. ReadOK(u)'
    BY <2>1, <2>2 DEF ReadOK
  <2> QED
    BY <2>1, <2>3, ReadStep
<1>2. ASSUME NEW g \in Groups, BeginCreateGroup(u, g) PROVE RRInd'
  <2>1. PICK c : c = [group |-> g] /\ Read(u, "createGroup", c)
    BY <1>2 DEF BeginCreateGroup
  <2>2. cmd'[u].op = "createGroup" /\ cmd'[u].read = c
    BY <2>1, ReadSets
  <2>3. ReadOK(u)'
    BY <2>1, <2>2 DEF ReadOK
  <2> QED
    BY <2>1, <2>3, ReadStep
<1>3. ASSUME NEW g \in Groups, BeginDeleteGroup(u, g) PROVE RRInd'
  <2>1. PICK c : c = [group |-> g] /\ Read(u, "deleteGroup", c)
    BY <1>3 DEF BeginDeleteGroup
  <2>2. cmd'[u].op = "deleteGroup" /\ cmd'[u].read = c
    BY <2>1, ReadSets
  <2>3. ReadOK(u)'
    BY <2>1, <2>2 DEF ReadOK
  <2> QED
    BY <2>1, <2>3, ReadStep
<1>4. ASSUME NEW g \in Groups, NEW h \in Groups, BeginClone(u, g, h) PROVE RRInd'
  <2>1. PICK c : c = [from |-> g, group |-> h] /\ Read(u, "clone", c)
    BY <1>4 DEF BeginClone
  <2>2. cmd'[u].op = "clone" /\ cmd'[u].read = c
    BY <2>1, ReadSets
  <2>3. ReadOK(u)'
    BY <2>1, <2>2 DEF ReadOK
  <2> QED
    BY <2>1, <2>3, ReadStep
<1>5. ASSUME NEW g \in Groups, NEW e \in {"on", "off"}, BeginUpdateGroup(u, g, e)
      PROVE  RRInd'
  <2>1. PICK d : d = (group[g] # e)
    OBVIOUS
  <2>2. PICK c : c = [group |-> g, to |-> e, differs |-> d]
    OBVIOUS
  <2>3. Read(u, "updateGroup", c)
    BY <1>5, <2>1, <2>2 DEF BeginUpdateGroup
  <2>4. cmd'[u].op = "updateGroup" /\ cmd'[u].read = c
    BY <2>3, ReadSets
  <2>5. ReadOK(u)'
    BY <2>2, <2>4 DEF ReadOK
  <2> QED
    BY <2>3, <2>5, ReadStep
<1>6. ASSUME NEW e \in {"on", "off"}, BeginToggle(u, e) PROVE RRInd'
  <2>1. PICK c : c = [to |-> e] /\ Read(u, "toggle", c)
    BY <1>6 DEF BeginToggle
  <2>2. cmd'[u].op = "toggle" /\ cmd'[u].read = c
    BY <2>1, ReadSets
  <2>3. ReadOK(u)'
    BY <2>1, <2>2 DEF ReadOK
  <2> QED
    BY <2>1, <2>3, ReadStep
<1> QED
  BY <1>1, <1>2, <1>3, <1>4, <1>5, <1>6

\* The commands on requests.
LEMMA BeginRequestsStep ==
  ASSUME RRInd, NEW u \in Users, Idle(u),
         \/ \E d \in Domains, g \in Groups : BeginRequest(u, d, g)
         \/ \E r \in RequestIds, g \in Groups : BeginApprove(u, r, g)
         \/ \E r \in RequestIds : BeginReject(u, r) \/ BeginDeleteRequest(u, r)
  PROVE  RRInd'
<1>1. ASSUME NEW d \in Domains, NEW g \in Groups, BeginRequest(u, d, g) PROVE RRInd'
  <2>1. PICK c : c = [domain |-> d, group |-> g] /\ Read(u, "request", c)
    BY <1>1 DEF BeginRequest
  <2>2. cmd'[u].op = "request" /\ cmd'[u].read = c
    <3>1. Read(u, "request", c)
      BY <2>1
    <3> QED
      BY <3>1, ReadSets
  <2>3. ReadOK(u)'
    BY <2>1, <2>2 DEF ReadOK
  <2> QED
    BY <2>1, <2>3, ReadStep
<1>2. ASSUME NEW r \in RequestIds, NEW g \in Groups, BeginApprove(u, r, g) PROVE RRInd'
  <2>1. PICK k \in Domains : k = request[r].domain
    BY <1>2, Tables DEF BeginApprove, RequestRow
  <2>2. PICK c : c = [id |-> r, group |-> g, domain |-> k] /\ Read(u, "approve", c)
    BY <1>2, <2>1 DEF BeginApprove
  <2>3. cmd'[u].op = "approve" /\ cmd'[u].read = c
    <3>1. Read(u, "approve", c)
      BY <2>2
    <3> QED
      BY <3>1, ReadSets
  <2>4. ReadOK(u)'
    BY <2>2, <2>3 DEF ReadOK
  <2> QED
    BY <2>2, <2>4, ReadStep
<1>3. ASSUME NEW r \in RequestIds, BeginReject(u, r) PROVE RRInd'
  <2>1. PICK c : c = [id |-> r] /\ Read(u, "reject", c)
    BY <1>3 DEF BeginReject
  <2>2. cmd'[u].op = "reject" /\ cmd'[u].read = c
    BY <2>1, ReadSets
  <2>3. ReadOK(u)'
    BY <2>1, <2>2 DEF ReadOK
  <2> QED
    BY <2>1, <2>3, ReadStep
<1>4. ASSUME NEW r \in RequestIds, BeginDeleteRequest(u, r) PROVE RRInd'
  <2>1. PICK c : c = [id |-> r] /\ Read(u, "deleteRequest", c)
    BY <1>4 DEF BeginDeleteRequest
  <2>2. cmd'[u].op = "deleteRequest" /\ cmd'[u].read = c
    BY <2>1, ReadSets
  <2>3. ReadOK(u)'
    BY <2>1, <2>2 DEF ReadOK
  <2> QED
    BY <2>1, <2>3, ReadStep
<1> QED
  BY <1>1, <1>2, <1>3, <1>4

-----------------------------------------------------------------------------
\* The invariant at the start.
LEMMA RRInitial == RRInit => RRInd
<1> SUFFICES ASSUME RRInit PROVE RRInd
  OBVIOUS
<1> USE DEF RRInit
<1>1. Rows(rule) = {} /\ Rows(request) = {}
  BY DEF Rows
<1>2. \A u \in Users : cmd[u] = NoCommand
  OBVIOUS
<1>3. RRTypeOK
  <2>1. begun \in 0 .. MaxCommands
    BY RulesAssumption
  <2>2. \A u \in Users : /\ cmd[u].at \in Places
                         /\ cmd[u].events \subseteq Groups
    BY <1>2 DEF NoCommand, Places
  <2> QED
    BY <1>1, <2>1, <2>2 DEF RRTypeOK, Places
<1>4. CommandsOK
  <2>1. \A u \in Users : ReadOK(u) /\ PlaceOK(u)
    BY <1>2 DEF ReadOK, PlaceOK, NoCommand
  <2>2. cmd = [u \in Users |-> cmd[u]]
    <3>1. cmd = [u \in Users |-> NoCommand]
      OBVIOUS
    <3> QED
      BY <3>1
  <2>3. told = [g \in Groups |-> told[g]]
    OBVIOUS
  <2> QED
    BY <2>1, <2>2, <2>3 DEF CommandsOK
<1>5. ChangesAreAnnounced
  BY DEF ChangesAreAnnounced
<1> QED
  BY <1>3, <1>4, <1>5 DEF RRInd

\* Every step keeps the invariant.
LEMMA RRStep == RRInd /\ [RRNext]_rrVars => RRInd'
<1> SUFFICES ASSUME RRInd, [RRNext]_rrVars PROVE RRInd'
  OBVIOUS
<1>1. ASSUME NEW u \in Users, Begin(u) PROVE RRInd'
  BY <1>1, BeginManyStep, BeginOneStep, BeginGroupStep, BeginRequestsStep DEF Begin
<1>2. ASSUME NEW u \in Users, Write(u) PROVE RRInd'
  BY <1>2, WriteCreateStep, WriteDeleteStep, WriteSetEnabledStep, WriteBulkSetEnabledStep,
     WriteUpdateStep, WriteCreateGroupStep, WriteCloneStep, WriteUpdateGroupStep,
     WriteToggleStep, RereadStep, RereadFailsStep, WriteDeleteGroupStep, RemoveFromRolesStep, RemoveFromRolesFailsStep,
     WriteRequestStep, ApproveLooksStep, ApproveCommitsStep, WriteRejectStep,
     WriteDeleteRequestStep DEF Write
<1>3. ASSUME NEW u \in Users, Dispatch(u) PROVE RRInd'
  BY <1>3, DispatchStep
<1>4. CASE UNCHANGED rrVars
  BY <1>4 DEF rrVars, RRInd, RRTypeOK, CommandsOK, ReadOK, PlaceOK, WasRuleOf,
     ChangesAreAnnounced, Announcing, Export, RulesOf, Rows, Exists
<1> QED
  BY <1>1, <1>2, <1>3, <1>4 DEF RRNext

\* The invariant holds always.
LEMMA RRInductive == RRSpec => []RRInd
BY RRInitial, RRStep, PTL DEF RRSpec

\* For any groups, rules, requests and users, and any interleaving of their
\* commands: no rule or request is left of a group that was deleted.
THEOREM ForeignKeysHold == RRSpec => []RRTypeOK
<1>1. RRInd => RRTypeOK
  BY DEF RRInd
<1> QED
  BY <1>1, RRInductive, PTL

\* The agents of a group hear of every change of its export, except after a
\* command that compared with an outdated row, failed between its write and its
\* event (cleaning the roles up, reading again what it wrote) or announced the
\* group its caller named instead of the rule's.
THEOREM EveryChangeIsAnnounced == RRSpec => []ChangesAreAnnounced
<1>1. RRInd => ChangesAreAnnounced
  BY DEF RRInd
<1> QED
  BY <1>1, RRInductive, PTL

-----------------------------------------------------------------------------
(***************************************************************************)
(* What a step does to requests and to the rules of approvals.             *)
(***************************************************************************)

\* A rejected request stays rejected until it is deleted.
LEMMA RejectedStays ==
  ASSUME RRInd, [RRNext]_rrVars, NEW r \in Rows(request), request[r].status = "rejected"
  PROVE  request'[r] = Gone \/ request'[r].status = "rejected"
<1>1. r \in RequestIds /\ request[r] \in RequestRow
  BY Tables
<1>2. CASE UNCHANGED request
  BY <1>2
<1>3. ASSUME NEW u \in Users, WriteDeleteGroup(u)
      PROVE  request'[r] = Gone \/ request'[r].status = "rejected"
  BY <1>1, <1>3 DEF WriteDeleteGroup, Refused
<1>4. ASSUME NEW u \in Users, WriteRequest(u)
      PROVE  request'[r] = Gone \/ request'[r].status = "rejected"
  <2>1. CASE UNCHANGED request
    BY <2>1
  <2>2. CASE ~UNCHANGED request
    <3>1. PICK q \in RequestIds :
            request[q] = None /\ \E x : request' = [request EXCEPT ![q] = x]
      BY <1>4, <2>2 DEF WriteRequest, Refused
    <3>2. q # r
      BY <1>1, <3>1, RowFacts
    <3> QED
      BY <1>1, <3>1, <3>2, Tables
  <2> QED
    BY <2>1, <2>2
<1>5. ASSUME NEW u \in Users, ApproveCommits(u)
      PROVE  request'[r] = Gone \/ request'[r].status = "rejected"
  <2>1. CASE Refused(u)
    BY <2>1 DEF Refused
  <2>2. CASE ~Refused(u)
    <3>1. PICK q \in RequestIds, x \in RequestRow :
            /\ x = request[q] /\ x.status = "pending"
            /\ request' = [request EXCEPT ![q] = [x EXCEPT !.status = "approved"]]
      BY <1>5, <2>2, Approved
    <3>2. q # r
      BY <3>1
    <3> QED
      BY <1>1, <3>1, <3>2, Tables
  <2> QED
    BY <2>1, <2>2
<1>6. ASSUME NEW u \in Users, WriteReject(u)
      PROVE  request'[r] = Gone \/ request'[r].status = "rejected"
  <2>1. CASE UNCHANGED request
    BY <2>1
  <2>2. CASE ~UNCHANGED request
    <3>1. PICK q : q \in Rows(request)
                   /\ request' = [request EXCEPT ![q] = [request[q] EXCEPT !.status = "rejected"]]
      BY <1>6, <2>2 DEF WriteReject, Refused
    <3>2. PICK y : y = [request[q] EXCEPT !.status = "rejected"]
      OBVIOUS
    <3>3. y.status = "rejected"
      <4>1. PICK x \in RequestRow : x = request[q]
        BY <3>1, Tables
      <4> QED
        BY <3>2, <4>1, RequestColumns
    <3>4. request' = [request EXCEPT ![q] = y]
      BY <3>1, <3>2
    <3> QED
      BY <1>1, <3>3, <3>4, Tables
  <2> QED
    BY <2>1, <2>2
<1>7. ASSUME NEW u \in Users, WriteDeleteRequest(u)
      PROVE  request'[r] = Gone \/ request'[r].status = "rejected"
  BY <1>1, <1>7, Tables DEF WriteDeleteRequest
<1>8. CASE UNCHANGED rrVars
  BY <1>8, <1>2 DEF rrVars
<1>9. ASSUME NEW u \in Users, Begin(u) \/ Dispatch(u) PROVE UNCHANGED request
  BY <1>9 DEF Begin, Dispatch, Read, BeginCreate, BeginDelete, BeginDeleteNaming, BeginSetEnabled,
     BeginBulkSetEnabled, BeginUpdate, BeginCreateGroup, BeginDeleteGroup, BeginClone,
     BeginUpdateGroup, BeginToggle, BeginRequest, BeginApprove, BeginReject, BeginDeleteRequest
<1>10. ASSUME NEW u \in Users,
              \/ WriteCreate(u) \/ WriteDelete(u) \/ WriteSetEnabled(u)
              \/ WriteBulkSetEnabled(u) \/ WriteUpdate(u)
              \/ WriteCreateGroup(u) \/ WriteClone(u) \/ WriteUpdateGroup(u)
              \/ WriteToggle(u) \/ Reread(u) \/ RereadFails(u)
              \/ RemoveFromRoles(u) \/ RemoveFromRolesFails(u)
              \/ ApproveLooks(u)
       PROVE  UNCHANGED request
  BY <1>10 DEF WriteCreate, WriteDelete, WriteSetEnabled, WriteBulkSetEnabled, WriteUpdate,
     WriteCreateGroup, WriteClone, WriteUpdateGroup, WriteToggle, Reread, RereadFails,
     RemoveFromRoles, RemoveFromRolesFails, ApproveLooks, Refused
<1> QED
  BY <1>2, <1>3, <1>4, <1>5, <1>6, <1>7, <1>8, <1>9, <1>10 DEF RRNext, Write

\* A rejection is final, whatever approvals are in flight.
THEOREM RejectionsStand == RRSpec => RejectionIsFinal
<1>1. RRInd /\ [RRNext]_rrVars =>
        \A r \in Rows(request) :
          request[r].status = "rejected" =>
            \/ request'[r] = Gone
            \/ request'[r].status = "rejected"
  BY RejectedStays
<1> QED
  BY <1>1, RRInductive, PTL DEF RRSpec, RejectionIsFinal

\* A step of an approval that changes rules is its commit.
LEMMA ApprovalCommits ==
  ASSUME RRInd, RRNext, NEW u \in Users,
         cmd[u].op = "approve", cmd'[u] # cmd[u], rule' # rule
  PROVE  ApproveCommits(u)
<1>1. ASSUME NEW v \in Users, Begin(v) \/ Dispatch(v) PROVE UNCHANGED rule
  BY <1>1 DEF Begin, Dispatch, Read, BeginCreate, BeginDelete, BeginDeleteNaming, BeginSetEnabled,
     BeginBulkSetEnabled, BeginUpdate, BeginCreateGroup, BeginDeleteGroup, BeginClone,
     BeginUpdateGroup, BeginToggle, BeginRequest, BeginApprove, BeginReject, BeginDeleteRequest
<1>2. PICK v \in Users : Write(v)
  BY <1>1 DEF RRNext
<1>3. u = v
  <2>1. \A w \in Users : w # v => cmd'[w] = cmd[w]
    <3>1. cmd = [w \in Users |-> cmd[w]]
      BY Tables
    <3>2. \E x : cmd' = [cmd EXCEPT ![v] = x]
      BY <1>2 DEF Write, WriteCreate, WriteDelete, WriteSetEnabled, WriteBulkSetEnabled,
         WriteUpdate, WriteCreateGroup, WriteClone, WriteUpdateGroup, WriteToggle,
         RereadsFor, Reread, RereadFails, WriteDeleteGroup, RemoveFromRoles, RemoveFromRolesFails, WriteRequest, ApproveLooks,
         ApproveCommits, WriteReject, WriteDeleteRequest, Refused, Committed
    <3> QED
      BY <3>1, <3>2
  <2> QED
    BY <2>1
<1>4. PlaceOK(u)
  BY Command
<1> QED
  BY <1>2, <1>3, <1>4 DEF Write, Writes, PlaceOK, WriteCreate, WriteDelete, WriteSetEnabled,
     WriteBulkSetEnabled, WriteUpdate, WriteCreateGroup, WriteClone, WriteUpdateGroup,
     WriteToggle, Reread, RereadFails, WriteDeleteGroup, RemoveFromRoles,
     RemoveFromRolesFails, WriteRequest,
     ApproveLooks, WriteReject, WriteDeleteRequest

\* An approval writes rule and status together or not at all.
THEOREM ApprovalsAreAtomic == RRSpec => ApprovalIsAtomic
<1>1. ASSUME RRInd, [RRNext]_rrVars, NEW u \in Users,
             cmd[u].op = "approve", cmd'[u] # cmd[u], rule' # rule
      PROVE  /\ cmd[u].read.id \in Rows(request) /\ request[cmd[u].read.id].status = "pending"
             /\ request'[cmd[u].read.id].status = "approved"
  <2>1. ApproveCommits(u)
    BY <1>1, ApprovalCommits DEF rrVars
  <2>2. ~Refused(u)
    BY <1>1 DEF Refused
  <2>3. PICK r \in RequestIds, x \in RequestRow :
          /\ r = cmd[u].read.id /\ x = request[r] /\ x.status = "pending"
          /\ request' = [request EXCEPT ![r] = [x EXCEPT !.status = "approved"]]
    BY <1>1, <2>1, <2>2, Approved
  <2>4. PICK y : y = [x EXCEPT !.status = "approved"] /\ y.status = "approved"
    BY RequestColumns
  <2>5. request'[r].status = "approved"
    BY <1>1, <2>3, <2>4, Tables
  <2> QED
    BY <1>1, <2>3, <2>5, Tables
<1>2. RRInd /\ [RRNext]_rrVars =>
        \A u \in Users : (cmd[u].op = "approve" /\ cmd'[u] # cmd[u] /\ rule' # rule) =>
          LET r == cmd[u].read.id IN
          r \in Rows(request) /\ request[r].status = "pending" /\ request'[r].status = "approved"
  BY <1>1
<1> QED
  BY <1>2, RRInductive, PTL DEF RRSpec, ApprovalIsAtomic

=============================================================================
