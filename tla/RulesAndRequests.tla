-------------------------- MODULE RulesAndRequests --------------------------
(***************************************************************************)
(* Groups, their rules and the pupils' access requests: the commands of    *)
(* the API (api/src/services/groups-management-mutations.service.ts,       *)
(* groups-rules-mutations.service.ts, whitelist-rule-command.service.ts,   *)
(* request-command-*.service.ts) over the tables they write.               *)
(*                                                                         *)
(* A command reads first, awaits, and then writes in a transaction; the    *)
(* events it published are dispatched after the commit.  The three parts   *)
(* are three steps, so that two commands interleave between them.  What a  *)
(* command read stays in its record, and is stale when it writes.          *)
(***************************************************************************)
EXTENDS Naturals, FiniteSets

CONSTANTS
  Groups,      \* identifiers of groups
  Domains,     \* values of rules and domains of requests
  RuleIds,     \* identifiers of rules (uuid: never used twice)
  RequestIds,  \* identifiers of requests (never used twice)
  Users,       \* callers, one command each at a time
  Admins,      \* those whose token has the admin role
  Approves,    \* the groups in each user's teacher roles
  None, Gone,  \* no row yet; a deleted row
  MaxCommands  \* bound: commands begun

Types == {"whitelist", "blocked"}
RuleRow == [group : Groups, type : Types, value : Domains, enabled : BOOLEAN]
RequestRow == [group : Groups, domain : Domains,
               status : {"pending", "approved", "rejected"}]

ASSUME RulesAssumption ==
  /\ Admins \subseteq Users
  /\ Approves \in [Users -> SUBSET Groups]
  /\ MaxCommands \in Nat
  /\ None # Gone
  /\ {None, Gone} \cap ({"on", "off"} \cup RuleRow \cup RequestRow) = {}

VARIABLES
  group,    \* group -> None, "on", "off" or Gone
  rule,     \* rule -> None, Gone or its row
  request,  \* request -> None, Gone or its row
  roles,    \* the groups that some teacher's role lists
  cmd,      \* user -> the command in flight
  told,     \* history: the export an agent fetched at the group's last event
  stale,    \* history: groups whose last writer acted on an outdated read, failed
            \* between the write and the event, or announced another group
  begun

rrVars == <<group, rule, request, roles, cmd, told, stale, begun>>

Rows(f) == {i \in DOMAIN f : f[i] \notin {None, Gone}}
Exists(g) == group[g] \in {"on", "off"}
RulesOf(g) == {i \in Rows(rule) : rule[i].group = g}
SameRule(g, t, v) == {i \in RulesOf(g) : rule[i].type = t /\ rule[i].value = v}

\* exportGroup(): "#DESACTIVADO" for a disabled group, else the enabled rules.
Export(g) ==
  IF group[g] = "on"
  THEN {<<rule[i].type, rule[i].value>> : i \in {j \in RulesOf(g) : rule[j].enabled}}
  ELSE {<<group[g]>>}

NoCommand == [op |-> "none", at |-> "idle", events |-> {}, read |-> None]

RRInit ==
  /\ group \in [Groups -> {None, "on"}]
  /\ \E g \in Groups : group[g] = "on"
  /\ rule = [i \in RuleIds |-> None]
  /\ request = [r \in RequestIds |-> None]
  /\ roles = {g \in Groups : Exists(g)}
  /\ cmd = [u \in Users |-> NoCommand]
  /\ told = [g \in Groups |-> Export(g)]
  /\ stale = {}
  /\ begun = 0

-----------------------------------------------------------------------------
(***************************************************************************)
(* The steps of a command.                                                 *)
(***************************************************************************)
Idle(u) == cmd[u].at = "idle" /\ begun < MaxCommands

\* The reads before the write have been awaited.
Read(u, op, c) ==
  /\ cmd' = [cmd EXCEPT ![u] = [op |-> op, at |-> "write", events |-> {}, read |-> c]]
  /\ begun' = begun + 1
  /\ UNCHANGED <<group, rule, request, roles, told, stale>>

Writes(u, op) == cmd[u].op = op /\ cmd[u].at = "write"

\* The transaction committed; the collector holds these events, if any.
Committed(u, gs) ==
  cmd' = [cmd EXCEPT ![u] = IF gs = {} THEN NoCommand
                            ELSE [@ EXCEPT !.at = "dispatch", !.events = gs]]

\* An early return or an exception: nothing is written or dispatched.
Refused(u) ==
  /\ cmd' = [cmd EXCEPT ![u] = NoCommand]
  /\ UNCHANGED <<group, rule, request, roles, stale>>

\* flush(): the agents of the groups fetch their export again.
Dispatch(u) ==
  /\ cmd[u].at = "dispatch"
  /\ cmd' = [cmd EXCEPT ![u] = NoCommand]
  /\ told' = [g \in Groups |-> IF g \in cmd[u].events THEN Export(g) ELSE told[g]]
  /\ stale' = stale \ cmd[u].events
  /\ UNCHANGED <<group, rule, request, roles, begun>>

\* The group's export may change without an event.
Outdated(g, cond) == stale' = IF cond THEN stale \cup {g} ELSE stale

-----------------------------------------------------------------------------
(***************************************************************************)
(* Rules.                                                                  *)
(***************************************************************************)
\* createRule and bulkCreateRules: values that already have a rule are skipped.
BeginCreate(u, g, t, vs) ==
  /\ Exists(g)
  /\ Read(u, "create", [group |-> g, type |-> t, values |-> vs])

\* Mutant: an event only if no value was skipped.
WriteCreateAllOrNoEvent(u) ==
  LET c == cmd[u].read
      new == {v \in c.values : SameRule(c.group, c.type, v) = {}}
  IN
  /\ Writes(u, "create")
  /\ IF Exists(c.group) /\ new # {}
     THEN /\ \E f \in [new -> {i \in RuleIds : rule[i] = None}] :
               /\ \A v, w \in new : f[v] = f[w] => v = w
               /\ rule' = [i \in RuleIds |->
                    IF \E v \in new : f[v] = i
                    THEN [group |-> c.group, type |-> c.type, enabled |-> TRUE,
                          value |-> CHOOSE v \in new : f[v] = i]
                    ELSE rule[i]]
          /\ Committed(u, IF new = c.values THEN {c.group} ELSE {})
          /\ UNCHANGED <<group, request, roles, stale>>
     ELSE Refused(u)
  /\ UNCHANGED <<told, begun>>

WriteCreate(u) ==
  LET c == cmd[u].read
      new == {v \in c.values : SameRule(c.group, c.type, v) = {}}
  IN
  /\ Writes(u, "create")
  /\ IF Exists(c.group) /\ new # {}
     THEN /\ \E f \in [new -> {i \in RuleIds : rule[i] = None}] :
               /\ \A v, w \in new : f[v] = f[w] => v = w
               /\ rule' = [i \in RuleIds |->
                    IF \E v \in new : f[v] = i
                    THEN [group |-> c.group, type |-> c.type, enabled |-> TRUE,
                          value |-> CHOOSE v \in new : f[v] = i]
                    ELSE rule[i]]
          /\ Committed(u, {c.group})
          /\ UNCHANGED <<group, request, roles, stale>>
     ELSE Refused(u)
  /\ UNCHANGED <<told, begun>>

\* bulkDeleteRules, and deleteRule by a teacher: the groups of the events come
\* from the rows read before the transaction.
BeginDelete(u, ids) ==
  /\ ids \subseteq Rows(rule)
  /\ Read(u, "delete", [ids |-> ids, groups |-> {rule[i].group : i \in ids}])

\* deleteRule by an admin: the event is for the group that the caller names.
BeginDeleteNaming(u, i, g) ==
  /\ u \in Admins
  /\ i \in Rows(rule)
  /\ Read(u, "delete", [ids |-> {i}, groups |-> {g}])

WriteDelete(u) ==
  LET c == cmd[u].read
      deleted == c.ids \cap Rows(rule)
  IN
  /\ Writes(u, "delete")
  /\ IF deleted # {}
     THEN /\ rule' = [i \in RuleIds |-> IF i \in c.ids THEN Gone ELSE rule[i]]
          /\ Committed(u, c.groups)
          /\ stale' = stale \cup ({rule[i].group : i \in deleted} \ c.groups)
          /\ UNCHANGED <<group, request, roles>>
     ELSE Refused(u)
  /\ UNCHANGED <<told, begun>>

\* setRuleEnabled: an event only if the row read before differed.
BeginSetEnabled(u, i, e) ==
  /\ i \in Rows(rule)
  /\ Read(u, "enable", [id |-> i, group |-> rule[i].group, enabled |-> e,
                        differs |-> rule[i].enabled # e])

WriteSetEnabled(u) ==
  LET c == cmd[u].read IN
  /\ Writes(u, "enable")
  /\ IF c.id \in Rows(rule)
     THEN /\ rule' = [rule EXCEPT ![c.id].enabled = c.enabled]
          /\ Committed(u, IF c.differs THEN {c.group} ELSE {})
          /\ Outdated(c.group, ~c.differs /\ rule[c.id].enabled # c.enabled)
          /\ UNCHANGED <<group, request, roles>>
     ELSE Refused(u)
  /\ UNCHANGED <<told, begun>>

\* bulkSetRulesEnabled: events for every group of the rows read before.
BeginBulkSetEnabled(u, ids, e) ==
  /\ ids \subseteq Rows(rule)
  /\ Read(u, "bulkEnable", [ids |-> ids, enabled |-> e,
                            groups |-> {rule[i].group : i \in ids}])

WriteBulkSetEnabled(u) ==
  LET c == cmd[u].read IN
  /\ Writes(u, "bulkEnable")
  /\ IF c.ids \cap Rows(rule) # {}
     THEN /\ rule' = [i \in RuleIds |->
                        IF i \in c.ids \cap Rows(rule)
                        THEN [rule[i] EXCEPT !.enabled = c.enabled] ELSE rule[i]]
          /\ Committed(u, c.groups)
          /\ UNCHANGED <<group, request, roles, stale>>
     ELSE Refused(u)
  /\ UNCHANGED <<told, begun>>

\* updateRule: didChangeExport compares with the row read before; a duplicate
\* in the group refuses the change.
BeginUpdate(u, i, v) ==
  /\ i \in Rows(rule)
  /\ Read(u, "update", [id |-> i, group |-> rule[i].group, value |-> v,
                        differs |-> rule[i].value # v])

WriteUpdate(u) ==
  LET c == cmd[u].read IN
  /\ Writes(u, "update")
  /\ IF c.id \in Rows(rule) /\ SameRule(c.group, rule[c.id].type, c.value) \subseteq {c.id}
     THEN /\ rule' = [rule EXCEPT ![c.id].value = c.value]
          /\ Committed(u, IF c.differs THEN {c.group} ELSE {})
          /\ Outdated(c.group, ~c.differs /\ rule[c.id].value # c.value)
          /\ UNCHANGED <<group, request, roles>>
     ELSE Refused(u)
  /\ UNCHANGED <<told, begun>>

-----------------------------------------------------------------------------
(***************************************************************************)
(* Groups.                                                                 *)
(***************************************************************************)
\* createGroup has no event: no machine uses the group yet.
BeginCreateGroup(u, g) ==
  /\ group[g] = None
  /\ Read(u, "createGroup", [group |-> g])

WriteCreateGroup(u) ==
  LET g == cmd[u].read.group IN
  /\ Writes(u, "createGroup")
  /\ IF group[g] = None
     THEN /\ group' = [group EXCEPT ![g] = "on"]
          /\ told' = [told EXCEPT ![g] = {}]
          /\ Committed(u, {})
          /\ UNCHANGED <<rule, request, roles, stale>>
     ELSE Refused(u) /\ UNCHANGED told
  /\ UNCHANGED begun

\* cloneGroup: the copies are inserted without `enabled`, so all are enabled.
BeginClone(u, g, h) ==
  /\ Exists(g) /\ group[h] = None
  /\ Read(u, "clone", [from |-> g, group |-> h])

WriteClone(u) ==
  LET c == cmd[u].read
      source == RulesOf(c.from)
      free == {i \in RuleIds : rule[i] = None}
  IN
  /\ Writes(u, "clone")
  /\ IF group[c.group] = None
     THEN /\ \E f \in [source -> free] :
               /\ \A i, j \in source : f[i] = f[j] => i = j
               /\ rule' = [k \in RuleIds |->
                    IF \E i \in source : f[i] = k
                    THEN [rule[CHOOSE i \in source : f[i] = k]
                            EXCEPT !.group = c.group, !.enabled = TRUE]
                    ELSE rule[k]]
          /\ group' = [group EXCEPT ![c.group] = "on"]
          /\ Committed(u, {c.group})
          /\ UNCHANGED <<request, roles, stale>>
     ELSE Refused(u)
  /\ UNCHANGED <<told, begun>>

\* updateGroup: an event only if `enabled` differs from the row read before.
BeginUpdateGroup(u, g, e) ==
  /\ Exists(g)
  /\ Read(u, "updateGroup", [group |-> g, to |-> e, differs |-> group[g] # e])

\* A write outside a transaction; the result is read before the event is published.
RereadsFor(u, gs) == cmd' = [cmd EXCEPT ![u].at = "reread", ![u].events = gs]

WriteUpdateGroup(u) ==
  LET c == cmd[u].read IN
  /\ Writes(u, "updateGroup")
  /\ IF Exists(c.group)
     THEN /\ group' = [group EXCEPT ![c.group] = c.to]
          /\ RereadsFor(u, IF c.differs THEN {c.group} ELSE {})
          /\ Outdated(c.group, ~c.differs /\ group[c.group] # c.to)
          /\ UNCHANGED <<rule, request, roles>>
     ELSE Refused(u)
  /\ UNCHANGED <<told, begun>>

\* toggleSystemStatus: every group, and the event for all of them.
BeginToggle(u, e) == Read(u, "toggle", [to |-> e])

WriteToggle(u) ==
  /\ Writes(u, "toggle")
  /\ group' = [g \in Groups |-> IF Exists(g) THEN cmd[u].read.to ELSE group[g]]
  /\ RereadsFor(u, Groups)
  /\ UNCHANGED <<rule, request, roles, told, stale, begun>>

\* The group that was updated, or the status of all of them.  A group deleted
\* meanwhile is null, and has no event.
Reread(u) ==
  /\ cmd[u].at = "reread"
  /\ Committed(u, IF cmd[u].op = "updateGroup" /\ ~Exists(cmd[u].read.group)
                  THEN {} ELSE cmd[u].events)
  /\ UNCHANGED <<group, rule, request, roles, told, stale, begun>>

\* The query throws: what was written stays and nobody is told.
RereadFails(u) ==
  /\ cmd[u].at = "reread"
  /\ cmd' = [cmd EXCEPT ![u] = NoCommand]
  /\ stale' = stale \cup cmd[u].events
  /\ UNCHANGED <<group, rule, request, roles, told, begun>>

\* deleteGroup: the row and, by foreign keys, its rules and requests; then, in
\* a statement of its own, the roles that list it; then the event.
BeginDeleteGroup(u, g) ==
  /\ Exists(g)
  /\ Read(u, "deleteGroup", [group |-> g])

\* Mutant: the rules of the group stay.
WriteDeleteGroupOnly(u) ==
  LET g == cmd[u].read.group IN
  /\ Writes(u, "deleteGroup")
  /\ IF Exists(g)
     THEN /\ group' = [group EXCEPT ![g] = Gone]
          /\ cmd' = [cmd EXCEPT ![u].at = "roles"]
          /\ UNCHANGED <<rule, request, roles, stale>>
     ELSE Refused(u)
  /\ UNCHANGED <<told, begun>>

WriteDeleteGroup(u) ==
  LET g == cmd[u].read.group IN
  /\ Writes(u, "deleteGroup")
  /\ IF Exists(g)
     THEN /\ group' = [group EXCEPT ![g] = Gone]
          /\ rule' = [i \in RuleIds |-> IF i \in RulesOf(g) THEN Gone ELSE rule[i]]
          /\ request' = [r \in RequestIds |->
               IF r \in Rows(request) /\ request[r].group = g THEN Gone ELSE request[r]]
          /\ cmd' = [cmd EXCEPT ![u].at = "roles"]
          /\ UNCHANGED <<roles, stale>>
     ELSE Refused(u)
  /\ UNCHANGED <<told, begun>>

RemoveFromRoles(u) ==
  /\ cmd[u].at = "roles"
  /\ roles' = roles \ {cmd[u].read.group}
  /\ Committed(u, {cmd[u].read.group})
  /\ UNCHANGED <<group, rule, request, told, stale, begun>>

\* removeGroupFromAllRoles throws: the group is gone and nobody is told.
RemoveFromRolesFails(u) ==
  /\ cmd[u].at = "roles"
  /\ cmd' = [cmd EXCEPT ![u] = NoCommand]
  /\ Outdated(cmd[u].read.group, TRUE)
  /\ UNCHANGED <<group, rule, request, roles, told, begun>>

-----------------------------------------------------------------------------
(***************************************************************************)
(* Requests.                                                               *)
(***************************************************************************)
Pending(d, g) == {r \in Rows(request) : request[r] =
                    [domain |-> d, group |-> g, status |-> "pending"]}

BeginRequest(u, d, g) ==
  /\ Exists(g)
  /\ Pending(d, g) = {}
  /\ Read(u, "request", [domain |-> d, group |-> g])

WriteRequest(u) ==
  LET c == cmd[u].read IN
  /\ Writes(u, "request")
  /\ IF Exists(c.group)
     THEN \E r \in RequestIds :
            /\ request[r] = None
            /\ request' = [request EXCEPT ![r] =
                 [domain |-> c.domain, group |-> c.group, status |-> "pending"]]
            /\ Committed(u, {})
            /\ UNCHANGED <<group, rule, roles, stale>>
     ELSE Refused(u)
  /\ UNCHANGED <<told, begun>>

CanApprove(u, g) == u \in Admins \/ g \in Approves[u]

\* isDomainBlocked looks at the disabled rules too.
Blocked(g, d) == SameRule(g, "blocked", d) # {}

\* approveRequest up to its transaction.
BeginApprove(u, r, g) ==
  /\ r \in Rows(request) /\ request[r].status = "pending"
  /\ CanApprove(u, g) /\ Exists(g)
  /\ u \notin Admins => ~Blocked(g, request[r].domain)
  /\ Read(u, "approve", [id |-> r, group |-> g, domain |-> request[r].domain])

\* The transaction's first statement: is there a rule for the domain?
ApproveLooks(u) ==
  /\ Writes(u, "approve")
  /\ cmd' = [cmd EXCEPT ![u].at = "commit",
       ![u].events = IF SameRule(cmd[u].read.group, "whitelist", cmd[u].read.domain) = {}
                     THEN {cmd[u].read.group} ELSE {}]
  /\ UNCHANGED <<group, rule, request, roles, told, stale, begun>>

\* Inserting the rule of an approval.
InsertApproved(c) ==
  \E i \in RuleIds :
    /\ rule[i] = None
    /\ rule' = [rule EXCEPT ![i] = [group |-> c.group, type |-> "whitelist",
                                    value |-> c.domain, enabled |-> TRUE]]

\* Mutant: the update does not name the expected status.
ApproveCommitsAnyway(u) ==
  LET c == cmd[u].read IN
  /\ cmd[u].op = "approve" /\ cmd[u].at = "commit"
  /\ IF /\ c.id \in Rows(request) /\ Exists(c.group)
        /\ SameRule(c.group, "whitelist", c.domain) = {}
     THEN /\ request' = [request EXCEPT ![c.id].status = "approved"]
          /\ InsertApproved(c)
          /\ Committed(u, cmd[u].events)
          /\ UNCHANGED <<group, roles, stale>>
     ELSE Refused(u)
  /\ UNCHANGED <<told, begun>>

\* Mutant: rule and status are not written in one transaction.
ApproveCommitsApart(u) ==
  LET c == cmd[u].read IN
  /\ cmd[u].op = "approve" /\ cmd[u].at = "commit"
  /\ IF Exists(c.group) /\ SameRule(c.group, "whitelist", c.domain) = {}
     THEN /\ IF c.id \in Rows(request) /\ request[c.id].status = "pending"
             THEN request' = [request EXCEPT ![c.id].status = "approved"]
             ELSE UNCHANGED request
          /\ InsertApproved(c)
          /\ Committed(u, cmd[u].events)
          /\ UNCHANGED <<group, roles, stale>>
     ELSE Refused(u)
  /\ UNCHANGED <<told, begun>>

\* The rest: the rule is inserted unless one was seen, and the request becomes
\* approved if it still is pending; otherwise everything is rolled back.
ApproveCommits(u) ==
  LET c == cmd[u].read
      inserts == cmd[u].events # {}
      possible == /\ c.id \in Rows(request) /\ request[c.id].status = "pending"
                  /\ inserts => /\ Exists(c.group)
                                /\ SameRule(c.group, "whitelist", c.domain) = {}
  IN
  /\ cmd[u].op = "approve" /\ cmd[u].at = "commit"
  /\ IF possible
     THEN /\ request' = [request EXCEPT ![c.id].status = "approved"]
          /\ IF inserts THEN InsertApproved(c) ELSE UNCHANGED rule
          /\ Committed(u, cmd[u].events)
          /\ UNCHANGED <<group, roles, stale>>
     ELSE Refused(u)
  /\ UNCHANGED <<told, begun>>

BeginReject(u, r) ==
  /\ r \in Rows(request) /\ request[r].status = "pending"
  /\ CanApprove(u, request[r].group)
  /\ Read(u, "reject", [id |-> r])

\* The update names no expected status.
WriteReject(u) ==
  LET r == cmd[u].read.id IN
  /\ Writes(u, "reject")
  /\ IF r \in Rows(request)
     THEN /\ request' = [request EXCEPT ![r].status = "rejected"]
          /\ Committed(u, {})
          /\ UNCHANGED <<group, rule, roles, stale>>
     ELSE Refused(u)
  /\ UNCHANGED <<told, begun>>

BeginDeleteRequest(u, r) ==
  /\ r \in Rows(request)
  /\ Read(u, "deleteRequest", [id |-> r])

WriteDeleteRequest(u) ==
  /\ Writes(u, "deleteRequest")
  /\ request' = [request EXCEPT ![cmd[u].read.id] = Gone]
  /\ Committed(u, {})
  /\ UNCHANGED <<group, rule, roles, told, stale, begun>>

-----------------------------------------------------------------------------
Begin(u) ==
  /\ Idle(u)
  /\ \/ \E g \in Groups, t \in Types, vs \in SUBSET Domains \ {{}} : BeginCreate(u, g, t, vs)
     \/ \E ids \in SUBSET RuleIds \ {{}} : BeginDelete(u, ids)
     \/ \E i \in RuleIds, g \in Groups : BeginDeleteNaming(u, i, g)
     \/ \E i \in RuleIds, e \in BOOLEAN : BeginSetEnabled(u, i, e)
     \/ \E ids \in SUBSET RuleIds \ {{}}, e \in BOOLEAN : BeginBulkSetEnabled(u, ids, e)
     \/ \E i \in RuleIds, v \in Domains : BeginUpdate(u, i, v)
     \/ \E g \in Groups : BeginCreateGroup(u, g) \/ BeginDeleteGroup(u, g)
     \/ \E g, h \in Groups : BeginClone(u, g, h)
     \/ \E g \in Groups, e \in {"on", "off"} : BeginUpdateGroup(u, g, e)
     \/ \E e \in {"on", "off"} : BeginToggle(u, e)
     \/ \E d \in Domains, g \in Groups : BeginRequest(u, d, g)
     \/ \E r \in RequestIds, g \in Groups : BeginApprove(u, r, g)
     \/ \E r \in RequestIds : BeginReject(u, r) \/ BeginDeleteRequest(u, r)

Write(u) ==
  \/ WriteCreate(u) \/ WriteDelete(u) \/ WriteSetEnabled(u)
  \/ WriteBulkSetEnabled(u) \/ WriteUpdate(u)
  \/ WriteCreateGroup(u) \/ WriteClone(u) \/ WriteUpdateGroup(u)
  \/ WriteToggle(u) \/ Reread(u) \/ RereadFails(u) \/ WriteDeleteGroup(u)
  \/ RemoveFromRoles(u) \/ RemoveFromRolesFails(u)
  \/ WriteRequest(u) \/ ApproveLooks(u) \/ ApproveCommits(u)
  \/ WriteReject(u) \/ WriteDeleteRequest(u)

RRNext == \E u \in Users : Begin(u) \/ Write(u) \/ Dispatch(u)

RRSpec == RRInit /\ [][RRNext]_rrVars

-----------------------------------------------------------------------------
\* Types, and the foreign keys: no rule or request of a group that is gone,
\* whichever command wrote after the group was deleted.
RRTypeOK ==
  /\ \A i \in Rows(rule) : Exists(rule[i].group)
  /\ \A r \in Rows(request) : Exists(request[r].group)
  /\ group \in [Groups -> {None, "on", "off", Gone}]
  /\ rule \in [RuleIds -> {None, Gone} \cup RuleRow]
  /\ request \in [RequestIds -> {None, Gone} \cup RequestRow]
  /\ roles \subseteq Groups
  /\ \A u \in Users : /\ cmd[u].at \in {"idle", "write", "reread", "commit", "roles",
                                       "dispatch"}
                       /\ cmd[u].events \subseteq Groups
  /\ stale \subseteq Groups
  /\ begun \in 0 .. MaxCommands

\* The group's event is still to come: its writer has not dispatched yet.  An
\* update that will find its group deleted has none to give.
Announcing(g) ==
  \E u \in Users :
    \/ cmd[u].at = "dispatch" /\ g \in cmd[u].events
    \/ cmd[u].at = "reread" /\ g \in cmd[u].events /\ (cmd[u].op = "toggle" \/ Exists(g))
    \/ cmd[u].at = "roles" /\ cmd[u].read.group = g

\* The agents of a group are told of every change of its export ("Called after
\* any rule mutation (create, update, delete, bulk operations)",
\* api/src/lib/rule-events.ts:80), except where a command compared with a row
\* that had changed meanwhile, failed after its write (to clean the roles up, to
\* read what it wrote again), or announced the group its caller named although
\* the rule was of another.  A group that is deleted while an update reads it
\* again is announced by its deletion.
ChangesAreAnnounced ==
  \A g \in Groups \ stale : ~Announcing(g) => told[g] = Export(g)

\* A rejection is final: an approval that was being processed meanwhile finds
\* the request no longer pending, and its rule is rolled back with it.
RejectionIsFinal ==
  [][\A r \in Rows(request) :
       request[r].status = "rejected" =>
         \/ request'[r] = Gone
         \/ request'[r].status = "rejected"]_rrVars

\* An approval in flight never leaves a rule behind for a request that somebody
\* deleted, rejected or approved first.
ApprovalIsAtomic ==
  [][\A u \in Users :
       (cmd[u].op = "approve" /\ cmd'[u] # cmd[u] /\ rule' # rule) =>
         LET r == cmd[u].read.id IN
         r \in Rows(request) /\ request[r].status = "pending"
                             /\ request'[r].status = "approved"]_rrVars
=============================================================================
