----------------------------- MODULE PolicyPush -----------------------------
(***************************************************************************)
(* How one API instance pushes policy changes to the agents: the SSE hub   *)
(* (api/src/lib/sse-hub.ts), the route that opens a machine's event stream *)
(* (routes/machines/events.ts, services/machine-events.service.ts) and the *)
(* LISTEN/NOTIFY bridge that carries the changes other instances make      *)
(* (lib/db-event-bridge.ts, lib/rule-events.ts).                           *)
(*                                                                         *)
(* Node runs one callback at a time, so a step here is the code between    *)
(* two awaits.  A classroom publication has three: it looks the classroom  *)
(* up in the index, awaits the classroom's policy, awaits its exemptions,  *)
(* and then re-indexes and signals the clients.  Several publications, and *)
(* several connections being opened, can be suspended at the same time.    *)
(*                                                                         *)
(* A policy is the group whose whitelist a machine gets, or Unrestricted.  *)
(* What a stream owes its agent is compared with "told": the policy in     *)
(* force when the stream's agent was last signalled (it then fetches the   *)
(* whitelist) or, before any signal, when the stream was authorised;       *)
(* "dirty" tells that the rules of that policy changed since.  The agent   *)
(* fetches nothing when its stream opens: what changed before that, it     *)
(* learns from its timer.                                                  *)
(***************************************************************************)
EXTENDS Naturals, FiniteSets

CONSTANTS
  Groups,      \* group identifiers
  Classrooms,  \* classroom identifiers
  Machines,    \* hostnames
  Clients,     \* connection slots (SseClient.id)
  RoomOf,      \* machine -> its classroom
  HostOf,      \* client -> the machine that opens it
  MaxChanges   \* bound: policy and rule changes

Unrestricted == "__unrestricted__"
None == "none"

Policies == Groups \cup {Unrestricted}

ASSUME PolicyPushAssumption ==
  /\ RoomOf \in [Machines -> Classrooms]
  /\ HostOf \in [Clients -> Machines]
  /\ MaxChanges \in Nat
  /\ Unrestricted \notin Groups
  /\ None \notin Policies

VARIABLES
  base,        \* classroom -> its effective policy, in the database
  exempt,      \* machine -> its active exemption's policy, or None
  handler,     \* client -> where the route handler of its stream is
  gone,        \* the clients whose peer closed before the handler listens
  hub,         \* the keys of clientsById
  group,       \* client -> client.groupId
  byGroup,     \* clientIdsByGroupId (an absent key is the empty set)
  byClassroom, \* clientIdsByClassroomId
  events,      \* changes committed, their publication not yet called
  pubs,        \* suspended calls of publishClassroomChangedLocal
  bridge,      \* the bridge's PostgreSQL client
  told,        \* client -> the policy in force at its last signal or authorisation
  dirty,       \* the clients whose told policy has other rules since
  changes,     \* changes made so far
  lost,        \* history: a change was made that not every stream will hear of
  calm         \* history: nothing has happened that a publication cannot cope with

dbVars == <<base, exempt>>
hubVars == <<hub, group, byGroup, byClassroom>>
agentVars == <<told, dirty>>
vars == <<dbVars, handler, gone, hubVars, events, pubs, bridge, agentVars,
          changes, lost, calm>>

Room(k) == RoomOf[HostOf[k]]

\* resolveEffectiveMachineEnforcementPolicyContext, serialised: an active
\* exemption wins over the classroom's policy.
Effective(k) ==
  IF exempt[HostOf[k]] # None THEN exempt[HostOf[k]] ELSE base[Room(k)]

GroupEvent(g) == [kind |-> "group", key |-> g]
ClassroomEvent(c) == [kind |-> "classroom", key |-> c]
Broadcast == [kind |-> "broadcast", key |-> None]

Event ==
  {GroupEvent(g) : g \in Groups} \cup {ClassroomEvent(c) : c \in Classrooms}
    \cup {Broadcast}

(***************************************************************************)
(* A suspended publication.  "live" is false once the Set it fetched from  *)
(* the index was dropped because it became empty: a client that registers  *)
(* later goes into a new Set, which this publication does not hold.        *)
(***************************************************************************)
Publication ==
  [room : Classrooms, step : {"context", "exempt", "apply"},
   base : Policies \cup {None}, exempt : SUBSET Machines, live : BOOLEAN]

Init ==
  /\ base \in [Classrooms -> Policies]
  /\ exempt = [m \in Machines |-> None]
  /\ handler = [k \in Clients |-> "none"]
  /\ gone = {}
  /\ hub = {}
  /\ group = [k \in Clients |-> None]
  /\ byGroup = [p \in Policies |-> {}]
  /\ byClassroom = [c \in Classrooms |-> {}]
  /\ events = {}
  /\ pubs = {}
  /\ bridge = "stopped"
  /\ told = [k \in Clients |-> None]
  /\ dirty = {}
  /\ changes = 0
  /\ lost = FALSE
  /\ calm = TRUE

-----------------------------------------------------------------------------
(***************************************************************************)
(* The hub.                                                                *)
(***************************************************************************)
\* removeSseClient for every client in K: the indexes lose it, and a Set
\* that becomes empty is dropped from under the publications that hold it.
Remove(K) ==
  /\ hub' = hub \ K
  /\ byGroup' = [p \in Policies |-> byGroup[p] \ K]
  /\ byClassroom' = [c \in Classrooms |-> byClassroom[c] \ K]

Detached(P) ==
  {[p EXCEPT !.live = p.live /\ byClassroom'[p.room] # {}] : p \in P}

\* A handler that already listens for "close" has nothing left to do once
\* its client is removed.
Release(K) ==
  /\ handler' = [k \in Clients |->
                   IF k \in K /\ handler[k] = "open" THEN "none"
                   ELSE handler[k]]
  /\ gone' = gone \ {k \in K : handler[k] = "open"}

\* The stream of k receives a whitelist-changed event and its agent fetches
\* the whitelist of its machine.
Signal(K) ==
  /\ told' = [k \in Clients |-> IF k \in K THEN Effective(k) ELSE told[k]]
  /\ dirty' = dirty \ K

\* tryWrite to every client in K: the write to a stream whose peer is gone
\* may throw, which removes the client.
TryWrite(K) ==
  \E broken \in SUBSET (K \cap gone) :
    /\ Remove(broken)
    /\ Release(broken)
    /\ Signal(K \ broken)
    /\ UNCHANGED group

\* Mutant: a client whose classroom is being published is left to that
\* publication.
DeliverGroupIdle(g) ==
  /\ GroupEvent(g) \in events
  /\ events' = events \ {GroupEvent(g)}
  /\ TryWrite({k \in byGroup[g] : \A p \in pubs : p.room # Room(k)})
  /\ pubs' = Detached(pubs)
  /\ UNCHANGED <<dbVars, bridge, changes, lost, calm>>

\* publishGroupChangedLocal
DeliverGroup(g) ==
  /\ GroupEvent(g) \in events
  /\ events' = events \ {GroupEvent(g)}
  /\ TryWrite(byGroup[g])
  /\ pubs' = Detached(pubs)
  /\ UNCHANGED <<dbVars, bridge, changes, lost, calm>>

\* publishBroadcastLocal
DeliverBroadcast ==
  /\ Broadcast \in events
  /\ events' = events \ {Broadcast}
  /\ TryWrite(hub)
  /\ pubs' = Detached(pubs)
  /\ UNCHANGED <<dbVars, bridge, changes, lost, calm>>

\* publishClassroomChangedLocal, up to its first await.
DeliverClassroom(c) ==
  /\ ClassroomEvent(c) \in events
  /\ events' = events \ {ClassroomEvent(c)}
  /\ pubs' = IF byClassroom[c] = {} THEN pubs
             ELSE pubs \cup {[room |-> c, step |-> "context", base |-> None,
                              exempt |-> {}, live |-> TRUE]}
  /\ UNCHANGED <<dbVars, handler, gone, hubVars, bridge, agentVars, changes, lost, calm>>

\* Mutant: the classroom's exemptions are not looked up (the resolver is
\* optional in createSseHub).
ReadNoExempt(p) ==
  /\ p \in pubs
  /\ p.step = "exempt"
  /\ pubs' = (pubs \ {p}) \cup {[p EXCEPT !.step = "apply"]}
  /\ UNCHANGED <<dbVars, handler, gone, hubVars, events, bridge, agentVars,
                 changes, lost, calm>>

\* resolveClassroomGroupContext answers.
ReadContext(p) ==
  /\ p \in pubs
  /\ p.step = "context"
  /\ pubs' = (pubs \ {p})
               \cup {[p EXCEPT !.step = "exempt", !.base = base[p.room]]}
  /\ UNCHANGED <<dbVars, handler, gone, hubVars, events, bridge, agentVars,
                 changes, lost, calm>>

\* resolveExemptHostnamesByClassroom answers: hostnames only, whatever the
\* exemption grants.
ReadExempt(p) ==
  /\ p \in pubs
  /\ p.step = "exempt"
  /\ pubs' = (pubs \ {p})
               \cup {[p EXCEPT !.step = "apply",
                               !.exempt = {m \in Machines :
                                             /\ RoomOf[m] = p.room
                                             /\ exempt[m] # None}]}
  /\ UNCHANGED <<dbVars, handler, gone, hubVars, events, bridge, agentVars,
                 changes, lost, calm>>

\* A read of the database is rejected, and with it the voided publication:
\* the process only logs the unhandled rejection.
ReadFails(p) ==
  /\ p \in pubs
  /\ p.step \in {"context", "exempt"}
  /\ pubs' = pubs \ {p}
  /\ calm' = FALSE
  /\ UNCHANGED <<dbVars, handler, gone, hubVars, events, bridge, agentVars,
                 changes, lost>>

\* The group a publication gives a client.
NextGroup(p, k) == IF HostOf[k] \in p.exempt THEN Unrestricted ELSE p.base

\* The clients a publication re-indexes and signals.
Moved(p) ==
  {k \in byClassroom[p.room] : p.live /\ group[k] # NextGroup(p, k)}

\* Mutant: a moved client stays indexed under the group it leaves.
ApplyKeep(p) ==
  /\ p \in pubs
  /\ p.step = "apply"
  /\ group' = [k \in Clients |->
                 IF k \in Moved(p) THEN NextGroup(p, k) ELSE group[k]]
  /\ \E broken \in SUBSET (Moved(p) \cap gone) :
       /\ hub' = hub \ broken
       /\ byGroup' = [q \in Policies |->
                        byGroup[q] \cup
                          {k \in Moved(p) \ broken : NextGroup(p, k) = q}]
       /\ byClassroom' = [c \in Classrooms |-> byClassroom[c] \ broken]
       /\ Release(broken)
       /\ Signal(Moved(p) \ broken)
  /\ pubs' = Detached(pubs \ {p})
  /\ UNCHANGED <<dbVars, events, bridge, changes, lost, calm>>

\* The loop over the clients, which runs without an await.
Apply(p) ==
  /\ p \in pubs
  /\ p.step = "apply"
  /\ group' = [k \in Clients |->
                 IF k \in Moved(p) THEN NextGroup(p, k) ELSE group[k]]
  /\ \E broken \in SUBSET (Moved(p) \cap gone) :
       /\ hub' = hub \ broken
       /\ byGroup' = [q \in Policies |->
                        (byGroup[q] \ Moved(p)) \cup
                          {k \in Moved(p) \ broken : NextGroup(p, k) = q}]
       /\ byClassroom' = [c \in Classrooms |-> byClassroom[c] \ broken]
       /\ Release(broken)
       /\ Signal(Moved(p) \ broken)
  /\ pubs' = Detached(pubs \ {p})
  /\ UNCHANGED <<dbVars, events, bridge, changes, lost, calm>>

\* The keep-alive timer finds a stream it cannot write to.
KeepAlive(k) ==
  /\ k \in hub \cap gone
  /\ Remove({k})
  /\ Release({k})
  /\ pubs' = Detached(pubs)
  /\ UNCHANGED <<dbVars, group, events, bridge, agentVars, changes, lost, calm>>

-----------------------------------------------------------------------------
(***************************************************************************)
(* A machine's event stream.                                               *)
(***************************************************************************)
\* resolveMachineEventsAccess answers: from here on the stream owes its agent
\* every change.  The listener only logs "connected".
Authorise(k) ==
  /\ handler[k] = "none"
  /\ handler' = [handler EXCEPT ![k] = "authorised"]
  /\ group' = [group EXCEPT ![k] = Effective(k)]
  /\ told' = [told EXCEPT ![k] = Effective(k)]
  /\ dirty' = dirty \ {k}
  /\ UNCHANGED <<dbVars, gone, hub, byGroup, byClassroom, events, pubs,
                 bridge, changes, lost, calm>>

\* ensureStarted: LISTEN once, and again only if the first attempt failed.
EnsureStarted ==
  /\ \/ bridge = "stopped" /\ bridge' = "listening"
     \/ UNCHANGED bridge
  /\ calm' = (calm /\ bridge' # "stopped")

\* ensureDbEventBridgeStarted answers; registerSseClient with the group that
\* was resolved before.
Register(k) ==
  /\ handler[k] = "authorised"
  /\ EnsureStarted
  /\ handler' = [handler EXCEPT ![k] = "registered"]
  /\ hub' = hub \cup {k}
  /\ byGroup' = [byGroup EXCEPT ![group[k]] = @ \cup {k}]
  /\ byClassroom' = [byClassroom EXCEPT ![Room(k)] = @ \cup {k}]
  /\ UNCHANGED <<dbVars, gone, group, events, pubs, agentVars, changes, lost>>

\* updateMachineLastSeen answers and the route listens for "close".  A
\* client the hub dropped meanwhile is finished.
Attach(k) ==
  /\ handler[k] = "registered"
  /\ handler' = [handler EXCEPT ![k] = IF k \in hub THEN "open" ELSE "none"]
  /\ gone' = IF k \in hub THEN gone ELSE gone \ {k}
  /\ UNCHANGED <<dbVars, hubVars, events, pubs, bridge, agentVars, changes, lost, calm>>

\* The peer closes while nobody listens for it.
PeerGone(k) ==
  /\ handler[k] \in {"authorised", "registered"}
  /\ k \notin gone
  /\ gone' = gone \cup {k}
  /\ UNCHANGED <<dbVars, handler, hubVars, events, pubs, bridge, agentVars,
                 changes, lost, calm>>

\* The peer closes and disconnect() removes the client.
Disconnect(k) ==
  /\ handler[k] = "open"
  /\ k \notin gone
  /\ Remove({k})
  /\ Release({k})
  /\ pubs' = Detached(pubs)
  /\ UNCHANGED <<dbVars, group, events, bridge, agentVars, changes, lost, calm>>

\* The LISTEN connection breaks; onError only logs it.
BridgeError ==
  /\ bridge = "listening"
  /\ bridge' = "dead"
  /\ calm' = FALSE
  /\ UNCHANGED <<dbVars, handler, gone, hubVars, events, pubs, agentVars,
                 changes, lost>>

-----------------------------------------------------------------------------
(***************************************************************************)
(* Changes.  This instance makes them itself or another one does and       *)
(* NOTIFYs: that reaches this one only while it listens.  A change is calm *)
(* if it finds no publication of its classroom to be made or under way and *)
(* no stream between its authorisation and its registration, grants no     *)
(* group to a single machine, is not lost on a listening bridge, and no    *)
(* read of its publication fails.                                          *)
(***************************************************************************)
Connecting == \E k \in Clients : handler[k] = "authorised"

Emit(e, quiet) ==
  /\ changes < MaxChanges
  /\ changes' = changes + 1
  /\ \/ /\ events' = events \cup {e}
        /\ lost' = (lost \/ Connecting)
        /\ calm' = (calm /\ ~Connecting /\ quiet)
     \/ /\ UNCHANGED events
        /\ lost' = (lost \/ Connecting \/ hub # {})
        /\ calm' = (calm /\ ~Connecting /\ quiet /\ bridge # "listening")

Unpublished(c) == ClassroomEvent(c) \in events \/ \E p \in pubs : p.room = c

\* An active group, a default group or a schedule changes the policy of a
\* classroom.
ChangeClassroom(c, p) ==
  /\ p # base[c]
  /\ base' = [base EXCEPT ![c] = p]
  /\ Emit(ClassroomEvent(c), ~Unpublished(c))
  /\ UNCHANGED <<exempt, handler, gone, hubVars, pubs, bridge, agentVars>>

\* An exemption is created, removed or expires.
ChangeExemption(m, e) ==
  /\ e # exempt[m]
  /\ exempt' = [exempt EXCEPT ![m] = e]
  /\ Emit(ClassroomEvent(RoomOf[m]), ~Unpublished(RoomOf[m]) /\ e \notin Groups)
  /\ UNCHANGED <<base, handler, gone, hubVars, pubs, bridge, agentVars>>

Stale(G) == {k \in Clients : handler[k] # "none" /\ told[k] \in G}

\* A rule of a group is created, changed or deleted.
ChangeRules(g) ==
  /\ Emit(GroupEvent(g), TRUE)
  /\ dirty' = dirty \cup Stale({g})
  /\ UNCHANGED <<dbVars, handler, gone, hubVars, pubs, bridge, told>>

\* All groups are switched on or off.
ChangeAll ==
  /\ Emit(Broadcast, TRUE)
  /\ dirty' = dirty \cup Stale(Groups)
  /\ UNCHANGED <<dbVars, handler, gone, hubVars, pubs, bridge, told>>

-----------------------------------------------------------------------------
Change ==
  \/ \E c \in Classrooms, p \in Policies : ChangeClassroom(c, p)
  \/ \E m \in Machines, e \in Policies \cup {None} : ChangeExemption(m, e)
  \/ \E g \in Groups : ChangeRules(g)
  \/ ChangeAll

Deliver ==
  \/ \E g \in Groups : DeliverGroup(g)
  \/ \E c \in Classrooms : DeliverClassroom(c)
  \/ DeliverBroadcast

Resume ==
  \E p \in pubs : ReadContext(p) \/ ReadExempt(p) \/ ReadFails(p) \/ Apply(p)

Stream ==
  \E k \in Clients :
    \/ Authorise(k)
    \/ Register(k)
    \/ Attach(k)
    \/ PeerGone(k)
    \/ Disconnect(k)
    \/ KeepAlive(k)

Next == Change \/ Deliver \/ Resume \/ Stream \/ BridgeError

Spec == Init /\ [][Next]_vars

-----------------------------------------------------------------------------
(***************************************************************************)
(* Properties.                                                             *)
(***************************************************************************)
\* Every variable has its type; a client in the hub has a policy as its
\* group, and a handler that listens for "close" a client in the hub.
TypeOK ==
  /\ base \in [Classrooms -> Policies]
  /\ exempt \in [Machines -> Policies \cup {None}]
  /\ handler \in [Clients -> {"none", "authorised", "registered", "open"}]
  /\ gone \subseteq Clients
  /\ hub \subseteq Clients
  /\ group \in [Clients -> Policies \cup {None}]
  /\ byGroup \in [Policies -> SUBSET Clients]
  /\ byClassroom \in [Classrooms -> SUBSET Clients]
  /\ events \subseteq Event
  /\ pubs \subseteq Publication
  /\ bridge \in {"stopped", "listening", "dead"}
  /\ told \in [Clients -> Policies \cup {None}]
  /\ dirty \subseteq Clients
  /\ changes \in 0..MaxChanges
  /\ lost \in BOOLEAN
  /\ calm \in BOOLEAN
  /\ \A p \in pubs : p.step # "context" => p.base # None
  /\ \A k \in Clients :
       /\ handler[k] # "none" => group[k] \in Policies
       /\ k \in hub => handler[k] \in {"registered", "open"}
       /\ handler[k] = "open" => k \in hub
       /\ k \in gone => handler[k] # "none"

\* The two indexes and clientsById describe the same clients: each client
\* is in exactly the Set of its group and of its classroom, whatever
\* publications, failed writes and closed streams overlap.  A client missing
\* from one would never be signalled again; one left behind would be written
\* to after it is gone.
IndexConsistent ==
  /\ \A p \in Policies : byGroup[p] = {k \in hub : group[k] = p}
  /\ \A c \in Classrooms : byClassroom[c] = {k \in hub : Room(k) = c}

Quiet == events = {} /\ pubs = {}

\* agent-config-parity.md: "rules are applied within seconds of a
\* server-side change".  As long as no change overlapped a publication of
\* its classroom or a stream being opened, no exemption granted a group, no
\* read of a publication failed and the bridge kept listening: when no change
\* is left to publish, every open stream's agent has been signalled since the
\* policy in force for its machine, or the rules of it, last changed, if they
\* have changed at all since the stream was authorised.
CalmPushReachesAgent ==
  calm /\ Quiet => \A k \in hub : told[k] = Effective(k) /\ k \notin dirty

\* When no change is left to publish, a client that is indexed under the
\* group its agent was told last has been signalled since that group's rules
\* changed: publications of the classroom that overlap, fail or re-index the
\* client in any order never lose a rule change of the group it ends up in,
\* unless the NOTIFY of a change was lost or a change fell between a stream's
\* authorisation and registration.
RulesReachIndexedClients ==
  Quiet /\ ~lost => \A k \in hub : group[k] = told[k] => k \notin dirty
=============================================================================
