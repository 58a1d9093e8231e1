-------------------------- MODULE PolicyPushProofs --------------------------
(***************************************************************************)
(* What the pushes achieve, for any number of groups, classrooms, machines,*)
(* streams and changes and with every overlap allowed: the indexes of the  *)
(* SSE hub agree with its clients, rule changes reach the clients indexed  *)
(* under the group they were told last, and in a calm history the agent of *)
(* every stream is signalled after each change of the policy in force.     *)
(*                                                                         *)
(* TypeOK is part of the induction: it says that a client in the hub has a *)
(* policy as its group, that a publication past its first await carries a  *)
(* policy, and that the route handler of a client in the hub is past       *)
(* registerSseClient, so that a stream that opens anew is in no index.     *)
(***************************************************************************)
EXTENDS PolicyPush, TLAPS

IndInv == TypeOK /\ IndexConsistent

(***************************************************************************)
(* RulesReachIndexedClients speaks of the moments at which nothing is left *)
(* to publish.  At the others, an agent whose rules are out of date and    *)
(* whose client is indexed under the group it was told last is owed a      *)
(* signal by a publication that has not begun: a change of its group or of *)
(* all.                                                                    *)
(***************************************************************************)
SignalPending ==
  \A k \in hub :
    ~lost /\ k \in dirty /\ group[k] = told[k]
      => GroupEvent(group[k]) \in events \/ Broadcast \in events

\* A change that a stream missed while it was being opened is in "lost".
OpeningKnows ==
  \A k \in dirty : handler[k] = "authorised" => lost

RulesInv == SignalPending /\ OpeningKnows

\* A publication past its first await has the classroom's policy.
Loaded(P) == \A p \in P : p.step # "context" => p.base # None

\* What the machine of a client gets is a policy.
LEMMA EffectiveType ==
  ASSUME TypeOK
  PROVE  \A k \in Clients : Effective(k) \in Policies
  BY PolicyPushAssumption DEF TypeOK, Effective, Room

\* Dropping a classroom's Set changes nothing of a publication but "live".
LEMMA DetachedType ==
  ASSUME NEW P, P \subseteq Publication, Loaded(P),
         byClassroom' \in [Classrooms -> SUBSET Clients]
  PROVE  Detached(P) \subseteq Publication /\ Loaded(Detached(P))
<1>1. ASSUME NEW p \in P
      PROVE  LET q == [p EXCEPT !.live = p.live /\ byClassroom'[p.room] # {}]
             IN  q \in Publication /\ (q.step # "context" => q.base # None)
  <2>1. p \in Publication
    OBVIOUS
  <2>2. (p.live /\ byClassroom'[p.room] # {}) \in BOOLEAN
    OBVIOUS
  <2>3. p.step # "context" => p.base # None
    BY DEF Loaded
  <2> QED
    BY <2>1, <2>2, <2>3 DEF Publication
<1> QED
  BY <1>1 DEF Detached, Loaded

\* A signalled agent holds a policy.
LEMMA SignalType ==
  ASSUME TypeOK, NEW K, Signal(K)
  PROVE  /\ told' \in [Clients -> Policies \cup {None}]
         /\ dirty' \subseteq Clients
  BY EffectiveType DEF Signal, TypeOK

\* Steps that remove clients and touch nothing else of the hub.
LEMMA DropStep ==
  ASSUME IndInv, NEW K, K \subseteq hub, Remove(K), Release(K),
         UNCHANGED group, pubs' = Detached(pubs),
         UNCHANGED <<dbVars, bridge, changes, lost, calm>>, events' \subseteq Event,
         told' \in [Clients -> Policies \cup {None}], dirty' \subseteq Clients
  PROVE  IndInv'
<1>1. byClassroom' \in [Classrooms -> SUBSET Clients]
  BY DEF IndInv, TypeOK, Remove
<1>2. pubs' \subseteq Publication /\ Loaded(pubs')
  BY <1>1, DetachedType DEF IndInv, TypeOK, Loaded
<1>3. /\ hub' \subseteq Clients
      /\ byGroup' \in [Policies -> SUBSET Clients]
  BY DEF IndInv, TypeOK, Remove
<1>4. /\ handler' \in [Clients -> {"none", "authorised", "registered", "open"}]
      /\ gone' \subseteq Clients
  BY DEF IndInv, TypeOK, Release
<1>5. \A k \in Clients :
        /\ handler'[k] # "none" => group'[k] \in Policies
        /\ k \in hub' => handler'[k] \in {"registered", "open"}
        /\ handler'[k] = "open" => k \in hub'
        /\ k \in gone' => handler'[k] # "none"
  BY DEF IndInv, TypeOK, Remove, Release
<1>6. TypeOK'
  BY <1>1, <1>2, <1>3, <1>4, <1>5 DEF IndInv, TypeOK, Loaded, dbVars
<1>7. IndexConsistent'
  BY DEF IndInv, TypeOK, IndexConsistent, Remove, Room
<1> QED
  BY <1>6, <1>7 DEF IndInv

\* The synchronous publications and the removals.
LEMMA WriteStep ==
  ASSUME IndInv, Deliver \/ \E k \in Clients : KeepAlive(k) \/ Disconnect(k)
  PROVE  IndInv'
<1>1. ASSUME NEW K \in SUBSET hub, TryWrite(K), pubs' = Detached(pubs),
             UNCHANGED <<dbVars, bridge, changes, lost, calm>>, events' \subseteq Event
      PROVE  IndInv'
  <2>1. PICK broken \in SUBSET (K \cap gone) :
          /\ Remove(broken)
          /\ Release(broken)
          /\ Signal(K \ broken)
          /\ UNCHANGED group
    BY <1>1 DEF TryWrite
  <2>2. /\ told' \in [Clients -> Policies \cup {None}]
        /\ dirty' \subseteq Clients
    BY <2>1, SignalType DEF IndInv
  <2> QED
    BY <1>1, <2>1, <2>2, DropStep
<1>2. ASSUME NEW g \in Groups, DeliverGroup(g)
      PROVE  IndInv'
  <2>1. byGroup[g] \in SUBSET hub
    BY DEF IndInv, TypeOK, IndexConsistent, Policies
  <2> QED
    BY <1>1, <1>2, <2>1 DEF DeliverGroup, IndInv, TypeOK
<1>3. CASE DeliverBroadcast
  BY <1>1, <1>3 DEF DeliverBroadcast, IndInv, TypeOK
<1>4. ASSUME NEW c \in Classrooms, DeliverClassroom(c)
      PROVE  IndInv'
  <2> DEFINE q == [room |-> c, step |-> "context", base |-> None,
                   exempt |-> {}, live |-> TRUE]
  <2>1. q \in Publication /\ q.step = "context"
    BY DEF Publication
  <2>2. pubs' \subseteq Publication /\ Loaded(pubs')
    <3>1. pubs' \subseteq pubs \cup {q}
      BY <1>4 DEF DeliverClassroom
    <3> HIDE DEF q
    <3> QED
      BY <2>1, <3>1 DEF IndInv, TypeOK, Loaded
  <2>3. TypeOK'
    BY <1>4, <2>2 DEF DeliverClassroom, IndInv, TypeOK, Loaded, dbVars,
                      hubVars, agentVars
  <2>4. IndexConsistent'
    BY <1>4 DEF DeliverClassroom, IndInv, IndexConsistent, hubVars, Room
  <2> QED
    BY <2>3, <2>4 DEF IndInv
<1>5. ASSUME NEW k \in Clients, KeepAlive(k) \/ Disconnect(k)
      PROVE  IndInv'
  <2>1. {k} \subseteq hub
    BY <1>5 DEF KeepAlive, Disconnect, IndInv, TypeOK
  <2>2. /\ told' \in [Clients -> Policies \cup {None}]
        /\ dirty' \subseteq Clients
        /\ events' \subseteq Event
    BY <1>5 DEF KeepAlive, Disconnect, IndInv, TypeOK, agentVars
  <2> QED
    BY <1>5, <2>1, <2>2, DropStep DEF KeepAlive, Disconnect
<1> QED
  BY <1>2, <1>3, <1>4, <1>5 DEF Deliver

\* The awaits of a classroom publication.
LEMMA ResumeStep ==
  ASSUME IndInv, NEW p \in pubs,
         ReadContext(p) \/ ReadExempt(p) \/ ReadFails(p) \/ Apply(p)
  PROVE  IndInv'
<1>0. p \in Publication /\ (p.step # "context" => p.base # None)
  BY DEF IndInv, TypeOK
<1>1. CASE ReadContext(p)
  <2>1. [p EXCEPT !.step = "exempt", !.base = base[p.room]] \in Publication
    BY <1>0 DEF Publication, IndInv, TypeOK
  <2>2. base[p.room] # None
    BY <1>0, PolicyPushAssumption DEF Publication, IndInv, TypeOK
  <2>3. pubs' \subseteq Publication /\ Loaded(pubs')
    BY <1>0, <1>1, <2>1, <2>2 DEF ReadContext, IndInv, TypeOK, Loaded,
                                  Publication
  <2>4. TypeOK'
    BY <1>1, <2>3 DEF ReadContext, IndInv, TypeOK, Loaded, dbVars, hubVars,
                      agentVars
  <2>5. IndexConsistent'
    BY <1>1 DEF ReadContext, IndInv, IndexConsistent, hubVars, Room
  <2> QED
    BY <2>4, <2>5 DEF IndInv
<1>2. CASE ReadExempt(p)
  <2> DEFINE E == {m \in Machines : RoomOf[m] = p.room /\ exempt[m] # None}
             q == [p EXCEPT !.step = "apply", !.exempt = E]
  <2>1. q \in Publication /\ q.base = p.base
    BY <1>0 DEF Publication
  <2>2. pubs' = (pubs \ {p}) \cup {q}
    BY <1>2 DEF ReadExempt
  <2>3. p.base # None
    BY <1>0, <1>2 DEF ReadExempt
  <2> HIDE DEF q
  <2>4. pubs' \subseteq Publication /\ Loaded(pubs')
    BY <2>1, <2>2, <2>3 DEF IndInv, TypeOK, Loaded
  <2>5. TypeOK'
    BY <1>2, <2>4 DEF ReadExempt, IndInv, TypeOK, Loaded, dbVars, hubVars,
                      agentVars
  <2>6. IndexConsistent'
    BY <1>2 DEF ReadExempt, IndInv, IndexConsistent, hubVars, Room
  <2> QED
    BY <2>5, <2>6 DEF IndInv
<1>3. CASE Apply(p)
  <2> DEFINE M == Moved(p)
  <2>1. PICK broken \in SUBSET (M \cap gone) :
          /\ hub' = hub \ broken
          /\ byGroup' = [q \in Policies |->
                           (byGroup[q] \ M) \cup
                             {k \in M \ broken : NextGroup(p, k) = q}]
          /\ byClassroom' = [c \in Classrooms |-> byClassroom[c] \ broken]
          /\ Release(broken)
          /\ Signal(M \ broken)
    BY <1>3 DEF Apply
  <2>2. group' = [k \in Clients |->
                    IF k \in M THEN NextGroup(p, k) ELSE group[k]]
    BY <1>3 DEF Apply
  <2>3. M \subseteq hub /\ M \subseteq Clients
    BY <1>0 DEF Moved, IndInv, TypeOK, IndexConsistent, Publication
  <2>4. \A k \in Clients : NextGroup(p, k) \in Policies
    BY <1>0, <1>3 DEF NextGroup, Apply, Publication, Policies
  <2> HIDE DEF M
  <2>5. byClassroom' \in [Classrooms -> SUBSET Clients]
    BY <2>1 DEF IndInv, TypeOK
  <2>6. pubs' \subseteq Publication /\ Loaded(pubs')
    <3>1. pubs \ {p} \subseteq Publication /\ Loaded(pubs \ {p})
      BY DEF IndInv, TypeOK, Loaded
    <3>2. pubs' = Detached(pubs \ {p})
      BY <1>3 DEF Apply
    <3> QED
      BY <2>5, <3>1, <3>2, DetachedType
  <2>7. /\ told' \in [Clients -> Policies \cup {None}]
        /\ dirty' \subseteq Clients
    BY <2>1, SignalType DEF IndInv
  <2>8. /\ group' \in [Clients -> Policies \cup {None}]
        /\ hub' \subseteq Clients
        /\ byGroup' \in [Policies -> SUBSET Clients]
    BY <2>1, <2>2, <2>3, <2>4 DEF IndInv, TypeOK
  <2>9. /\ handler' \in [Clients ->
                           {"none", "authorised", "registered", "open"}]
        /\ gone' \subseteq Clients
    BY <2>1 DEF Release, IndInv, TypeOK
  <2>10. \A k \in Clients :
           /\ handler'[k] # "none" => group'[k] \in Policies
           /\ k \in hub' => handler'[k] \in {"registered", "open"}
           /\ handler'[k] = "open" => k \in hub'
           /\ k \in gone' => handler'[k] # "none"
    BY <2>1, <2>2, <2>3, <2>4 DEF Release, IndInv, TypeOK
  <2>11. UNCHANGED <<dbVars, events, bridge, changes, lost, calm>>
    BY <1>3 DEF Apply
  <2>12. TypeOK'
    BY <2>5, <2>6, <2>7, <2>8, <2>9, <2>10, <2>11
       DEF IndInv, TypeOK, Loaded, dbVars
  <2>13. \A q \in Policies : byGroup'[q] = {k \in hub' : group'[k] = q}
    BY <2>1, <2>2, <2>3 DEF IndInv, TypeOK, IndexConsistent
  <2>14. \A c \in Classrooms : byClassroom'[c] = {k \in hub' : Room(k) = c}
    BY <2>1 DEF IndInv, TypeOK, IndexConsistent
  <2> QED
    BY <2>12, <2>13, <2>14 DEF IndInv, IndexConsistent, Room
<1>4. CASE ReadFails(p)
  <2>1. calm' \in BOOLEAN
    BY <1>4, Zenon DEF ReadFails
  <2>2. pubs' \subseteq Publication /\ Loaded(pubs')
    BY <1>4 DEF ReadFails, IndInv, TypeOK, Loaded
  <2>3. UNCHANGED <<dbVars, handler, gone, hubVars, events, bridge, agentVars,
                    changes, lost>>
    BY <1>4 DEF ReadFails
  <2>4. TypeOK'
    BY <2>1, <2>2, <2>3 DEF IndInv, TypeOK, Loaded, dbVars, hubVars, agentVars
  <2>5. IndexConsistent'
    BY <2>3 DEF IndInv, IndexConsistent, hubVars, Room
  <2> QED
    BY <2>4, <2>5 DEF IndInv
<1> QED
  BY <1>1, <1>2, <1>3, <1>4

\* A stream is opened.
LEMMA OpenStep ==
  ASSUME IndInv, NEW k \in Clients,
         Authorise(k) \/ Register(k) \/ Attach(k) \/ PeerGone(k)
  PROVE  IndInv'
<1>1. CASE Authorise(k)
  <2>1. Effective(k) \in Policies /\ k \notin hub
    BY <1>1, EffectiveType DEF IndInv, Authorise, TypeOK
  <2>2. TypeOK'
    BY <1>1, <2>1 DEF IndInv, Authorise, TypeOK, dbVars
  <2>3. IndexConsistent'
    BY <1>1, <2>1 DEF IndInv, Authorise, TypeOK, IndexConsistent, Room
  <2> QED
    BY <2>2, <2>3 DEF IndInv
<1>2. CASE Register(k)
  <2>1. group[k] \in Policies /\ Room(k) \in Classrooms /\ k \notin hub
    BY <1>2, PolicyPushAssumption DEF IndInv, Register, TypeOK, Room
  <2>2. TypeOK'
    BY <1>2, <2>1 DEF IndInv, Register, EnsureStarted, TypeOK, dbVars,
                      agentVars
  <2>3. IndexConsistent'
    BY <1>2, <2>1 DEF IndInv, Register, TypeOK, IndexConsistent, Room
  <2> QED
    BY <2>2, <2>3 DEF IndInv
<1>3. CASE Attach(k) \/ PeerGone(k)
  <2>1. TypeOK'
    BY <1>3 DEF IndInv, Attach, PeerGone, TypeOK, dbVars, hubVars, agentVars
  <2>2. IndexConsistent'
    BY <1>3 DEF IndInv, Attach, PeerGone, IndexConsistent, hubVars, Room
  <2> QED
    BY <2>1, <2>2 DEF IndInv
<1> QED
  BY <1>1, <1>2, <1>3

\* The database changes and the bridge's connection leave the hub alone.
LEMMA ChangeStep ==
  ASSUME IndInv, Change \/ BridgeError \/ UNCHANGED vars
  PROVE  IndInv'
<1> USE PolicyPushAssumption
<1>1. ASSUME NEW e \in Event, NEW quiet \in BOOLEAN, Emit(e, quiet)
      PROVE  /\ changes' \in 0..MaxChanges /\ events' \subseteq Event
             /\ lost' \in BOOLEAN /\ calm' \in BOOLEAN
  <2>1. changes' \in 0..MaxChanges /\ events' \subseteq Event
    BY <1>1 DEF Emit, IndInv, TypeOK
  <2>2. lost' = TRUE \/ lost' = FALSE
    BY <1>1 DEF Emit, Connecting
  <2>3. calm' = TRUE \/ calm' = FALSE
    BY <1>1 DEF Emit, Connecting
  <2> QED
    BY <2>1, <2>2, <2>3
<1>2. ASSUME NEW c \in Classrooms, NEW q \in Policies, ChangeClassroom(c, q)
      PROVE  TypeOK' /\ UNCHANGED hubVars
  <2>1. ClassroomEvent(c) \in Event
    BY DEF Event
  <2> QED
    BY <1>1, <1>2, <2>1 DEF ChangeClassroom, IndInv, TypeOK, hubVars,
                            agentVars
<1>3. ASSUME NEW m \in Machines, NEW e \in Policies \cup {None}, ChangeExemption(m, e)
      PROVE  TypeOK' /\ UNCHANGED hubVars
  <2>1. ClassroomEvent(RoomOf[m]) \in Event
    BY DEF Event
  <2> QED
    BY <1>1, <1>3, <2>1 DEF ChangeExemption, IndInv, TypeOK, hubVars,
                                  agentVars
<1>4. ASSUME NEW g \in Groups, ChangeRules(g)
      PROVE  TypeOK' /\ UNCHANGED hubVars
  <2>1. GroupEvent(g) \in Event
    BY DEF Event
  <2> QED
    BY <1>1, <1>4, <2>1 DEF ChangeRules, Stale, IndInv, TypeOK, hubVars,
                            dbVars
<1>5. ASSUME ChangeAll
      PROVE  TypeOK' /\ UNCHANGED hubVars
  <2>1. Broadcast \in Event
    BY DEF Event
  <2> QED
    BY <1>1, <1>5, <2>1 DEF ChangeAll, Stale, IndInv, TypeOK, hubVars, dbVars
<1>6. ASSUME BridgeError \/ UNCHANGED vars
      PROVE  TypeOK' /\ UNCHANGED hubVars
  BY <1>6 DEF BridgeError, vars, IndInv, TypeOK, hubVars, dbVars, agentVars
<1>7. TypeOK' /\ UNCHANGED hubVars
  BY <1>2, <1>3, <1>4, <1>5, <1>6 DEF Change
<1>8. IndexConsistent'
  BY <1>7 DEF IndInv, IndexConsistent, hubVars, Room
<1> QED
  BY <1>7, <1>8 DEF IndInv

\* The indexes and the types together are invariant.
LEMMA Invariance == Spec => []IndInv
<1>1. Init => IndInv
  <2> SUFFICES ASSUME Init PROVE IndInv
    OBVIOUS
  <2>1. lost \in BOOLEAN /\ calm \in BOOLEAN
    BY DEF Init
  <2>2. TypeOK
    BY <2>1, PolicyPushAssumption DEF Init, TypeOK
  <2>3. IndexConsistent
    BY DEF Init, IndexConsistent
  <2> QED
    BY <2>2, <2>3 DEF IndInv
<1>2. IndInv /\ [Next]_vars => IndInv'
  BY WriteStep, ResumeStep, OpenStep, ChangeStep DEF Next, Resume, Stream
<1> QED
  BY <1>1, <1>2, PTL DEF Spec

\* However publications, failed writes and closed streams overlap, each
\* client of the hub is in exactly the Set of its group and the Set of its
\* classroom (indexAdd, indexRemove and removeSseClient of sse-hub.ts).
THEOREM HubIndexesAgree == Spec => []IndexConsistent
  BY Invariance, PTL DEF IndInv

\* The state of the hub, the stream handlers and the suspended publications
\* keeps its type: no publication indexes a client under a group it has not
\* read, and the route never listens for a client the hub does not hold.
THEOREM HubTypeCorrect == Spec => []TypeOK
  BY Invariance, PTL DEF IndInv

-----------------------------------------------------------------------------
(***************************************************************************)
(* Rule changes reach the clients indexed under the group they know.       *)
(***************************************************************************)
\* A step that marks no agent and begins no stream keeps RulesInv, if every
\* client that stays unsignalled keeps its groups and the changes it waits
\* for.
LEMMA RulesKept ==
  ASSUME RulesInv,
         dirty' \subseteq dirty,
         \A k \in dirty' : handler'[k] = "authorised" => handler[k] = "authorised",
         \A k \in hub' : k \in dirty' =>
           /\ k \in hub
           /\ group'[k] = group[k]
           /\ told'[k] = told[k]
           /\ GroupEvent(group[k]) \in events => GroupEvent(group[k]) \in events'
           /\ Broadcast \in events => Broadcast \in events',
         lost' = lost
  PROVE  RulesInv'
<1>1. SignalPending'
  BY DEF RulesInv, SignalPending
<1>2. OpeningKnows'
  BY DEF RulesInv, OpeningKnows
<1> QED
  BY <1>1, <1>2 DEF RulesInv

\* The names of the events of different groups differ.
LEMMA EventNames ==
  /\ \A g, h : GroupEvent(g) = GroupEvent(h) => g = h
  /\ \A g : GroupEvent(g) # Broadcast
  /\ \A g, c : GroupEvent(g) # ClassroomEvent(c)
  /\ \A c : Broadcast # ClassroomEvent(c)
BY DEF GroupEvent, ClassroomEvent, Broadcast

\* A publication signals or removes the clients it writes to.
LEMMA WrittenTo ==
  ASSUME IndInv, NEW K \in SUBSET hub, TryWrite(K)
  PROVE  /\ hub' \subseteq hub
         /\ dirty' \subseteq dirty
         /\ \A k \in hub' : k \in dirty' => k \notin K /\ told'[k] = told[k]
         /\ \A k \in Clients :
              handler'[k] = "authorised" => handler[k] = "authorised"
         /\ UNCHANGED group
<1>1. PICK broken \in SUBSET (K \cap gone) :
        /\ Remove(broken)
        /\ Release(broken)
        /\ Signal(K \ broken)
        /\ UNCHANGED group
  BY DEF TryWrite
<1>2. hub' = hub \ broken
  BY <1>1 DEF Remove
<1>3. dirty' = dirty \ (K \ broken)
  BY <1>1 DEF Signal
<1>4. \A k \in Clients : k \notin K => told'[k] = told[k]
  BY <1>1 DEF Signal
<1>5. \A k \in Clients : handler'[k] = "authorised" => handler[k] = "authorised"
  BY <1>1 DEF Release
<1> QED
  BY <1>1, <1>2, <1>3, <1>4, <1>5 DEF IndInv, TypeOK

\* A change of a group's rules leaves its publication behind, or "lost".
LEMMA ChangeLeavesEvent ==
  ASSUME IndInv, NEW e, NEW quiet, Emit(e, quiet)
  PROVE  /\ events \subseteq events'
         /\ lost => lost'
         /\ Connecting => lost'
         /\ hub # {} => e \in events' \/ lost'
BY DEF Emit

\* The same for RulesInv, whichever groups G the change concerns.
LEMMA RulesChanged ==
  ASSUME IndInv, RulesInv, NEW e, NEW quiet, Emit(e, quiet), NEW G,
         dirty' = dirty \cup Stale(G),
         UNCHANGED <<handler, hubVars, told>>,
         \A g \in G : e = GroupEvent(g) \/ e = Broadcast
  PROVE  RulesInv'
<1>1. ASSUME NEW k \in hub', ~lost', k \in dirty', group'[k] = told'[k]
      PROVE  GroupEvent(group'[k]) \in events' \/ Broadcast \in events'
  <2>1. /\ k \in hub /\ group'[k] = group[k] /\ group[k] = told[k]
        /\ ~lost
    BY <1>1, ChangeLeavesEvent DEF hubVars
  <2>2. e \in events' /\ events \subseteq events'
    BY <1>1, <2>1, ChangeLeavesEvent
  <2>3. CASE k \in dirty
    BY <2>1, <2>2, <2>3 DEF RulesInv, SignalPending
  <2>4. CASE k \in Stale(G)
    BY <2>1, <2>2, <2>4 DEF Stale
  <2> QED
    BY <1>1, <2>3, <2>4
<1>2. ASSUME NEW k \in dirty', handler'[k] = "authorised"
      PROVE  lost'
  <2>1. k \in Clients
    BY DEF IndInv, TypeOK, Stale
  <2> QED
    BY <1>2, <2>1, ChangeLeavesEvent DEF Connecting
<1> QED
  BY <1>1, <1>2 DEF RulesInv, SignalPending, OpeningKnows

\* Every step keeps RulesInv.
LEMMA RulesStep == IndInv /\ RulesInv /\ [Next]_vars => RulesInv'
<1> SUFFICES ASSUME IndInv, RulesInv, [Next]_vars PROVE RulesInv'
  OBVIOUS
<1> USE EventNames
<1>0. hub \subseteq Clients /\ dirty \subseteq Clients
  BY DEF IndInv, TypeOK
<1>1. ASSUME NEW g \in Groups, DeliverGroup(g)
      PROVE  RulesInv'
  <2>1. PICK K \in SUBSET hub : K = byGroup[g]
    BY DEF IndInv, TypeOK, IndexConsistent, Policies
  <2>2. K = {k \in hub : group[k] = g}
    BY <2>1 DEF IndInv, IndexConsistent, Policies
  <2>3. TryWrite(K) /\ events' = events \ {GroupEvent(g)} /\ UNCHANGED lost
    BY <1>1, <2>1 DEF DeliverGroup
  <2>4. \A k \in hub' : k \in dirty' =>
          k \in hub /\ group[k] # g /\ told'[k] = told[k]
    BY <2>2, <2>3, WrittenTo
  <2> QED
    BY <1>0, <2>3, <2>4, WrittenTo, RulesKept
<1>2. ASSUME DeliverBroadcast
      PROVE  RulesInv'
  <2>1. TryWrite(hub) /\ UNCHANGED lost
    BY <1>2 DEF DeliverBroadcast
  <2>2. PICK K \in SUBSET hub : K = hub
    OBVIOUS
  <2>3. TryWrite(K)
    BY <2>1, <2>2
  <2>4. \A k \in hub' : k \notin dirty'
    BY <2>2, <2>3, WrittenTo
  <2> QED
    BY <1>0, <2>1, <2>3, <2>4, WrittenTo, RulesKept
<1>3. ASSUME NEW c \in Classrooms, DeliverClassroom(c)
      PROVE  RulesInv'
  BY <1>3, RulesKept DEF DeliverClassroom, hubVars, agentVars
<1>4. ASSUME NEW p \in pubs, ReadContext(p) \/ ReadExempt(p) \/ ReadFails(p)
      PROVE  RulesInv'
  BY <1>4, RulesKept DEF ReadContext, ReadExempt, ReadFails, hubVars, agentVars
<1>5. ASSUME NEW p \in pubs, Apply(p)
      PROVE  RulesInv'
  <2>1. PICK M : M = Moved(p)
    OBVIOUS
  <2>2. PICK broken \in SUBSET (M \cap gone) :
          hub' = hub \ broken /\ Release(broken) /\ Signal(M \ broken)
    BY <1>5, <2>1 DEF Apply
  <2>3. \A k \in Clients : k \notin M => group'[k] = group[k] /\ told'[k] = told[k]
    BY <1>5, <2>1, <2>2 DEF Apply, Signal
  <2>4. dirty' = dirty \ (M \ broken)
    BY <2>2 DEF Signal
  <2>5. \A k \in Clients : handler'[k] = "authorised" => handler[k] = "authorised"
    BY <2>2 DEF Release
  <2>6. UNCHANGED <<events, lost>>
    BY <1>5 DEF Apply
  <2> QED
    BY <1>0, <2>2, <2>3, <2>4, <2>5, <2>6, RulesKept
<1>6. ASSUME NEW k \in Clients, KeepAlive(k) \/ Disconnect(k)
      PROVE  RulesInv'
  <2>1. /\ hub' \subseteq hub
        /\ \A j \in Clients : handler'[j] = "authorised" => handler[j] = "authorised"
        /\ UNCHANGED <<group, events, agentVars, lost>>
    BY <1>6 DEF KeepAlive, Disconnect, Remove, Release
  <2> QED
    BY <1>0, <2>1, RulesKept DEF agentVars
<1>7. ASSUME NEW k \in Clients, Authorise(k)
      PROVE  RulesInv'
  <2>1. k \notin hub
    BY <1>7 DEF IndInv, Authorise, TypeOK
  <2>2. /\ \A j \in Clients : j # k =>
             /\ group'[j] = group[j] /\ told'[j] = told[j]
             /\ handler'[j] = handler[j]
        /\ dirty' = dirty \ {k}
        /\ UNCHANGED <<hub, events, lost>>
    BY <1>7 DEF Authorise, IndInv, TypeOK
  <2> QED
    BY <1>0, <2>1, <2>2, RulesKept
<1>8. ASSUME NEW k \in Clients, Register(k)
      PROVE  RulesInv'
  <2>1. /\ handler[k] = "authorised"
        /\ hub' = hub \cup {k}
        /\ UNCHANGED <<group, events, told, dirty, lost>>
        /\ \A j \in Clients : handler'[j] = "authorised" => handler[j] = "authorised"
    BY <1>8 DEF Register, agentVars, IndInv, TypeOK
  <2>2. k \in dirty => lost
    BY <2>1 DEF RulesInv, OpeningKnows
  <2>3. SignalPending'
    BY <2>1, <2>2 DEF RulesInv, SignalPending
  <2>4. OpeningKnows'
    BY <1>0, <2>1 DEF RulesInv, OpeningKnows
  <2> QED
    BY <2>3, <2>4 DEF RulesInv
<1>9. ASSUME NEW k \in Clients, Attach(k) \/ PeerGone(k)
      PROVE  RulesInv'
  <2>1. /\ \A j \in Clients : handler'[j] = "authorised" => handler[j] = "authorised"
        /\ UNCHANGED <<hub, group, events, told, dirty, lost>>
    BY <1>9 DEF Attach, PeerGone, hubVars, agentVars, IndInv, TypeOK
  <2> QED
    BY <1>0, <2>1, RulesKept
<1>10. ASSUME NEW e, NEW quiet, Emit(e, quiet), UNCHANGED <<handler, hubVars, agentVars>>
       PROVE  RulesInv'
  <2>1. /\ events \subseteq events' /\ (lost => lost')
        /\ UNCHANGED <<handler, hub, group, told, dirty>>
    BY <1>10, ChangeLeavesEvent DEF hubVars, agentVars
  <2> QED
    BY <2>1 DEF RulesInv, SignalPending, OpeningKnows
<1>11. ASSUME NEW c \in Classrooms, NEW q \in Policies, ChangeClassroom(c, q)
       PROVE  RulesInv'
  BY <1>10, <1>11 DEF ChangeClassroom
<1>12. ASSUME NEW m \in Machines, NEW e \in Policies \cup {None}, ChangeExemption(m, e)
       PROVE  RulesInv'
  BY <1>10, <1>12 DEF ChangeExemption
<1>13. ASSUME NEW g \in Groups, ChangeRules(g)
       PROVE  RulesInv'
  <2>1. /\ Emit(GroupEvent(g), TRUE)
        /\ dirty' = dirty \cup Stale({g})
        /\ UNCHANGED <<handler, hubVars, told>>
    BY <1>13 DEF ChangeRules
  <2>2. PICK e, quiet, G : e = GroupEvent(g) /\ quiet = TRUE /\ G = {g}
    OBVIOUS
  <2>3. Emit(e, quiet) /\ dirty' = dirty \cup Stale(G)
    BY <2>1, <2>2
  <2>4. \A h \in G : e = GroupEvent(h) \/ e = Broadcast
    BY <2>2
  <2> QED
    BY <2>1, <2>3, <2>4, RulesChanged
<1>14. ASSUME ChangeAll
       PROVE  RulesInv'
  <2>1. /\ Emit(Broadcast, TRUE)
        /\ dirty' = dirty \cup Stale(Groups)
        /\ UNCHANGED <<handler, hubVars, told>>
    BY <1>14 DEF ChangeAll
  <2> QED
    BY <2>1, RulesChanged
<1>15. ASSUME BridgeError \/ UNCHANGED vars
       PROVE  RulesInv'
  BY <1>15, RulesKept DEF BridgeError, vars, hubVars, agentVars
<1> QED
  BY <1>1, <1>2, <1>3, <1>4, <1>5, <1>6, <1>7, <1>8, <1>9, <1>11, <1>12, <1>13,
     <1>14, <1>15 DEF Next, Change, Deliver, Resume, Stream

\* However publications, re-indexings, failed reads and writes and new streams
\* overlap: once nothing is left to publish, the agent of a client indexed under
\* the group it was told last has been signalled since that group's rules
\* changed (publishGroupChangedLocal and publishClassroomChangedLocal of
\* sse-hub.ts), unless a NOTIFY was lost or a change fell between authorisation
\* and registration of a stream.
THEOREM RuleChangesArrive == Spec => []RulesReachIndexedClients
<1>1. Init => RulesInv
  BY DEF Init, RulesInv, SignalPending, OpeningKnows
<1>2. RulesInv => RulesReachIndexedClients
  BY DEF RulesInv, SignalPending, RulesReachIndexedClients, Quiet
<1> QED
  BY <1>1, <1>2, Invariance, RulesStep, PTL DEF Spec

-----------------------------------------------------------------------------
(***************************************************************************)
(* A calm history.  Between a change and the end of its publication, a     *)
(* client may be indexed under its old group while its agent, signalled    *)
(* for another reason, has the new policy.  What holds throughout: a       *)
(* client indexed under the policy in force has an agent that was told it  *)
(* (ToldIfIndexed), any other is waited for by the one publication of      *)
(* its classroom, which has read what is in force (PublicationsCurrent)    *)
(* and holds the Set that the client is in (WaitedFor).                    *)
(***************************************************************************)
BridgeServes ==
  /\ bridge # "dead" /\ (bridge = "stopped" => hub = {})
  /\ ~lost

NoGrouped == \A m \in Machines : exempt[m] \in {None, Unrestricted}

OpeningCurrent ==
  \A k \in Clients : handler[k] = "authorised" =>
    group[k] = Effective(k) /\ told[k] = Effective(k)

OnePublication ==
  /\ \A p, q \in pubs : p.room = q.room => p = q
  /\ \A p \in pubs : ClassroomEvent(p.room) \notin events

ExemptIn(c) == {m \in Machines : RoomOf[m] = c /\ exempt[m] # None}

PublicationsCurrent ==
  \A p \in pubs :
    /\ p.step # "context" => p.base = base[p.room]
    /\ p.step = "apply" => p.exempt = ExemptIn(p.room)

ToldIfIndexed == \A k \in hub : group[k] = Effective(k) => told[k] = Effective(k)

WaitedFor ==
  \A k \in hub :
    \/ group[k] = Effective(k)
    \/ ClassroomEvent(Room(k)) \in events
    \/ \E p \in pubs : p.room = Room(k) /\ p.live

CalmParts ==
  /\ BridgeServes /\ NoGrouped /\ OpeningCurrent /\ OnePublication
  /\ PublicationsCurrent /\ ToldIfIndexed /\ WaitedFor

CalmInv == calm => CalmParts

\* What is in force for a client depends on the database only.
LEMMA SameInForce ==
  ASSUME UNCHANGED dbVars
  PROVE  /\ \A k : Effective(k)' = Effective(k)
         /\ \A c : ExemptIn(c)' = ExemptIn(c)
         /\ NoGrouped => NoGrouped'
BY DEF dbVars, Effective, Room, ExemptIn, NoGrouped

\* A suspended publication after a step in which its Set may have been dropped.
Kept(p) == [p EXCEPT !.live = p.live /\ byClassroom'[p.room] # {}]

\* A publication whose Set may have been dropped, against the one it was.
LEMMA DetachedOne ==
  ASSUME NEW P, P \subseteq Publication
  PROVE  /\ \A q \in Detached(P) :
              \E p \in P :
                /\ q.room = p.room /\ q.step = p.step /\ q.base = p.base
                /\ q.exempt = p.exempt /\ q = Kept(p)
         /\ \A p \in P :
              \E q \in Detached(P) :
                q.room = p.room /\ (p.live /\ byClassroom'[p.room] # {} => q.live)
<1>1. ASSUME NEW p \in P
      PROVE  /\ Kept(p).room = p.room /\ Kept(p).step = p.step
             /\ Kept(p).base = p.base /\ Kept(p).exempt = p.exempt
             /\ p.live /\ byClassroom'[p.room] # {} => Kept(p).live
  <2>1. p \in Publication
    OBVIOUS
  <2> QED
    BY <2>1 DEF Publication, Kept
<1>2. Detached(P) = {Kept(p) : p \in P}
  BY DEF Detached, Kept
<1> QED
  BY <1>1, <1>2

\* Dropping Sets leaves a classroom with one publication, and what it has read.
LEMMA DetachedCalm ==
  ASSUME IndInv, OnePublication, PublicationsCurrent, UNCHANGED dbVars,
         NEW P \in SUBSET pubs, pubs' = Detached(P), events' \subseteq events
  PROVE  OnePublication' /\ PublicationsCurrent'
<1>1. P \subseteq Publication
  BY DEF IndInv, TypeOK
<1>2. OnePublication'
  <2>1. ASSUME NEW q \in pubs', NEW r \in pubs', q.room = r.room
        PROVE  q = r
    <3>1. PICK a \in P : q.room = a.room /\ q = Kept(a)
      BY <1>1, DetachedOne
    <3>2. PICK b \in P : r.room = b.room /\ r = Kept(b)
      BY <1>1, DetachedOne
    <3>3. a = b
      BY <2>1, <3>1, <3>2 DEF OnePublication
    <3> QED
      BY <3>1, <3>2, <3>3
  <2>2. ASSUME NEW q \in pubs' PROVE ClassroomEvent(q.room) \notin events'
    <3>1. PICK a \in P : q.room = a.room
      BY <1>1, DetachedOne
    <3> QED
      BY <3>1 DEF OnePublication
  <2>3. \A q \in pubs' : ClassroomEvent(q.room)' = ClassroomEvent(q.room)
    BY DEF ClassroomEvent
  <2> QED
    BY <2>1, <2>2, <2>3 DEF OnePublication, ClassroomEvent
<1>3. PublicationsCurrent'
  <2> SUFFICES ASSUME NEW q \in pubs'
               PROVE  /\ q.step # "context" => q.base = base'[q.room]
                      /\ q.step = "apply" => q.exempt = ExemptIn(q.room)'
    BY DEF PublicationsCurrent
  <2>1. PICK a \in P :
          q.room = a.room /\ q.step = a.step /\ q.base = a.base /\ q.exempt = a.exempt
    BY <1>1, DetachedOne
  <2>2. base' = base /\ ExemptIn(q.room)' = ExemptIn(q.room)
    BY SameInForce DEF dbVars
  <2> QED
    BY <2>1, <2>2 DEF PublicationsCurrent
<1> QED
  BY <1>2, <1>3

\* Steps that signal or remove clients and re-index none.
LEMMA CalmWrites ==
  ASSUME IndInv, IndInv', CalmParts, UNCHANGED <<dbVars, group, bridge, lost>>,
         pubs' = Detached(pubs), hub' \subseteq hub, events' \subseteq events,
         \A c : ClassroomEvent(c) \in events => ClassroomEvent(c) \in events',
         \A k \in hub' : told'[k] = told[k] \/ told'[k] = Effective(k),
         \A k \in Clients : handler'[k] = "authorised" =>
           handler[k] = "authorised" /\ told'[k] = told[k]
  PROVE  CalmParts'
<1>1. /\ \A k : Effective(k)' = Effective(k)
      /\ NoGrouped'
  BY SameInForce DEF CalmParts
<1>2. PICK P \in SUBSET pubs : P = pubs
  OBVIOUS
<1>3. OnePublication' /\ PublicationsCurrent'
  BY <1>2, DetachedCalm DEF CalmParts
<1>4. BridgeServes'
  BY DEF CalmParts, BridgeServes
<1>5. OpeningCurrent'
  BY <1>1 DEF CalmParts, OpeningCurrent
<1>6. ToldIfIndexed'
  BY <1>1 DEF CalmParts, ToldIfIndexed
<1>7. WaitedFor'
  <2> SUFFICES ASSUME NEW k \in hub', group[k] # Effective(k),
                      ClassroomEvent(Room(k)) \notin events
               PROVE  \E q \in pubs' : q.room = Room(k) /\ q.live
    BY <1>1 DEF WaitedFor, ClassroomEvent, Room
  <2>1. PICK p \in pubs : p.room = Room(k) /\ p.live
    BY DEF CalmParts, WaitedFor
  <2>2. k \in byClassroom'[p.room]
    <3>1. Room(k) \in Classrooms
      BY PolicyPushAssumption DEF IndInv, TypeOK, Room
    <3> QED
      BY <2>1, <3>1 DEF IndInv, IndexConsistent, Room
  <2>3. pubs \subseteq Publication
    BY DEF IndInv, TypeOK
  <2> QED
    BY <2>1, <2>2, <2>3, DetachedOne
<1> QED
  BY <1>1, <1>3, <1>4, <1>5, <1>6, <1>7 DEF CalmParts

\* The synchronous publications are such steps.
LEMMA CalmTryWrite ==
  ASSUME IndInv, IndInv', CalmParts, UNCHANGED <<dbVars, bridge, lost>>,
         NEW K \in SUBSET hub, TryWrite(K),
         pubs' = Detached(pubs), events' \subseteq events,
         \A c : ClassroomEvent(c) \in events => ClassroomEvent(c) \in events'
  PROVE  CalmParts'
<1>1. PICK broken \in SUBSET (K \cap gone) :
        /\ Remove(broken)
        /\ Release(broken)
        /\ Signal(K \ broken)
        /\ UNCHANGED group
  BY DEF TryWrite
<1>2. hub' \subseteq hub /\ hub \subseteq Clients
  BY <1>1 DEF Remove, IndInv, TypeOK
<1>3. \A k \in Clients :
        told'[k] = told[k] \/ (k \in hub /\ told'[k] = Effective(k))
  BY <1>1 DEF Signal
<1>4. \A k \in Clients : handler'[k] = "authorised" => handler[k] = "authorised"
  BY <1>1 DEF Release
<1>5. \A k \in Clients : handler[k] = "authorised" => k \notin hub
  BY DEF IndInv, TypeOK
<1> QED
  BY <1>1, <1>2, <1>3, <1>4, <1>5, CalmWrites

\* publishClassroomChangedLocal begins.
LEMMA CalmDeliverClassroom ==
  ASSUME IndInv, CalmParts, NEW c \in Classrooms, DeliverClassroom(c)
  PROVE  CalmParts'
<1>1. /\ UNCHANGED <<dbVars, handler, hub, group, byClassroom, bridge, told, lost>>
      /\ ClassroomEvent(c) \in events /\ events' = events \ {ClassroomEvent(c)}
  BY DEF DeliverClassroom, hubVars, agentVars
<1>2. PICK q : q = [room |-> c, step |-> "context", base |-> None, exempt |-> {}, live |-> TRUE]
  OBVIOUS
<1>3. q.room = c /\ q.step = "context" /\ q.live
  BY <1>2
<1>4. pubs' = IF byClassroom[c] = {} THEN pubs ELSE pubs \cup {q}
  BY <1>2 DEF DeliverClassroom
<1>5. \A p \in pubs : p.room # c
  BY <1>1 DEF CalmParts, OnePublication
<1>6. /\ \A k : Effective(k)' = Effective(k)
      /\ \A d : ExemptIn(d)' = ExemptIn(d)
      /\ NoGrouped' /\ UNCHANGED base
  BY <1>1, SameInForce DEF CalmParts, dbVars
<1>7. \A d : ClassroomEvent(d) = ClassroomEvent(c) => d = c
  BY DEF ClassroomEvent
<1>8. OnePublication'
  BY <1>1, <1>3, <1>4, <1>5, <1>7 DEF CalmParts, OnePublication, ClassroomEvent
<1>9. PublicationsCurrent'
  BY <1>3, <1>4, <1>6 DEF CalmParts, PublicationsCurrent
<1>10. BridgeServes' /\ OpeningCurrent' /\ ToldIfIndexed'
  BY <1>1, <1>6 DEF CalmParts, BridgeServes, OpeningCurrent, ToldIfIndexed
<1>11. WaitedFor'
  <2> SUFFICES ASSUME NEW k \in hub, group[k] # Effective(k)
               PROVE  \/ ClassroomEvent(Room(k)) \in events'
                      \/ \E p \in pubs' : p.room = Room(k) /\ p.live
    BY <1>1, <1>6 DEF WaitedFor, ClassroomEvent, Room
  <2>1. CASE Room(k) = c
    <3>1. byClassroom[c] # {}
      BY <2>1 DEF IndInv, IndexConsistent
    <3> QED
      BY <1>3, <1>4, <2>1, <3>1
  <2>2. CASE Room(k) # c
    BY <1>1, <1>4, <1>7, <2>2 DEF CalmParts, WaitedFor
  <2> QED
    BY <2>1, <2>2
<1> QED
  BY <1>6, <1>8, <1>9, <1>10, <1>11 DEF CalmParts

\* Its awaits answer.
LEMMA CalmReads ==
  ASSUME IndInv, CalmParts, NEW p \in pubs, ReadContext(p) \/ ReadExempt(p)
  PROVE  CalmParts'
<1>0. p \in Publication
  BY DEF IndInv, TypeOK
<1>1. UNCHANGED <<dbVars, handler, hub, group, events, bridge, told, lost>>
  BY DEF ReadContext, ReadExempt, hubVars, agentVars
<1>2. /\ \A k : Effective(k)' = Effective(k)
      /\ \A d : ExemptIn(d)' = ExemptIn(d)
      /\ NoGrouped' /\ UNCHANGED base
  BY <1>1, SameInForce DEF CalmParts, dbVars
<1>3. PICK q :
        /\ pubs' = (pubs \ {p}) \cup {q}
        /\ q.room = p.room /\ (q.live <=> p.live)
        /\ q.step # "context" => q.base = base[q.room]
        /\ q.step = "apply" => q.exempt = ExemptIn(q.room)
  <2>1. CASE ReadContext(p)
    <3>1. PICK q : q = [p EXCEPT !.step = "exempt", !.base = base[p.room]]
      OBVIOUS
    <3>2. q.room = p.room /\ q.live = p.live /\ q.step = "exempt" /\ q.base = base[q.room]
      BY <1>0, <3>1 DEF Publication
    <3>3. pubs' = (pubs \ {p}) \cup {q}
      BY <2>1, <3>1 DEF ReadContext
    <3> QED
      BY <3>2, <3>3
  <2>2. CASE ReadExempt(p)
    <3>1. PICK q : q = [p EXCEPT !.step = "apply", !.exempt = ExemptIn(p.room)]
      OBVIOUS
    <3>2. /\ q.room = p.room /\ q.live = p.live /\ q.step = "apply" /\ q.base = p.base
          /\ q.exempt = ExemptIn(p.room)
      BY <1>0, <3>1 DEF Publication
    <3>3. pubs' = (pubs \ {p}) \cup {q}
      BY <2>2, <3>1 DEF ReadExempt, ExemptIn
    <3>4. p.base = base[p.room]
      BY <2>2 DEF ReadExempt, CalmParts, PublicationsCurrent
    <3> QED
      BY <3>2, <3>3, <3>4
  <2> QED
    BY <2>1, <2>2
<1>4. OnePublication'
  BY <1>1, <1>3 DEF CalmParts, OnePublication, ClassroomEvent
<1>5. PublicationsCurrent'
  BY <1>2, <1>3 DEF CalmParts, PublicationsCurrent
<1>6. BridgeServes' /\ OpeningCurrent' /\ ToldIfIndexed'
  BY <1>1, <1>2 DEF CalmParts, BridgeServes, OpeningCurrent, ToldIfIndexed
<1>7. WaitedFor'
  <2> SUFFICES ASSUME NEW k \in hub, group[k] # Effective(k),
                      ClassroomEvent(Room(k)) \notin events
               PROVE  \E r \in pubs' : r.room = Room(k) /\ r.live
    BY <1>1, <1>2 DEF WaitedFor, ClassroomEvent, Room
  <2>1. PICK r \in pubs : r.room = Room(k) /\ r.live
    BY DEF CalmParts, WaitedFor
  <2> QED
    BY <1>3, <2>1
<1> QED
  BY <1>2, <1>4, <1>5, <1>6, <1>7 DEF CalmParts

\* And it re-indexes and signals: what it read is still in force.
LEMMA CalmApply ==
  ASSUME IndInv, IndInv', CalmParts, NEW p \in pubs, Apply(p)
  PROVE  CalmParts'
<1>0. p \in Publication /\ p.step = "apply" /\ hub \subseteq Clients
  BY DEF IndInv, TypeOK, Apply
<1>1. UNCHANGED <<dbVars, events, bridge, lost>>
  BY DEF Apply
<1>2. /\ \A k : Effective(k)' = Effective(k)
      /\ NoGrouped'
  BY <1>1, SameInForce DEF CalmParts
<1>3. PICK M : M = Moved(p)
  OBVIOUS
<1>4. PICK broken \in SUBSET (M \cap gone) :
        hub' = hub \ broken /\ Release(broken) /\ Signal(M \ broken)
  BY <1>3 DEF Apply
<1>5. group' = [k \in Clients |-> IF k \in M THEN NextGroup(p, k) ELSE group[k]]
  BY <1>3 DEF Apply
<1>6. M = {k \in hub : Room(k) = p.room /\ p.live /\ group[k] # NextGroup(p, k)}
  BY <1>0, <1>3 DEF Moved, IndInv, IndexConsistent, Publication
<1>7. ASSUME NEW k \in hub, Room(k) = p.room PROVE NextGroup(p, k) = Effective(k)
  <2>1. p.base = base[p.room] /\ p.exempt = ExemptIn(p.room)
    BY <1>0 DEF CalmParts, PublicationsCurrent
  <2>2. HostOf[k] \in Machines /\ RoomOf[HostOf[k]] = p.room
    BY <1>0, <1>7, PolicyPushAssumption DEF Room
  <2>3. exempt[HostOf[k]] \in {None, Unrestricted}
    BY <2>2 DEF CalmParts, NoGrouped
  <2> QED
    BY <1>7, <2>1, <2>2, <2>3 DEF NextGroup, ExemptIn, Effective, Room
<1>8. \A k \in M : Room(k) = p.room /\ k \in hub /\ NextGroup(p, k) = Effective(k)
  BY <1>6, <1>7
<1>9. \A k \in hub' : IF k \in M THEN group'[k] = Effective(k) /\ told'[k] = Effective(k)
                      ELSE group'[k] = group[k] /\ told'[k] = told[k]
  BY <1>0, <1>4, <1>5, <1>8 DEF Signal
<1>10. PICK P \in SUBSET pubs : P = pubs \ {p}
  OBVIOUS
<1>11. pubs' = Detached(P) /\ events' \subseteq events
  BY <1>1, <1>10 DEF Apply
<1>12. OnePublication' /\ PublicationsCurrent'
  BY <1>1, <1>11, DetachedCalm DEF CalmParts
<1>13. BridgeServes'
  BY <1>1, <1>4 DEF CalmParts, BridgeServes
<1>14. OpeningCurrent'
  <2> SUFFICES ASSUME NEW k \in Clients, handler'[k] = "authorised"
               PROVE  group'[k] = Effective(k) /\ told'[k] = Effective(k)
    BY <1>2 DEF OpeningCurrent
  <2>1. handler[k] = "authorised"
    BY <1>4 DEF Release
  <2>2. k \notin M
    BY <1>8, <2>1 DEF IndInv, TypeOK
  <2>3. group'[k] = group[k] /\ told'[k] = told[k]
    BY <1>4, <1>5, <2>2 DEF Signal
  <2> QED
    BY <2>1, <2>3 DEF CalmParts, OpeningCurrent
<1>15. ToldIfIndexed'
  BY <1>2, <1>4, <1>9 DEF CalmParts, ToldIfIndexed
<1>16. WaitedFor'
  <2> SUFFICES ASSUME NEW k \in hub', group'[k] # Effective(k),
                      ClassroomEvent(Room(k)) \notin events
               PROVE  \E q \in pubs' : q.room = Room(k) /\ q.live
    BY <1>1, <1>2 DEF WaitedFor, ClassroomEvent, Room
  <2>1. k \in hub /\ k \notin M /\ group[k] # Effective(k)
    BY <1>4, <1>9
  <2>2. PICK r \in pubs : r.room = Room(k) /\ r.live
    BY <2>1 DEF CalmParts, WaitedFor
  <2>3. r # p
    BY <1>6, <1>7, <2>1, <2>2
  <2>4. r \in P /\ P \subseteq Publication
    BY <1>10, <2>3 DEF IndInv, TypeOK
  <2>5. k \in byClassroom'[r.room]
    <3>1. Room(k) \in Classrooms
      BY <1>0, <2>1, PolicyPushAssumption DEF Room
    <3> QED
      BY <2>2, <3>1 DEF IndInv, IndexConsistent, Room
  <2> QED
    BY <1>11, <2>2, <2>4, <2>5, DetachedOne
<1> QED
  BY <1>2, <1>12, <1>13, <1>14, <1>15, <1>16 DEF CalmParts

\* Steps of the stream handlers: a client that becomes indexed, or is about to
\* be, has the policy in force.
LEMMA CalmStreams ==
  ASSUME CalmParts, UNCHANGED <<dbVars, events, pubs, lost>>,
         bridge' # "dead", bridge' = "stopped" => hub' = {},
         \A k \in Clients : handler'[k] = "authorised" =>
           \/ handler[k] = "authorised" /\ group'[k] = group[k] /\ told'[k] = told[k]
           \/ group'[k] = Effective(k) /\ told'[k] = Effective(k),
         \A k \in hub' :
           \/ k \in hub /\ group'[k] = group[k] /\ told'[k] = told[k]
           \/ group'[k] = Effective(k) /\ told'[k] = Effective(k)
  PROVE  CalmParts'
<1>1. /\ \A k : Effective(k)' = Effective(k)
      /\ \A d : ExemptIn(d)' = ExemptIn(d)
      /\ NoGrouped' /\ UNCHANGED base
  BY SameInForce DEF CalmParts, dbVars
<1>2. BridgeServes'
  BY DEF CalmParts, BridgeServes
<1>3. OpeningCurrent'
  BY <1>1 DEF CalmParts, OpeningCurrent
<1>4. OnePublication' /\ PublicationsCurrent'
  BY <1>1 DEF CalmParts, OnePublication, PublicationsCurrent, ClassroomEvent
<1>5. ToldIfIndexed'
  BY <1>1 DEF CalmParts, ToldIfIndexed
<1>6. WaitedFor'
  <2> SUFFICES ASSUME NEW k \in hub', group'[k] # Effective(k),
                      ClassroomEvent(Room(k)) \notin events
               PROVE  \E p \in pubs : p.room = Room(k) /\ p.live
    BY <1>1 DEF WaitedFor, ClassroomEvent, Room
  <2> QED
    BY DEF CalmParts, WaitedFor
<1> QED
  BY <1>1, <1>2, <1>3, <1>4, <1>5, <1>6 DEF CalmParts

\* The steps in which a stream opens.
LEMMA CalmOpens ==
  ASSUME IndInv, CalmParts, NEW k \in Clients, calm',
         Authorise(k) \/ Register(k) \/ Attach(k) \/ PeerGone(k)
  PROVE  CalmParts'
<1>0. /\ hub \subseteq Clients /\ bridge # "dead"
      /\ bridge = "stopped" => hub = {}
  BY DEF IndInv, TypeOK, CalmParts, BridgeServes
<1>1. CASE Authorise(k)
  <2>1. k \notin hub
    BY <1>1 DEF IndInv, Authorise, TypeOK
  <2>2. /\ \A j \in Clients : j # k =>
             /\ group'[j] = group[j] /\ told'[j] = told[j]
             /\ handler'[j] = handler[j]
        /\ group'[k] = Effective(k) /\ told'[k] = Effective(k)
        /\ UNCHANGED <<dbVars, hub, events, pubs, bridge, lost>>
    BY <1>1 DEF Authorise, IndInv, TypeOK
  <2> QED
    BY <1>0, <2>1, <2>2, CalmStreams
<1>2. CASE Register(k)
  <2>1. /\ handler[k] = "authorised"
        /\ hub' = hub \cup {k}
        /\ UNCHANGED <<dbVars, group, events, pubs, told, lost>>
        /\ \A j \in Clients : handler'[j] = "authorised" => handler[j] = "authorised"
    BY <1>2 DEF Register, agentVars, IndInv, TypeOK
  <2>2. bridge' # "stopped" /\ bridge' # "dead"
    BY <1>0, <1>2 DEF Register, EnsureStarted
  <2>3. group[k] = Effective(k) /\ told[k] = Effective(k)
    BY <2>1 DEF CalmParts, OpeningCurrent
  <2> QED
    BY <2>1, <2>2, <2>3, CalmStreams
<1>3. CASE Attach(k) \/ PeerGone(k)
  <2>1. /\ \A j \in Clients : handler'[j] = "authorised" => handler[j] = "authorised"
        /\ UNCHANGED <<dbVars, hub, group, events, pubs, bridge, told, lost>>
    BY <1>3 DEF Attach, PeerGone, hubVars, agentVars, IndInv, TypeOK
  <2> QED
    BY <1>0, <2>1, CalmStreams
<1> QED
  BY <1>1, <1>2, <1>3

\* What a calm change does to the bookkeeping.
LEMMA CalmEmits ==
  ASSUME IndInv, CalmParts, NEW e, NEW quiet, Emit(e, quiet), calm', UNCHANGED <<bridge, hub>>
  PROVE  /\ calm /\ quiet /\ ~Connecting
         /\ hub # {} => e \in events'
         /\ events \subseteq events' /\ events' \subseteq events \cup {e}
         /\ BridgeServes'
<1>1. calm /\ quiet /\ ~Connecting
  BY DEF Emit
<1>2. /\ ~lost /\ bridge # "dead" /\ bridge \in {"stopped", "listening", "dead"}
      /\ bridge = "stopped" => hub = {}
  BY DEF CalmParts, BridgeServes, IndInv, TypeOK
<1>3. \/ events' = events \cup {e} /\ ~lost'
      \/ events' = events /\ bridge # "listening" /\ (hub = {} => ~lost')
  BY <1>1, <1>2 DEF Emit
<1> QED
  BY <1>1, <1>2, <1>3 DEF BridgeServes

\* The policy of a classroom changes, or of some of its machines.
LEMMA CalmChange ==
  ASSUME IndInv, CalmParts, NEW c \in Classrooms, NEW quiet,
         Emit(ClassroomEvent(c), quiet), calm', quiet => ~Unpublished(c),
         UNCHANGED <<handler, hub, group, pubs, bridge, told>>, NoGrouped',
         \A k \in Clients : Room(k) # c => Effective(k)' = Effective(k),
         \A d \in Classrooms : d # c => base'[d] = base[d] /\ ExemptIn(d)' = ExemptIn(d)
  PROVE  calm /\ CalmParts'
<1>1. PICK e : e = ClassroomEvent(c)
  OBVIOUS
<1>2. Emit(e, quiet)
  BY <1>1
<1>3. /\ calm /\ quiet /\ ~Connecting
      /\ hub # {} => ClassroomEvent(c) \in events'
      /\ events \subseteq events' /\ events' \subseteq events \cup {ClassroomEvent(c)}
      /\ BridgeServes'
  BY <1>1, <1>2, CalmEmits
<1>4. ClassroomEvent(c) \notin events /\ \A p \in pubs : p.room # c
  BY <1>3 DEF Unpublished
<1>5. hub \subseteq Clients /\ pubs \subseteq Publication
  BY DEF IndInv, TypeOK
<1>6. \A d : ClassroomEvent(d) = ClassroomEvent(c) => d = c
  BY DEF ClassroomEvent
<1>7. OpeningCurrent'
  BY <1>3 DEF Connecting, OpeningCurrent
<1>8. OnePublication'
  BY <1>3, <1>4, <1>6 DEF CalmParts, OnePublication, ClassroomEvent
<1>9. PublicationsCurrent'
  <2> SUFFICES ASSUME NEW p \in pubs
               PROVE  /\ p.step # "context" => p.base = base'[p.room]
                      /\ p.step = "apply" => p.exempt = ExemptIn(p.room)'
    BY DEF PublicationsCurrent
  <2>1. p.room # c /\ p.room \in Classrooms
    BY <1>4, <1>5 DEF Publication
  <2> QED
    BY <2>1 DEF CalmParts, PublicationsCurrent
<1>10. \A k \in hub : Room(k) = c => group[k] = Effective(k) /\ told[k] = Effective(k)
  BY <1>4 DEF CalmParts, WaitedFor, ToldIfIndexed
<1>11. ToldIfIndexed'
  <2> SUFFICES ASSUME NEW k \in hub, group[k] = Effective(k)'
               PROVE  told[k] = Effective(k)'
    BY DEF ToldIfIndexed
  <2>1. CASE Room(k) = c
    BY <1>10, <2>1
  <2>2. CASE Room(k) # c
    BY <1>5, <2>2 DEF CalmParts, ToldIfIndexed
  <2> QED
    BY <2>1, <2>2
<1>12. WaitedFor'
  <2> SUFFICES ASSUME NEW k \in hub, group[k] # Effective(k)',
                      ClassroomEvent(Room(k)) \notin events'
               PROVE  \E p \in pubs : p.room = Room(k) /\ p.live
    BY DEF WaitedFor, ClassroomEvent, Room
  <2>1. Room(k) # c
    BY <1>3
  <2>2. group[k] # Effective(k)
    BY <1>5, <2>1
  <2> QED
    BY <1>3, <2>2 DEF CalmParts, WaitedFor
<1> QED
  BY <1>3, <1>7, <1>8, <1>9, <1>11, <1>12 DEF CalmParts

\* Rules change: no policy does.
LEMMA CalmRules ==
  ASSUME IndInv, CalmParts, NEW e, NEW quiet, Emit(e, quiet), calm',
         \A c : e # ClassroomEvent(c),
         UNCHANGED <<dbVars, handler, hub, group, pubs, bridge, told>>
  PROVE  calm /\ CalmParts'
<1>1. /\ calm /\ BridgeServes'
      /\ events \subseteq events' /\ events' \subseteq events \cup {e}
  BY CalmEmits
<1>2. /\ \A k : Effective(k)' = Effective(k)
      /\ \A d : ExemptIn(d)' = ExemptIn(d)
      /\ NoGrouped' /\ UNCHANGED base
  BY SameInForce DEF CalmParts, dbVars
<1>3. OnePublication'
  BY <1>1 DEF CalmParts, OnePublication, ClassroomEvent
<1>4. PublicationsCurrent' /\ OpeningCurrent' /\ ToldIfIndexed'
  BY <1>2 DEF CalmParts, PublicationsCurrent, OpeningCurrent, ToldIfIndexed
<1>5. WaitedFor'
  <2> SUFFICES ASSUME NEW k \in hub, group[k] # Effective(k),
                      ClassroomEvent(Room(k)) \notin events'
               PROVE  \E p \in pubs : p.room = Room(k) /\ p.live
    BY <1>2 DEF WaitedFor, ClassroomEvent, Room
  <2> QED
    BY <1>1 DEF CalmParts, WaitedFor
<1> QED
  BY <1>1, <1>2, <1>3, <1>4, <1>5 DEF CalmParts

\* The changes, each with what it leaves in force.
LEMMA CalmChanges ==
  ASSUME IndInv, CalmParts, calm', Change
  PROVE  calm /\ CalmParts'
<1> USE PolicyPushAssumption
<1>1. ASSUME NEW c \in Classrooms, NEW q \in Policies, ChangeClassroom(c, q)
      PROVE  calm /\ CalmParts'
  <2>1. /\ UNCHANGED <<exempt, handler, hub, group, pubs, bridge, told>>
        /\ base' = [base EXCEPT ![c] = q]
        /\ Emit(ClassroomEvent(c), ~Unpublished(c))
    BY <1>1 DEF ChangeClassroom, hubVars, agentVars
  <2>2. NoGrouped'
    BY <2>1 DEF CalmParts, NoGrouped
  <2>3. \A d \in Classrooms : d # c => base'[d] = base[d] /\ ExemptIn(d)' = ExemptIn(d)
    BY <2>1 DEF ExemptIn, IndInv, TypeOK
  <2>4. \A k \in Clients : Room(k) # c => Effective(k)' = Effective(k)
    BY <2>1, <2>3 DEF Effective, Room
  <2> QED
    BY <2>1, <2>2, <2>3, <2>4, CalmChange
<1>2. ASSUME NEW m \in Machines, NEW x \in Policies \cup {None}, ChangeExemption(m, x)
      PROVE  calm /\ CalmParts'
  <2>1. /\ UNCHANGED <<base, handler, hub, group, pubs, bridge, told>>
        /\ exempt' = [exempt EXCEPT ![m] = x]
        /\ Emit(ClassroomEvent(RoomOf[m]), ~Unpublished(RoomOf[m]) /\ x \notin Groups)
    BY <1>2 DEF ChangeExemption, hubVars, agentVars
  <2>2. PICK c \in Classrooms : c = RoomOf[m]
    OBVIOUS
  <2>3. x \notin Groups
    BY <2>1 DEF Emit
  <2>4. NoGrouped'
    BY <2>1, <2>3 DEF CalmParts, NoGrouped, Policies, IndInv, TypeOK
  <2>5. \A d \in Classrooms : d # c => base'[d] = base[d] /\ ExemptIn(d)' = ExemptIn(d)
    BY <2>1, <2>2 DEF ExemptIn, IndInv, TypeOK
  <2>6. \A k \in Clients : Room(k) # c => Effective(k)' = Effective(k)
    BY <2>1, <2>2 DEF Effective, Room, IndInv, TypeOK
  <2>7. Emit(ClassroomEvent(c), ~Unpublished(c) /\ x \notin Groups)
    BY <2>1, <2>2
  <2> QED
    BY <2>1, <2>4, <2>5, <2>6, <2>7, CalmChange
<1>3. ASSUME NEW g \in Groups, ChangeRules(g)
      PROVE  calm /\ CalmParts'
  <2>1. PICK e, quiet : e = GroupEvent(g) /\ quiet = TRUE
    OBVIOUS
  <2>2. /\ Emit(e, quiet) /\ \A c : e # ClassroomEvent(c)
        /\ UNCHANGED <<dbVars, handler, hub, group, pubs, bridge, told>>
    BY <1>3, <2>1, EventNames DEF ChangeRules, hubVars
  <2> QED
    BY <2>2, CalmRules
<1>4. ASSUME ChangeAll
      PROVE  calm /\ CalmParts'
  <2>1. PICK e, quiet : e = Broadcast /\ quiet = TRUE
    OBVIOUS
  <2>2. /\ Emit(e, quiet) /\ \A c : e # ClassroomEvent(c)
        /\ UNCHANGED <<dbVars, handler, hub, group, pubs, bridge, told>>
    BY <1>4, <2>1, EventNames DEF ChangeAll, hubVars
  <2> QED
    BY <2>2, CalmRules
<1> QED
  BY <1>1, <1>2, <1>3, <1>4 DEF Change

\* Every step keeps CalmInv; none makes a history calm again.
LEMMA CalmStep == IndInv /\ IndInv' /\ CalmInv /\ [Next]_vars => CalmInv'
<1> SUFFICES ASSUME IndInv, IndInv', CalmInv, [Next]_vars, calm' PROVE CalmParts'
  BY DEF CalmInv
<1>0. calm /\ CalmParts
  <2>1. calm
    BY DEF Next, Change, Deliver, Resume, Stream, ChangeClassroom, ChangeExemption,
       ChangeRules, ChangeAll, Emit, DeliverGroup, DeliverClassroom, DeliverBroadcast,
       ReadContext, ReadExempt, ReadFails, Apply, Authorise, Register, EnsureStarted, Attach,
       PeerGone, Disconnect, KeepAlive, BridgeError, vars
  <2> QED
    BY <2>1 DEF CalmInv
<1>1. CASE Change
  BY <1>0, <1>1, CalmChanges
<1>2. ASSUME NEW g \in Groups, DeliverGroup(g)
      PROVE  CalmParts'
  <2>1. PICK K \in SUBSET hub : K = byGroup[g]
    BY DEF IndInv, TypeOK, IndexConsistent, Policies
  <2>2. TryWrite(K) /\ pubs' = Detached(pubs) /\ UNCHANGED <<dbVars, bridge, lost>>
    BY <1>2, <2>1 DEF DeliverGroup
  <2>3. /\ events' \subseteq events
        /\ \A c : ClassroomEvent(c) \in events => ClassroomEvent(c) \in events'
    BY <1>2, EventNames DEF DeliverGroup
  <2> QED
    BY <1>0, <2>2, <2>3, CalmTryWrite
<1>3. ASSUME DeliverBroadcast
      PROVE  CalmParts'
  <2>1. PICK K \in SUBSET hub : K = hub
    OBVIOUS
  <2>2. TryWrite(K) /\ pubs' = Detached(pubs) /\ UNCHANGED <<dbVars, bridge, lost>>
    BY <1>3, <2>1 DEF DeliverBroadcast
  <2>3. /\ events' \subseteq events
        /\ \A c : ClassroomEvent(c) \in events => ClassroomEvent(c) \in events'
    BY <1>3, EventNames DEF DeliverBroadcast
  <2> QED
    BY <1>0, <2>2, <2>3, CalmTryWrite
<1>4. ASSUME NEW c \in Classrooms, DeliverClassroom(c)
      PROVE  CalmParts'
  BY <1>0, <1>4, CalmDeliverClassroom
<1>5. CASE Resume
  BY <1>0, <1>5, CalmReads, CalmApply DEF Resume, ReadFails
<1>6. ASSUME NEW k \in Clients, KeepAlive(k) \/ Disconnect(k)
      PROVE  CalmParts'
  <2>1. /\ hub' \subseteq hub
        /\ \A j \in Clients : handler'[j] = "authorised" => handler[j] = "authorised"
        /\ UNCHANGED <<dbVars, group, events, bridge, told, lost>>
        /\ pubs' = Detached(pubs)
    BY <1>6 DEF KeepAlive, Disconnect, Remove, Release, agentVars
  <2> QED
    BY <1>0, <2>1, CalmWrites
<1>7. ASSUME NEW k \in Clients,
             Authorise(k) \/ Register(k) \/ Attach(k) \/ PeerGone(k)
      PROVE  CalmParts'
  BY <1>0, <1>7, CalmOpens
<1>8. CASE BridgeError
  BY <1>8 DEF BridgeError
<1>9. CASE UNCHANGED vars
  <2>1. UNCHANGED <<dbVars, events, pubs, lost, handler, hub, group, told, bridge>>
    BY <1>9 DEF vars, hubVars, agentVars
  <2>2. bridge # "dead" /\ (bridge = "stopped" => hub = {})
    BY <1>0 DEF CalmParts, BridgeServes
  <2> QED
    BY <1>0, <2>1, <2>2, CalmStreams
<1> QED
  BY <1>1, <1>2, <1>3, <1>4, <1>5, <1>6, <1>7, <1>8, <1>9 DEF Next, Deliver, Stream

\* In a history in which no change overlapped a publication of its classroom or
\* a stream between authorisation and registration, no exemption granted a
\* group, no read of a publication failed and the bridge kept listening, the
\* agent of every stream has, whenever nothing is left to publish, been signalled
\* since the policy in force for its machine and its rules changed: what
\* publishClassroomChangedLocal read before its awaits is still in force when it
\* re-indexes the clients.
THEOREM CalmPushesArrive == Spec => []CalmPushReachesAgent
<1>1. Init => CalmInv /\ RulesInv
  <2> SUFFICES ASSUME Init PROVE CalmInv /\ RulesInv
    OBVIOUS
  <2>1. BridgeServes /\ NoGrouped /\ OpeningCurrent
    BY DEF Init, BridgeServes, NoGrouped, OpeningCurrent
  <2>2. OnePublication /\ PublicationsCurrent /\ ToldIfIndexed /\ WaitedFor
    BY DEF Init, OnePublication, PublicationsCurrent, ToldIfIndexed, WaitedFor
  <2>3. RulesInv
    BY DEF Init, RulesInv, SignalPending, OpeningKnows
  <2> QED
    BY <2>1, <2>2, <2>3 DEF CalmInv, CalmParts
<1>2. CalmInv /\ RulesInv => CalmPushReachesAgent
  <2> SUFFICES ASSUME CalmInv, RulesInv, calm, Quiet, NEW k \in hub
               PROVE  told[k] = Effective(k) /\ k \notin dirty
    BY DEF CalmPushReachesAgent
  <2>1. group[k] = Effective(k) /\ told[k] = Effective(k) /\ ~lost
    BY DEF CalmInv, CalmParts, WaitedFor, ToldIfIndexed, BridgeServes, Quiet
  <2> QED
    BY <2>1 DEF RulesInv, SignalPending, Quiet
<1> QED
  BY <1>1, <1>2, Invariance, RulesStep, CalmStep, PTL DEF Spec
=============================================================================
