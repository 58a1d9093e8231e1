---------------------------- MODULE DomainEvents ----------------------------
(***************************************************************************)
(* The domain-event collector of the API                                   *)
(* (api/src/services/domain-events/collector.ts) and the transactional     *)
(* writer around it (transactional-writer.ts).                             *)
(*                                                                         *)
(* A command runs its database work inside a transaction and publishes     *)
(* domain events on a collector while it runs.  The collector deduplicates *)
(* them as they come.  Only when the transaction runner returns does       *)
(* flush() hand what is left to the dispatcher; when it throws, the        *)
(* exception leaves the writer before flush() and nothing is dispatched.   *)
(***************************************************************************)
EXTENDS Naturals, Sequences, FiniteSets

CONSTANTS
  Groups,       \* group identifiers
  Classrooms,   \* classroom identifiers
  Times,        \* the "now" stamps a classroom.changed event may carry
  MaxPublished  \* bound: calls of publish in one command

ASSUME MaxPublishedAssumption == MaxPublished \in Nat

Whitelist(g) == [type |-> "whitelist.changed", id |-> g]
AllWhitelists == [type |-> "whitelists.allChanged"]
Classroom(c, t) == [type |-> "classroom.changed", id |-> c, now |-> t]

DomainEvent ==
  {Whitelist(g) : g \in Groups} \cup {AllWhitelists}
    \cup {Classroom(c, t) : c \in Classrooms, t \in Times}

\* The strings pushed on orderedKeys.
WhitelistKey(g) == <<"whitelist.changed", g>>
AllKey == <<"whitelists.allChanged">>
ClassroomKey(c) == <<"classroom.changed", c>>

Key ==
  {WhitelistKey(g) : g \in Groups} \cup {AllKey}
    \cup {ClassroomKey(c) : c \in Classrooms}

VARIABLES
  orderedKeys,             \* queue.orderedKeys
  hasAllWhitelistsChanged, \* queue.hasAllWhitelistsChanged
  whitelistChanged,        \* the keys of queue.whitelistChanged
  classroomChanged,        \* queue.classroomChanged: classroom -> last event
  published,               \* history: every event the command published
  phase,                   \* "open", "committed" or "rolledback"
  dispatched               \* what dispatcher.publishBatch received

queueVars == <<orderedKeys, hasAllWhitelistsChanged, whitelistChanged,
               classroomChanged>>
vars == <<queueVars, published, phase, dispatched>>

Init ==
  /\ orderedKeys = <<>>
  /\ hasAllWhitelistsChanged = FALSE
  /\ whitelistChanged = {}
  /\ classroomChanged = <<>>
  /\ published = <<>>
  /\ phase = "open"
  /\ dispatched = <<>>

-----------------------------------------------------------------------------
(***************************************************************************)
(* queueEvent, one operator per case of its switch.                        *)
(***************************************************************************)
QueueWhitelist(e) ==
  /\ e.type = "whitelist.changed"
  /\ IF hasAllWhitelistsChanged \/ e.id \in whitelistChanged
     THEN UNCHANGED queueVars
     ELSE /\ whitelistChanged' = whitelistChanged \cup {e.id}
          /\ orderedKeys' = Append(orderedKeys, WhitelistKey(e.id))
          /\ UNCHANGED <<hasAllWhitelistsChanged, classroomChanged>>

QueueAll(e) ==
  /\ e.type = "whitelists.allChanged"
  /\ IF hasAllWhitelistsChanged
     THEN UNCHANGED queueVars
     ELSE /\ hasAllWhitelistsChanged' = TRUE
          /\ whitelistChanged' = {}
          /\ orderedKeys' = Append(orderedKeys, AllKey)
          /\ UNCHANGED classroomChanged

\* Mutant: the first event of a classroom wins.
QueueClassroomOnce(e) ==
  /\ e.type = "classroom.changed"
  /\ IF e.id \in DOMAIN classroomChanged
     THEN UNCHANGED <<orderedKeys, classroomChanged>>
     ELSE /\ orderedKeys' = Append(orderedKeys, ClassroomKey(e.id))
          /\ classroomChanged' =
               [c \in DOMAIN classroomChanged \cup {e.id} |->
                  IF c = e.id THEN e ELSE classroomChanged[c]]
  /\ UNCHANGED <<hasAllWhitelistsChanged, whitelistChanged>>

QueueClassroom(e) ==
  /\ e.type = "classroom.changed"
  /\ orderedKeys' = IF e.id \in DOMAIN classroomChanged
                    THEN orderedKeys
                    ELSE Append(orderedKeys, ClassroomKey(e.id))
  /\ classroomChanged' =
       [c \in DOMAIN classroomChanged \cup {e.id} |->
          IF c = e.id THEN e ELSE classroomChanged[c]]
  /\ UNCHANGED <<hasAllWhitelistsChanged, whitelistChanged>>

\* collector.publish(event), called from inside the command.
Publish(e) ==
  /\ phase = "open"
  /\ Len(published) < MaxPublished
  /\ QueueWhitelist(e) \/ QueueAll(e) \/ QueueClassroom(e)
  /\ published' = Append(published, e)
  /\ UNCHANGED <<phase, dispatched>>

\* Mutant: per-group keys outlive a broadcast that was queued after them.
SurvivesBroadcast(k) ==
  k[1] # "classroom.changed" \/ k[2] \in DOMAIN classroomChanged

\* Is the key still worth an event when normalizeEvents reaches it?
Survives(k) ==
  \/ k = AllKey
  \/ /\ k[1] = "whitelist.changed"
     /\ ~hasAllWhitelistsChanged
     /\ k[2] \in whitelistChanged
  \/ k[1] = "classroom.changed" /\ k[2] \in DOMAIN classroomChanged

EventFor(k) ==
  CASE k = AllKey -> AllWhitelists
    [] k[1] = "whitelist.changed" -> Whitelist(k[2])
    [] OTHER -> classroomChanged[k[2]]

\* The enumeration of a set of positions from the first to the last, as a set
\* of one element.
InOrder(K) ==
  {p \in [1 .. Cardinality(K) -> K] :
     /\ \A k \in K : \E n \in DOMAIN p : p[n] = k
     /\ \A m, n \in DOMAIN p : m < n => p[m] < p[n]}

\* The batches normalizeEvents may return: one.
normalizeEvents ==
  {[n \in DOMAIN p |-> EventFor(orderedKeys[p[n]])] :
     p \in InOrder({i \in DOMAIN orderedKeys : Survives(orderedKeys[i])})}

\* The transaction commits and the writer goes on to flush().
Commit ==
  /\ phase = "open"
  /\ phase' = "committed"
  /\ dispatched' \in normalizeEvents
  /\ UNCHANGED <<queueVars, published>>

\* The transaction runner throws: flush() is never reached.
Rollback ==
  /\ phase = "open"
  /\ phase' = "rolledback"
  /\ UNCHANGED <<queueVars, published, dispatched>>

Next ==
  \/ \E e \in DomainEvent : Publish(e)
  \/ Commit
  \/ Rollback

Spec == Init /\ [][Next]_vars

-----------------------------------------------------------------------------
TypeOK ==
  /\ orderedKeys \in Seq(Key)
  /\ hasAllWhitelistsChanged \in BOOLEAN
  /\ whitelistChanged \subseteq Groups
  /\ DOMAIN classroomChanged \subseteq Classrooms
  /\ published \in Seq(DomainEvent)
  /\ phase \in {"open", "committed", "rolledback"}
  /\ dispatched \in Seq(DomainEvent)

\* The last event published for classroom c.
LastFor(c) ==
  LET at == {i \in DOMAIN published :
               published[i].type = "classroom.changed" /\ published[i].id = c}
  IN  published[CHOOSE i \in at : \A j \in at : j <= i]

Dispatched(e) == \E i \in DOMAIN dispatched : dispatched[i] = e

(***************************************************************************)
(* Deduplication loses nothing: when the command commits, every event it   *)
(* published reaches the dispatcher, a group's as itself or as the         *)
(* broadcast that subsumes it, a classroom's with the stamp published last *)
(* (queueEvent and normalizeEvents together).                              *)
(***************************************************************************)
EveryEventCovered ==
  phase = "committed" =>
    \A i \in DOMAIN published :
      LET e == published[i] IN
      CASE e.type = "whitelist.changed" -> Dispatched(e) \/ Dispatched(AllWhitelists)
        [] e.type = "whitelists.allChanged" -> Dispatched(e)
        [] OTHER -> Dispatched(LastFor(e.id))

(***************************************************************************)
(* Deduplication is complete: agents are not woken twice by one command.   *)
(* No group or classroom is dispatched twice, and a broadcast leaves no    *)
(* single-group event next to it, whichever was published first.           *)
(***************************************************************************)
NoRedundantDispatch ==
  \A i, j \in DOMAIN dispatched :
    i # j =>
      /\ dispatched[i].type # "whitelists.allChanged" \/
           dispatched[j].type \notin {"whitelist.changed", "whitelists.allChanged"}
      /\ dispatched[i].type = dispatched[j].type /\ dispatched[i].type # "whitelists.allChanged"
           => dispatched[i].id # dispatched[j].id

(***************************************************************************)
(* Events are dispatched only for work that was committed and only if the  *)
(* command published them: a transaction that throws leaves the dispatcher *)
(* untouched (writeTransactionalCommand).                                  *)
(***************************************************************************)
OnlyCommittedEvents ==
  \A i \in DOMAIN dispatched :
    /\ phase = "committed"
    /\ \E j \in DOMAIN published : published[j] = dispatched[i]

\* What the dispatcher gets of a command is well-formed, was published by it,
\* comes from a transaction that committed, and wakes nobody twice: the
\* collector and writeTransactionalCommand together.
DispatchInv == TypeOK /\ OnlyCommittedEvents /\ NoRedundantDispatch
=============================================================================
