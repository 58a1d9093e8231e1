----------------------- MODULE BrowserExtensionProofs ------------------------
(***************************************************************************)
(* Proofs about the browser extension.  Its native transport: port, state  *)
(* and calls agree, a lost connection counts once, and the transport       *)
(* implements the promise of RequestReply.  Its runtime dependencies: a    *)
(* request released as ready had its dependency opened.                    *)
(***************************************************************************)
EXTENDS NativeTransport, RuntimeDependencies, FiniteSetTheorems, TLAPS

\* The user calls still open: each may yet cost the id of a liveness ping.
Users == {c \in pending : kind[c] = "user"}

\* The ids last: what TimeoutUser needs for its ping was set aside by call.
IdsSuffice == nextId + Cardinality(Users) <= MaxCalls + 1

\* Ids that were not given out have no result.
FreshIds == \A c \in Calls : c >= nextId => result[c] = None

\* The history variable and the code's counter: they differ by the connection
\* that is open, and agree while none is.
AttemptsCounted ==
  /\ state \in {"connecting", "ready", "legacy"} => tried = attempts + 1
  /\ state = "backoff" \/ (state = "idle" /\ ~stopped) => tried = attempts

\* Nothing was asked on a port before it is opened.
PortsInOrder ==
  /\ port <= ports
  /\ \A p \in Ports : p > ports => asked[p] = <<>>

\* A host that does not echo ids is only ever asked for its capabilities, when
\* callers wait for isReady(): what it may still answer is the one open call.
LegacyAskedOnce ==
  ~EarlyCalls =>
    /\ state = "ready" => host[port] = "modern"
    /\ port # NoPort /\ host[port] = "legacy" =>
         \A i \in 1 .. Len(asked[port]) : pending \subseteq {asked[port][i]}

\* The inductive invariant.
NTInd ==
  NTTypeOK /\ OpenCallsArePending /\ IdsSuffice /\ FreshIds /\ AttemptsCounted /\ PortsInOrder /\ LegacyAskedOnce

-----------------------------------------------------------------------------
(***************************************************************************)
(* Counting calls.                                                         *)
(***************************************************************************)

\* Any set of calls is finite.
LEMMA CallsAreFinite ==
  ASSUME NEW S \in SUBSET Calls
  PROVE  IsFiniteSet(S) /\ Cardinality(S) \in Nat
<1>1. IsFiniteSet(Calls)
  BY FS_Interval, TransportAssumption DEF Calls
<1>2. IsFiniteSet(S)
  BY <1>1, FS_Subset
<1> QED
  BY <1>2, FS_CardinalityType

\* The counts that the invariant and the backoff use are numbers.
LEMMA Counts ==
  ASSUME pending \subseteq Calls
  PROVE  /\ IsFiniteSet(Users) /\ Cardinality(Users) \in Nat
         /\ Catches({"probe", "ping"}) \in Nat /\ Catches({"probe"}) \in Nat
<1>1. Users \in SUBSET Calls
  BY DEF Users
<1>2. {c \in pending : kind[c] \in {"probe", "ping"}} \in SUBSET Calls
  OBVIOUS
<1>3. {c \in pending : kind[c] \in {"probe"}} \in SUBSET Calls
  OBVIOUS
<1> QED
  BY <1>1, <1>2, <1>3, CallsAreFinite DEF Catches

\* A probe that is waited for is an open call.
LEMMA ProbeIsOpen ==
  ASSUME pending \subseteq Calls, Catches({"probe"}) > 0
  PROVE  pending # {}
<1> SUFFICES ASSUME pending = {} PROVE FALSE
  OBVIOUS
<1>1. {c \in pending : kind[c] \in {"probe"}} = {}
  OBVIOUS
<1> QED
  BY <1>1, FS_EmptySet DEF Catches

\* Fewer open user calls, and no new id, leave the ids sufficient.
LEMMA FewerUsers ==
  ASSUME NTInd, nextId' = nextId, kind' = kind, pending' \subseteq pending
  PROVE  IdsSuffice'
<1>1. Users' \in SUBSET Users /\ pending \subseteq Calls /\ nextId \in Nat /\ MaxCalls \in Nat
  BY TransportAssumption DEF Users, NTInd, NTTypeOK
<1>2. IsFiniteSet(Users) /\ Cardinality(Users) \in Nat
  BY <1>1, Counts
<1>3. Cardinality(Users') <= Cardinality(Users) /\ IsFiniteSet(Users')
  BY <1>1, <1>2, FS_Subset
<1>4. Cardinality(Users') \in Nat
  BY <1>3, FS_CardinalityType
<1> QED
  BY <1>1, <1>2, <1>3, <1>4 DEF NTInd, IdsSuffice

\* With no open call, any id that is left suffices.
LEMMA NoUsers ==
  ASSUME pending' = {}, nextId' <= MaxCalls + 1, nextId' \in Nat
  PROVE  IdsSuffice'
<1>1. Users' = {}
  BY DEF Users
<1>2. Cardinality(Users') = 0
  BY <1>1, FS_EmptySet
<1> QED
  BY <1>2 DEF IdsSuffice

\* What the next id may be.
LEMMA NextIdIsFree ==
  ASSUME NTInd, Room(1) \/ Room(2) \/ \E c \in pending : kind[c] = "user"
  PROVE  /\ nextId \in Calls /\ nextId \notin pending /\ result[nextId] = None
         /\ nextId \in Nat /\ MaxCalls \in Nat
<1>1. /\ pending \subseteq Calls /\ nextId \in 1 .. MaxCalls + 1 /\ MaxCalls \in Nat
      /\ pending = {c \in Calls : c < nextId /\ result[c] = None}
  BY TransportAssumption DEF NTInd, NTTypeOK, OpenCallsArePending
<1>2. IsFiniteSet(Users) /\ Cardinality(Users) \in Nat
  BY <1>1, Counts
<1>3. (\E c \in pending : kind[c] = "user") => Cardinality(Users) # 0
  BY <1>2, FS_EmptySet DEF Users
<1>4. nextId \in Calls
  BY <1>1, <1>2, <1>3 DEF Room, NTInd, IdsSuffice, Users, Calls
<1> QED
  BY <1>1, <1>4 DEF NTInd, FreshIds, Calls

-----------------------------------------------------------------------------
(***************************************************************************)
(* The steps.                                                              *)
(***************************************************************************)

Kinds == {"none", "probe", "ping", "user"}
Results == Calls \cup {None, Failed}

\* What every step leaves, or keeps well-formed.
CallsKept ==
  /\ nextId' \in nextId .. MaxCalls + 1
  /\ kind' \in [Calls -> Kinds] /\ result' \in [Calls -> Results]
  /\ asked' \in [Ports -> Seq(Calls)]
  /\ \A p \in Ports : p > ports' => asked'[p] = <<>>
  /\ silent' \in BOOLEAN /\ waiting' \in BOOLEAN

\* A step that loses the open port, or fails to open one: whatever was open is
\* settled, and the loss is counted once.
LEMMA LossStep ==
  ASSUME NTInd, CallsKept, pending' = {}, UNCHANGED <<host, stopped>>,
         port' = NoPort, state' = "backoff",
         ports' \in ports .. MaxPorts,
         attempts' \in Nat, tried' = attempts',
         \A c \in Calls : result'[c] = None <=> c >= nextId'
  PROVE  NTInd'
<1>0. /\ ports \in 0 .. MaxPorts /\ nextId \in 1 .. MaxCalls + 1 /\ host \in [Ports -> Hosts]
      /\ stopped \in BOOLEAN
  BY DEF NTInd, NTTypeOK
<1>1. nextId' \in 1 .. MaxCalls + 1 /\ ports' \in 0 .. MaxPorts /\ nextId' \in Nat
  BY <1>0, TransportAssumption DEF CallsKept
<1>2. NTTypeOK'
  BY <1>0, <1>1, TransportAssumption DEF NTTypeOK, CallsKept, Kinds, Results, NoPort
<1>3. OpenCallsArePending' /\ FreshIds'
  BY <1>1 DEF OpenCallsArePending, FreshIds, Calls
<1>4. IdsSuffice'
  BY <1>1, NoUsers, TransportAssumption
<1>5. AttemptsCounted'
  BY DEF AttemptsCounted
<1>6. PortsInOrder' /\ LegacyAskedOnce'
  BY <1>1 DEF PortsInOrder, LegacyAskedOnce, CallsKept, NoPort
<1> QED
  BY <1>2, <1>3, <1>4, <1>5, <1>6 DEF NTInd

\* A step that leaves the connection as it is.
LEMMA ServingStep ==
  ASSUME NTInd, CallsKept, UNCHANGED <<host, stopped, port, ports, state, attempts, tried>>,
         pending' \subseteq Calls, IdsSuffice', LegacyAskedOnce',
         pending' # {} => port # NoPort,
         \A c \in Calls : result'[c] = None <=> c >= nextId' \/ c \in pending',
         \A c \in pending' : c < nextId'
  PROVE  NTInd'
<1>1. nextId' \in 1 .. MaxCalls + 1
  BY TransportAssumption DEF CallsKept, NTInd, NTTypeOK
<1>2. NTTypeOK'
  BY <1>1 DEF NTInd, NTTypeOK, CallsKept, Kinds, Results
<1>3. OpenCallsArePending' /\ FreshIds'
  <2>1. \A c \in Calls : c >= nextId' <=> ~(c < nextId')
    BY <1>1, TransportAssumption DEF Calls
  <2>2. \A c \in Calls : c \in pending' <=> c < nextId' /\ result'[c] = None
    BY <2>1
  <2>3. pending' = {c \in Calls : c < nextId' /\ result'[c] = None}
    BY <2>2
  <2>4. pending' # {} => port' # NoPort
    OBVIOUS
  <2>5. FreshIds'
    BY <2>1, <2>2 DEF FreshIds
  <2> QED
    BY <2>3, <2>4, <2>5 DEF OpenCallsArePending
<1>4. AttemptsCounted' /\ PortsInOrder'
  BY DEF NTInd, AttemptsCounted, PortsInOrder, CallsKept
<1> QED
  BY <1>2, <1>3, <1>4 DEF NTInd

\* The facts of the invariant that the steps below use.
LEMMA Basics ==
  ASSUME NTInd
  PROVE  /\ nextId \in 1 .. MaxCalls + 1 /\ ports \in 0 .. MaxPorts /\ pending \subseteq Calls
         /\ kind \in [Calls -> Kinds] /\ result \in [Calls -> Results]
         /\ asked \in [Ports -> Seq(Calls)] /\ host \in [Ports -> Hosts]
         /\ silent \in BOOLEAN /\ waiting \in BOOLEAN /\ stopped \in BOOLEAN
         /\ attempts \in Nat /\ tried \in Nat /\ port \in Ports \cup {NoPort}
         /\ (port # NoPort) <=> (state \in {"connecting", "ready", "legacy"})
         /\ pending # {} => port # NoPort
         /\ \A c \in Calls : result[c] = None <=> c >= nextId \/ c \in pending
         /\ \A c \in pending : c < nextId
         /\ port # NoPort => tried = attempts + 1
         /\ MaxCalls \in Nat /\ MaxPorts \in Nat /\ None # Failed /\ None \notin Calls
         /\ \A p \in Ports : p > ports => asked[p] = <<>>
         /\ port # NoPort => port <= ports
<1>1. /\ nextId \in 1 .. MaxCalls + 1 /\ ports \in 0 .. MaxPorts /\ pending \subseteq Calls
      /\ kind \in [Calls -> Kinds] /\ result \in [Calls -> Results]
      /\ asked \in [Ports -> Seq(Calls)] /\ host \in [Ports -> Hosts]
      /\ silent \in BOOLEAN /\ waiting \in BOOLEAN /\ stopped \in BOOLEAN
      /\ attempts \in Nat /\ tried \in Nat /\ port \in Ports \cup {NoPort}
      /\ (port # NoPort) <=> (state \in {"connecting", "ready", "legacy"})
      /\ pending # {} => port # NoPort
  BY DEF NTInd, NTTypeOK, OpenCallsArePending, Kinds, Results
<1>2. MaxCalls \in Nat /\ MaxPorts \in Nat /\ None # Failed /\ None \notin Calls
  BY TransportAssumption DEF Calls
<1>3. /\ \A c \in Calls : result[c] = None <=> c >= nextId \/ c \in pending
      /\ \A c \in pending : c < nextId
  <2>1. pending = {c \in Calls : c < nextId /\ result[c] = None}
    BY DEF NTInd, OpenCallsArePending
  <2>2. \A c \in Calls : c < nextId \/ c >= nextId
    BY <1>1, <1>2 DEF Calls
  <2> QED
    BY <1>1, <1>2, <2>1, <2>2 DEF NTInd, FreshIds, Calls
<1>4. port # NoPort => tried = attempts + 1
  BY <1>1 DEF NTInd, AttemptsCounted
<1>5. /\ \A p \in Ports : p > ports => asked[p] = <<>>
      /\ port # NoPort => port <= ports
  BY DEF NTInd, PortsInOrder
<1> QED
  BY <1>1, <1>2, <1>3, <1>4, <1>5

\* A connection is opened, and its capability probe filed and posted.
LEMMA ConnectStep ==
  ASSUME NTInd, connectOnce
  PROVE  NTInd'
<1> USE Basics
<1>1. /\ state \in {"idle", "backoff"} /\ ~stopped /\ port = NoPort /\ pending = {}
      /\ tried = attempts /\ ports < MaxPorts
  BY DEF connectOnce, MayConnect, NTInd, AttemptsCounted
<1>2. nextId \in Calls /\ nextId \in Nat
  BY NextIdIsFree DEF connectOnce
<1>3. /\ ports' = ports + 1 /\ port' = ports + 1 /\ state' = "connecting" /\ silent' = FALSE
      /\ tried' = tried + 1 /\ nextId' = nextId + 1 /\ kind' = [kind EXCEPT ![nextId] = "probe"]
      /\ asked' = [asked EXCEPT ![ports + 1] = Append(@, nextId)]
      /\ pending' = {nextId} /\ UNCHANGED <<host, result, attempts, waiting, stopped>>
  BY <1>1 DEF connectOnce, callOnPort
<1>4. ports + 1 \in Ports /\ asked[ports + 1] = <<>> /\ ports + 1 # NoPort
  BY <1>1 DEF Ports, NoPort
<1>5. asked'[ports + 1] = <<nextId>>
  BY <1>2, <1>3, <1>4
<1>6. asked' \in [Ports -> Seq(Calls)] /\ \A p \in Ports : p > ports + 1 => asked'[p] = <<>>
  BY <1>2, <1>3, <1>4, <1>5 DEF Ports
<1>7. nextId' \in 1 .. MaxCalls + 1
  BY <1>2, <1>3 DEF Calls
<1>8. NTTypeOK'
  <2>1. kind' \in [Calls -> Kinds] /\ pending' \subseteq Calls
    BY <1>2, <1>3 DEF Kinds
  <2>2. ports' \in 0 .. MaxPorts /\ port' \in Ports \cup {NoPort} /\ port' # NoPort
    BY <1>1, <1>3, <1>4 DEF NoPort
  <2>3. /\ state' \in {"idle", "connecting", "ready", "legacy", "backoff"}
        /\ (port' # NoPort) <=> (state' \in {"connecting", "ready", "legacy"})
    BY <1>3, <2>2
  <2>4. /\ host' \in [Ports -> Hosts] /\ result' \in [Calls -> Results] /\ tried' \in Nat
        /\ attempts' \in Nat
    BY <1>3
  <2>5. silent' \in BOOLEAN /\ waiting' \in BOOLEAN /\ stopped' \in BOOLEAN
    BY <1>3
  <2> QED
    BY <1>6, <1>7, <2>1, <2>2, <2>3, <2>4, <2>5 DEF NTTypeOK, Kinds, Results
<1>9. OpenCallsArePending' /\ FreshIds'
  <2>1. \A c \in Calls : result[c] = None <=> c >= nextId
    BY <1>1
  <2>2. \A c \in Calls : c < nextId + 1 /\ result[c] = None <=> c = nextId
    BY <1>2, <2>1 DEF Calls
  <2>3. \A c \in Calls : c >= nextId + 1 => result[c] = None
    BY <1>2, <2>1 DEF Calls
  <2> QED
    BY <1>2, <1>3, <1>4, <2>2, <2>3 DEF OpenCallsArePending, FreshIds
<1>10. IdsSuffice'
  <2>1. Users' = {}
    BY <1>2, <1>3 DEF Users
  <2>2. Cardinality(Users') = 0
    BY <2>1, FS_EmptySet
  <2> QED
    BY <1>7, <2>2 DEF IdsSuffice
<1>11. AttemptsCounted'
  BY <1>1, <1>3 DEF AttemptsCounted
<1>12. PortsInOrder'
  BY <1>3, <1>6 DEF PortsInOrder
<1>13. LegacyAskedOnce'
  BY <1>2, <1>3, <1>4, <1>5 DEF LegacyAskedOnce
<1> QED
  BY <1>8, <1>9, <1>10, <1>11, <1>12, <1>13 DEF NTInd

\* A connection that could not be made counts once, whoever noticed.
LEMMA ConnectFailsStep ==
  ASSUME NTInd, connectOnceFails
  PROVE  NTInd'
<1> USE Basics
<1>1. /\ state \in {"idle", "backoff"} /\ ~stopped /\ port = NoPort /\ pending = {}
      /\ tried = attempts /\ ports < MaxPorts
  BY DEF connectOnceFails, MayConnect, NTInd, AttemptsCounted
<1>2. nextId \in Calls /\ nextId \in Nat
  BY NextIdIsFree DEF connectOnceFails
<1>3. /\ ports' = ports + 1 /\ port' = NoPort /\ state' = "backoff" /\ waiting' = TRUE
      /\ tried' = tried + 1 /\ attempts' = attempts + 1 /\ pending' = {}
      /\ asked' = asked /\ UNCHANGED <<host, stopped>>
  BY <1>1 DEF connectOnceFails, callOnPortFails, Schedules
<1>4. \/ UNCHANGED <<nextId, kind, result, silent>>
      \/ /\ nextId' = nextId + 1 /\ kind' = [kind EXCEPT ![nextId] = "probe"]
         /\ silent' = FALSE /\ result' = [result EXCEPT ![nextId] = Failed]
  BY DEF connectOnceFails, callOnPortFails
<1>5. CallsKept
  <2>1. nextId' \in nextId .. MaxCalls + 1
    BY <1>2, <1>4 DEF Calls
  <2>2. kind' \in [Calls -> Kinds] /\ result' \in [Calls -> Results] /\ silent' \in BOOLEAN
    BY <1>2, <1>4 DEF Kinds, Results
  <2>3. \A p \in Ports : p > ports' => asked'[p] = <<>>
    BY <1>3 DEF Ports
  <2> QED
    BY <1>3, <2>1, <2>2, <2>3 DEF CallsKept
<1>6. \A c \in Calls : result'[c] = None <=> c >= nextId'
  <2>1. \A c \in Calls : result[c] = None <=> c >= nextId
    BY <1>1
  <2>2. CASE UNCHANGED <<nextId, kind, result, silent>>
    BY <2>1, <2>2
  <2>3. CASE nextId' = nextId + 1 /\ result' = [result EXCEPT ![nextId] = Failed]
    BY <1>2, <2>1, <2>3 DEF Calls
  <2> QED
    BY <1>4, <2>2, <2>3
<1>7. ports' \in ports .. MaxPorts /\ attempts' \in Nat /\ tried' = attempts'
  BY <1>1, <1>3
<1> QED
  BY <1>3, <1>5, <1>6, <1>7, LossStep

\* A call is filed and posted on the port that is ready.
LEMMA CallStep ==
  ASSUME NTInd, call
  PROVE  NTInd'
<1> USE Basics
<1>1. nextId \in Calls /\ nextId \notin pending /\ nextId \in Nat
  BY NextIdIsFree DEF call
<1>2. /\ port # NoPort /\ port \in Ports /\ port <= ports
      /\ state = "ready" \/ EarlyCalls
  BY DEF call, MayCall
<1>3. /\ nextId' = nextId + 1 /\ kind' = [kind EXCEPT ![nextId] = "user"]
      /\ asked' = [asked EXCEPT ![port] = Append(@, nextId)]
      /\ pending' = pending \cup {nextId}
      /\ UNCHANGED <<host, stopped, port, ports, state, attempts, tried, result, silent, waiting>>
  BY DEF call, callOnPort, Unlost
<1>4. CallsKept
  <2>1. asked' \in [Ports -> Seq(Calls)] /\ kind' \in [Calls -> Kinds]
    BY <1>1, <1>2, <1>3 DEF Kinds
  <2>2. nextId' \in nextId .. MaxCalls + 1
    BY <1>1, <1>3 DEF Calls
  <2>3. \A p \in Ports : p > ports' => asked'[p] = <<>>
    BY <1>2, <1>3 DEF Ports
  <2> QED
    BY <1>3, <2>1, <2>2, <2>3 DEF CallsKept
<1>5. IdsSuffice'
  <2>1. Users' = Users \cup {nextId} /\ nextId \notin Users
    BY <1>1, <1>3 DEF Users
  <2>2. IsFiniteSet(Users) /\ Cardinality(Users) \in Nat
    BY Counts
  <2>3. Cardinality(Users') = Cardinality(Users) + 1
    BY <2>1, <2>2, FS_AddElement
  <2>4. nextId + 2 + Cardinality(Users) <= MaxCalls + 1
    BY DEF call, Room, Users
  <2> QED
    BY <1>1, <1>3, <2>2, <2>3, <2>4 DEF IdsSuffice
<1>6. LegacyAskedOnce'
  <2>1. ~EarlyCalls => host[port] = "modern"
    BY <1>2 DEF NTInd, LegacyAskedOnce
  <2> QED
    BY <1>3, <2>1 DEF LegacyAskedOnce
<1>7. /\ \A c \in Calls : result'[c] = None <=> c >= nextId' \/ c \in pending'
      /\ \A c \in pending' : c < nextId'
  BY <1>1, <1>3 DEF Calls
<1> QED
  BY <1>1, <1>2, <1>3, <1>4, <1>5, <1>6, <1>7, ServingStep

\* markBackoff on an open port, with the calls that are left rejected: the
\* shape of every reaction to a broken connection.
LEMMA BackoffStep ==
  ASSUME NTInd, port # NoPort, CallsKept, pending' = {},
         UNCHANGED <<host, stopped, ports, tried>>,
         port' = NoPort, state' = "backoff", attempts' = attempts + 1,
         \A c \in Calls : result'[c] = None <=> c >= nextId'
  PROVE  NTInd'
<1>1. ports' \in ports .. MaxPorts /\ attempts' \in Nat /\ tried' = attempts'
  BY Basics
<1> QED
  BY <1>1, LossStep

\* However many reactions call markBackoff, it schedules once.
LEMMA SchedulesOnce ==
  ASSUME NTInd, port # NoPort
  PROVE  /\ Schedules(state, 1 + Catches({"probe", "ping"})) = 1
         /\ Schedules("backoff", Catches({"probe", "ping"})) = 0
         /\ (state # "backoff" \/ waiting) \in BOOLEAN
<1>1. Catches({"probe", "ping"}) \in Nat
  BY Basics, Counts
<1>2. state # "backoff"
  BY Basics
<1> QED
  BY <1>1, <1>2, Basics DEF Schedules

\* A call that cannot be posted gives the port up.
LEMMA CallFailsStep ==
  ASSUME NTInd, callFails
  PROVE  NTInd'
<1> USE Basics
<1>1. nextId \in Calls /\ nextId \notin pending /\ nextId \in Nat
  BY NextIdIsFree DEF callFails
<1>2. port # NoPort
  BY DEF callFails, MayCall
<1>3. /\ nextId' = nextId + 1 /\ kind' = [kind EXCEPT ![nextId] = "user"] /\ asked' = asked
      /\ port' = NoPort /\ state' = "backoff" /\ attempts' = attempts + 1 /\ waiting' \in BOOLEAN
      /\ result' = Rejected([result EXCEPT ![nextId] = Failed], pending) /\ pending' = {}
      /\ UNCHANGED <<ports, host, silent, stopped, tried>>
  BY <1>2, SchedulesOnce DEF callFails, callOnPortFails, markBackoff
<1>4. /\ \A c \in Calls : result'[c] = IF c \in pending \cup {nextId} THEN Failed ELSE result[c]
      /\ result' \in [Calls -> Results]
  BY <1>1, <1>3 DEF Rejected, Results
<1>5. \A c \in Calls : result'[c] = None <=> c >= nextId'
  <2>1. \A c \in Calls : result'[c] = None <=> c >= nextId /\ c # nextId
    <3>1. \A c \in pending : ~(c >= nextId)
      BY <1>1 DEF Calls
    <3> QED
      BY <1>4, <3>1
  <2>2. \A c \in Calls : c >= nextId /\ c # nextId <=> c >= nextId + 1
    BY <1>1 DEF Calls
  <2> QED
    BY <1>3, <2>1, <2>2
<1>6. CallsKept
  <2>1. kind' \in [Calls -> Kinds] /\ nextId' \in nextId .. MaxCalls + 1
    BY <1>1, <1>3 DEF Kinds, Calls
  <2> QED
    BY <1>3, <1>4, <2>1 DEF CallsKept
<1> QED
  BY <1>2, <1>3, <1>5, <1>6, BackoffStep

\* The port is disconnected by the host, or declared unhealthy by a caller.
LEMMA DisconnectStep ==
  ASSUME NTInd, handleDisconnect \/ markUnhealthy
  PROVE  NTInd'
<1> USE Basics
<1>1. port # NoPort
  BY DEF handleDisconnect, markUnhealthy
<1>2. /\ port' = NoPort /\ state' = "backoff" /\ attempts' = attempts + 1 /\ waiting' \in BOOLEAN
      /\ result' = Rejected(result, pending) /\ pending' = {}
      /\ UNCHANGED <<ports, host, asked, nextId, kind, silent, stopped, tried>>
  <2>1. CASE handleDisconnect
    BY <1>1, <2>1, SchedulesOnce DEF handleDisconnect
  <2>2. CASE markUnhealthy
    BY <1>1, <2>2, SchedulesOnce DEF markUnhealthy, markBackoff
  <2> QED
    BY <2>1, <2>2
<1>3. /\ \A c \in Calls : result'[c] = IF c \in pending THEN Failed ELSE result[c]
      /\ result' \in [Calls -> Results]
  BY <1>2 DEF Rejected, Results
<1>4. \A c \in Calls : result'[c] = None <=> c >= nextId'
  BY <1>2, <1>3 DEF Calls
<1>5. CallsKept
  BY <1>2, <1>3 DEF CallsKept
<1> QED
  BY <1>1, <1>2, <1>4, <1>5, BackoffStep

\* Time passes: the host is silent, or the backoff elapses.
LEMMA ClockStep ==
  ASSUME NTInd, HostSilent \/ BackoffElapses
  PROVE  NTInd'
<1> USE Basics
<1>1. /\ UNCHANGED <<state, port, ports, host, asked, nextId, pending, kind, result,
                     attempts, stopped, tried>>
      /\ silent' \in BOOLEAN /\ waiting' \in BOOLEAN
  BY DEF HostSilent, BackoffElapses
<1>2. CallsKept
  BY <1>1 DEF CallsKept
<1>3. IdsSuffice' /\ LegacyAskedOnce'
  BY <1>1 DEF NTInd, IdsSuffice, Users, LegacyAskedOnce
<1> QED
  BY <1>1, <1>2, <1>3, ServingStep

\* The transport is shut down; a probe in flight sends it to backoff.
LEMMA ShutdownStep ==
  ASSUME NTInd, shutdown
  PROVE  NTInd'
<1> USE Basics
<1>1. /\ stopped' = TRUE /\ pending' = {} /\ result' = Rejected(result, pending)
      /\ state' = IF Catches({"probe"}) > 0 THEN "backoff" ELSE "idle"
      /\ attempts' = attempts + Schedules("idle", Catches({"probe"}))
      /\ waiting' = (waiting \/ Catches({"probe"}) > 0) /\ port' = NoPort
      /\ UNCHANGED <<ports, host, asked, nextId, kind, silent, tried>>
  BY DEF shutdown, Stop
<1>2. Catches({"probe"}) \in Nat
  BY Counts
<1>3. Catches({"probe"}) > 0 => port # NoPort
  BY ProbeIsOpen
<1>4. /\ state' = "backoff" => tried' = attempts'
      /\ attempts' \in Nat /\ waiting' \in BOOLEAN
  BY <1>1, <1>2, <1>3 DEF Schedules
<1>5. /\ \A c \in Calls : result'[c] = IF c \in pending THEN Failed ELSE result[c]
      /\ result' \in [Calls -> Results]
  BY <1>1 DEF Rejected, Results
<1>6. \A c \in Calls : result'[c] = None <=> c >= nextId
  BY <1>5 DEF Calls
<1>7. NTTypeOK'
  BY <1>1, <1>4, <1>5 DEF NTTypeOK, Kinds, Results
<1>8. OpenCallsArePending' /\ FreshIds'
  BY <1>1, <1>6 DEF OpenCallsArePending, FreshIds, Calls
<1>9. IdsSuffice'
  BY <1>1, NoUsers
<1>10. AttemptsCounted'
  BY <1>1, <1>4 DEF AttemptsCounted
<1>11. PortsInOrder' /\ LegacyAskedOnce'
  BY <1>1 DEF PortsInOrder, LegacyAskedOnce, NoPort
<1> QED
  BY <1>7, <1>8, <1>9, <1>10, <1>11 DEF NTInd

\* The host answers: nothing is waiting for it, a call resolves, or the probe
\* does and the connection serves or is given up.
LEMMA MessageStep ==
  ASSUME NTInd, NEW p \in Ports, handleMessage(p)
  PROVE  NTInd'
<1> USE Basics
<1> DEFINE a == Head(asked[p])
<1>0. /\ asked[p] # <<>> /\ asked[p] \in Seq(Calls) /\ a \in Calls
      /\ asked' = [asked EXCEPT ![p] = Tail(@)]
      /\ UNCHANGED <<ports, host, nextId, kind, stopped>>
  BY DEF handleMessage
<1>1. /\ asked' \in [Ports -> Seq(Calls)] /\ asked'[p] = Tail(asked[p])
      /\ \A q \in Ports : q > ports => asked'[q] = <<>>
      /\ \A q \in Ports : q # p => asked'[q] = asked[q]
  BY <1>0
<1>2. \A i \in 1 .. Len(asked'[p]) : i + 1 \in 1 .. Len(asked[p]) /\ asked'[p][i] = asked[p][i + 1]
  BY <1>0, <1>1
<1>3. ASSUME UNCHANGED <<port, state>>, pending' \subseteq pending PROVE LegacyAskedOnce'
  BY <1>0, <1>1, <1>2, <1>3 DEF NTInd, LegacyAskedOnce
<1>4. CASE UNCHANGED <<result, pending, tried>> /\ Unlost
  <2>1. UNCHANGED <<port, state, attempts, waiting, result, pending, tried>>
    BY <1>4 DEF Unlost
  <2>2. silent' \in BOOLEAN
    BY DEF handleMessage
  <2>3. CallsKept
    BY <1>0, <1>1, <2>1, <2>2 DEF CallsKept
  <2>4. IdsSuffice' /\ LegacyAskedOnce'
    BY <1>0, <1>3, <2>1, FewerUsers
  <2> QED
    BY <1>0, <2>1, <2>3, <2>4, ServingStep
<1>5. ASSUME p = port, silent' = FALSE, NEW c \in pending, Resolved(c, a) PROVE NTInd'
  <2> DEFINE res == [result EXCEPT ![c] = a]
  <2>0. port # NoPort /\ c \in Calls
    OBVIOUS
  <2>1. res \in [Calls -> Results] /\ a # None
    BY <1>0 DEF Results
  <2>2. CASE markBackoff(res, pending \ {c}) /\ UNCHANGED tried
    <3>1. /\ port' = NoPort /\ state' = "backoff" /\ attempts' = attempts + 1
          /\ waiting' \in BOOLEAN /\ pending' = {}
          /\ result' = [d \in Calls |-> IF d \in pending \ {c} THEN Failed ELSE res[d]]
      BY <2>0, <2>2, SchedulesOnce DEF markBackoff, Rejected
    <3>2. /\ result' \in [Calls -> Results]
          /\ \A d \in Calls : result'[d] = None <=> result[d] = None /\ d \notin pending
      <4> HIDE DEF a
      <4> QED
        BY <2>0, <2>1, <3>1 DEF Results
    <3>3. \A d \in Calls : result'[d] = None <=> d >= nextId'
      <4>1. \A d \in pending : ~(d >= nextId)
        BY DEF Calls
      <4> QED
        BY <1>0, <3>2, <4>1
    <3>4. CallsKept
      <4>1. silent' \in BOOLEAN
        BY <1>5
      <4>2. nextId' \in nextId .. MaxCalls + 1 /\ kind' \in [Calls -> Kinds] /\ ports' = ports
        BY <1>0
      <4> QED
        BY <1>1, <3>1, <3>2, <4>1, <4>2 DEF CallsKept
    <3> QED
      BY <1>0, <2>0, <2>2, <3>1, <3>3, <3>4, BackoffStep
  <2>3. CASE result' = res /\ pending' = pending \ {c}
    <3>1. /\ \A d \in Calls : result'[d] = None <=> d >= nextId' \/ d \in pending'
          /\ \A d \in pending' : d < nextId'
          /\ result' \in [Calls -> Results]
      <4>1. ~(c >= nextId)
        BY <2>0 DEF Calls
      <4> HIDE DEF a
      <4> QED
        BY <1>0, <2>0, <2>1, <2>3, <4>1
    <3>2. CASE Unlost /\ tried' = tried
      <4>1. CallsKept
        <5>1. silent' \in BOOLEAN /\ waiting' \in BOOLEAN
          BY <1>5, <3>2 DEF Unlost
        <5>2. nextId' \in nextId .. MaxCalls + 1 /\ kind' \in [Calls -> Kinds] /\ ports' = ports
          BY <1>0
        <5> QED
          BY <1>1, <3>1, <5>1, <5>2 DEF CallsKept
      <4>2. IdsSuffice' /\ LegacyAskedOnce'
        BY <1>0, <1>3, <2>3, <3>2, FewerUsers DEF Unlost
      <4> QED
        BY <1>0, <2>0, <2>3, <3>1, <3>2, <4>1, <4>2, ServingStep DEF Unlost
    <3>3. CASE /\ state' = IF host[port] = "modern" THEN "ready" ELSE "legacy"
               /\ attempts' = 0 /\ waiting' = FALSE /\ tried' = 1 /\ port' = port
      <4>1. NTTypeOK'
        BY <1>0, <1>1, <1>5, <2>0, <2>3, <3>1, <3>3 DEF NTTypeOK, Kinds, Results
      <4>2. OpenCallsArePending' /\ FreshIds'
        <5>1. \A d \in Calls : d >= nextId' <=> ~(d < nextId')
          BY <1>0 DEF Calls
        <5>2. \A d \in Calls : d \in pending' <=> d < nextId' /\ result'[d] = None
          BY <3>1, <5>1
        <5>3. pending' = {d \in Calls : d < nextId' /\ result'[d] = None}
          BY <2>3, <5>2
        <5> QED
          BY <2>0, <3>1, <3>3, <5>3 DEF OpenCallsArePending, FreshIds
      <4>3. IdsSuffice'
        BY <1>0, <2>3, FewerUsers
      <4>4. AttemptsCounted' /\ PortsInOrder'
        BY <1>0, <1>1, <2>0, <3>3 DEF AttemptsCounted, PortsInOrder
      <4>5. LegacyAskedOnce'
        BY <1>0, <1>1, <1>2, <1>5, <2>3, <3>3 DEF NTInd, LegacyAskedOnce
      <4> QED
        BY <4>1, <4>2, <4>3, <4>4, <4>5 DEF NTInd
    <3> QED
      BY <1>5, <2>2, <2>3, <3>2, <3>3 DEF Resolved
  <2> QED
    BY <1>5, <2>2, <2>3 DEF Resolved
<1>6. \A c \in Settles(p, a) : c \in pending
  BY DEF Settles
<1> QED
  BY <1>4, <1>5, <1>6 DEF handleMessage

\* The timer of a call: the call fails, a ping may follow; an internal call's
\* timer gives the port up.
LEMMA TimeoutStep ==
  ASSUME NTInd, NEW c \in Calls, Timeout(c)
  PROVE  NTInd'
<1> USE Basics
<1> DEFINE res == [result EXCEPT ![c] = Failed]
<1>0. /\ c \in pending /\ port # NoPort /\ UNCHANGED <<ports, host, silent, stopped, tried>>
      /\ res \in [Calls -> Results] /\ port \in Ports /\ port <= ports
  BY DEF Timeout, Results
<1>1. \A d \in pending : ~(d >= nextId)
  BY DEF Calls
<1>2. ASSUME kind[c] = "user", result' = res, pending' = pending \ {c}, Unlost,
             UNCHANGED <<nextId, kind, asked>>
      PROVE  NTInd'
  <2>1. CallsKept
    BY <1>0, <1>2 DEF CallsKept, Unlost
  <2>2. /\ \A d \in Calls : result'[d] = None <=> d >= nextId' \/ d \in pending'
        /\ \A d \in pending' : d < nextId'
    BY <1>0, <1>1, <1>2
  <2>3. IdsSuffice'
    BY <1>2, FewerUsers
  <2>4. LegacyAskedOnce'
    BY <1>0, <1>2 DEF NTInd, LegacyAskedOnce, Unlost
  <2> QED
    BY <1>0, <1>2, <2>1, <2>2, <2>3, <2>4, ServingStep DEF Unlost
<1>3. ASSUME kind[c] = "user", state = "ready", callOnPort(port, "ping"), result' = res,
             pending' = (pending \ {c}) \cup {nextId}, Unlost
      PROVE  NTInd'
  <2>1. nextId \in Calls /\ nextId \notin pending /\ nextId \in Nat /\ result[nextId] = None
    BY <1>0, <1>3, NextIdIsFree
  <2>2. /\ nextId' = nextId + 1 /\ kind' = [kind EXCEPT ![nextId] = "ping"]
        /\ asked' = [asked EXCEPT ![port] = Append(@, nextId)]
    BY <1>3 DEF callOnPort
  <2>3. CallsKept
    <3>1. asked' \in [Ports -> Seq(Calls)] /\ kind' \in [Calls -> Kinds]
      BY <1>0, <2>1, <2>2 DEF Kinds
    <3>2. nextId' \in nextId .. MaxCalls + 1
      BY <2>1, <2>2 DEF Calls
    <3>3. \A p \in Ports : p > ports' => asked'[p] = <<>>
      BY <1>0, <2>2 DEF Ports
    <3> QED
      BY <1>0, <1>3, <3>1, <3>2, <3>3 DEF CallsKept, Unlost
  <2>4. /\ \A d \in Calls : result'[d] = None <=> d >= nextId' \/ d \in pending'
        /\ \A d \in pending' : d < nextId'
    <3>1. \A d \in Calls : d >= nextId' <=> d >= nextId /\ d # nextId
      BY <2>1, <2>2 DEF Calls
    <3>2. \A d \in pending : d < nextId'
      BY <2>1, <2>2 DEF Calls
    <3>3. nextId < nextId'
      BY <2>1, <2>2
    <3>4. \A d \in Calls : result'[d] = IF d = c THEN Failed ELSE result[d]
      BY <1>3
    <3> QED
      BY <1>0, <1>1, <1>3, <2>1, <3>1, <3>2, <3>3, <3>4
  <2>5. IdsSuffice'
    <3>1. Users' = Users \ {c} /\ c \in Users
      BY <1>0, <1>3, <2>1, <2>2 DEF Users
    <3>2. IsFiniteSet(Users) /\ Cardinality(Users) \in Nat
      BY Counts
    <3>3. Cardinality(Users') = Cardinality(Users) - 1
      BY <3>1, <3>2, FS_RemoveElement
    <3> QED
      BY <2>1, <2>2, <3>2, <3>3 DEF NTInd, IdsSuffice
  <2>6. LegacyAskedOnce'
    BY <1>0, <1>3, <2>2 DEF NTInd, LegacyAskedOnce, Unlost
  <2> QED
    BY <1>0, <1>3, <2>1, <2>3, <2>4, <2>5, <2>6, ServingStep DEF Unlost
<1>4. ASSUME kind[c] = "user", callOnPortFails("ping"),
             markBackoff([res EXCEPT ![nextId] = Failed], pending \ {c})
      PROVE  NTInd'
  <2>1. nextId \in Calls /\ nextId \notin pending /\ nextId \in Nat
    BY <1>0, <1>4, NextIdIsFree
  <2>2. /\ nextId' = nextId + 1 /\ kind' = [kind EXCEPT ![nextId] = "ping"] /\ asked' = asked
        /\ port' = NoPort /\ state' = "backoff" /\ attempts' = attempts + 1
        /\ waiting' \in BOOLEAN /\ pending' = {}
        /\ result' = Rejected([res EXCEPT ![nextId] = Failed], pending \ {c})
    BY <1>0, <1>4, SchedulesOnce DEF callOnPortFails, markBackoff
  <2>3. /\ \A d \in Calls : result'[d] = IF d \in pending \cup {nextId} THEN Failed ELSE result[d]
        /\ result' \in [Calls -> Results]
    BY <1>0, <2>1, <2>2 DEF Rejected, Results
  <2>4. \A d \in Calls : result'[d] = None <=> d >= nextId'
    <3>1. \A d \in Calls : d >= nextId' <=> d >= nextId /\ d # nextId
      BY <2>1, <2>2 DEF Calls
    <3> QED
      BY <1>1, <2>3, <3>1
  <2>5. CallsKept
    <3>1. kind' \in [Calls -> Kinds] /\ nextId' \in nextId .. MaxCalls + 1
      BY <2>1, <2>2 DEF Kinds, Calls
    <3> QED
      BY <1>0, <2>2, <2>3, <3>1 DEF CallsKept
  <2> QED
    BY <1>0, <2>2, <2>4, <2>5, BackoffStep
<1>5. CASE TimeoutInternal(c)
  <2>1. /\ port' = NoPort /\ state' = "backoff" /\ attempts' = attempts + 1
        /\ waiting' \in BOOLEAN /\ pending' = {} /\ UNCHANGED <<nextId, kind, asked>>
        /\ result' = Rejected(res, pending \ {c})
    BY <1>0, <1>5, SchedulesOnce DEF TimeoutInternal, markBackoff
  <2>2. /\ \A d \in Calls : result'[d] = IF d \in pending THEN Failed ELSE result[d]
        /\ result' \in [Calls -> Results]
    BY <1>0, <2>1 DEF Rejected, Results
  <2>3. \A d \in Calls : result'[d] = None <=> d >= nextId'
    BY <1>1, <2>1, <2>2
  <2>4. CallsKept
    <3>1. nextId' \in nextId .. MaxCalls + 1 /\ kind' \in [Calls -> Kinds] /\ ports' = ports
      BY <1>0, <2>1
    <3>2. silent' \in BOOLEAN
      BY <1>0
    <3> QED
      BY <2>1, <2>2, <3>1, <3>2 DEF CallsKept
  <2> QED
    BY <1>0, <2>1, <2>3, <2>4, BackoffStep
<1> QED
  BY <1>2, <1>3, <1>4, <1>5 DEF Timeout, TimeoutUser

-----------------------------------------------------------------------------
(***************************************************************************)
(* The theorems.                                                           *)
(***************************************************************************)

\* Every step keeps the invariant.
LEMMA NTStep == NTInd /\ [NTNext]_ntVars => NTInd'
<1>1. ASSUME NTInd, NTNext PROVE NTInd'
  BY <1>1, ConnectStep, ConnectFailsStep, CallStep, CallFailsStep, MessageStep, DisconnectStep,
     TimeoutStep, ClockStep, ShutdownStep DEF NTNext
<1>2. ASSUME NTInd, UNCHANGED ntVars PROVE NTInd'
  BY <1>2 DEF ntVars, NTInd, NTTypeOK, OpenCallsArePending, IdsSuffice, Users,
       FreshIds, AttemptsCounted, PortsInOrder, LegacyAskedOnce
<1> QED
  BY <1>1, <1>2

\* The invariant holds at the start and in every state.
LEMMA NTInductive == NTSpec => []NTInd
<1>1. NTInit => NTInd
  <2> SUFFICES ASSUME NTInit PROVE NTInd
    OBVIOUS
  <2> USE TransportAssumption DEF NTInit
  <2>1. NTTypeOK
    <3>1. asked \in [Ports -> Seq(Calls)] /\ host \in [Ports -> Hosts] /\ pending \subseteq Calls
      OBVIOUS
    <3>2. kind \in [Calls -> Kinds] /\ result \in [Calls -> Results]
      BY DEF Kinds, Results
    <3>3. nextId \in 1 .. MaxCalls + 1 /\ ports \in 0 .. MaxPorts /\ attempts \in Nat
            /\ tried \in Nat
      OBVIOUS
    <3>4. silent \in BOOLEAN /\ waiting \in BOOLEAN /\ stopped \in BOOLEAN
      OBVIOUS
    <3>5. port \in Ports \cup {NoPort} /\ state = "idle" /\ port = NoPort
      OBVIOUS
    <3> QED
      BY <3>1, <3>2, <3>3, <3>4, <3>5 DEF NTTypeOK, Kinds, Results
  <2>2. OpenCallsArePending /\ FreshIds
    BY DEF OpenCallsArePending, FreshIds, Calls
  <2>3. IdsSuffice
    <3>1. Users = {}
      BY DEF Users
    <3> QED
      BY <3>1, FS_EmptySet DEF IdsSuffice
  <2>4. AttemptsCounted /\ PortsInOrder /\ LegacyAskedOnce
    BY DEF AttemptsCounted, PortsInOrder, LegacyAskedOnce, NoPort
  <2> QED
    BY <2>1, <2>2, <2>3, <2>4 DEF NTInd
<1> QED
  BY <1>1, NTStep, PTL DEF NTSpec

\* A promise that is left behind keeps every connection from being made.
LEMMA SpentStep == SpentIsClosed /\ [NTNext]_ntVars => SpentIsClosed'
<1> SUFFICES ASSUME SpentIsClosed, [NTNext]_ntVars PROVE SpentIsClosed'
  OBVIOUS
<1>1. CASE connectOnce
  BY <1>1 DEF connectOnce, MayConnect, SpentIsClosed
<1>2. CASE connectOnceFails
  <2>1. port' = NoPort /\ (spent' = TRUE \/ spent' = spent)
    BY <1>2 DEF connectOnceFails
  <2>2. spent' \in BOOLEAN
    BY <2>1, Zenon DEF SpentIsClosed
  <2> QED
    BY <2>1, <2>2 DEF SpentIsClosed
<1>3. ASSUME spent' = spent, port' = port \/ port' = NoPort PROVE SpentIsClosed'
  BY <1>3 DEF SpentIsClosed
<1>4. ASSUME NEW p \in Ports, handleMessage(p) PROVE SpentIsClosed'
  BY <1>3, <1>4 DEF handleMessage, Resolved, markBackoff, Unlost
<1>5. ASSUME NEW c \in Calls, Timeout(c) PROVE SpentIsClosed'
  BY <1>3, <1>5 DEF Timeout, TimeoutUser, TimeoutInternal, markBackoff, Unlost
<1>6. CASE call \/ callFails
  BY <1>3, <1>6 DEF call, callFails, markBackoff, Unlost
<1>7. CASE handleDisconnect \/ markUnhealthy \/ shutdown
  BY <1>3, <1>7 DEF handleDisconnect, markUnhealthy, markBackoff, shutdown, Stop
<1>8. CASE HostSilent \/ BackoffElapses \/ UNCHANGED ntVars
  BY <1>3, <1>8 DEF HostSilent, BackoffElapses, ntVars
<1> QED
  BY <1>1, <1>2, <1>4, <1>5, <1>6, <1>7, <1>8 DEF NTNext

\* For any number of calls and ports, any hosts and any callers: port, state and
\* calls agree, whichever of disconnect, timeout, failed post and shutdown ends
\* a connection.
THEOREM TransportIsConsistent == NTSpec => []TransportInv
<1>1. NTInit => SpentIsClosed
  BY DEF NTInit, SpentIsClosed
<1>2. NTInd /\ SpentIsClosed => TransportInv
  BY DEF NTInd, TransportInv
<1> QED
  BY <1>1, <1>2, NTInductive, SpentStep, PTL DEF NTSpec

\* A lost connection lengthens the backoff once, however many reactions see it.
THEOREM BackoffCountsConnections == NTSpec => []BackoffOncePerConnection
<1>1. NTInd => BackoffOncePerConnection
  BY DEF NTInd, AttemptsCounted, BackoffOncePerConnection
<1> QED
  BY <1>1, NTInductive, PTL

\* Ids are given out one by one.
LEMMA IdsGrow ==
  ASSUME NTInd, NTNext
  PROVE  nextId' = nextId \/ nextId' = nextId + 1
<1>1. CASE connectOnce \/ connectOnceFails
  BY <1>1 DEF connectOnce, connectOnceFails, callOnPort, callOnPortFails
<1>2. CASE call \/ callFails
  BY <1>2 DEF call, callFails, callOnPort, callOnPortFails
<1>3. ASSUME NEW c \in Calls, Timeout(c) PROVE nextId' = nextId \/ nextId' = nextId + 1
  BY <1>3 DEF Timeout, TimeoutUser, TimeoutInternal, callOnPort, callOnPortFails
<1>4. CASE UNCHANGED nextId
  BY <1>4
<1> QED
  BY <1>1, <1>2, <1>3, <1>4 DEF NTNext, handleMessage, handleDisconnect, HostSilent,
     BackoffElapses, markUnhealthy, shutdown, Stop

\* A step changes the result of open calls only, or of the call it makes, to a
\* failure or to that call's own answer.
LEMMA SettledRight ==
  ASSUME ~EarlyCalls, NTInd, NTNext, NEW d \in Calls, result'[d] # result[d]
  PROVE  d < nextId' /\ result[d] = None /\ result'[d] \in {d, Failed}
<1> USE Basics
<1> DEFINE Right == /\ \/ d \in pending
                       \/ d = nextId /\ nextId' = nextId + 1 /\ result[nextId] = None
                    /\ result'[d] \in {d, Failed}
<1>1. ASSUME connectOnceFails PROVE Right
  BY <1>1, NextIdIsFree DEF connectOnceFails, callOnPortFails
<1>2. ASSUME callFails PROVE Right
  <2>1. nextId \in Calls /\ result[nextId] = None /\ nextId' = nextId + 1
    BY <1>2, NextIdIsFree DEF callFails, callOnPortFails
  <2>2. result' = Rejected([result EXCEPT ![nextId] = Failed], pending)
    BY <1>2 DEF callFails, markBackoff
  <2> QED
    BY <2>1, <2>2 DEF Rejected
<1>3. ASSUME NEW p \in Ports, handleMessage(p) PROVE Right
  <2> DEFINE a == Head(asked[p])
  <2>1. PICK c \in Settles(p, a) : p = port /\ Resolved(c, a)
    BY <1>3 DEF handleMessage
  <2>2. c \in pending /\ c = a
    <3>1. CASE host[p] = "modern"
      BY <2>1, <3>1 DEF Settles
    <3>2. CASE host[p] = "legacy"
      <4>1. c \in pending
        BY <2>1, <3>2 DEF Settles
      <4>2. asked[p] \in Seq(Calls) /\ asked[p] # <<>>
        BY <1>3 DEF handleMessage
      <4>3. 1 \in 1 .. Len(asked[p]) /\ a = asked[p][1]
        BY <4>2
      <4>4. pending \subseteq {asked[port][1]}
        BY <2>1, <3>2, <4>1, <4>3 DEF NTInd, LegacyAskedOnce
      <4> QED
        BY <2>1, <4>1, <4>3, <4>4
    <3> QED
      BY <3>1, <3>2, TransportAssumption
  <2>3. \/ result' = [result EXCEPT ![c] = a]
        \/ result' = Rejected([result EXCEPT ![c] = a], pending \ {c})
    BY <2>1 DEF Resolved, markBackoff
  <2> HIDE DEF a
  <2> QED
    BY <2>2, <2>3 DEF Rejected
<1>4. ASSUME handleDisconnect \/ markUnhealthy \/ shutdown PROVE Right
  BY <1>4 DEF handleDisconnect, markUnhealthy, shutdown, Stop, markBackoff, Rejected
<1>5. ASSUME NEW c \in Calls, Timeout(c) PROVE Right
  <2>1. c \in pending
    BY <1>5 DEF Timeout
  <2>2. CASE /\ kind[c] = "user" /\ callOnPortFails("ping")
             /\ markBackoff([[result EXCEPT ![c] = Failed] EXCEPT ![nextId] = Failed],
                            pending \ {c})
    BY <2>1, <2>2, NextIdIsFree DEF callOnPortFails, markBackoff, Rejected
  <2>3. CASE result' = [result EXCEPT ![c] = Failed]
    BY <2>1, <2>3
  <2>4. CASE TimeoutInternal(c)
    BY <2>1, <2>4 DEF TimeoutInternal, markBackoff, Rejected
  <2> QED
    BY <1>5, <2>2, <2>3, <2>4 DEF Timeout, TimeoutUser
<1>6. ASSUME UNCHANGED result PROVE Right
  BY <1>6
<1>7. Right
  BY <1>1, <1>2, <1>3, <1>4, <1>5, <1>6
     DEF NTNext, connectOnce, call, HostSilent, BackoffElapses
<1>8. nextId' = nextId \/ nextId' = nextId + 1
  BY IdsGrow
<1> QED
  BY <1>7, <1>8 DEF Calls

\* When callers wait for isReady(), as the extension's do, the transport
\* implements the promise of RequestReply: a call is settled at most once, and
\* an answer is the answer to that very call, with hosts that echo ids and with
\* hosts that do not.
THEOREM TransportImplementsPromise ==
  ASSUME ~EarlyCalls
  PROVE  NTSpec => ImplementsRequestReply
<1> DEFINE Issued == {c \in Calls : c < nextId}
<1>1. NTInit => Promise!RequestReplyInit
  <2> SUFFICES ASSUME NTInit PROVE Promise!RequestReplyInit
    OBVIOUS
  <2>1. Issued = {}
    BY TransportAssumption DEF NTInit, Calls
  <2> QED
    BY <2>1 DEF NTInit, Promise!RequestReplyInit
<1>2. NTInd /\ [NTNext]_ntVars => [Promise!Exchange]_Promise!promiseVars
  <2> SUFFICES ASSUME NTInd, [NTNext]_ntVars PROVE [Promise!Exchange]_Promise!promiseVars
    OBVIOUS
  <2> USE Basics
  <2>1. CASE UNCHANGED ntVars
    BY <2>1 DEF ntVars, Promise!promiseVars
  <2>2. CASE NTNext
    <3>1. /\ result' \in [Calls -> Results] /\ nextId' \in 1 .. MaxCalls + 1
      BY NTStep DEF NTInd, NTTypeOK, Results
    <3>2. nextId <= nextId'
      BY <2>2, IdsGrow
    <3>3. ASSUME NEW d \in Calls, result'[d] # result[d]
          PROVE  d < nextId' /\ result[d] = None /\ result'[d] \in {d, Failed}
      BY <2>2, <3>3, SettledRight
    <3>4. Issued' \in SUBSET Calls /\ Issued \subseteq Issued'
      BY <3>1, <3>2 DEF Calls
    <3>5. Promise!Exchange
      BY <3>1, <3>3, <3>4 DEF Promise!Exchange, Results
    <3> QED
      BY <3>5
  <2> QED
    BY <2>1, <2>2
<1> QED
  BY <1>1, <1>2, NTInductive, PTL DEF NTSpec, ImplementsRequestReply, Promise!RequestReply


-----------------------------------------------------------------------------
(***************************************************************************)
(* Runtime dependencies.  That a request is released only for a dependency *)
(* that is open rests on the cache: an entry, fresh or stale, is of a      *)
(* dependency the host has said to be ready once.                          *)
(***************************************************************************)
CacheWasProven == \A k \in CacheKeys : cache[k] # "none" => k[2] \in applied

ReadyTypes ==
  /\ hold \in [Requests -> {"new", "held", "ready", "terminal", "error", "soft", "cancelled"}]
  /\ wants \in [Requests -> Inputs]
  /\ cache \in [CacheKeys -> {"none", "fresh", "stale"}]

ReadyInd == ReadyTypes /\ CacheWasProven /\ ReadyWasProven

\* The key of an input names its dependency.
LEMMA KeyNamesHost ==
  /\ \A i : CacheKey(i)[2] = i.dependencyHost
  /\ \A r \in Requests : ReadyTypes => CacheKey(wants[r]) \in CacheKeys
BY DEF CacheKey, CacheKeys, ReadyTypes

\* What an answer says of an input, and only if it is open.
LEMMA AnswersAreTrue ==
  ASSUME NEW I, NEW res \in Answers(I)
  PROVE  /\ DOMAIN res = I
         /\ \A i \in I : res[i] \in Readiness
         /\ \A i \in I : res[i] = "ready" => i.dependencyHost \in applied
BY DEF Answers, MaySay

\* Steps that touch neither holds nor cache and close no dependency.
LEMMA NothingReleased ==
  ASSUME ReadyInd, UNCHANGED <<wants, hold, cache>>, applied \subseteq applied'
  PROVE  ReadyInd'
<1>1. ReadyTypes'
  BY DEF ReadyInd, ReadyTypes
<1>2. CacheWasProven' /\ ReadyWasProven'
  BY DEF ReadyInd, CacheWasProven, ReadyWasProven
<1> QED
  BY <1>1, <1>2 DEF ReadyInd

\* Promises settled with answers of the host, with or without caching them.
LEMMA SettleStep ==
  ASSUME ReadyInd, UNCHANGED <<wants, applied>>,
         NEW out, Woken(out),
         \A i \in DOMAIN out :
           /\ out[i] \in Readiness \cup {"error"}
           /\ out[i] = "ready" => i.dependencyHost \in applied,
         cache' \in [CacheKeys -> {"none", "fresh", "stale"}],
         CacheWasProven'
  PROVE  ReadyInd'
<1>1. \A r \in Requests :
        \/ hold'[r] = hold[r]
        \/ wants[r] \in DOMAIN out /\ out[wants[r]] # "pending" /\ hold'[r] = out[wants[r]]
  BY DEF Woken, Waiting
<1>2. hold' = [r \in Requests |-> hold'[r]]
  BY DEF Woken
<1>3. \A r \in Requests :
        hold'[r] \in {"new", "held", "ready", "terminal", "error", "soft", "cancelled"}
  BY <1>1 DEF ReadyInd, ReadyTypes, Readiness
<1>4. ReadyTypes'
  BY <1>2, <1>3 DEF ReadyInd, ReadyTypes
<1>5. ReadyWasProven'
  BY <1>1 DEF ReadyInd, ReadyWasProven
<1> QED
  BY <1>4, <1>5 DEF ReadyInd

\* cacheReadyRuntimeDependency caches what the host has said to be ready.
LEMMA CacheStep ==
  ASSUME ReadyInd, UNCHANGED applied, NEW res, CacheReady(res),
         \A i \in DOMAIN res : res[i] = "ready" => i.dependencyHost \in applied
  PROVE  /\ cache' \in [CacheKeys -> {"none", "fresh", "stale"}]
         /\ CacheWasProven'
<1>1. cache' \in [CacheKeys -> {"none", "fresh", "stale"}]
  BY DEF CacheReady, ReadyInd, ReadyTypes
<1>2. ASSUME NEW k \in CacheKeys, cache'[k] # "none"
      PROVE  k[2] \in applied'
  <2>1. CASE \E i \in DOMAIN res : CacheKey(i) = k /\ res[i] = "ready"
    BY <2>1, KeyNamesHost
  <2>2. CASE ~\E i \in DOMAIN res : CacheKey(i) = k /\ res[i] = "ready"
    <3>1. cache'[k] = cache[k]
      BY <2>2 DEF CacheReady
    <3> QED
      BY <1>2, <3>1 DEF ReadyInd, CacheWasProven
  <2> QED
    BY <2>1, <2>2
<1> QED
  BY <1>1, <1>2 DEF CacheWasProven

\* A request enters: from a fresh entry it is released at once.
LEMMA AllowStep ==
  ASSUME ReadyInd, NEW r \in Requests, allowLocalRuntimeDependency(r)
  PROVE  ReadyInd'
<1>1. PICK k \in CacheKeys : k = CacheKey(wants[r])
  BY KeyNamesHost DEF ReadyInd
<1>2. /\ UNCHANGED <<wants, cache, applied>>
      /\ \/ cache[k] = "fresh" /\ hold' = [hold EXCEPT ![r] = "ready"]
         \/ hold' = [hold EXCEPT ![r] = "held"]
  BY <1>1 DEF allowLocalRuntimeDependency, hostVars
<1>3. wants[r] \in Inputs /\ k[2] = wants[r].dependencyHost
  BY <1>1, KeyNamesHost DEF ReadyInd, ReadyTypes
<1>4. ReadyTypes'
  BY <1>2 DEF ReadyInd, ReadyTypes
<1>5. CacheWasProven'
  BY <1>2 DEF ReadyInd, CacheWasProven
<1>6. ReadyWasProven'
  BY <1>2, <1>3 DEF ReadyInd, ReadyTypes, ReadyWasProven, CacheWasProven
<1> QED
  BY <1>4, <1>5, <1>6 DEF ReadyInd

\* A stale entry is confirmed, or dropped.
LEMMA ConfirmStep ==
  ASSUME ReadyInd, NEW k \in CacheKeys, confirmCachedRuntimeDependency(k)
  PROVE  ReadyInd'
<1>0. UNCHANGED <<wants, applied>>
  BY DEF confirmCachedRuntimeDependency, hostVars
<1>1. PICK R : R = Waiting("confirmation", {i \in Inputs : CacheKey(i) = k})
  OBVIOUS
<1>2. \/ /\ k[2] \in applied
         /\ cache' = [cache EXCEPT ![k] = "fresh"]
         /\ hold' = [r \in Requests |->
                       IF r \in R /\ hold[r] = "held" THEN "ready" ELSE hold[r]]
      \/ /\ cache' = [cache EXCEPT ![k] = "none"]
         /\ UNCHANGED hold
  BY <1>1 DEF confirmCachedRuntimeDependency
<1>3. \A r \in R : wants[r].dependencyHost = k[2]
  BY <1>1, KeyNamesHost DEF Waiting
<1>4. ReadyTypes'
  BY <1>0, <1>2 DEF ReadyInd, ReadyTypes
<1>5. CacheWasProven'
  BY <1>0, <1>2 DEF ReadyInd, ReadyTypes, CacheWasProven
<1>6. ReadyWasProven'
  BY <1>0, <1>2, <1>3 DEF ReadyInd, ReadyTypes, ReadyWasProven
<1> QED
  BY <1>4, <1>5, <1>6 DEF ReadyInd

\* A batch goes from await to await; only answers of the host settle as ready.
LEMMA FlushStep ==
  ASSUME ReadyInd, NEW f \in flights, flushRuntimeDependencyBatch(f)
  PROVE  ReadyInd'
<1>1. CASE Decide(f) \/ EnqueueFailed(f)
  BY <1>1, NothingReleased DEF Decide, EnqueueFailed, hostVars
<1>2. CASE EnqueueAnswered(f)
  <2>1. PICK res \in Answers(f.ins) :
          /\ CacheAnswers(res)
          /\ Settle([i \in {j \in f.ins : res[j] # "pending"} |-> res[i]])
    BY <1>2 DEF EnqueueAnswered
  <2>2. UNCHANGED <<wants, applied>>
    BY <1>2 DEF EnqueueAnswered
  <2>3. PICK out : out = [i \in {j \in f.ins : res[j] # "pending"} |-> res[i]]
    OBVIOUS
  <2>4. Woken(out)
    BY <2>1, <2>3 DEF Settle
  <2>5. /\ cache' \in [CacheKeys -> {"none", "fresh", "stale"}]
        /\ CacheWasProven'
    BY <2>1, <2>2, AnswersAreTrue, CacheStep DEF CacheAnswers
  <2>6. \A i \in DOMAIN out :
          /\ out[i] \in Readiness \cup {"error"}
          /\ out[i] = "ready" => i.dependencyHost \in applied
    BY <2>3, AnswersAreTrue
  <2> QED
    BY <2>2, <2>4, <2>5, <2>6, SettleStep
<1>3. CASE OneShot(f)
  <2>0. UNCHANGED <<wants, applied>>
    BY <1>3 DEF OneShot
  <2>1. CASE UNCHANGED <<hold, cache>>
    BY <2>0, <2>1, NothingReleased
  <2>2. ASSUME NEW I, OneShotAnswered(f, I)
        PROVE  ReadyInd'
    <3>1. PICK res \in Answers(I) : CacheAnswers(res) /\ Settle(res)
      BY <2>2 DEF OneShotAnswered
    <3>2. /\ cache' \in [CacheKeys -> {"none", "fresh", "stale"}]
          /\ CacheWasProven'
      BY <2>0, <3>1, AnswersAreTrue, CacheStep DEF CacheAnswers
    <3>3. \A i \in DOMAIN res :
            /\ res[i] \in Readiness \cup {"error"}
            /\ res[i] = "ready" => i.dependencyHost \in applied
      BY AnswersAreTrue
    <3> QED
      BY <2>0, <3>1, <3>2, <3>3, SettleStep DEF Settle
  <2>3. ASSUME NEW I, OneShotFailed(f, I)
        PROVE  ReadyInd'
    <3>1. PICK out : out = [i \in I |-> "error"]
      OBVIOUS
    <3>2. Woken(out) /\ UNCHANGED cache
      BY <2>3, <3>1 DEF OneShotFailed, Settle
    <3>3. \A i \in DOMAIN out : out[i] = "error"
      BY <3>1
    <3>4. /\ cache' \in [CacheKeys -> {"none", "fresh", "stale"}]
          /\ CacheWasProven'
      BY <2>0, <3>2 DEF ReadyInd, ReadyTypes, CacheWasProven
    <3> QED
      BY <2>0, <3>2, <3>3, <3>4, SettleStep
  <2> QED
    BY <1>3, <2>1, <2>2, <2>3 DEF OneShot
<1> QED
  BY <1>1, <1>2, <1>3 DEF flushRuntimeDependencyBatch

\* The prober's check: what is settled as ready was answered as ready.
LEMMA PollStep ==
  ASSUME ReadyInd, PollAnswered
  PROVE  ReadyInd'
<1>0. UNCHANGED <<wants, applied>>
  BY DEF PollAnswered, hostVars
<1>1. PICK I : I = Elems(poll.ins)
  OBVIOUS
<1>2. PICK res \in Answers(I) :
        /\ Settle(Settled(res))
        /\ CacheReady([i \in {j \in DOMAIN Settled(res) : Settled(res)[j] = "ready"} |->
                         "ready"])
  BY <1>1 DEF PollAnswered
<1>3. PICK out : out = Settled(res)
  OBVIOUS
<1>4. PICK ready : ready = [i \in {j \in DOMAIN out : out[j] = "ready"} |-> "ready"]
  OBVIOUS
<1>5. Woken(out) /\ CacheReady(ready)
  BY <1>2, <1>3, <1>4 DEF Settle
<1>6. \A i \in DOMAIN out :
        \/ i \in I /\ out[i] = res[i]
        \/ out[i] = "terminal"
  BY <1>3, AnswersAreTrue DEF Settled
<1>7. \A i \in DOMAIN out :
        /\ out[i] \in Readiness \cup {"error"}
        /\ out[i] = "ready" => i.dependencyHost \in applied
  BY <1>6, AnswersAreTrue DEF Readiness
<1>8. \A i \in DOMAIN ready : ready[i] = "ready" => i.dependencyHost \in applied
  BY <1>4, <1>7
<1>9. /\ cache' \in [CacheKeys -> {"none", "fresh", "stale"}]
      /\ CacheWasProven'
  BY <1>0, <1>5, <1>8, CacheStep
<1> QED
  BY <1>0, <1>5, <1>7, <1>9, SettleStep

\* Every step keeps the invariant.
LEMMA ReadyStep == ReadyInd /\ [RDNext]_rdVars => ReadyInd'
<1> SUFFICES ASSUME ReadyInd, [RDNext]_rdVars PROVE ReadyInd'
  OBVIOUS
<1>1. ASSUME NEW r \in Requests, Budget(r)
      PROVE  ReadyInd'
  <2>1. /\ UNCHANGED <<wants, cache, applied>>
        /\ hold' = [hold EXCEPT ![r] = IF link = "ready" THEN "cancelled" ELSE "soft"]
    BY <1>1 DEF Budget, clientVars, hostVars
  <2>2. ReadyTypes'
    BY <2>1 DEF ReadyInd, ReadyTypes
  <2>3. CacheWasProven' /\ ReadyWasProven'
    BY <2>1 DEF ReadyInd, ReadyTypes, CacheWasProven, ReadyWasProven
  <2> QED
    BY <2>2, <2>3 DEF ReadyInd
<1>2. ASSUME NEW k \in CacheKeys, CacheAges(k)
      PROVE  ReadyInd'
  <2>1. /\ UNCHANGED <<wants, hold, applied>>
        /\ cache[k] # "none"
        /\ cache' = [cache EXCEPT ![k] = IF cache[k] = "fresh" THEN "stale" ELSE "none"]
    BY <1>2 DEF CacheAges, hostVars
  <2>2. ReadyTypes'
    BY <2>1 DEF ReadyInd, ReadyTypes
  <2>3. CacheWasProven' /\ ReadyWasProven'
    BY <2>1 DEF ReadyInd, ReadyTypes, CacheWasProven, ReadyWasProven
  <2> QED
    BY <2>2, <2>3 DEF ReadyInd
<1>3. CASE FlushTimer \/ PollTimer \/ PollThrows \/ LinkChanges
  BY <1>3, NothingReleased DEF FlushTimer, PollTimer, PollThrows, LinkChanges, clientVars,
                               hostVars
<1>4. ASSUME NEW i \in Inputs, Age(i) \/ DedupeEnds(i)
      PROVE  ReadyInd'
  BY <1>4, NothingReleased DEF Age, DedupeEnds, clientVars, hostVars
<1>5. ASSUME NEW d \in DependencyHosts, HostApplies(d)
      PROVE  ReadyInd'
  <2>1. UNCHANGED <<wants, hold, cache>> /\ applied \subseteq applied'
    BY <1>5 DEF HostApplies, clientVars
  <2> QED
    BY <2>1, NothingReleased
<1>6. CASE UNCHANGED rdVars
  BY <1>6, NothingReleased DEF rdVars, clientVars, hostVars
<1> QED
  BY <1>1, <1>2, <1>3, <1>4, <1>5, <1>6, AllowStep, ConfirmStep, FlushStep, PollStep
  DEF RDNext

\* The empty caches satisfy the invariant of readiness.
LEMMA ReadyInitially == RDInit => ReadyInd
<1> SUFFICES ASSUME RDInit PROVE ReadyInd
  OBVIOUS
<1>1. ReadyTypes
  BY DependencyAssumption DEF RDInit, ReadyTypes
<1>2. CacheWasProven
  BY DEF RDInit, CacheWasProven
<1>3. ReadyWasProven
  BY DEF RDInit, ReadyWasProven
<1> QED
  BY <1>1, <1>2, <1>3 DEF ReadyInd

(***************************************************************************)
(* However the cache ages, confirmations, batches, one-shot hosts and the  *)
(* prober's checks overlap, for any inputs and requests: the listener lets *)
(* a held request through as ready only if the native host has opened its  *)
(* dependency (allowLocalRuntimeDependency of native-messaging-client.ts). *)
(***************************************************************************)
THEOREM ReleasedRequestsAreOpen == RDSpec => []ReadyWasProven
<1>1. ReadyInd => ReadyWasProven
  BY DEF ReadyInd
<1> QED
  BY <1>1, ReadyInitially, ReadyStep, PTL DEF RDSpec

-----------------------------------------------------------------------------
(***************************************************************************)
(* Nothing is lost.  An open promise is carried by exactly one of queue,   *)
(* flight and prober.  The prober's check is why more is needed: it        *)
(* settles, after an await, what it had read before, so the entries it     *)
(* read must still be the prober's (PollInside).                           *)
(***************************************************************************)
Flying == UNION {f.ins : f \in flights}

FlightsApart == \A f, g \in flights : f # g => f.ins \cap g.ins = {}

PollInside ==
  /\ Elems(poll.ins) \subseteq Elems(entries)
  /\ poll.over \in {"none", "port", "hosts", "itself"}

ClientTypes ==
  /\ awaits \in [Requests -> {"nothing", "request", "confirmation"}]
  /\ dedupe \subseteq Inputs /\ open \subseteq Inputs /\ queue \subseteq Inputs
  /\ timer \in BOOLEAN /\ flights \subseteq Flights /\ confirming \subseteq CacheKeys

ProberTypes ==
  /\ entries \in Seq(Inputs) /\ aged \subseteq Elems(entries)
  /\ announced \subseteq Inputs /\ threw \in BOOLEAN
  /\ link \in {"down", "connecting", "ready", "old"}
  /\ accepted \subseteq DependencyHosts /\ applied \subseteq DependencyHosts

CarriedOnce ==
  /\ open = queue \cup Flying \cup Elems(entries)
  /\ queue \cap Flying = {}
  /\ Elems(entries) \cap (queue \cup Flying) = {}
  /\ FlightsApart

PromisesOpen == \A r \in Requests : awaits[r] = "request" => wants[r] \in open

Carrying == ClientTypes /\ ProberTypes /\ PollInside /\ CarriedOnce /\ PromisesOpen

CarryInd == ReadyInd /\ Carrying

\* The prober's entries, as sequences.
LEMMA ElemsOf ==
  ASSUME NEW s \in Seq(Inputs)
  PROVE  /\ Elems(s) \subseteq Inputs
         /\ \A n \in Nat : n <= Len(s) => Elems(SubSeq(s, 1, n)) \subseteq Elems(s)
         /\ \A t \in Seq(Inputs) : s \o t \in Seq(Inputs) /\ Elems(s \o t) = Elems(s) \cup Elems(t)
<1>1. Elems(s) \subseteq Inputs
  BY DEF Elems
<1>2. ASSUME NEW n \in Nat, n <= Len(s)
      PROVE  Elems(SubSeq(s, 1, n)) \subseteq Elems(s)
  BY <1>2 DEF Elems
<1>3. ASSUME NEW t \in Seq(Inputs)
      PROVE  s \o t \in Seq(Inputs) /\ Elems(s \o t) = Elems(s) \cup Elems(t)
  <2>1. s \o t \in Seq(Inputs) /\ Len(s \o t) = Len(s) + Len(t)
    OBVIOUS
  <2>2. \A n \in 1 .. Len(s) + Len(t) :
          (s \o t)[n] = IF n <= Len(s) THEN s[n] ELSE t[n - Len(s)]
    OBVIOUS
  <2>3. Elems(s \o t) \subseteq Elems(s) \cup Elems(t)
    BY <2>1, <2>2 DEF Elems
  <2>4. Elems(s) \subseteq Elems(s \o t)
    BY <2>1, <2>2 DEF Elems
  <2>5. Elems(t) \subseteq Elems(s \o t)
    <3> SUFFICES ASSUME NEW n \in 1 .. Len(t) PROVE t[n] \in Elems(s \o t)
      BY DEF Elems
    <3>1. Len(s) + n \in 1 .. Len(s) + Len(t) /\ (s \o t)[Len(s) + n] = t[n]
      BY <2>2
    <3> QED
      BY <2>1, <3>1 DEF Elems
  <2> QED
    BY <2>1, <2>3, <2>4, <2>5
<1> QED
  BY <1>1, <1>2, <1>3

\* An order of a set of inputs is a sequence of exactly these inputs.
LEMMA OrdersAreSequences ==
  ASSUME NEW I \in SUBSET Inputs, NEW s \in Orders(I)
  PROVE  s \in Seq(Inputs) /\ Elems(s) = I
<1>1. IsFiniteSet(I)
  BY DependencyAssumption, FS_Subset
<1>2. Cardinality(I) \in Nat
  BY <1>1, FS_CardinalityType
<1>3. s \in [1 .. Cardinality(I) -> I] /\ Elems(s) = I
  BY DEF Orders
<1> QED
  BY <1>2, <1>3

\* registerBatchWithProber adds inputs at the end, the prober's settleEntry
\* deletes them.
LEMMA Registers ==
  ASSUME entries \in Seq(Inputs), NEW I \in SUBSET Inputs, Register(I)
  PROVE  entries' \in Seq(Inputs) /\ Elems(entries') = Elems(entries) \cup I
<1>1. PICK s \in Orders(I \ Elems(entries)) : entries' = entries \o s
  BY DEF Register
<1>2. PICK J \in SUBSET Inputs : J = I \ Elems(entries)
  OBVIOUS
<1>3. s \in Seq(Inputs) /\ Elems(s) = J
  BY <1>1, <1>2, OrdersAreSequences
<1> QED
  BY <1>1, <1>2, <1>3, ElemsOf

\* Deleting entries from the prober leaves exactly the others.
LEMMA Unregisters ==
  ASSUME entries \in Seq(Inputs), NEW I, Unregister(I)
  PROVE  entries' \in Seq(Inputs) /\ Elems(entries') = Elems(entries) \ I
<1>1. PICK s \in Orders(Elems(entries) \ I) : entries' = s
  BY DEF Unregister
<1>2. PICK J \in SUBSET Inputs : J = Elems(entries) \ I
  BY ElemsOf
<1> QED
  BY <1>1, <1>2, OrdersAreSequences

\* What happens to the batches in flight.
LEMMA FlightMoved ==
  ASSUME flights \subseteq Flights, FlightsApart, NEW f \in flights,
         NEW at \in {"deciding", "enqueueing", "oneshot", "single"}, Moved(f, at)
  PROVE  flights' \subseteq Flights /\ FlightsApart' /\ Flying' = Flying
<1>1. PICK g : g = [f EXCEPT !.at = at]
  OBVIOUS
<1>2. f \in Flights /\ f = [ins |-> f.ins, at |-> f.at]
  BY DEF Flights
<1>3. g \in Flights /\ g.ins = f.ins
  BY <1>1, <1>2 DEF Flights
<1>4. flights' = (flights \ {f}) \cup {g}
  BY <1>1 DEF Moved
<1>5. FlightsApart'
  BY <1>3, <1>4 DEF FlightsApart
<1>6. Flying' = Flying
  BY <1>3, <1>4 DEF Flying
<1> QED
  BY <1>3, <1>4, <1>5, <1>6

\* A batch that hands some of its inputs over keeps the others to itself.
LEMMA FlightShrunk ==
  ASSUME flights \subseteq Flights, FlightsApart, NEW f \in flights, NEW I \in SUBSET f.ins,
         flights' = (flights \ {f}) \cup
                      (IF I = f.ins THEN {} ELSE {[f EXCEPT !.ins = f.ins \ I]})
  PROVE  flights' \subseteq Flights /\ FlightsApart' /\ Flying' = Flying \ I
<1>1. f \in Flights /\ f.ins \in SUBSET Inputs /\ f = [ins |-> f.ins, at |-> f.at]
  BY DEF Flights
<1>2. \A g \in flights : g # f => g.ins \cap f.ins = {}
  BY DEF FlightsApart
<1>3. CASE I = f.ins
  <2>1. flights' = flights \ {f}
    BY <1>3
  <2>2. Flying' = Flying \ I
    BY <1>2, <1>3, <2>1 DEF Flying
  <2> QED
    BY <2>1, <2>2 DEF FlightsApart
<1>4. CASE I # f.ins
  <2>1. PICK h : h = [f EXCEPT !.ins = f.ins \ I]
    OBVIOUS
  <2>2. h \in Flights /\ h.ins = f.ins \ I
    BY <1>1, <2>1 DEF Flights
  <2>3. flights' = (flights \ {f}) \cup {h}
    BY <1>4, <2>1
  <2>4. FlightsApart'
    BY <1>2, <2>2, <2>3 DEF FlightsApart
  <2>5. Flying' = Flying \ I
    BY <1>2, <2>2, <2>3 DEF Flying
  <2> QED
    BY <2>2, <2>3, <2>4, <2>5
<1> QED
  BY <1>3, <1>4

\* A batch that ends carries nothing any more.
LEMMA FlightLeft ==
  ASSUME flights \subseteq Flights, FlightsApart, NEW f \in flights, Left(f)
  PROVE  flights' \subseteq Flights /\ FlightsApart' /\ Flying' = Flying \ f.ins
BY FlightShrunk DEF Left

\* A new batch of inputs that no other batch carries is apart from them.
LEMMA FlightAdded ==
  ASSUME flights \subseteq Flights, FlightsApart, NEW batch \in SUBSET Inputs,
         batch \cap Flying = {},
         flights' = flights \cup {[ins |-> batch, at |-> "deciding"]}
  PROVE  flights' \subseteq Flights /\ FlightsApart' /\ Flying' = Flying \cup batch
<1>1. PICK g : g = [ins |-> batch, at |-> "deciding"]
  OBVIOUS
<1>2. g \in Flights /\ g.ins = batch /\ flights' = flights \cup {g}
  BY <1>1 DEF Flights
<1>3. \A h \in flights : h.ins \cap g.ins = {}
  BY <1>2 DEF Flying
<1>4. FlightsApart'
  BY <1>2, <1>3 DEF FlightsApart
<1>5. Flying' = Flying \cup batch
  BY <1>2 DEF Flying
<1> QED
  BY <1>2, <1>4, <1>5

\* New promises go to the queue, or with it into a full batch.
LEMMA Pushes ==
  ASSUME ClientTypes, CarriedOnce, UNCHANGED entries, NEW I \in SUBSET Inputs,
         I \cap open = {}, Push(I)
  PROVE  /\ open' = open \cup I /\ open' \subseteq Inputs /\ queue' \subseteq Inputs
         /\ timer' \in BOOLEAN /\ flights' \subseteq Flights
         /\ CarriedOnce'
<1>1. open' = open \cup I
  BY DEF Push
<1>2. CASE Cardinality(queue \cup I) < BatchMax
  <2>1. queue' = queue \cup I /\ flights' = flights
    BY <1>2 DEF Push
  <2>2. timer' \in BOOLEAN
    BY <1>2 DEF Push, ClientTypes
  <2>3. Flying' = Flying /\ Elems(entries') = Elems(entries)
    BY <2>1 DEF Flying
  <2>4. CarriedOnce'
    BY <1>1, <2>1, <2>3 DEF CarriedOnce, FlightsApart
  <2> QED
    BY <1>1, <2>1, <2>2, <2>4 DEF ClientTypes
<1>3. CASE ~(Cardinality(queue \cup I) < BatchMax)
  <2>1. PICK batch \in SUBSET (queue \cup I) :
          /\ queue \subseteq batch
          /\ flights' = flights \cup {[ins |-> batch, at |-> "deciding"]}
          /\ queue' = (queue \cup I) \ batch
          /\ timer' = (queue' # {})
    BY <1>3 DEF Push
  <2>2. batch \in SUBSET Inputs /\ batch \cap Flying = {}
    BY DEF ClientTypes, CarriedOnce
  <2>3. flights' \subseteq Flights /\ FlightsApart' /\ Flying' = Flying \cup batch
    BY <2>1, <2>2, FlightAdded DEF ClientTypes, CarriedOnce
  <2>4. Elems(entries') = Elems(entries)
    OBVIOUS
  <2>5. CarriedOnce'
    BY <1>1, <2>1, <2>2, <2>3, <2>4 DEF CarriedOnce
  <2> QED
    BY <1>1, <2>1, <2>3, <2>5 DEF ClientTypes
<1> QED
  BY <1>2, <1>3

\* A settled promise is waited for by nobody.
LEMMA SettlesPromises ==
  ASSUME ClientTypes, PromisesOpen, UNCHANGED wants, NEW out, Settle(out)
  PROVE  /\ awaits' \in [Requests -> {"nothing", "request", "confirmation"}]
         /\ open' = open \ DOMAIN out
         /\ PromisesOpen'
<1>1. /\ open' = open \ DOMAIN out
      /\ awaits' = [r \in Requests |->
           IF r \in Waiting("request", DOMAIN out) THEN "nothing" ELSE awaits[r]]
  BY DEF Settle, Woken
<1>2. awaits' \in [Requests -> {"nothing", "request", "confirmation"}]
  BY <1>1 DEF ClientTypes
<1>3. ASSUME NEW r \in Requests, awaits'[r] = "request"
      PROVE  wants'[r] \in open'
  BY <1>1, <1>3 DEF Waiting, PromisesOpen
<1> QED
  BY <1>1, <1>2, <1>3 DEF PromisesOpen

\* Requests join the promise there is, or make one.
LEMMA JoinOrPush ==
  ASSUME ReadyTypes, ClientTypes, CarriedOnce, PromisesOpen, UNCHANGED <<wants, entries>>,
         NEW R \in SUBSET Requests, awaits' = Joined(R), Push(Missing(R))
  PROVE  /\ awaits' \in [Requests -> {"nothing", "request", "confirmation"}]
         /\ open' \subseteq Inputs /\ queue' \subseteq Inputs
         /\ timer' \in BOOLEAN /\ flights' \subseteq Flights
         /\ CarriedOnce' /\ PromisesOpen'
<1>1. PICK I : I = Missing(R)
  OBVIOUS
<1>2. I \in SUBSET Inputs /\ I \cap open = {}
  BY <1>1 DEF Missing, ReadyTypes
<1>3. /\ open' = open \cup I /\ open' \subseteq Inputs /\ queue' \subseteq Inputs
      /\ timer' \in BOOLEAN /\ flights' \subseteq Flights
      /\ CarriedOnce'
  BY <1>1, <1>2, Pushes
<1>4. awaits' \in [Requests -> {"nothing", "request", "confirmation"}]
  BY DEF Joined, ClientTypes
<1>5. ASSUME NEW r \in Requests, awaits'[r] = "request"
      PROVE  wants'[r] \in open'
  <2>1. CASE r \notin R
    BY <1>3, <1>5, <2>1 DEF Joined, PromisesOpen
  <2>2. CASE r \in R
    <3>1. wants[r] \in open \/ wants[r] \notin dedupe
      BY <1>5, <2>2 DEF Joined
    <3>2. wants[r] \in open \/ wants[r] \in I
      BY <1>1, <2>2, <3>1 DEF Missing
    <3> QED
      BY <1>3, <3>2
  <2> QED
    BY <2>1, <2>2
<1> QED
  BY <1>3, <1>4, <1>5 DEF PromisesOpen

\* Steps that leave the prober alone.
LEMMA ProberAlone ==
  ASSUME ProberTypes, PollInside, UNCHANGED <<proberVars, link, applied>>,
         accepted' \subseteq DependencyHosts, announced' \subseteq Inputs
  PROVE  ProberTypes' /\ PollInside'
<1>1. UNCHANGED <<entries, aged, poll, threw, link, applied>>
  BY DEF proberVars
<1> QED
  BY <1>1 DEF ProberTypes, PollInside

\* A request that joins a promise, is queued or is answered by a cache.
LEMMA AllowCarries ==
  ASSUME ReadyInd, Carrying, NEW r \in Requests, allowLocalRuntimeDependency(r)
  PROVE  Carrying'
<1>1. PICK k \in CacheKeys : k = CacheKey(wants[r])
  BY KeyNamesHost DEF ReadyInd
<1>2. UNCHANGED <<wants, dedupe, proberVars, link, accepted, applied, announced>>
  BY DEF allowLocalRuntimeDependency, hostVars
<1>3. UNCHANGED entries
  BY <1>2 DEF proberVars
<1>4. ProberTypes' /\ PollInside'
  BY <1>2, ProberAlone DEF Carrying, ProberTypes
<1>5. CASE UNCHANGED <<awaits, open, queue, timer, flights, confirming>>
  BY <1>2, <1>3, <1>4, <1>5
  DEF Carrying, ClientTypes, CarriedOnce, FlightsApart, Flying, PromisesOpen
<1>6. CASE /\ confirming' = confirming \cup {k}
           /\ awaits' = [awaits EXCEPT ![r] = "confirmation"]
           /\ UNCHANGED <<open, queue, timer, flights>>
  <2>1. ClientTypes'
    BY <1>2, <1>6 DEF Carrying, ClientTypes
  <2>2. CarriedOnce'
    BY <1>3, <1>6 DEF Carrying, CarriedOnce, FlightsApart, Flying
  <2>3. PromisesOpen'
    BY <1>2, <1>6 DEF Carrying, PromisesOpen, ClientTypes
  <2> QED
    BY <1>4, <2>1, <2>2, <2>3 DEF Carrying
<1>7. CASE awaits' = Joined({r}) /\ Push(Missing({r})) /\ UNCHANGED confirming
  <2>1. PICK R \in SUBSET Requests : R = {r}
    OBVIOUS
  <2>2. awaits' = Joined(R) /\ Push(Missing(R))
    BY <1>7, <2>1
  <2>3. /\ awaits' \in [Requests -> {"nothing", "request", "confirmation"}]
        /\ open' \subseteq Inputs /\ queue' \subseteq Inputs
        /\ timer' \in BOOLEAN /\ flights' \subseteq Flights
        /\ CarriedOnce' /\ PromisesOpen'
    BY <1>2, <1>3, <2>2, JoinOrPush DEF Carrying, ReadyInd
  <2> QED
    BY <1>2, <1>4, <1>7, <2>3 DEF Carrying, ClientTypes
<1> QED
  BY <1>1, <1>5, <1>6, <1>7 DEF allowLocalRuntimeDependency

\* A cached answer is confirmed: no promise of the queue is concerned.
LEMMA ConfirmCarries ==
  ASSUME ReadyInd, Carrying, NEW k \in CacheKeys, confirmCachedRuntimeDependency(k)
  PROVE  Carrying'
<1>1. PICK R \in SUBSET Requests :
        R = Waiting("confirmation", {i \in Inputs : CacheKey(i) = k})
  BY DEF Waiting
<1>2. /\ UNCHANGED <<wants, dedupe, proberVars, link, accepted, applied, announced>>
      /\ confirming' = confirming \ {k}
  BY DEF confirmCachedRuntimeDependency, hostVars
<1>3. UNCHANGED entries
  BY <1>2 DEF proberVars
<1>4. ProberTypes' /\ PollInside'
  BY <1>2, ProberAlone DEF Carrying, ProberTypes
<1>5. CASE /\ awaits' = [r \in Requests |-> IF r \in R THEN "nothing" ELSE awaits[r]]
           /\ UNCHANGED <<open, queue, timer, flights>>
  <2>1. ClientTypes'
    BY <1>2, <1>5 DEF Carrying, ClientTypes
  <2>2. CarriedOnce'
    BY <1>3, <1>5 DEF Carrying, CarriedOnce, FlightsApart, Flying
  <2>3. PromisesOpen'
    BY <1>2, <1>5 DEF Carrying, PromisesOpen
  <2> QED
    BY <1>4, <2>1, <2>2, <2>3 DEF Carrying
<1>6. CASE awaits' = Joined(R) /\ Push(Missing(R))
  <2>1. /\ awaits' \in [Requests -> {"nothing", "request", "confirmation"}]
        /\ open' \subseteq Inputs /\ queue' \subseteq Inputs
        /\ timer' \in BOOLEAN /\ flights' \subseteq Flights
        /\ CarriedOnce' /\ PromisesOpen'
    BY <1>2, <1>3, <1>6, JoinOrPush DEF Carrying, ReadyInd
  <2> QED
    BY <1>2, <1>4, <2>1 DEF Carrying, ClientTypes
<1> QED
  BY <1>1, <1>5, <1>6 DEF confirmCachedRuntimeDependency

\* The flush timer turns the queue into a batch.
LEMMA TimerCarries ==
  ASSUME Carrying, FlushTimer
  PROVE  Carrying'
<1>1. /\ UNCHANGED <<wants, awaits, dedupe, open, confirming, proberVars, link, accepted,
                     applied, announced>>
      /\ timer' = FALSE /\ queue' = {}
      /\ flights' = IF queue = {} THEN flights
                    ELSE flights \cup {[ins |-> queue, at |-> "deciding"]}
  BY DEF FlushTimer, hostVars
<1>2. UNCHANGED entries
  BY <1>1 DEF proberVars
<1>3. ProberTypes' /\ PollInside'
  BY <1>1, ProberAlone DEF Carrying, ProberTypes
<1>4. flights' \subseteq Flights /\ FlightsApart' /\ Flying' = Flying \cup queue
  <2>1. CASE queue = {}
    BY <1>1, <2>1 DEF Carrying, ClientTypes, CarriedOnce, FlightsApart, Flying
  <2>2. CASE queue # {}
    <3>1. /\ queue \in SUBSET Inputs /\ queue \cap Flying = {}
          /\ flights \subseteq Flights /\ FlightsApart
      BY DEF Carrying, ClientTypes, CarriedOnce
    <3> QED
      BY <1>1, <2>2, <3>1, FlightAdded
  <2> QED
    BY <2>1, <2>2
<1>5. CarriedOnce'
  BY <1>1, <1>2, <1>4 DEF Carrying, CarriedOnce
<1>6. ClientTypes' /\ PromisesOpen'
  BY <1>1, <1>4 DEF Carrying, ClientTypes, PromisesOpen
<1> QED
  BY <1>3, <1>5, <1>6 DEF Carrying

\* A batch goes to the prober, but for what was settled.
LEMMA Handover ==
  ASSUME Carrying, NEW f \in flights, NEW done \in SUBSET f.ins, Left(f),
         Register(f.ins \ done), open' = open \ done,
         UNCHANGED <<queue, aged, poll, threw, link, applied>>,
         accepted' \subseteq DependencyHosts, announced' \subseteq Inputs
  PROVE  /\ flights' \subseteq Flights /\ CarriedOnce'
         /\ ProberTypes' /\ PollInside'
<1>1. f.ins \in SUBSET Inputs /\ f.ins \subseteq Flying
  BY DEF Carrying, ClientTypes, Flights, Flying
<1>2. PICK I \in SUBSET Inputs : I = f.ins \ done
  BY <1>1
<1>3. entries' \in Seq(Inputs) /\ Elems(entries') = Elems(entries) \cup I
  BY <1>2, Registers DEF Carrying, ProberTypes
<1>4. flights' \subseteq Flights /\ FlightsApart' /\ Flying' = Flying \ f.ins
  BY FlightLeft DEF Carrying, ClientTypes, CarriedOnce
<1>5. CarriedOnce'
  BY <1>1, <1>2, <1>3, <1>4 DEF Carrying, CarriedOnce
<1>6. ProberTypes' /\ PollInside'
  BY <1>3 DEF Carrying, ProberTypes, PollInside
<1> QED
  BY <1>4, <1>5, <1>6

\* Only the batch moves on.
LEMMA MovesOn ==
  ASSUME Carrying, NEW f \in flights,
         NEW at \in {"deciding", "enqueueing", "oneshot", "single"}, Moved(f, at),
         UNCHANGED <<wants, awaits, dedupe, open, queue, timer, confirming, proberVars, link,
                     applied, announced>>,
         accepted' \subseteq DependencyHosts
  PROVE  Carrying'
<1>1. UNCHANGED entries
  BY DEF proberVars
<1>2. ProberTypes' /\ PollInside'
  BY ProberAlone DEF Carrying, ProberTypes
<1>3. flights' \subseteq Flights /\ FlightsApart' /\ Flying' = Flying
  BY FlightMoved DEF Carrying, ClientTypes, CarriedOnce
<1>4. CarriedOnce'
  BY <1>1, <1>3 DEF Carrying, CarriedOnce
<1>5. ClientTypes' /\ PromisesOpen'
  BY <1>3 DEF Carrying, ClientTypes, PromisesOpen
<1> QED
  BY <1>2, <1>4, <1>5 DEF Carrying

\* A batch of a port that is still connecting, or was lost, goes to the prober.
LEMMA HandsOver ==
  ASSUME Carrying, NEW f \in flights, Left(f), Register(f.ins),
         UNCHANGED <<wants, awaits, dedupe, open, queue, timer, confirming, aged, poll, threw,
                     link, applied, announced>>,
         accepted' \subseteq DependencyHosts
  PROVE  Carrying'
<1>1. PICK done \in SUBSET f.ins : done = {}
  OBVIOUS
<1>2. Register(f.ins \ done) /\ open' = open \ done
  <2>1. f.ins \ done = f.ins
    BY <1>1
  <2> QED
    BY <1>1, <2>1
<1>3. announced' \subseteq Inputs
  BY DEF Carrying, ProberTypes
<1>4. /\ flights' \subseteq Flights /\ CarriedOnce'
      /\ ProberTypes' /\ PollInside'
  BY <1>2, <1>3, Handover
<1>5. ClientTypes' /\ PromisesOpen'
  BY <1>4 DEF Carrying, ClientTypes, PromisesOpen
<1> QED
  BY <1>4, <1>5 DEF Carrying

\* The hosts of a batch.
LEMMA HostsOfBatch ==
  ASSUME Carrying, NEW f \in flights, NEW I \in SUBSET f.ins
  PROVE  /\ accepted \subseteq DependencyHosts
         /\ accepted \cup {i.dependencyHost : i \in I} \subseteq DependencyHosts
<1>1. accepted \subseteq DependencyHosts /\ I \subseteq Inputs
  BY DEF Carrying, ProberTypes, ClientTypes, Flights
<1> QED
  BY <1>1 DEF DependencyHosts

\* An answered batch settles its inputs or hands them to the prober.
LEMMA EnqueueCarries ==
  ASSUME Carrying, NEW f \in flights, EnqueueAnswered(f)
  PROVE  Carrying'
<1>1. PICK I \in SUBSET f.ins : I = f.ins
  OBVIOUS
<1>2. PICK res \in Answers(I) :
        /\ CacheAnswers(res)
        /\ Settle([i \in {j \in f.ins : res[j] # "pending"} |-> res[i]])
        /\ Register(f.ins \ {j \in f.ins : res[j] # "pending"})
  BY <1>1 DEF EnqueueAnswered
<1>3. PICK done \in SUBSET f.ins : done = {j \in f.ins : res[j] # "pending"}
  OBVIOUS
<1>4. PICK out : out = [i \in done |-> res[i]]
  OBVIOUS
<1>5. Settle(out) /\ Register(f.ins \ done) /\ DOMAIN out = done
  BY <1>2, <1>3, <1>4
<1>6. /\ Left(f)
      /\ UNCHANGED <<wants, queue, timer, confirming, aged, poll, threw, link, applied,
                     announced>>
      /\ accepted' = accepted \cup {i.dependencyHost : i \in f.ins}
  BY DEF EnqueueAnswered
<1>7. accepted' \subseteq DependencyHosts /\ announced' \subseteq Inputs
  BY <1>1, <1>6, HostsOfBatch DEF Carrying, ProberTypes
<1>8. /\ awaits' \in [Requests -> {"nothing", "request", "confirmation"}]
      /\ open' = open \ done
      /\ PromisesOpen'
  BY <1>5, <1>6, SettlesPromises DEF Carrying
<1>9. /\ flights' \subseteq Flights /\ CarriedOnce'
      /\ ProberTypes' /\ PollInside'
  BY <1>5, <1>6, <1>7, <1>8, Handover
<1>10. dedupe' \subseteq Inputs
  <2>1. DOMAIN res \subseteq Inputs
    BY <1>1, AnswersAreTrue DEF Carrying, ClientTypes, Flights
  <2> QED
    BY <1>2, <2>1 DEF CacheAnswers, Carrying, ClientTypes
<1>11. ClientTypes'
  BY <1>6, <1>8, <1>9, <1>10 DEF Carrying, ClientTypes
<1> QED
  BY <1>8, <1>9, <1>11 DEF Carrying

\* A one-shot host: what it is asked for is settled, one way or the other.
LEMMA OneShotCarries ==
  ASSUME Carrying, NEW f \in flights, OneShot(f)
  PROVE  Carrying'
<1>1. UNCHANGED <<wants, queue, timer, confirming, proberVars, link, applied, announced>>
  BY DEF OneShot
<1>2. CASE /\ f.at = "oneshot" /\ Moved(f, "single")
           /\ UNCHANGED <<hold, awaits, cache, dedupe, open, accepted>>
  <2>1. accepted' \subseteq DependencyHosts
    BY <1>2 DEF Carrying, ProberTypes
  <2>2. PICK at \in {"deciding", "enqueueing", "oneshot", "single"} : at = "single"
    OBVIOUS
  <2> QED
    BY <1>1, <1>2, <2>1, <2>2, MovesOn
<1>3. ASSUME NEW I \in SUBSET f.ins,
             flights' = (flights \ {f}) \cup
                          (IF I = f.ins THEN {} ELSE {[f EXCEPT !.ins = f.ins \ I]}),
             OneShotAnswered(f, I) \/ OneShotFailed(f, I)
      PROVE  Carrying'
  <2>1. \E out : Settle(out) /\ DOMAIN out = I
    <3>1. CASE OneShotAnswered(f, I)
      BY <3>1, AnswersAreTrue DEF OneShotAnswered
    <3>2. CASE OneShotFailed(f, I)
      <4>1. PICK out : out = [i \in I |-> "error"]
        OBVIOUS
      <4>2. Settle(out) /\ DOMAIN out = I
        BY <3>2, <4>1 DEF OneShotFailed
      <4> QED
        BY <4>2
    <3> QED
      BY <1>3, <3>1, <3>2
  <2>2. /\ awaits' \in [Requests -> {"nothing", "request", "confirmation"}]
        /\ open' = open \ I
        /\ PromisesOpen'
    BY <1>1, <2>1, SettlesPromises DEF Carrying
  <2>3. I \subseteq Inputs /\ I \subseteq Flying
    BY DEF Carrying, ClientTypes, Flights, Flying
  <2>4. dedupe' \subseteq Inputs
    BY <1>3, <2>3, AnswersAreTrue
    DEF OneShotAnswered, OneShotFailed, CacheAnswers, Carrying, ClientTypes
  <2>5. accepted' \subseteq DependencyHosts
    BY <1>3, HostsOfBatch DEF OneShotAnswered, OneShotFailed
  <2>6. flights' \subseteq Flights /\ FlightsApart' /\ Flying' = Flying \ I
    BY <1>3, FlightShrunk DEF Carrying, ClientTypes, CarriedOnce
  <2>7. UNCHANGED entries
    BY <1>1 DEF proberVars
  <2>8. CarriedOnce'
    BY <1>1, <2>2, <2>3, <2>6, <2>7 DEF Carrying, CarriedOnce
  <2>9. ProberTypes' /\ PollInside'
    BY <1>1, <2>5, ProberAlone DEF Carrying, ProberTypes
  <2>10. ClientTypes'
    BY <1>1, <2>2, <2>4, <2>6 DEF Carrying, ClientTypes
  <2> QED
    BY <2>2, <2>8, <2>9, <2>10 DEF Carrying
<1> QED
  BY <1>2, <1>3 DEF OneShot

\* The steps of a batch, from the choice of its way to its last answer.
LEMMA FlushCarries ==
  ASSUME Carrying, NEW f \in flights, flushRuntimeDependencyBatch(f)
  PROVE  Carrying'
<1>1. PICK I \in SUBSET f.ins : I = f.ins
  OBVIOUS
<1>2. /\ accepted \subseteq DependencyHosts
      /\ accepted \cup {i.dependencyHost : i \in f.ins} \subseteq DependencyHosts
  BY <1>1, HostsOfBatch
<1>3. PICK enqueueing, oneshot \in {"deciding", "enqueueing", "oneshot", "single"} :
        enqueueing = "enqueueing" /\ oneshot = "oneshot"
  OBVIOUS
<1>4. CASE Decide(f)
  <2>1. /\ UNCHANGED <<wants, awaits, dedupe, open, queue, timer, confirming, aged, poll, threw,
                       link, applied, announced>>
        /\ accepted' \subseteq DependencyHosts
    BY <1>2, <1>4 DEF Decide, hostVars
  <2>2. \/ Left(f) /\ Register(f.ins)
        \/ (Moved(f, enqueueing) \/ Moved(f, oneshot)) /\ UNCHANGED entries
    BY <1>3, <1>4 DEF Decide
  <2>3. UNCHANGED entries => UNCHANGED proberVars
    BY <2>1 DEF proberVars
  <2> QED
    BY <2>1, <2>2, <2>3, HandsOver, MovesOn
<1>5. CASE EnqueueFailed(f)
  <2>1. /\ UNCHANGED <<wants, awaits, dedupe, open, queue, timer, confirming, aged, poll, threw,
                       link, applied, announced>>
        /\ accepted' \subseteq DependencyHosts
    BY <1>2, <1>5 DEF EnqueueFailed
  <2>2. \/ Left(f) /\ Register(f.ins)
        \/ Moved(f, oneshot) /\ UNCHANGED entries
    BY <1>3, <1>5 DEF EnqueueFailed
  <2>3. UNCHANGED entries => UNCHANGED proberVars
    BY <2>1 DEF proberVars
  <2> QED
    BY <2>1, <2>2, <2>3, HandsOver, MovesOn
<1> QED
  BY <1>4, <1>5, EnqueueCarries, OneShotCarries DEF flushRuntimeDependencyBatch

\* The prober's check settles entries of the prober: those it read and those
\* that grew too old.
LEMMA PollCarries ==
  ASSUME Carrying, PollAnswered
  PROVE  Carrying'
<1>1. /\ UNCHANGED <<wants, dedupe, queue, timer, flights, confirming, link, accepted,
                     applied>>
      /\ poll' = NoPoll
  BY DEF PollAnswered, hostVars
<1>b. threw' \in BOOLEAN
  <2>1. threw' = FALSE
    BY DEF PollAnswered
  <2> QED
    BY <2>1
<1>2. PICK I : I = Elems(poll.ins)
  OBVIOUS
<1>3. PICK res \in Answers(I) :
        /\ Settle(Settled(res))
        /\ Unregister(DOMAIN Settled(res))
        /\ aged' = aged \ DOMAIN Settled(res)
        /\ announced' = announced \cup
                          {i \in DOMAIN Settled(res) : Settled(res)[i] = "ready"}
  BY <1>2 DEF PollAnswered
<1>4. PICK out : out = Settled(res)
  OBVIOUS
<1>5. DOMAIN out \subseteq Elems(entries)
  <2>1. DOMAIN res \subseteq Elems(entries)
    BY <1>2, AnswersAreTrue DEF Carrying, PollInside
  <2>2. DOMAIN out = {j \in DOMAIN res : res[j] # "pending"} \cup aged
    BY <1>4 DEF Settled
  <2> QED
    BY <2>1, <2>2 DEF Carrying, ProberTypes
<1>6. /\ awaits' \in [Requests -> {"nothing", "request", "confirmation"}]
      /\ open' = open \ DOMAIN out
      /\ PromisesOpen'
  BY <1>1, <1>3, <1>4, SettlesPromises DEF Carrying
<1>7. entries' \in Seq(Inputs) /\ Elems(entries') = Elems(entries) \ DOMAIN out
  BY <1>3, <1>4, Unregisters DEF Carrying, ProberTypes
<1>8. Elems(entries) \subseteq Inputs
  BY ElemsOf DEF Carrying, ProberTypes
<1>9. Flying' = Flying /\ (FlightsApart <=> FlightsApart')
  BY <1>1 DEF Flying, FlightsApart
<1>10. CarriedOnce'
  BY <1>1, <1>5, <1>6, <1>7, <1>9 DEF Carrying, CarriedOnce
<1>11. ProberTypes'
  <2>1. aged' \subseteq Elems(entries') /\ announced' \subseteq Inputs
    BY <1>3, <1>4, <1>5, <1>7, <1>8 DEF Carrying, ProberTypes
  <2> QED
    BY <1>1, <1>b, <1>7, <2>1 DEF Carrying, ProberTypes
<1>12. PollInside'
  BY <1>1 DEF PollInside, NoPoll, Elems
<1>13. ClientTypes'
  BY <1>1, <1>6 DEF Carrying, ClientTypes
<1> QED
  BY <1>6, <1>10, <1>11, <1>12, <1>13 DEF Carrying

\* A check begins with the first entries of the prober.
LEMMA PollTimerCarries ==
  ASSUME Carrying, PollTimer
  PROVE  Carrying'
<1>1. UNCHANGED <<wants, awaits, dedupe, open, queue, timer, flights, confirming, entries, aged,
                  threw, link, accepted, applied, announced>>
  BY DEF PollTimer, clientVars, hostVars
<1>2. PICK n \in Nat : n = IF Len(entries) < BatchMax THEN Len(entries) ELSE BatchMax
  BY DependencyAssumption DEF Carrying, ProberTypes
<1>3. n <= Len(entries)
  BY <1>2, DependencyAssumption DEF Carrying, ProberTypes
<1>4. PICK over \in {"port", "hosts", "itself"} :
        poll' = [ins |-> SubSeq(entries, 1, n), over |-> over]
  BY <1>2 DEF PollTimer
<1>5. Elems(poll'.ins) \subseteq Elems(entries) /\ poll'.over = over
  BY <1>3, <1>4, ElemsOf DEF Carrying, ProberTypes
<1>6. PollInside'
  BY <1>1, <1>5 DEF PollInside
<1>7. Flying' = Flying /\ (FlightsApart <=> FlightsApart')
  BY <1>1 DEF Flying, FlightsApart
<1>8. CarriedOnce' /\ PromisesOpen'
  BY <1>1, <1>7 DEF Carrying, CarriedOnce, PromisesOpen
<1>9. ClientTypes' /\ ProberTypes'
  BY <1>1 DEF Carrying, ClientTypes, ProberTypes
<1> QED
  BY <1>6, <1>8, <1>9 DEF Carrying

\* Steps that move no promise.
LEMMA NothingMoves ==
  ASSUME Carrying,
         UNCHANGED <<wants, awaits, open, queue, timer, flights, confirming, entries, announced>>,
         dedupe' \subseteq Inputs, aged' \subseteq Elems(entries), PollInside', threw' \in BOOLEAN,
         link' \in {"down", "connecting", "ready", "old"},
         accepted' \subseteq DependencyHosts, applied' \subseteq DependencyHosts
  PROVE  Carrying'
<1>1. Flying' = Flying /\ (FlightsApart <=> FlightsApart')
  BY DEF Flying, FlightsApart
<1>2. CarriedOnce' /\ PromisesOpen'
  BY <1>1 DEF Carrying, CarriedOnce, PromisesOpen
<1>3. ClientTypes' /\ ProberTypes'
  BY DEF Carrying, ClientTypes, ProberTypes
<1> QED
  BY <1>2, <1>3 DEF Carrying

\* Every step keeps each open promise in exactly one hand.
LEMMA CarryStep == CarryInd /\ [RDNext]_rdVars => CarryInd'
<1> SUFFICES ASSUME CarryInd, [RDNext]_rdVars PROVE CarryInd'
  OBVIOUS
<1>0. ReadyInd /\ Carrying /\ ReadyInd'
  BY ReadyStep DEF CarryInd
<1>1. /\ dedupe \subseteq Inputs /\ aged \subseteq Elems(entries) /\ PollInside
      /\ threw \in BOOLEAN /\ link \in {"down", "connecting", "ready", "old"}
      /\ accepted \subseteq DependencyHosts /\ applied \subseteq DependencyHosts
  BY <1>0 DEF Carrying, ClientTypes, ProberTypes
<1>2. ASSUME UNCHANGED <<poll, entries>> PROVE PollInside'
  BY <1>1, <1>2 DEF PollInside
<1>3. ASSUME NEW r \in Requests, Budget(r)
      PROVE  Carrying'
  BY <1>0, <1>1, <1>2, <1>3, NothingMoves DEF Budget, clientVars, proberVars, hostVars
<1>4. ASSUME NEW k \in CacheKeys, CacheAges(k)
      PROVE  Carrying'
  BY <1>0, <1>1, <1>2, <1>4, NothingMoves DEF CacheAges, proberVars, hostVars
<1>5. ASSUME PollThrows PROVE Carrying'
  <2>1. PollInside'
    <3>1. poll' = NoPoll
      BY <1>5 DEF PollThrows
    <3> QED
      BY <3>1 DEF PollInside, NoPoll, Elems
  <2>2. threw' \in BOOLEAN
    BY <1>1, <1>5 DEF PollThrows
  <2> QED
    BY <1>0, <1>1, <1>5, <2>1, <2>2, NothingMoves DEF PollThrows, clientVars, hostVars
<1>6. ASSUME NEW i \in Inputs, Age(i) \/ DedupeEnds(i)
      PROVE  Carrying'
  BY <1>0, <1>1, <1>2, <1>6, NothingMoves DEF Age, DedupeEnds, clientVars, proberVars, hostVars
<1>7. ASSUME LinkChanges PROVE Carrying'
  <2>1. link' \in {"down", "connecting", "ready", "old"}
    BY <1>7 DEF LinkChanges
  <2> QED
    BY <1>0, <1>1, <1>2, <1>7, <2>1, NothingMoves DEF LinkChanges, clientVars, proberVars, hostVars
<1>8. ASSUME NEW d \in DependencyHosts, HostApplies(d)
      PROVE  Carrying'
  BY <1>0, <1>1, <1>2, <1>8, NothingMoves DEF HostApplies, clientVars, proberVars
<1>9. ASSUME UNCHANGED rdVars PROVE Carrying'
  BY <1>0, <1>1, <1>2, <1>9, NothingMoves DEF rdVars, clientVars, proberVars, hostVars
<1>10. Carrying'
  BY <1>0, <1>3, <1>4, <1>5, <1>6, <1>7, <1>8, <1>9, AllowCarries, ConfirmCarries, TimerCarries,
     FlushCarries, PollTimerCarries, PollCarries
  DEF RDNext
<1> QED
  BY <1>0, <1>10 DEF CarryInd

(***************************************************************************)
(* However batches, answers, failures and the prober's checks interleave,  *)
(* for any finite set of inputs and any batch size: an open promise of     *)
(* allowLocalRuntimeDependency is in the queue, in a batch in flight or    *)
(* with the prober, and in one of them only, and these carry nothing else  *)
(* (native-messaging-client.ts, runtime-dependency-prober.ts).             *)
(***************************************************************************)
THEOREM PromisesAreCarried == RDSpec => []CarriedInv
<1>1. RDInit => CarryInd
  <2> SUFFICES ASSUME RDInit PROVE CarryInd
    OBVIOUS
  <2>1. ReadyInd
    BY ReadyInitially
  <2>2. Flying = {} /\ FlightsApart
    BY DEF RDInit, Flying, FlightsApart
  <2>3. Elems(entries) = {} /\ Elems(poll.ins) = {} /\ poll.over = "none"
    BY DEF RDInit, NoPoll, Elems
  <2>4. ClientTypes
    BY DEF RDInit, ClientTypes
  <2>5. ProberTypes
    <3>1. applied \subseteq DependencyHosts
      <4>1. \A k \in CacheKeys : k[2] \in DependencyHosts
        BY DEF CacheKeys, CacheKey, DependencyHosts
      <4> QED
        BY <4>1 DEF RDInit
    <3>2. threw = FALSE
      BY DEF RDInit
    <3>3. threw \in BOOLEAN
      BY <3>2
    <3> QED
      BY <2>3, <3>1, <3>3 DEF RDInit, ProberTypes
  <2>6. PollInside /\ CarriedOnce /\ PromisesOpen
    BY <2>2, <2>3 DEF RDInit, PollInside, CarriedOnce, PromisesOpen
  <2> QED
    BY <2>1, <2>4, <2>5, <2>6 DEF CarryInd, Carrying
<1>2. CarryInd => CarriedInv
  <2> SUFFICES ASSUME CarryInd PROVE CarriedInv
    OBVIOUS
  <2>1. RDTypeOK
    BY ElemsOf
    DEF CarryInd, Carrying, ReadyInd, ReadyTypes, ClientTypes, ProberTypes, PollInside, RDTypeOK
  <2>2. NothingIsLost
    <3>1. /\ open = queue \cup Flying \cup Elems(entries) /\ queue \cap Flying = {}
          /\ Elems(entries) \cap (queue \cup Flying) = {}
      BY DEF CarryInd, Carrying, CarriedOnce
    <3>2. \A f, g \in flights : f # g => f.ins \cap g.ins = {}
      BY DEF CarryInd, Carrying, CarriedOnce, FlightsApart
    <3>3. \A r \in Requests : awaits[r] = "request" => wants[r] \in open
      BY DEF CarryInd, Carrying, PromisesOpen
    <3> QED
      BY ONLY <3>1, <3>2, <3>3 DEF Flying, NothingIsLost
  <2> QED
    BY <2>1, <2>2 DEF CarriedInv
<1> QED
  BY <1>1, <1>2, CarryStep, PTL DEF RDSpec
=============================================================================
