--------------------------- MODULE NativeTransport --------------------------
(***************************************************************************)
(* The extension's long-lived connection to the native host                *)
(* (firefox-extension/src/lib/persistent-native-transport.ts).  A port is  *)
(* opened, the host's capabilities are probed, calls are matched with      *)
(* answers by their id, and a lost port is reopened after a backoff.       *)
(*                                                                         *)
(* One step is one macrotask of the extension with the promise reactions   *)
(* it triggers (the rest of connectOnce, the catch of the liveness probe). *)
(* The host answers the requests of a port in their order, when it likes.  *)
(***************************************************************************)
EXTENDS Naturals, Sequences, FiniteSets

CONSTANTS
  MaxCalls,   \* bound: requests sent over all the ports, probes included
  MaxPorts,   \* bound: connections begun
  Hosts,      \* the hosts installed over time: "modern" echoes ids, "legacy" does not
  EarlyCalls, \* whether a caller calls while the probe is in flight; in the
              \* extension every caller asks isReady() first
  None, Failed

ASSUME TransportAssumption ==
  /\ MaxCalls \in Nat /\ MaxPorts \in Nat /\ EarlyCalls \in BOOLEAN
  /\ Hosts \subseteq {"modern", "legacy"}
  /\ None # Failed /\ None \notin Nat /\ Failed \notin Nat

Calls == 1 .. MaxCalls
Ports == 1 .. MaxPorts
NoPort == 0

VARIABLES
  state,    \* "idle", "connecting", "ready", "legacy" or "backoff"
  port,     \* the open port, or NoPort
  ports,    \* connections begun so far; the listeners of a port stay for ever
  host,     \* the kind of host behind each port
  asked,    \* per port: the requests the host has not answered yet, in order
  nextId,   \* nextRequestId
  pending,  \* pendingCalls
  kind,     \* per call: "none", "probe" (capabilities), "ping" (liveness) or "user"
  result,   \* per call: None, Failed, or the call the answer was meant for
  silent,   \* no message of the current port for livenessStaleMs
  attempts, \* reconnectAttempts
  waiting,  \* now() < nextReconnectAt
  stopped,
  spent,    \* connectPromise is settled and still there
  tried     \* history: connections begun, counted from the last good one

ntVars == <<state, port, ports, host, asked, nextId, pending, kind, result,
            silent, attempts, waiting, stopped, spent, tried>>

NTInit ==
  /\ state = "idle" /\ port = NoPort /\ ports = 0
  /\ host \in [Ports -> Hosts]
  /\ asked = [p \in Ports |-> <<>>]
  /\ nextId = 1 /\ pending = {}
  /\ kind = [c \in Calls |-> "none"]
  /\ result = [c \in Calls |-> None]
  /\ silent = FALSE /\ attempts = 0 /\ waiting = FALSE
  /\ stopped = FALSE /\ spent = FALSE /\ tried = 0

-----------------------------------------------------------------------------
\* The liveness probe's flag: set with the ping, cleared when the ping settles.
livenessProbeInFlight == \E c \in pending : kind[c] = "ping"

\* Every user call may be followed by one liveness ping: both need an id.
Room(n) ==
  nextId + n + Cardinality({c \in pending : kind[c] = "user"}) <= MaxCalls + 1

\* pendingCalls after rejectAllPendingCalls, given the results so far.
Rejected(res, open) == [c \in Calls |-> IF c \in open THEN Failed ELSE res[c]]

\* Mutant: markBackoff does not ask for the state.
SchedulesAlways(st, n) == n

\* How often n calls of markBackoff, the first in state st, call scheduleReconnect.
Schedules(st, n) == IF st = "backoff" \/ n = 0 THEN 0 ELSE 1

\* The reactions to the rejection of pending calls that call markBackoff: the
\* catch of connectOnce and that of the liveness probe.
Catches(kinds) == Cardinality({c \in pending : kind[c] \in kinds})

\* markBackoff: closes the port and rejects the calls still open, some of whose
\* reactions call it again.
markBackoff(res, open) ==
  /\ port' = NoPort
  /\ state' = "backoff"
  /\ attempts' = attempts + Schedules(state, 1 + Catches({"probe", "ping"}))
  /\ waiting' = (state # "backoff" \/ waiting)
  /\ result' = Rejected(res, open)
  /\ pending' = {}

Unlost == UNCHANGED <<port, state, attempts, waiting>>

\* callOnPort: the request is numbered, filed and posted on port p.
callOnPort(p, k) ==
  /\ nextId' = nextId + 1
  /\ kind' = [kind EXCEPT ![nextId] = k]
  /\ asked' = [asked EXCEPT ![p] = Append(@, nextId)]

\* callOnPort whose postMessage throws: the call fails and the port is given up.
callOnPortFails(k) ==
  /\ nextId' = nextId + 1
  /\ kind' = [kind EXCEPT ![nextId] = k]
  /\ asked' = asked

-----------------------------------------------------------------------------
\* ensureConnected and waitUntilReady may start a connection now.  A promise
\* that is there is returned, whatever has become of it.
MayConnect ==
  /\ ~stopped /\ ~spent
  /\ \/ state = "idle"
     \/ state = "backoff" /\ ~waiting

\* connectOnce up to the await of the capability probe.
connectOnce ==
  /\ MayConnect /\ Room(1) /\ ports < MaxPorts
  /\ ports' = ports + 1
  /\ port' = ports + 1
  /\ state' = "connecting"
  /\ silent' = FALSE
  /\ tried' = tried + 1
  /\ callOnPort(ports + 1, "probe")
  /\ pending' = pending \cup {nextId}
  /\ UNCHANGED <<host, result, attempts, waiting, stopped, spent>>

\* connectOnce whose connectNative throws, or whose probe cannot be posted: the
\* state is "connecting" when markBackoff is called, by callOnPort and by the catch.
\* In the first case nothing has been awaited: connectPromise is cleared before
\* it is assigned, and stays.
connectOnceFails ==
  /\ MayConnect /\ Room(1) /\ ports < MaxPorts
  /\ tried' = tried + 1
  /\ port' = NoPort
  /\ state' = "backoff"
  /\ waiting' = TRUE
  /\ ports' = ports + 1
  /\ \/ /\ attempts' = attempts + Schedules("connecting", 1)
        /\ spent' = TRUE
        /\ UNCHANGED <<nextId, kind, asked, result, silent>>
     \/ /\ attempts' = attempts + Schedules("connecting", 2)
        /\ silent' = FALSE
        /\ UNCHANGED spent
        /\ callOnPortFails("probe")
        /\ result' = [result EXCEPT ![nextId] = Failed]
  /\ UNCHANGED <<host, pending, stopped>>

\* call(): only on a port that is ready, or being probed.
MayCall ==
  /\ ~stopped /\ port # NoPort
  /\ state = "ready" \/ (state = "connecting" /\ EarlyCalls)

call ==
  /\ MayCall /\ Room(2)
  /\ callOnPort(port, "user")
  /\ pending' = pending \cup {nextId}
  /\ Unlost
  /\ UNCHANGED <<ports, host, result, silent, stopped, spent, tried>>

callFails ==
  /\ MayCall /\ Room(2)
  /\ callOnPortFails("user")
  /\ markBackoff([result EXCEPT ![nextId] = Failed], pending)
  /\ UNCHANGED <<ports, host, silent, stopped, spent, tried>>

-----------------------------------------------------------------------------
\* The continuation of the awaited call c, once it is answered: connectOnce
\* goes on after its probe; the other calls have nothing to do.  A host that
\* announces capabilities echoes ids.
Resolved(c, a) ==
  LET res == [result EXCEPT ![c] = a]
  IN IF kind[c] = "probe"
     THEN \/ markBackoff(res, pending \ {c}) /\ UNCHANGED tried
          \/ /\ state' = IF host[port] = "modern" THEN "ready" ELSE "legacy"
             /\ attempts' = 0 /\ waiting' = FALSE /\ tried' = 1
             /\ result' = res /\ pending' = pending \ {c}
             /\ port' = port
     ELSE result' = res /\ pending' = pending \ {c} /\ Unlost /\ tried' = tried

\* Mutant: an answer without an id goes to the oldest call.
SettlesOldest(p, a) == {c \in pending : \A d \in pending : c <= d}

\* The call an answer settles: the one its id names, or, without an id, the only one.
Settles(p, a) ==
  IF host[p] = "modern" THEN pending \cap {a}
  ELSE IF Cardinality(pending) = 1 THEN pending ELSE {}

\* handleMessage: the host answers its next request on port p.
handleMessage(p) ==
  /\ asked[p] # <<>>
  /\ asked' = [asked EXCEPT ![p] = Tail(@)]
  /\ LET a == Head(asked[p]) IN
       \/ /\ p # port
          /\ UNCHANGED <<result, pending, silent, tried>> /\ Unlost
       \/ /\ p = port
          /\ silent' = FALSE
          /\ \/ Settles(p, a) = {} /\ UNCHANGED <<result, pending, tried>> /\ Unlost
             \/ \E c \in Settles(p, a) : Resolved(c, a)
  /\ UNCHANGED <<ports, host, nextId, kind, stopped, spent>>

\* Mutant: the calls of a lost port are left to their own timeouts.
handleDisconnectKeepsCalls ==
  /\ port # NoPort
  /\ port' = NoPort
  /\ state' = "backoff"
  /\ attempts' = attempts + 1
  /\ waiting' = TRUE
  /\ UNCHANGED <<result, pending>>
  /\ UNCHANGED <<ports, host, asked, nextId, kind, silent, stopped, spent, tried>>

\* handleDisconnect of the current port; that of an older one returns at once.
handleDisconnect ==
  /\ port # NoPort
  /\ port' = NoPort
  /\ state' = "backoff"
  /\ attempts' = attempts + 1 + Schedules("backoff", Catches({"probe", "ping"}))
  /\ waiting' = TRUE
  /\ result' = Rejected(result, pending)
  /\ pending' = {}
  /\ UNCHANGED <<ports, host, asked, nextId, kind, silent, stopped, spent, tried>>

-----------------------------------------------------------------------------
\* The timer of a user call.  The call fails; after a long silence a liveness
\* ping is sent, which may fail to be posted.
TimeoutUser(c) ==
  /\ kind[c] = "user"
  /\ LET res == [result EXCEPT ![c] = Failed]
         probes == state = "ready" /\ ~livenessProbeInFlight /\ silent
     IN \/ /\ ~probes
           /\ result' = res /\ pending' = pending \ {c}
           /\ Unlost /\ UNCHANGED <<nextId, kind, asked>>
        \/ /\ probes
           /\ callOnPort(port, "ping")
           /\ result' = res /\ pending' = (pending \ {c}) \cup {nextId}
           /\ Unlost
        \/ /\ probes
           /\ callOnPortFails("ping")
           /\ markBackoff([res EXCEPT ![nextId] = Failed], pending \ {c})

\* Mutant: the expired liveness ping is only forgotten.
TimeoutInternalForgets(c) ==
  /\ kind[c] \in {"probe", "ping"}
  /\ UNCHANGED <<result, pending, nextId, kind, asked>> /\ Unlost

\* The timer of the capability probe or of a liveness ping: the port is given up.
TimeoutInternal(c) ==
  /\ kind[c] \in {"probe", "ping"}
  /\ markBackoff([result EXCEPT ![c] = Failed], pending \ {c})
  /\ UNCHANGED <<nextId, kind, asked>>

Timeout(c) ==
  /\ c \in pending
  /\ TimeoutUser(c) \/ TimeoutInternal(c)
  /\ UNCHANGED <<ports, host, silent, stopped, spent, tried>>

\* The clock passes lastHostMessageAt + livenessStaleMs, or nextReconnectAt.
HostSilent ==
  /\ port # NoPort /\ ~silent
  /\ silent' = TRUE
  /\ UNCHANGED <<state, port, ports, host, asked, nextId, pending, kind, result,
                 attempts, waiting, stopped, spent, tried>>

BackoffElapses ==
  /\ waiting
  /\ waiting' = FALSE
  /\ UNCHANGED <<state, port, ports, host, asked, nextId, pending, kind, result,
                 silent, attempts, stopped, spent, tried>>

\* markUnhealthy, by a caller that saw a broken exchange on an open port.
markUnhealthy ==
  /\ port # NoPort
  /\ markBackoff(result, pending)
  /\ UNCHANGED <<ports, host, asked, nextId, kind, silent, stopped, spent, tried>>

\* shutdown.  A connectOnce in flight sees its probe rejected and goes on to
\* markBackoff: the transport is then stopped, and in backoff.
Stop ==
  /\ stopped' = TRUE
  /\ result' = Rejected(result, pending)
  /\ pending' = {}
  /\ state' = IF Catches({"probe"}) > 0 THEN "backoff" ELSE "idle"
  /\ attempts' = attempts + Schedules("idle", Catches({"probe"}))
  /\ waiting' = (waiting \/ Catches({"probe"}) > 0)
  /\ UNCHANGED <<ports, host, asked, nextId, kind, silent, spent, tried>>

shutdown == ~stopped /\ Stop /\ port' = NoPort

-----------------------------------------------------------------------------
NTNext ==
  \/ connectOnce \/ connectOnceFails
  \/ call \/ callFails
  \/ \E p \in Ports : handleMessage(p)
  \/ handleDisconnect
  \/ \E c \in Calls : Timeout(c)
  \/ HostSilent \/ BackoffElapses
  \/ markUnhealthy \/ shutdown

NTFairness == \A c \in Calls : WF_ntVars(Timeout(c))

NTSpec == NTInit /\ [][NTNext]_ntVars
NTFairSpec == NTSpec /\ NTFairness

-----------------------------------------------------------------------------
(* Correctness properties. *)

\* Types; a port is open exactly while the transport connects or serves.
NTTypeOK ==
  /\ state \in {"idle", "connecting", "ready", "legacy", "backoff"}
  /\ port \in Ports \cup {NoPort} /\ ports \in 0 .. MaxPorts
  /\ host \in [Ports -> Hosts]
  /\ asked \in [Ports -> Seq(Calls)]
  /\ nextId \in 1 .. MaxCalls + 1
  /\ pending \subseteq Calls
  /\ kind \in [Calls -> {"none", "probe", "ping", "user"}]
  /\ result \in [Calls -> Calls \cup {None, Failed}]
  /\ silent \in BOOLEAN /\ waiting \in BOOLEAN /\ stopped \in BOOLEAN
  /\ attempts \in Nat /\ tried \in Nat
  /\ (port # NoPort) <=> (state \in {"connecting", "ready", "legacy"})

\* The calls whose promise is open are the ones filed, and a call is filed only
\* while a port is open: no timer of a lost connection can reach the next one
\* (handleDisconnect, markBackoff and shutdown all reject what is pending).
OpenCallsArePending ==
  /\ pending = {c \in Calls : c < nextId /\ result[c] = None}
  /\ pending # {} => port # NoPort

\* A promise left behind settled: no port is open then, or ever will be.
SpentIsClosed == spent \in BOOLEAN /\ (spent => port = NoPort)

\* Port, state and calls agree: whichever of disconnect, timeout, failed post
\* and shutdown ends a connection, it leaves no state of serving and no call
\* behind.
TransportInv == NTTypeOK /\ OpenCallsArePending /\ SpentIsClosed

\* The backoff grows by one for every connection that was lost or never made,
\* although a loss is seen by several reactions: the disconnect listener, the
\* rejected probe, the rejected ping and the failed post all call markBackoff.
BackoffOncePerConnection == state = "backoff" => attempts = tried

\* Every call is settled: a timer guards it, or the loss of its port rejects it.
EveryCallSettles ==
  \A c \in Calls : (c \in pending) ~> (result[c] # None)

\* A transport that is not shut down can connect again once its backoff is over.
\* TLC refutes it: a connectNative that throws leaves its settled promise behind,
\* which every later attempt returns.
BackoffEnds == state = "backoff" /\ ~waiting /\ ~stopped => MayConnect

\* The transport implements the promise of RequestReply.
Promise == INSTANCE RequestReply WITH issued <- {c \in Calls : c < nextId},
                                      answer <- result
ImplementsRequestReply == Promise!RequestReply

=============================================================================
