------------------------ MODULE RuntimeDependencies -------------------------
(***************************************************************************)
(* How the extension holds a page's cross-site request until the native    *)
(* host has opened the dependency locally: the hold in                     *)
(* background-listeners.ts, the allow flow of native-messaging-client.ts   *)
(* (cache, deduplication, batches over the port or over one-shot hosts)    *)
(* and the poller of runtime-dependency-prober.ts.                         *)
(*                                                                         *)
(* The persistent port is seen through what the client asks of it: its     *)
(* state, and calls that are answered or fail (module NativeTransport).    *)
(* One step is one macrotask with its promise reactions.                   *)
(***************************************************************************)
EXTENDS Naturals, Sequences, FiniteSets

CONSTANTS
  Inputs,        \* [anchorHost, dependencyHost, requestType]
  Requests,      \* web requests
  Plans,         \* the inputs they may ask for
  BatchMax       \* LOCAL_RUNTIME_DEPENDENCY_BATCH_MAX_ENTRIES

ASSUME DependencyAssumption ==
  /\ BatchMax \in Nat \ {0}
  /\ Plans \subseteq [Requests -> Inputs]
  /\ IsFiniteSet(Inputs)

CacheKey(i) == <<i.anchorHost, i.dependencyHost>>
CacheKeys == {CacheKey(i) : i \in Inputs}
DependencyHosts == {i.dependencyHost : i \in Inputs}
Elems(s) == {s[n] : n \in 1 .. Len(s)}
Orders(I) == {s \in [1 .. Cardinality(I) -> I] : Elems(s) = I}

VARIABLES
  hold,       \* per web request: "new", "held", how it was released, or "cancelled"
  wants,      \* per web request: its input
  awaits,     \* per web request: the operation its promise belongs to, if any
  cache,      \* runtimeDependencyCache: "none", "fresh" or "stale" per cache key
  dedupe,     \* queuedRuntimeDependencyDedupeCache
  open,       \* pendingRuntimeDependencyByKey
  queue,      \* pendingRuntimeDependencies
  timer,      \* runtimeDependencyBatchTimer
  flights,    \* batches between two awaits of flushRuntimeDependencyBatch
  confirming, \* pendingRuntimeDependencyConfirmationByKey
  entries,    \* the prober's entries, in their order
  aged,       \* those older than maxEntryAgeMs
  poll,       \* the prober's check in flight: [ins, over], over = "none" if there is none
  link,       \* the port: "down", "connecting", "ready" or "old" (no capabilities)
  accepted,   \* hosts the native host was asked to open
  applied,    \* hosts it has opened
  announced,  \* inputs onRuntimeDependencyApplied was told of
  threw       \* history: the last check failed

clientVars == <<cache, dedupe, open, queue, timer, flights, confirming>>
proberVars == <<entries, aged, poll, threw>>
hostVars == <<accepted, applied>>
rdVars == <<hold, wants, awaits, clientVars, proberVars, link, hostVars, announced>>

NoPoll == [ins |-> <<>>, over |-> "none"]
Readiness == {"ready", "pending", "terminal"}

\* Dependencies may have been opened before, and their entry grown stale.
RDInit ==
  /\ hold = [r \in Requests |-> "new"]
  /\ wants \in Plans
  /\ awaits = [r \in Requests |-> "nothing"]
  /\ cache \in [CacheKeys -> {"none", "stale"}]
  /\ dedupe = {} /\ open = {} /\ queue = {} /\ timer = FALSE
  /\ flights = {} /\ confirming = {}
  /\ entries = <<>> /\ aged = {} /\ poll = NoPoll /\ threw = FALSE
  /\ link = "down"
  /\ applied = {k[2] : k \in {c \in CacheKeys : cache[c] = "stale"}}
  /\ accepted = applied /\ announced = {}

-----------------------------------------------------------------------------
(* The hold.                                                               *)

\* The web requests that wait for the promise of operation op on inputs I.
Waiting(op, I) == {r \in Requests : awaits[r] = op /\ wants[r] \in I}

\* The promise of input i resolves with a readiness, or rejects ("error"): a
\* pending answer leaves the request held until its budget.
Woken(res) ==
  /\ hold' = [r \in Requests |->
       IF r \in Waiting("request", DOMAIN res) /\ hold[r] = "held" /\ res[wants[r]] # "pending"
       THEN res[wants[r]] ELSE hold[r]]
  /\ awaits' = [r \in Requests |->
       IF r \in Waiting("request", DOMAIN res) THEN "nothing" ELSE awaits[r]]

\* The soft timeout: cancelled where an auto-reload can repair the page.
Budget(r) ==
  /\ hold[r] = "held"
  /\ hold' = [hold EXCEPT ![r] = IF link = "ready" THEN "cancelled" ELSE "soft"]
  /\ UNCHANGED <<wants, awaits, clientVars, proberVars, link, hostVars, announced>>

-----------------------------------------------------------------------------
(* allowLocalRuntimeDependency.                                            *)

\* New operations for the inputs I: pushed one by one, a full queue is flushed.
Push(I) ==
  /\ open' = open \cup I
  /\ IF Cardinality(queue \cup I) < BatchMax
     THEN /\ queue' = queue \cup I
          /\ timer' = (timer \/ I # {})
          /\ flights' = flights
     ELSE \E batch \in SUBSET (queue \cup I) :
            /\ queue \subseteq batch /\ Cardinality(batch) = BatchMax
            /\ flights' = flights \cup {[ins |-> batch, at |-> "deciding"]}
            /\ queue' = (queue \cup I) \ batch
            /\ timer' = (queue' # {})

\* What an input that is neither cached nor confirmed leads to: an operation in
\* flight is joined, a queued one answers "pending", otherwise one is made.
Joined(R) ==
  [r \in Requests |-> IF r \notin R THEN awaits[r]
                      ELSE IF wants[r] \notin open /\ wants[r] \in dedupe THEN "nothing"
                      ELSE "request"]
Missing(R) == {wants[r] : r \in R} \ (open \cup dedupe)

allowLocalRuntimeDependency(r) ==
  LET k == CacheKey(wants[r]) IN
  /\ hold[r] = "new"
  /\ \/ /\ cache[k] = "fresh"
        /\ hold' = [hold EXCEPT ![r] = "ready"]
        /\ UNCHANGED <<awaits, open, queue, timer, flights, confirming>>
     \/ /\ cache[k] = "stale"
        /\ hold' = [hold EXCEPT ![r] = "held"]
        /\ confirming' = confirming \cup {k}
        /\ awaits' = [awaits EXCEPT ![r] = "confirmation"]
        /\ UNCHANGED <<open, queue, timer, flights>>
     \/ /\ cache[k] = "none"
        /\ hold' = [hold EXCEPT ![r] = "held"]
        /\ awaits' = Joined({r})
        /\ Push(Missing({r}))
        /\ UNCHANGED confirming
  /\ UNCHANGED <<wants, cache, dedupe, proberVars, link, hostVars, announced>>

\* confirmCachedRuntimeDependency's answer: ready releases the requests that
\* wait for it, anything else drops the entry and they go on as uncached.
confirmCachedRuntimeDependency(k) ==
  LET R == Waiting("confirmation", {i \in Inputs : CacheKey(i) = k}) IN
  /\ k \in confirming
  /\ confirming' = confirming \ {k}
  /\ \/ /\ k[2] \in applied
        /\ cache' = [cache EXCEPT ![k] = "fresh"]
        /\ hold' = [r \in Requests |-> IF r \in R /\ hold[r] = "held" THEN "ready" ELSE hold[r]]
        /\ awaits' = [r \in Requests |-> IF r \in R THEN "nothing" ELSE awaits[r]]
        /\ UNCHANGED <<open, queue, timer, flights>>
     \/ /\ cache' = [cache EXCEPT ![k] = "none"]
        /\ awaits' = Joined(R)
        /\ Push(Missing(R))
        /\ UNCHANGED hold
  /\ UNCHANGED <<wants, dedupe, proberVars, link, hostVars, announced>>

\* scheduleRuntimeDependencyFlush's timer.
FlushTimer ==
  /\ timer
  /\ timer' = FALSE
  /\ queue' = {}
  /\ flights' = IF queue = {} THEN flights
                ELSE flights \cup {[ins |-> queue, at |-> "deciding"]}
  /\ UNCHANGED <<hold, wants, awaits, cache, dedupe, open, confirming, proberVars, link,
                 hostVars, announced>>

-----------------------------------------------------------------------------
(* Answers.                                                                *)

\* What the native host may say of an input: ready only once it is open.
MaySay(i, v) ==
  /\ v \in Readiness
  /\ v = "ready" => i.dependencyHost \in applied
Answers(I) == {res \in [I -> Readiness] : \A i \in I : MaySay(i, res[i])}

\* Mutant: an acknowledgement counts as readiness.
CacheReadyQueued(res) ==
  cache' = [k \in CacheKeys |->
    IF \E i \in DOMAIN res : CacheKey(i) = k /\ res[i] # "terminal" THEN "fresh" ELSE cache[k]]

\* cacheReadyRuntimeDependency, cacheRuntimeDependencySuccess.
CacheReady(res) ==
  cache' = [k \in CacheKeys |->
    IF \E i \in DOMAIN res : CacheKey(i) = k /\ res[i] = "ready" THEN "fresh" ELSE cache[k]]
CacheAnswers(res) ==
  /\ CacheReady(res)
  /\ dedupe' = dedupe \cup {i \in DOMAIN res : res[i] = "pending"}

\* settleRuntimeDependencyRequest and rejectRuntimeDependencyRequest.
Settle(res) == open' = open \ DOMAIN res /\ Woken(res)

\* Mutant: only the first request of a batch is registered.
RegisterFirst(I) ==
  \E i \in I : entries' = Append(entries, i)

\* registerBatchWithProber: an input the prober has already is not added.
Register(I) ==
  \E s \in Orders(I \ Elems(entries)) : entries' = entries \o s

-----------------------------------------------------------------------------
(* flushRuntimeDependencyBatch, from await to await.                       *)

Moved(f, at) == flights' = (flights \ {f}) \cup {[f EXCEPT !.at = at]}
Left(f) == flights' = flights \ {f}

\* After resolvePersistentFlowDecision.
Decide(f) ==
  /\ f.at = "deciding"
  /\ \/ link = "ready" /\ Moved(f, "enqueueing") /\ UNCHANGED entries
     \/ link = "connecting" /\ Left(f) /\ Register(f.ins)
     \/ link \in {"down", "old"} /\ Moved(f, "oneshot") /\ UNCHANGED entries
  /\ UNCHANGED <<hold, wants, awaits, cache, dedupe, open, queue, timer, confirming,
                 aged, poll, threw, link, hostVars, announced>>

\* The host answers the enqueue: what is not pending is settled.
EnqueueAnswered(f) ==
  /\ f.at = "enqueueing" /\ link = "ready"
  /\ Left(f)
  /\ \E res \in Answers(f.ins) :
       LET done == {i \in f.ins : res[i] # "pending"}
       IN /\ CacheAnswers(res)
          /\ Settle([i \in done |-> res[i]])
          /\ Register(f.ins \ done)
  /\ accepted' = accepted \cup {i.dependencyHost : i \in f.ins}
  /\ UNCHANGED <<wants, queue, timer, confirming, aged, poll, threw, link, applied, announced>>

\* The host does not know the enqueue, the call timed out, or the port was lost;
\* a host may have accepted what it did not answer.
EnqueueFailed(f) ==
  /\ f.at = "enqueueing"
  /\ \/ link = "ready" /\ Moved(f, "oneshot") /\ UNCHANGED <<entries, accepted>>
     \/ /\ accepted' \in {accepted, accepted \cup {i.dependencyHost : i \in f.ins}}
        /\ IF link \in {"ready", "connecting"}
           THEN Left(f) /\ Register(f.ins)
           ELSE Moved(f, "oneshot") /\ UNCHANGED entries
  /\ UNCHANGED <<hold, wants, awaits, cache, dedupe, open, queue, timer, confirming,
                 aged, poll, threw, link, applied, announced>>

\* A one-shot host answers the batch, or single by single if it knows no batches.
OneShotAnswered(f, I) ==
  /\ I # {} /\ I \subseteq f.ins
  /\ f.at = "oneshot" => I = f.ins
  /\ f.at = "single" => Cardinality(I) = 1
  /\ \E res \in Answers(I) : CacheAnswers(res) /\ Settle(res)
  /\ accepted' = accepted \cup {i.dependencyHost : i \in I}

\* It fails: the requests are rejected.
OneShotFailed(f, I) ==
  /\ I # {} /\ I \subseteq f.ins
  /\ f.at = "oneshot" => I = f.ins
  /\ f.at = "single" => Cardinality(I) = 1
  /\ Settle([i \in I |-> "error"])
  /\ UNCHANGED <<cache, dedupe, accepted>>

OneShot(f) ==
  /\ f.at \in {"oneshot", "single"}
  /\ \/ /\ f.at = "oneshot" /\ Moved(f, "single")
        /\ UNCHANGED <<hold, awaits, cache, dedupe, open, accepted>>
     \/ \E I \in SUBSET f.ins :
          /\ flights' = (flights \ {f}) \cup
                          (IF I = f.ins THEN {} ELSE {[f EXCEPT !.ins = @ \ I]})
          /\ OneShotAnswered(f, I) \/ OneShotFailed(f, I)
  /\ UNCHANGED <<wants, queue, timer, confirming, proberVars, link, applied, announced>>

flushRuntimeDependencyBatch(f) ==
  Decide(f) \/ EnqueueAnswered(f) \/ EnqueueFailed(f) \/ OneShot(f)

-----------------------------------------------------------------------------
(* The prober.                                                             *)

\* The poll timer runs exactly while there are entries and no check is in flight.
\* The check goes over the port, over one-shot hosts, or, while the port is
\* still being probed, says "pending" by itself.
PollTimer ==
  /\ entries # <<>> /\ poll = NoPoll
  /\ \E over \in IF link = "ready" THEN {"port"}
                 ELSE IF link = "connecting" THEN {"port", "hosts", "itself"} ELSE {"hosts"} :
       poll' = [ins |-> SubSeq(entries, 1,
                               IF Len(entries) < BatchMax THEN Len(entries) ELSE BatchMax),
                over |-> over]
  /\ UNCHANGED <<hold, wants, awaits, clientVars, entries, aged, threw, link, hostVars, announced>>

\* Mutant: settleAgedEntries is not called.
SettledUnaged(res) ==
  [i \in {j \in DOMAIN res : res[j] # "pending"} |-> res[i]]

\* The entries a check settles: those with an answer that is not pending, and
\* the aged ones, as errors.
Settled(res) ==
  [i \in {j \in DOMAIN res : res[j] # "pending"} \cup aged |->
     IF i \in DOMAIN res /\ res[i] # "pending" THEN res[i] ELSE "terminal"]

\* Entries are deleted from a Map: the others keep their order.
Unregister(I) ==
  \E s \in Orders(Elems(entries) \ I) :
    /\ \A m, n \in 1 .. Len(s) : m < n =>
         \E p, q \in 1 .. Len(entries) : p < q /\ entries[p] = s[m] /\ entries[q] = s[n]
    /\ entries' = s

\* A check that finds no answer for an input leaves it alone, like a pending one.
PollAnswered ==
  /\ poll # NoPoll
  /\ poll' = NoPoll
  /\ \E res \in Answers(Elems(poll.ins)) :
       /\ poll.over = "itself" => \A i \in DOMAIN res : res[i] = "pending"
       /\ LET out == Settled(res)
              ready == {i \in DOMAIN out : out[i] = "ready"}
          IN /\ Settle(out)
             /\ CacheReady([i \in ready |-> "ready"])
             /\ announced' = announced \cup ready
             /\ Unregister(DOMAIN out)
             /\ aged' = aged \ DOMAIN out
  /\ threw' = FALSE
  /\ UNCHANGED <<wants, dedupe, queue, timer, flights, confirming, link, hostVars>>

\* A check over the port that times out or loses its port, again and again if
\* need be: the catch polls on, and settles nothing that is aged.
PollThrows ==
  /\ poll.over = "port"
  /\ poll' = NoPoll
  /\ threw' = TRUE
  /\ UNCHANGED <<hold, wants, awaits, clientVars, entries, aged, link, hostVars, announced>>

-----------------------------------------------------------------------------
(* Time, the port and the native host.                                     *)

Age(i) ==
  /\ i \in Elems(entries) \ aged
  /\ aged' = aged \cup {i}
  /\ UNCHANGED <<hold, wants, awaits, clientVars, entries, poll, threw, link, hostVars, announced>>

CacheAges(k) ==
  /\ cache[k] # "none"
  /\ cache' = [cache EXCEPT ![k] = IF @ = "fresh" THEN "stale" ELSE "none"]
  /\ UNCHANGED <<hold, wants, awaits, dedupe, open, queue, timer, flights, confirming, proberVars,
                 link, hostVars, announced>>

DedupeEnds(i) ==
  /\ i \in dedupe
  /\ dedupe' = dedupe \ {i}
  /\ UNCHANGED <<hold, wants, awaits, cache, open, queue, timer, flights, confirming, proberVars,
                 link, hostVars, announced>>

LinkChanges ==
  /\ \/ link = "down" /\ link' = "connecting"
     \/ link = "connecting" /\ link' \in {"ready", "old", "down"}
     \/ link \in {"ready", "old"} /\ link' = "down"
  /\ UNCHANGED <<hold, wants, awaits, clientVars, proberVars, hostVars, announced>>

\* The host opens a dependency it accepted.
HostApplies(d) ==
  /\ d \in accepted /\ d \notin applied
  /\ applied' = applied \cup {d}
  /\ UNCHANGED <<hold, wants, awaits, clientVars, proberVars, link, accepted, announced>>

RDNext ==
  \/ \E r \in Requests : allowLocalRuntimeDependency(r) \/ Budget(r)
  \/ \E k \in CacheKeys : confirmCachedRuntimeDependency(k) \/ CacheAges(k)
  \/ FlushTimer
  \/ \E f \in flights : flushRuntimeDependencyBatch(f)
  \/ PollTimer \/ PollAnswered \/ PollThrows
  \/ \E i \in Inputs : Age(i) \/ DedupeEnds(i)
  \/ LinkChanges
  \/ \E d \in DependencyHosts : HostApplies(d)

\* Timers fire, messages are answered or fail, entries grow old, budgets end.
Flights == [ins : SUBSET Inputs, at : {"deciding", "enqueueing", "oneshot", "single"}]
RDFairness ==
  /\ WF_rdVars(FlushTimer)
  /\ WF_rdVars(PollTimer \/ PollAnswered \/ PollThrows)
  /\ \A i \in Inputs :
       /\ WF_rdVars(\E f \in flights : i \in f.ins /\ flushRuntimeDependencyBatch(f))
       /\ WF_rdVars(Age(i))
  /\ \A r \in Requests : WF_rdVars(Budget(r))

RDSpec == RDInit /\ [][RDNext]_rdVars
RDFairSpec == RDSpec /\ RDFairness

-----------------------------------------------------------------------------
(* Correctness properties. *)

\* Types; only what the prober still has can be too old for it.
RDTypeOK ==
  /\ hold \in [Requests -> {"new", "held", "ready", "terminal", "error", "soft", "cancelled"}]
  /\ wants \in [Requests -> Inputs]
  /\ awaits \in [Requests -> {"nothing", "request", "confirmation"}]
  /\ cache \in [CacheKeys -> {"none", "fresh", "stale"}]
  /\ dedupe \subseteq Inputs /\ open \subseteq Inputs /\ queue \subseteq Inputs
  /\ timer \in BOOLEAN /\ flights \subseteq Flights /\ confirming \subseteq CacheKeys
  /\ Elems(entries) \subseteq Inputs /\ aged \subseteq Elems(entries)
  /\ poll.over \in {"none", "port", "hosts", "itself"}
  /\ link \in {"down", "connecting", "ready", "old"}
  /\ accepted \subseteq DependencyHosts /\ applied \subseteq DependencyHosts
  /\ announced \subseteq Inputs
  /\ threw \in BOOLEAN

\* Every open promise is carried by exactly one of the queue, a batch in flight
\* and the prober, so that something is left that can settle it; a later request
\* for the same input would otherwise join a promise that never settles.
NothingIsLost ==
  /\ open = queue \cup (UNION {f.ins : f \in flights}) \cup Elems(entries)
  /\ queue \cap UNION {f.ins : f \in flights} = {}
  /\ Elems(entries) \cap (queue \cup UNION {f.ins : f \in flights}) = {}
  /\ \A f, g \in flights : f # g => f.ins \cap g.ins = {}
  /\ \A r \in Requests : awaits[r] = "request" => wants[r] \in open

\* Every open promise is carried by one of queue, flight and prober, and these
\* hold nothing but inputs with an open promise.
CarriedInv == RDTypeOK /\ NothingIsLost

\* A request is released as ready only when the native host has said that its
\* dependency is open, along every path: cache, confirmation, answers, prober.
ReadyWasProven ==
  \A r \in Requests : hold[r] = "ready" => wants[r].dependencyHost \in applied

\* "Pending entries older than this are dropped instead of polled forever"
\* (runtime-dependency-protocol.ts:114).  They are unless every check fails from
\* some time on, because only a check that does not throw settles what is aged;
\* a request is released even then ("The caller's budget still bounds the
\* request", runtime-dependency-prober.ts:124).
RequestsSettle ==
  /\ []<>~threw => \A i \in Inputs : (i \in open) ~> (i \notin open)
  /\ \A r \in Requests : (hold[r] = "held") ~> (hold[r] # "held")

\* The comment without the condition; TLC refutes it.
AgedAreDropped == \A i \in Inputs : (i \in open) ~> (i \notin open)

\* "Subscribes to pending dependencies becoming ready after a cancellation":
\* once the host has said that a dependency is ready, the pages whose request
\* was cancelled at its budget while it waited for it have been told.  TLC
\* refutes it: an enqueue that is answered with readiness tells nobody.
LateReadyIsAnnounced ==
  [][\A r \in Requests :
       /\ hold[r] = "cancelled" /\ awaits[r] = "request"
       /\ awaits'[r] = "nothing" /\ cache'[CacheKey(wants[r])] = "fresh"
       => wants[r] \in announced']_rdVars

=============================================================================
