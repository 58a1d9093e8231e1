--------------------------- MODULE ApiServerProofs ---------------------------
(***************************************************************************)
(* Proofs about parts of the API server.  The schedule boundary ticker: a  *)
(* process that keeps a client holds the advisory lock with it, and ticks  *)
(* only while it does.  The domain-event collector: a command's events are *)
(* dispatched if it commits, none is lost and none is redundant.           *)
(***************************************************************************)
EXTENDS ScheduleTicker, DomainEvents, FiniteSetTheorems, TLAPS

\* The places of an asynchronous start, and what a session may be doing.
StartAt == {"idle", "connect", "lock", "firstTick"}
StartRecs == [at : StartAt, conn : Sessions \cup {None}]
Doings == {"pool", "out", "lost", "broken"}

\* A start that has a connection has one of its own process's pool.
ConnOf(p, a) == start[p][a].conn
AtLock(p, a) == start[p][a].at = "lock"
AtTick(p, a) == start[p][a].at = "firstTick"

\* The types that the next step relies on.
TickerTypes ==
  /\ TickerTypeOK
  /\ faults \in [Procs -> Nat]
  /\ \A p \in Procs, a \in Starts :
       IF AtLock(p, a) \/ AtTick(p, a) THEN ConnOf(p, a) \in Sessions /\ ConnOf(p, a)[1] = p
       ELSE ConnOf(p, a) = None
  /\ holder # None => holds > 0

\* A connection is in one hand: in that of the one start that asks for the
\* lock, in the process's `client`, or in a stop() that awaits the unlock.
\* A connection in somebody's hand is not in the pool.
OneHand ==
  /\ \A p \in Procs, a \in Starts : AtLock(p, a) =>
       /\ session[ConnOf(p, a)] # "pool"
       /\ ConnOf(p, a) # client[p]
       /\ ConnOf(p, a) \notin stopping
       /\ \A b \in Starts : AtLock(p, b) /\ ConnOf(p, b) = ConnOf(p, a) => b = a
  /\ \A s \in stopping : session[s] # "pool"

\* The client is a connection of the process's own pool that works, or is not
\* known to be lost, carries the error listener, and is not being given up.
ClientInHand ==
  \A p \in Procs : client[p] # None =>
    /\ client[p][1] = p
    /\ session[client[p]] \in {"out", "lost"}
    /\ client[p] \in listening
    /\ client[p] \notin stopping

\* In a process whose starts never overtook a stop(): one start is in its first
\* tick, with the client and before any ticking timer is set; the process has
\* one ticking timer, and knows its handle.
OneTicker ==
  \A p \in Procs \ raced :
    /\ \A a \in Starts : AtTick(p, a) =>
         /\ client[p] = ConnOf(p, a)
         /\ \A b \in Starts : AtTick(p, b) => b = a
         /\ \A t \in timers[p] : t.kind = "retry"
    /\ \A t \in timers[p] : t.kind # "retry" =>
         /\ handle[p][t.kind] = t.id
         /\ \A u \in timers[p] : u.kind # "retry" => u = t

\* The inductive invariant.
TickInd ==
  TickerTypes /\ OneHand /\ ClientInHand /\ OneTicker /\ LeaderHoldsLock /\ TicksOnlyAsLeader

-----------------------------------------------------------------------------
\* What the constants are: None is no connection and no number.
LEMMA Constants ==
  /\ None \notin Sessions /\ None \notin Starts /\ None \notin Ids
  /\ MaxFaults \in [Procs -> Nat]
  /\ \A s \in Sessions : s[1] \in Procs
BY TickerAssumption DEF Sessions, Starts, Ids

\* The types of the variables.
LEMMA Types ==
  ASSUME TickInd
  PROVE  /\ client \in [Procs -> Sessions \cup {None}]
         /\ startPromise \in [Procs -> Starts \cup {None}]
         /\ start \in [Procs -> [Starts -> StartRecs]]
         /\ timers \in [Procs -> SUBSET Timer]
         /\ handle \in [Procs -> [Kinds -> Ids \cup {None}]]
         /\ stopping \subseteq Sessions
         /\ listening \subseteq Sessions
         /\ session \in [Sessions -> Doings]
         /\ holder \in Sessions \cup {None}
         /\ holds \in Nat
         /\ raced \subseteq Procs /\ candidates \subseteq Procs
         /\ faults \in [Procs -> Nat]
         /\ \A p \in Procs : faults[p] \in 0 .. MaxFaults[p]
         /\ \A p \in Procs, a \in Starts :
              IF AtLock(p, a) \/ AtTick(p, a) THEN ConnOf(p, a) \in Sessions /\ ConnOf(p, a)[1] = p
              ELSE ConnOf(p, a) = None
         /\ holder # None => holds > 0
BY DEF TickInd, TickerTypes, TickerTypeOK, StartRecs, StartAt, Doings

\* The invariant at the start.
LEMMA TickInitial == TickerInit => TickInd
<1> SUFFICES ASSUME TickerInit PROVE TickInd
  OBVIOUS
<1> USE Constants DEF TickerInit
<1>1. start \in [Procs -> [Starts -> StartRecs]]
  BY DEF StartRecs, StartAt, Idle
<1>2. \A p \in Procs, a \in Starts : ~AtLock(p, a) /\ ~AtTick(p, a) /\ ConnOf(p, a) = None
  BY DEF AtLock, AtTick, ConnOf, Idle
<1>3. \A p \in Procs : faults[p] \in 0 .. MaxFaults[p]
  OBVIOUS
<1>4. TickerTypes
  BY <1>1, <1>2, <1>3 DEF TickerTypes, TickerTypeOK, StartRecs, StartAt, Doings
<1>5. OneHand /\ ClientInHand /\ OneTicker /\ LeaderHoldsLock /\ TicksOnlyAsLeader
  BY <1>2 DEF OneHand, ClientInHand, OneTicker, LeaderHoldsLock, TicksOnlyAsLeader
<1> QED
  BY <1>4, <1>5 DEF TickInd

-----------------------------------------------------------------------------
(***************************************************************************)
(* How the nested functions change.                                        *)
(***************************************************************************)

\* Start a of process p becomes x and no other start changes.
StartBecomes(p, a, x) ==
  /\ start' \in [Procs -> [Starts -> StartRecs]]
  /\ \A q \in Procs, b \in Starts :
       start'[q][b] = IF q = p /\ b = a THEN x ELSE start[q][b]

\* Assigning one start.
LEMMA StartSet ==
  ASSUME start \in [Procs -> [Starts -> StartRecs]],
         NEW p \in Procs, NEW a \in Starts, NEW x \in StartRecs,
         start' = [start EXCEPT ![p][a] = x]
  PROVE  StartBecomes(p, a, x)
<1> HIDE DEF StartRecs
<1>1. start' = [start EXCEPT ![p] = [start[p] EXCEPT ![a] = x]]
  OBVIOUS
<1>2. start[p] \in [Starts -> StartRecs] /\ [start[p] EXCEPT ![a] = x] \in [Starts -> StartRecs]
  OBVIOUS
<1>3. start' \in [Procs -> [Starts -> StartRecs]]
  BY <1>1, <1>2
<1>4. ASSUME NEW q \in Procs, NEW b \in Starts
      PROVE  start'[q][b] = IF q = p /\ b = a THEN x ELSE start[q][b]
  BY <1>1, <1>2
<1> QED
  BY <1>3, <1>4 DEF StartBecomes

\* An idle start is one.
LEMMA IdleIsStart ==
  /\ Idle \in StartRecs /\ Idle.at = "idle"
  /\ [at |-> "connect", conn |-> None] \in StartRecs
BY DEF Idle, StartRecs, StartAt

\* A timer of that kind and number is armed and its handle kept.
TimerArmed(p, kind, i) ==
  /\ timers' \in [Procs -> SUBSET Timer]
  /\ handle' \in [Procs -> [Kinds -> Ids \cup {None}]]
  /\ \A q \in Procs : q # p => timers'[q] = timers[q] /\ handle'[q] = handle[q]
  /\ timers'[p] = timers[p] \cup {[kind |-> kind, id |-> i]}
  /\ \A k \in Kinds : handle'[p][k] = IF k = kind THEN i ELSE handle[p][k]

\* Setting a timer.
LEMMA TimerSet ==
  ASSUME TickInd, NEW p \in Procs, NEW kind \in Kinds, NEW i \in Ids, SetTimer(p, kind, i)
  PROVE  TimerArmed(p, kind, i)
<1>1. [kind |-> kind, id |-> i] \in Timer
  BY DEF Timer
<1>2. timers' = [timers EXCEPT ![p] = timers[p] \cup {[kind |-> kind, id |-> i]}]
  BY DEF SetTimer
<1>3. handle' = [handle EXCEPT ![p] = [handle[p] EXCEPT ![kind] = i]]
  BY DEF SetTimer
<1>4. handle[p] \in [Kinds -> Ids \cup {None}] /\ timers[p] \in SUBSET Timer
  BY Types
<1>5. timers' \in [Procs -> SUBSET Timer]
  BY <1>1, <1>2, <1>4, Types
<1>6. handle' \in [Procs -> [Kinds -> Ids \cup {None}]]
  BY <1>3, <1>4, Types
<1> HIDE DEF Timer, Kinds
<1> QED
  BY <1>2, <1>3, <1>4, <1>5, <1>6, Types DEF TimerArmed

-----------------------------------------------------------------------------
(***************************************************************************)
(* The steps.                                                              *)
(***************************************************************************)

\* No start gets a connection or the lock.
NoStartAdvances ==
  /\ start' \in [Procs -> [Starts -> StartRecs]]
  /\ \A p \in Procs, a \in Starts :
       /\ AtLock(p, a)' => AtLock(p, a) /\ ConnOf(p, a)' = ConnOf(p, a)
       /\ AtTick(p, a)' => AtTick(p, a) /\ ConnOf(p, a)' = ConnOf(p, a)
       /\ AtLock(p, a)' \/ AtTick(p, a)' \/ ConnOf(p, a)' = None

\* A start that begins or ends does not advance.
LEMMA BeginsOrEnds ==
  ASSUME TickInd, NEW p \in Procs, NEW a \in Starts,
         NEW x \in {Idle, [at |-> "connect", conn |-> None]}, StartBecomes(p, a, x)
  PROVE  NoStartAdvances
<1>1. x.at \notin {"lock", "firstTick"} /\ x.conn = None
  BY DEF Idle
<1>2. ASSUME NEW q \in Procs, NEW b \in Starts
      PROVE  /\ AtLock(q, b)' => AtLock(q, b) /\ ConnOf(q, b)' = ConnOf(q, b)
             /\ AtTick(q, b)' => AtTick(q, b) /\ ConnOf(q, b)' = ConnOf(q, b)
             /\ AtLock(q, b)' \/ AtTick(q, b)' \/ ConnOf(q, b)' = None
  <2>1. CASE q = p /\ b = a
    BY <2>1, <1>1 DEF StartBecomes, AtLock, AtTick, ConnOf
  <2>2. CASE q # p \/ b # a
    <3>1. start'[q][b] = start[q][b]
      BY <2>2 DEF StartBecomes
    <3>2. AtLock(q, b) \/ AtTick(q, b) \/ ConnOf(q, b) = None
      BY Types
    <3> QED
      BY <3>1, <3>2 DEF AtLock, AtTick, ConnOf
  <2> QED
    BY <2>1, <2>2
<1> QED
  BY <1>2 DEF NoStartAdvances, StartBecomes

\* EnsureStarted and RetryTimeout.
LEMMA StartsBegin ==
  ASSUME TickInd, NEW p \in Procs, NoStartAdvances,
         startPromise' \in [Procs -> Starts \cup {None}], candidates' \subseteq Procs,
         timers' \in [Procs -> SUBSET Timer],
         handle' \in [Procs -> [Kinds -> Ids \cup {None}]],
         \A q \in Procs : \A t \in timers'[q] :
           t \in timers[q] /\ (t.kind # "retry" => handle'[q][t.kind] = handle[q][t.kind]),
         UNCHANGED <<client, stopping, listening, session, holder, holds, raced, faults>>
  PROVE  TickInd'
<1> USE DEF NoStartAdvances
<1>1. TickerTypes'
  BY Types DEF TickerTypes, TickerTypeOK, StartRecs, StartAt, Doings
<1>2. OneHand'
  BY Types DEF TickInd, OneHand
<1>3. ClientInHand' /\ LeaderHoldsLock'
  BY Types DEF TickInd, ClientInHand, LeaderHoldsLock
<1>4. OneTicker'
  BY Types DEF TickInd, OneTicker
<1>5. TicksOnlyAsLeader'
  BY Types DEF TickInd, TicksOnlyAsLeader
<1> QED
  BY <1>1, <1>2, <1>3, <1>4, <1>5 DEF TickInd

\* ensureStarted() begins a start.
LEMMA EnsureStartedStep ==
  ASSUME TickInd, NEW p \in Procs, NEW a \in Starts, EnsureStarted(p, a)
  PROVE  TickInd'
<1>1. StartBecomes(p, a, [at |-> "connect", conn |-> None])
  BY Types, IdleIsStart, StartSet DEF EnsureStarted
<1>2. NoStartAdvances
  BY <1>1, BeginsOrEnds
<1>3. startPromise' \in [Procs -> Starts \cup {None}] /\ candidates' \subseteq Procs
  BY Types DEF EnsureStarted
<1> QED
  BY <1>2, <1>3, Types, StartsBegin DEF EnsureStarted

\* The retry timer begins a start, or forgets the one in flight.
LEMMA RetryTimeoutStep ==
  ASSUME TickInd, NEW p \in Procs, NEW i \in Ids, RetryTimeout(p, i)
  PROVE  TickInd'
<1>1. NoStartAdvances
  <2>1. CASE UNCHANGED start
    BY <2>1, Types DEF NoStartAdvances, AtLock, AtTick, ConnOf
  <2>2. ASSUME NEW a \in Starts, start' = [start EXCEPT ![p][a] = [at |-> "connect", conn |-> None]]
        PROVE  NoStartAdvances
    BY <2>2, Types, IdleIsStart, StartSet, BeginsOrEnds
  <2> QED
    BY <2>1, <2>2 DEF RetryTimeout
<1>2. startPromise' \in [Procs -> Starts \cup {None}]
  BY Types DEF RetryTimeout
<1>3. /\ timers' \in [Procs -> SUBSET Timer]
      /\ \A q \in Procs : timers'[q] \subseteq timers[q]
  BY Types DEF RetryTimeout
<1>4. "retry" \in Kinds /\ \A t \in Timer : t.kind \in Kinds
  BY DEF Kinds, Timer
<1>5. /\ handle' \in [Procs -> [Kinds -> Ids \cup {None}]]
      /\ \A q \in Procs, k \in Kinds : k # "retry" => handle'[q][k] = handle[q][k]
  <2>1. handle' = [handle EXCEPT ![p] = [handle[p] EXCEPT !["retry"] = None]]
    BY DEF RetryTimeout
  <2>2. handle[p] \in [Kinds -> Ids \cup {None}]
    BY Types
  <2> HIDE DEF Kinds
  <2> QED
    BY <2>1, <2>2, <1>4, Types
<1>6. \A q \in Procs : \A t \in timers'[q] :
        t \in timers[q] /\ (t.kind # "retry" => handle'[q][t.kind] = handle[q][t.kind])
  BY <1>3, <1>4, <1>5, Types
<1>7. UNCHANGED <<client, stopping, listening, session, holder, holds, raced, candidates, faults>>
  BY DEF RetryTimeout
<1>8. candidates' \subseteq Procs
  BY <1>7, Types
<1> QED
  BY <1>1, <1>2, <1>3, <1>5, <1>6, <1>7, <1>8, StartsBegin

\* pool.connect() hands out a connection that nobody has.
LEMMA ConnectStep ==
  ASSUME TickInd, NEW p \in Procs, NEW a \in Starts, NEW s \in Sessions, Connect(p, a, s)
  PROVE  TickInd'
<1>1. StartBecomes(p, a, [at |-> "lock", conn |-> s])
  <2>1. [at |-> "lock", conn |-> s] \in StartRecs
    BY DEF StartRecs, StartAt
  <2> QED
    BY <2>1, Types, StartSet DEF Connect
<1>2. /\ s[1] = p /\ session[s] = "pool" /\ session' = [session EXCEPT ![s] = "out"]
      /\ UNCHANGED <<client, startPromise, timers, handle, stopping, listening,
                     holder, holds, raced, candidates, faults>>
      /\ start[p][a].at = "connect"
  BY DEF Connect, Pooled
<1>3. \A q \in Procs, b \in Starts :
        /\ AtTick(q, b)' => AtTick(q, b) /\ ConnOf(q, b)' = ConnOf(q, b)
        /\ AtLock(q, b)' => IF q = p /\ b = a THEN ConnOf(q, b)' = s
                            ELSE AtLock(q, b) /\ ConnOf(q, b)' = ConnOf(q, b)
  BY <1>1, <1>2 DEF StartBecomes, AtLock, AtTick, ConnOf
<1>4. TickerTypes'
  <2>1. ASSUME NEW q \in Procs, NEW b \in Starts
        PROVE  AtLock(q, b)' \/ AtTick(q, b)' \/ ConnOf(q, b)' = None
    <3>1. AtLock(q, b) \/ AtTick(q, b) \/ ConnOf(q, b) = None
      BY Types
    <3> QED
      BY <3>1, <1>1 DEF StartBecomes, AtLock, AtTick, ConnOf
  <2> QED
    BY <2>1, <1>1, <1>2, <1>3, Types
       DEF TickerTypes, TickerTypeOK, StartRecs, StartAt, Doings, StartBecomes
<1>5. OneHand'
  <2>1. s # client[p] /\ s \notin stopping
    BY <1>2, Constants DEF TickInd, OneHand, ClientInHand
  <2>2. \A q \in Procs, b \in Starts : AtLock(q, b) => ConnOf(q, b) # s
    BY <1>2 DEF TickInd, OneHand
  <2>3. \A r \in Sessions : session'[r] = IF r = s THEN "out" ELSE session[r]
    BY <1>2, Types
  <2>4. ASSUME NEW q \in Procs, NEW b \in Starts, AtLock(q, b)'
        PROVE  /\ session'[ConnOf(q, b)'] # "pool"
               /\ ConnOf(q, b)' # client[q] /\ ConnOf(q, b)' \notin stopping
               /\ \A c \in Starts : AtLock(q, c)' /\ ConnOf(q, c)' = ConnOf(q, b)' => c = b
    <3>1. CASE q = p /\ b = a
      BY <3>1, <2>1, <2>2, <2>3, <2>4, <1>3
    <3>2. CASE q # p \/ b # a
      <4>1. AtLock(q, b) /\ ConnOf(q, b)' = ConnOf(q, b) /\ ConnOf(q, b) # s
        BY <3>2, <2>2, <2>4, <1>3
      <4>2. ConnOf(q, b) \in Sessions
        BY <4>1, Types
      <4> QED
        BY <4>1, <4>2, <2>3, <1>3 DEF TickInd, OneHand
    <3> QED
      BY <3>1, <3>2
  <2> QED
    BY <2>3, <2>4, <1>2, Types DEF TickInd, OneHand
<1>6. ClientInHand' /\ LeaderHoldsLock'
  BY <1>2, Types DEF TickInd, ClientInHand, LeaderHoldsLock
<1>7. OneTicker'
  BY <1>2, <1>3, Types DEF TickInd, OneTicker
<1>8. TicksOnlyAsLeader'
  BY <1>2 DEF TickInd, TicksOnlyAsLeader
<1> QED
  BY <1>4, <1>5, <1>6, <1>7, <1>8 DEF TickInd

\* The lock is acquired: the process had no client, so nothing of it ticks, or
\* one whose session is lost, and then it has raced.
LEMMA AcquireStep ==
  ASSUME TickInd, NEW p \in Procs, NEW a \in Starts, Acquire(p, a)
  PROVE  TickInd'
<1>1. PICK s \in Sessions : s = ConnOf(p, a) /\ s[1] = p /\ AtLock(p, a)
  BY Types DEF Acquire, AtLock
<1>2. /\ session[s] = "out" /\ holder \in {None, s}
      /\ holder' = s /\ holds' = holds + 1
      /\ client' = [client EXCEPT ![p] = s]
      /\ listening' = listening \cup {s}
      /\ raced' = IF client[p] = None THEN raced ELSE raced \cup {p}
      /\ UNCHANGED <<startPromise, timers, handle, stopping, session, candidates, faults>>
  BY <1>1 DEF Acquire, ConnOf
<1>3. StartBecomes(p, a, [at |-> "firstTick", conn |-> s])
  <2>1. [at |-> "firstTick", conn |-> s] \in StartRecs
    BY DEF StartRecs, StartAt
  <2>2. start[p][a] \in StartRecs /\ start[p][a].conn = s
    BY <1>1, Types DEF ConnOf
  <2>3. [start[p][a] EXCEPT !.at = "firstTick"] = [at |-> "firstTick", conn |-> s]
    BY <2>2 DEF StartRecs
  <2>4. start' = [start EXCEPT ![p][a] = [start[p][a] EXCEPT !.at = "firstTick"]]
    BY DEF Acquire
  <2>5. start' = [start EXCEPT ![p][a] = [at |-> "firstTick", conn |-> s]]
    BY <2>3, <2>4
  <2> QED
    BY <2>1, <2>5, Types, StartSet
<1>4. \A q \in Procs, b \in Starts :
        /\ AtLock(q, b)' => AtLock(q, b) /\ ConnOf(q, b)' = ConnOf(q, b) /\ (q # p \/ b # a)
        /\ AtTick(q, b)' => IF q = p /\ b = a THEN ConnOf(q, b)' = s
                            ELSE AtTick(q, b) /\ ConnOf(q, b)' = ConnOf(q, b)
  BY <1>3 DEF StartBecomes, AtLock, AtTick, ConnOf
<1>5. s # client[p] /\ s \notin stopping /\ session[s] # "pool"
      /\ \A b \in Starts : AtLock(p, b) /\ ConnOf(p, b) = s => b = a
  BY <1>1 DEF TickInd, OneHand
<1>6. p \notin raced' => client[p] = None
  BY <1>2
<1>7. TickerTypes'
  <2>1. /\ client' \in [Procs -> Sessions \cup {None}] /\ listening' \subseteq Sessions
        /\ holder' \in Sessions /\ holds' \in Nat /\ holds' > 0
    BY <1>2, Types
  <2>2. \A q \in Procs, b \in Starts : AtLock(q, b)' \/ AtTick(q, b)' =>
          ConnOf(q, b)' \in Sessions /\ ConnOf(q, b)'[1] = q
    BY <1>1, <1>4, Types
  <2>3. ASSUME NEW q \in Procs, NEW b \in Starts
        PROVE  AtLock(q, b)' \/ AtTick(q, b)' \/ ConnOf(q, b)' = None
    <3>1. AtLock(q, b) \/ AtTick(q, b) \/ ConnOf(q, b) = None
      BY Types
    <3> QED
      BY <3>1, <1>3 DEF StartBecomes, AtLock, AtTick, ConnOf
  <2> QED
    BY <2>1, <2>2, <2>3, <1>2, <1>3, Types
       DEF TickerTypes, TickerTypeOK, StartRecs, StartAt, Doings, StartBecomes
<1>8. OneHand'
  BY <1>1, <1>2, <1>4, <1>5, Types DEF TickInd, OneHand
<1>9. ClientInHand'
  BY <1>1, <1>2, <1>5, Types DEF TickInd, ClientInHand
<1>10. LeaderHoldsLock'
  <2> SUFFICES ASSUME NEW q \in Procs, client'[q] # None
               PROVE  holder' = client'[q] \/ session'[client'[q]] = "lost"
    BY DEF LeaderHoldsLock
  <2>1. CASE q = p
    BY <2>1, <1>2, Types
  <2>2. CASE q # p
    <3>1. client'[q] = client[q] /\ client[q] # s
      BY <2>2, <1>1, <1>2, Types DEF TickInd, ClientInHand
    <3>2. holder # client[q]
      BY <3>1, <1>2
    <3> QED
      BY <3>1, <3>2, <1>2 DEF TickInd, LeaderHoldsLock
  <2> QED
    BY <2>1, <2>2
<1>11. OneTicker'
  <2> SUFFICES ASSUME NEW q \in Procs \ raced'
               PROVE  /\ \A b \in Starts : AtTick(q, b)' =>
                           /\ client'[q] = ConnOf(q, b)'
                           /\ \A c \in Starts : AtTick(q, c)' => c = b
                           /\ \A t \in timers[q] : t.kind = "retry"
                      /\ \A t \in timers[q] : t.kind # "retry" =>
                           /\ handle[q][t.kind] = t.id
                           /\ \A u \in timers[q] : u.kind # "retry" => u = t
    BY <1>2 DEF OneTicker
  <2>1. CASE q # p
    BY <2>1, <1>2, <1>4, Types DEF TickInd, OneTicker
  <2>2. CASE q = p
    <3> p \notin raced /\ client[p] = None
      BY <2>2, <1>2
    <3>1. \A b \in Starts : ~AtTick(p, b)
      BY <2>2, <1>6, Types, Constants DEF TickInd, OneTicker
    <3>2. \A t \in timers[p] : t.kind = "retry"
      BY <2>2, <1>6 DEF TickInd, TicksOnlyAsLeader
    <3> QED
      BY <2>2, <3>1, <3>2, <1>2, <1>4, Types
  <2> QED
    BY <2>1, <2>2
<1>12. TicksOnlyAsLeader'
  <2> SUFFICES ASSUME NEW q \in Procs \ raced', client'[q] = None
               PROVE  \A t \in timers[q] : t.kind = "retry"
    BY <1>2 DEF TicksOnlyAsLeader
  <2>1. q # p /\ client[q] = None /\ q \notin raced
    BY <1>2, Types, Constants
  <2> QED
    BY <2>1 DEF TickInd, TicksOnlyAsLeader
<1> QED
  BY <1>7, <1>8, <1>9, <1>10, <1>11, <1>12 DEF TickInd

\* The finally clause.
LEMMA EndsStart ==
  ASSUME TickInd, NEW p \in Procs, NEW a \in Starts, EndStart(p, a)
  PROVE  /\ NoStartAdvances /\ startPromise' \in [Procs -> Starts \cup {None}]
         /\ ~AtLock(p, a)' /\ ~AtTick(p, a)'
<1>1. StartBecomes(p, a, Idle)
  BY Types, IdleIsStart, StartSet DEF EndStart
<1>2. NoStartAdvances
  BY <1>1, BeginsOrEnds
<1>3. startPromise' \in [Procs -> Starts \cup {None}]
  BY Types DEF EndStart
<1> QED
  BY <1>1, <1>2, <1>3 DEF StartBecomes, AtLock, AtTick, Idle

\* The lock is taken: the start gives its connection back.
LEMMA NotAcquiredStep ==
  ASSUME TickInd, NEW p \in Procs, NEW a \in Starts, NEW i \in Ids, NotAcquired(p, a, i)
  PROVE  TickInd'
<1>1. PICK s \in Sessions : s = ConnOf(p, a) /\ s[1] = p /\ AtLock(p, a)
  BY Types DEF NotAcquired, AtLock
<1>2. /\ session' = [session EXCEPT ![s] = "pool"]
      /\ SetTimer(p, "retry", i) /\ EndStart(p, a)
      /\ UNCHANGED <<client, stopping, listening, holder, holds, raced, candidates, faults>>
  BY <1>1 DEF NotAcquired, ConnOf, Release
<1>3. "retry" \in Kinds /\ TimerArmed(p, "retry", i)
  BY <1>2, TimerSet DEF Kinds
<1>4. NoStartAdvances /\ startPromise' \in [Procs -> Starts \cup {None}] /\ ~AtLock(p, a)'
  BY <1>2, EndsStart
<1>5. /\ s # client[p] /\ s \notin stopping
      /\ \A b \in Starts : AtLock(p, b) /\ ConnOf(p, b) = s => b = a
  BY <1>1 DEF TickInd, OneHand
<1>6. \A r \in Sessions : r # s => session'[r] = session[r]
  BY <1>2, Types
<1>7. TickerTypes'
  BY <1>2, <1>3, <1>4, Types
       DEF TickerTypes, TickerTypeOK, StartRecs, StartAt, Doings, NoStartAdvances, TimerArmed
<1>8. OneHand'
  <2>1. ASSUME NEW q \in Procs, NEW b \in Starts, AtLock(q, b)'
        PROVE  /\ session'[ConnOf(q, b)'] # "pool"
               /\ ConnOf(q, b)' # client[q] /\ ConnOf(q, b)' \notin stopping
               /\ \A c \in Starts : AtLock(q, c)' /\ ConnOf(q, c)' = ConnOf(q, b)' => c = b
    <3>1. AtLock(q, b) /\ ConnOf(q, b)' = ConnOf(q, b) /\ ConnOf(q, b) \in Sessions
          /\ ConnOf(q, b)[1] = q
      BY <2>1, <1>4, Types DEF NoStartAdvances
    <3>2. ConnOf(q, b) # s
      BY <3>1, <2>1, <1>1, <1>4, <1>5
    <3> QED
      BY <3>1, <3>2, <1>4, <1>6 DEF TickInd, OneHand, NoStartAdvances
  <2> QED
    BY <2>1, <1>2, <1>5, <1>6, Types DEF TickInd, OneHand
<1>9. ClientInHand'
  BY <1>1, <1>2, <1>5, <1>6, Types DEF TickInd, ClientInHand
<1>10. LeaderHoldsLock'
  <2>1. \A q \in Procs : client[q] # None => client[q] \in Sessions /\ client[q] # s
    BY <1>1, <1>5, Types DEF TickInd, ClientInHand
  <2> QED
    BY <2>1, <1>2, <1>6 DEF TickInd, LeaderHoldsLock
<1>11. OneTicker' /\ TicksOnlyAsLeader'
  <2>1. \A q \in Procs : \A t \in timers'[q] : t.kind # "retry" =>
          t \in timers[q] /\ t.kind \in Kinds /\ handle'[q][t.kind] = handle[q][t.kind]
    <3> SUFFICES ASSUME NEW q \in Procs, NEW t \in timers'[q], t.kind # "retry"
                 PROVE  t \in timers[q] /\ t.kind \in Kinds
                        /\ handle'[q][t.kind] = handle[q][t.kind]
      OBVIOUS
    <3>1. t \in timers[q]
      BY <1>3 DEF TimerArmed
    <3>2. t.kind \in Kinds
      BY <3>1, Types DEF Timer
    <3> QED
      BY <3>1, <3>2, <1>3 DEF TimerArmed
  <2>2. OneTicker'
    BY <2>1, <1>2, <1>4, Types DEF TickInd, OneTicker, NoStartAdvances
  <2> QED
    BY <2>1, <2>2, <1>2 DEF TickInd, TicksOnlyAsLeader
<1> QED
  BY <1>7, <1>8, <1>9, <1>10, <1>11 DEF TickInd

\* The first tick is done: the start that armed the timer is the only one that
\* was in its first tick, and the process leads.
LEMMA FirstTickDoneStep ==
  ASSUME TickInd, NEW p \in Procs, NEW a \in Starts, NEW i \in Ids, FirstTickDone(p, a, i)
  PROVE  TickInd'
<1>1. /\ AtTick(p, a) /\ SetTimer(p, "tick", i) /\ EndStart(p, a)
      /\ UNCHANGED <<client, stopping, listening, session, holder, holds, raced,
                     candidates, faults>>
  BY DEF FirstTickDone, AtTick
<1>2. "tick" \in Kinds /\ TimerArmed(p, "tick", i)
  BY <1>1, TimerSet DEF Kinds
<1>3. NoStartAdvances /\ startPromise' \in [Procs -> Starts \cup {None}] /\ ~AtTick(p, a)'
  BY <1>1, EndsStart
<1>4. TickerTypes'
  BY <1>1, <1>2, <1>3, Types
       DEF TickerTypes, TickerTypeOK, StartRecs, StartAt, Doings, NoStartAdvances, TimerArmed
<1>5. OneHand'
  BY <1>1, <1>3, Types DEF TickInd, OneHand, NoStartAdvances
<1>6. ClientInHand' /\ LeaderHoldsLock'
  BY <1>1, Types DEF TickInd, ClientInHand, LeaderHoldsLock
<1>7. ASSUME p \notin raced
      PROVE  /\ client[p] # None
             /\ \A b \in Starts : ~AtTick(p, b)'
             /\ \A t \in timers'[p] : t.kind # "retry" => t = [kind |-> "tick", id |-> i]
  BY <1>7, <1>1, <1>2, <1>3, Types, Constants
     DEF TickInd, OneTicker, NoStartAdvances, TimerArmed
<1>8. ASSUME NEW q \in Procs \ raced
      PROVE  /\ \A b \in Starts : AtTick(q, b)' =>
                  /\ client[q] = ConnOf(q, b)'
                  /\ \A c \in Starts : AtTick(q, c)' => c = b
                  /\ \A t \in timers'[q] : t.kind = "retry"
             /\ \A t \in timers'[q] : t.kind # "retry" =>
                  /\ handle'[q][t.kind] = t.id
                  /\ \A u \in timers'[q] : u.kind # "retry" => u = t
  <2>1. CASE q = p
    BY <2>1, <1>2, <1>7 DEF TimerArmed
  <2>2. CASE q # p
    BY <2>2, <1>2, <1>3, Types DEF TickInd, OneTicker, NoStartAdvances, TimerArmed
  <2> QED
    BY <2>1, <2>2
<1>9. OneTicker'
  BY <1>8, <1>1 DEF OneTicker
<1>10. TicksOnlyAsLeader'
  BY <1>1, <1>2, <1>7 DEF TickInd, TicksOnlyAsLeader, TimerArmed
<1> QED
  BY <1>4, <1>5, <1>6, <1>9, <1>10 DEF TickInd

\* A start fails.
LEMMA StartFailsStep ==
  ASSUME TickInd, NEW p \in Procs, NEW a \in Starts, StartFails(p, a)
  PROVE  TickInd'
<1>1. /\ NoStartAdvances /\ startPromise' \in [Procs -> Starts \cup {None}]
      /\ ~AtLock(p, a)' /\ ~AtTick(p, a)'
  BY EndsStart DEF StartFails
<1>2. /\ client' = [client EXCEPT ![p] = None]
      /\ raced' = IF client[p] \in {None, ConnOf(p, a)} THEN raced ELSE raced \cup {p}
      /\ candidates' \subseteq Procs
      /\ UNCHANGED <<timers, handle, stopping, listening, holder, holds>>
  BY Types DEF StartFails, ConnOf
<1>3. /\ session' \in [Sessions -> Doings]
      /\ \A s \in Sessions : s # client[p] => session'[s] = session[s]
  BY Types DEF StartFails, Release, Doings
<1>4. /\ faults' \in [Procs -> Nat] /\ \A q \in Procs : faults'[q] \in 0 .. MaxFaults[q]
  <2>1. CASE UNCHANGED faults
    BY <2>1, Types
  <2>2. CASE Fault(p)
    BY <2>2, Types, Constants DEF Fault
  <2> QED
    BY <2>1, <2>2 DEF StartFails
<1>5. TickerTypes'
  BY <1>1, <1>2, <1>3, <1>4, Types
       DEF TickerTypes, TickerTypeOK, StartRecs, StartAt, Doings, NoStartAdvances
<1>6. OneHand'
  <2>1. ASSUME NEW q \in Procs, NEW b \in Starts, AtLock(q, b)'
        PROVE  /\ session'[ConnOf(q, b)'] # "pool"
               /\ ConnOf(q, b)' # client'[q] /\ ConnOf(q, b)' \notin stopping
               /\ \A c \in Starts : AtLock(q, c)' /\ ConnOf(q, c)' = ConnOf(q, b)' => c = b
    <3>1. AtLock(q, b) /\ ConnOf(q, b)' = ConnOf(q, b) /\ ConnOf(q, b) \in Sessions
          /\ ConnOf(q, b)[1] = q
      BY <2>1, <1>1, Types DEF NoStartAdvances
    <3>2. ConnOf(q, b) # client[p]
      BY <3>1, Constants DEF TickInd, OneHand, ClientInHand
    <3>3. ConnOf(q, b) # client'[q]
      BY <3>1, <1>2, Types, Constants DEF TickInd, OneHand
    <3> QED
      BY <3>1, <3>2, <3>3, <1>1, <1>3 DEF TickInd, OneHand, NoStartAdvances
  <2>2. \A s \in stopping : session'[s] # "pool"
    BY <1>3, Types, Constants DEF TickInd, OneHand, ClientInHand
  <2> QED
    BY <2>1, <2>2, <1>2 DEF OneHand
<1>7. ClientInHand'
  <2> SUFFICES ASSUME NEW q \in Procs, client'[q] # None
               PROVE  /\ client'[q][1] = q /\ session'[client'[q]] \in {"out", "lost"}
                      /\ client'[q] \in listening /\ client'[q] \notin stopping
    BY <1>2 DEF ClientInHand
  <2>1. q # p /\ client'[q] = client[q] /\ client[q] \in Sessions
    BY <1>2, Types
  <2>2. client[q][1] = q /\ (client[p] # None => client[p][1] = p)
    BY <2>1 DEF TickInd, ClientInHand
  <2>3. client[q] # client[p]
    BY <2>1, <2>2, Constants
  <2> QED
    BY <2>1, <2>2, <2>3, <1>3 DEF TickInd, ClientInHand
<1>8. LeaderHoldsLock'
  <2> SUFFICES ASSUME NEW q \in Procs, client'[q] # None
               PROVE  holder' = client'[q] \/ session'[client'[q]] = "lost"
    BY DEF LeaderHoldsLock
  <2>1. q # p /\ client'[q] = client[q] /\ client[q] \in Sessions
    BY <1>2, Types
  <2>2. client[q] # client[p]
    BY <2>1, Constants DEF TickInd, ClientInHand
  <2> QED
    BY <2>1, <2>2, <1>2, <1>3 DEF TickInd, LeaderHoldsLock
<1>9. ASSUME p \notin raced', client[p] # None
      PROVE  /\ \A b \in Starts : ~AtTick(p, b)'
             /\ \A t \in timers[p] : t.kind = "retry"
  <2>1. client[p] = ConnOf(p, a) /\ p \notin raced
    BY <1>9, <1>2
  <2>2. AtTick(p, a)
    <3>1. start[p][a] \in StartRecs /\ start[p][a] # Idle
      BY Types DEF StartFails
    <3>2. ~AtLock(p, a)
      BY <2>1 DEF TickInd, OneHand
    <3> QED
      BY <3>1, <3>2, <2>1, <1>9, Types
  <2> QED
    BY <2>1, <2>2, <1>1, <1>9 DEF TickInd, OneTicker, NoStartAdvances
<1>10. OneTicker'
  BY <1>1, <1>2, <1>9, Types, Constants DEF TickInd, OneTicker, NoStartAdvances
<1>11. TicksOnlyAsLeader'
  BY <1>2, <1>9, Types DEF TickInd, TicksOnlyAsLeader
<1> QED
  BY <1>5, <1>6, <1>7, <1>8, <1>10, <1>11 DEF TickInd

\* The minute's timeout becomes an interval: one ticking timer takes the place
\* of another.
LEMMA TickTimeoutStep ==
  ASSUME TickInd, NEW p \in Procs, NEW i \in Ids, TickTimeout(p, i)
  PROVE  TickInd'
<1>1. PICK j \in Ids :
        /\ timers' = [timers EXCEPT ![p] = (timers[p] \ {[kind |-> "tick", id |-> i]})
                                             \cup {[kind |-> "interval", id |-> j]}]
        /\ handle' = [handle EXCEPT ![p]["tick"] = None, ![p]["interval"] = j]
  BY DEF TickTimeout
<1>2. /\ [kind |-> "tick", id |-> i] \in timers[p]
      /\ UNCHANGED <<client, startPromise, start, stopping, listening, session,
                     holder, holds, raced, candidates, faults>>
  BY DEF TickTimeout
<1>3. /\ timers' \in [Procs -> SUBSET Timer]
      /\ \A q \in Procs : q # p => timers'[q] = timers[q]
      /\ timers'[p] = (timers[p] \ {[kind |-> "tick", id |-> i]})
                        \cup {[kind |-> "interval", id |-> j]}
  BY <1>1, Types DEF Timer, Kinds
<1>4. /\ handle' \in [Procs -> [Kinds -> Ids \cup {None}]]
      /\ \A q \in Procs : q # p => handle'[q] = handle[q]
      /\ handle'[p]["interval"] = j
  <2>1. handle' = [handle EXCEPT ![p] = [handle[p] EXCEPT !["tick"] = None, !["interval"] = j]]
    BY <1>1, Types
  <2>2. /\ handle[p] \in [Kinds -> Ids \cup {None}] /\ "tick" \in Kinds /\ "interval" \in Kinds
    BY Types DEF Kinds
  <2> HIDE DEF Kinds
  <2>3. [handle[p] EXCEPT !["tick"] = None, !["interval"] = j] \in [Kinds -> Ids \cup {None}]
    BY <2>2
  <2> QED
    BY <2>1, <2>2, <2>3, Types
<1>5. \A q \in Procs, b \in Starts : /\ AtLock(q, b)' = AtLock(q, b) /\ AtTick(q, b)' = AtTick(q, b)
                                     /\ ConnOf(q, b)' = ConnOf(q, b)
  BY <1>2 DEF AtLock, AtTick, ConnOf
<1>6. TickerTypes'
  BY <1>2, <1>3, <1>4, <1>5, Types DEF TickerTypes, TickerTypeOK, StartRecs, StartAt, Doings
<1>7. OneHand' /\ ClientInHand' /\ LeaderHoldsLock'
  BY <1>2, <1>5 DEF TickInd, OneHand, ClientInHand, LeaderHoldsLock
<1>8. ASSUME p \notin raced
      PROVE  /\ client[p] # None
             /\ \A b \in Starts : ~AtTick(p, b)
             /\ \A t \in timers'[p] : t.kind # "retry" => t = [kind |-> "interval", id |-> j]
  <2>1. [kind |-> "tick", id |-> i].kind # "retry"
    OBVIOUS
  <2> QED
    BY <2>1, <1>2, <1>3, <1>8 DEF TickInd, OneTicker, TicksOnlyAsLeader
<1>9. OneTicker'
  <2> SUFFICES ASSUME NEW q \in Procs \ raced
               PROVE  /\ \A b \in Starts : AtTick(q, b) =>
                           /\ client[q] = ConnOf(q, b)
                           /\ \A c \in Starts : AtTick(q, c) => c = b
                           /\ \A t \in timers'[q] : t.kind = "retry"
                      /\ \A t \in timers'[q] : t.kind # "retry" =>
                           /\ handle'[q][t.kind] = t.id
                           /\ \A u \in timers'[q] : u.kind # "retry" => u = t
    BY <1>2, <1>5 DEF OneTicker
  <2>1. CASE q = p
    BY <2>1, <1>4, <1>8
  <2>2. CASE q # p
    BY <2>2, <1>3, <1>4 DEF TickInd, OneTicker
  <2> QED
    BY <2>1, <2>2
<1>10. TicksOnlyAsLeader'
  BY <1>2, <1>3, <1>8 DEF TickInd, TicksOnlyAsLeader
<1> QED
  BY <1>6, <1>7, <1>9, <1>10 DEF TickInd

\* The variables of a process whose stop() has reached its await: it has no
\* client, and, unless a start goes on, no ticking timer.
LEMMA Stops ==
  ASSUME TickInd, NEW p \in Procs, StopNow(p)
  PROVE  /\ client' \in [Procs -> Sessions \cup {None}]
         /\ startPromise' \in [Procs -> Starts \cup {None}]
         /\ timers' \in [Procs -> SUBSET Timer]
         /\ handle' \in [Procs -> [Kinds -> Ids \cup {None}]]
         /\ stopping' \subseteq Sessions /\ stopping \subseteq stopping'
         /\ raced' \subseteq Procs /\ raced \subseteq raced' /\ candidates' \subseteq Procs
         /\ \A q \in Procs : client'[q] = IF q = p THEN None ELSE client[q]
         /\ \A s \in stopping' : s \in stopping \/ s = client[p]
         /\ \A q \in Procs : q # p => timers'[q] = timers[q] /\ handle'[q] = handle[q]
         /\ p \notin raced' =>
              /\ \A a \in Starts : ~AtTick(p, a)
              /\ \A t \in timers'[p] : t.kind = "retry"
<1>1. /\ client' \in [Procs -> Sessions \cup {None}]
      /\ \A q \in Procs : client'[q] = IF q = p THEN None ELSE client[q]
  BY Types DEF StopNow
<1>2. startPromise' \in [Procs -> Starts \cup {None}]
  BY Types DEF StopNow
<1>3. /\ timers' \in [Procs -> SUBSET Timer]
      /\ \A q \in Procs : q # p => timers'[q] = timers[q]
      /\ timers'[p] = {t \in timers[p] : handle[p][t.kind] # t.id}
  BY Types DEF StopNow
<1>4. /\ handle' \in [Procs -> [Kinds -> Ids \cup {None}]]
      /\ \A q \in Procs : q # p => handle'[q] = handle[q]
  BY Types DEF StopNow
<1>5. /\ stopping' \subseteq Sessions /\ stopping \subseteq stopping'
      /\ \A s \in stopping' : s \in stopping \/ s = client[p]
  BY Types DEF StopNow
<1>6. raced' \subseteq Procs /\ raced \subseteq raced' /\ candidates' \subseteq Procs
  BY Types DEF StopNow
<1>7. ASSUME p \notin raced'
      PROVE  /\ \A a \in Starts : ~AtTick(p, a)
             /\ \A t \in timers'[p] : t.kind = "retry"
  <2>1. p \notin raced /\ \A a \in Starts : start[p][a] = Idle
    BY <1>7 DEF StopNow
  <2>2. \A a \in Starts : ~AtTick(p, a)
    BY <2>1 DEF AtTick, Idle
  <2>3. \A t \in timers[p] : t.kind # "retry" => handle[p][t.kind] = t.id
    BY <2>1 DEF TickInd, OneTicker
  <2> QED
    BY <2>2, <2>3, <1>3
<1> QED
  BY <1>1, <1>2, <1>3, <1>4, <1>5, <1>6, <1>7

\* A stop() of process p, with what else the step does to connections that are
\* the client of no other process.
LEMMA StopStep ==
  ASSUME TickInd, NEW p \in Procs, StopNow(p), UNCHANGED start,
         session' \in [Sessions -> Doings],
         \A s \in Sessions : session'[s] = "pool" => session[s] = "pool",
         listening' \subseteq Sessions,
         holder' \in Sessions \cup {None}, holds' \in Nat, holder' # None => holds' > 0,
         faults' \in [Procs -> Nat], \A q \in Procs : faults'[q] \in 0 .. MaxFaults[q],
         \A q \in Procs \ {p} : client[q] # None =>
           /\ session'[client[q]] = session[client[q]]
           /\ client[q] \in listening'
           /\ holder = client[q] => holder' = holder
  PROVE  TickInd'
<1>1. \A q \in Procs, b \in Starts : /\ AtLock(q, b)' = AtLock(q, b) /\ AtTick(q, b)' = AtTick(q, b)
                                     /\ ConnOf(q, b)' = ConnOf(q, b)
  BY DEF AtLock, AtTick, ConnOf
<1>2. TickerTypes'
  BY <1>1, Stops, Types DEF TickerTypes, TickerTypeOK, StartRecs, StartAt, Doings
<1>3. client[p] # None => session[client[p]] # "pool" /\ client[p][1] = p
  BY DEF TickInd, ClientInHand
<1>4. \A s \in stopping' : s # None /\ s \in Sessions
  BY Stops, Constants
<1>5. OneHand'
  <2>1. ASSUME NEW q \in Procs, NEW b \in Starts, AtLock(q, b)
        PROVE  /\ session'[ConnOf(q, b)] # "pool"
               /\ ConnOf(q, b) # client'[q] /\ ConnOf(q, b) \notin stopping'
               /\ \A c \in Starts : AtLock(q, c) /\ ConnOf(q, c) = ConnOf(q, b) => c = b
    <3>1. /\ session[ConnOf(q, b)] # "pool"
          /\ ConnOf(q, b) # client[q] /\ ConnOf(q, b) \notin stopping
          /\ \A c \in Starts : AtLock(q, c) /\ ConnOf(q, c) = ConnOf(q, b) => c = b
      BY <2>1 DEF TickInd, OneHand
    <3>2. ConnOf(q, b) \in Sessions /\ ConnOf(q, b)[1] = q
      BY <2>1, Types
    <3>3. ConnOf(q, b) # client'[q]
      BY <3>1, <3>2, Stops, Constants
    <3>4. ConnOf(q, b) \notin stopping'
      BY <3>1, <3>2, <1>3, Stops, Constants
    <3> QED
      BY <3>1, <3>2, <3>3, <3>4
  <2>2. \A s \in stopping' : session'[s] # "pool"
    <3> SUFFICES ASSUME NEW s \in stopping' PROVE session'[s] # "pool"
      OBVIOUS
    <3>1. s \in Sessions /\ (s \in stopping \/ s = client[p])
      BY <1>4, Stops
    <3>2. session[s] # "pool"
      BY <3>1, <1>3, Constants DEF TickInd, OneHand
    <3> QED
      BY <3>1, <3>2
  <2> QED
    BY <2>1, <2>2, <1>1 DEF OneHand
<1>6. ClientInHand'
  <2> SUFFICES ASSUME NEW q \in Procs, client'[q] # None
               PROVE  /\ client'[q][1] = q /\ session'[client'[q]] \in {"out", "lost"}
                      /\ client'[q] \in listening' /\ client'[q] \notin stopping'
    BY DEF ClientInHand
  <2>1. q # p /\ client'[q] = client[q] /\ client[q] \in Sessions
    BY Stops, Types
  <2>2. /\ client[q][1] = q /\ session[client[q]] \in {"out", "lost"} /\ client[q] \notin stopping
    BY <2>1 DEF TickInd, ClientInHand
  <2>3. client[q] \notin stopping'
    BY <2>1, <2>2, <1>3, <1>4, Stops
  <2> QED
    BY <2>1, <2>2, <2>3
<1>7. LeaderHoldsLock'
  BY Stops DEF TickInd, LeaderHoldsLock
<1>8. OneTicker'
  <2> SUFFICES ASSUME NEW q \in Procs \ raced'
               PROVE  /\ \A b \in Starts : AtTick(q, b) =>
                           /\ client'[q] = ConnOf(q, b)
                           /\ \A c \in Starts : AtTick(q, c) => c = b
                           /\ \A t \in timers'[q] : t.kind = "retry"
                      /\ \A t \in timers'[q] : t.kind # "retry" =>
                           /\ handle'[q][t.kind] = t.id
                           /\ \A u \in timers'[q] : u.kind # "retry" => u = t
    BY <1>1 DEF OneTicker
  <2>1. CASE q = p
    BY <2>1, Stops
  <2>2. CASE q # p
    <3>1. /\ timers'[q] = timers[q] /\ handle'[q] = handle[q] /\ client'[q] = client[q]
          /\ q \in Procs \ raced
      BY <2>2, Stops
    <3> QED
      BY <3>1 DEF TickInd, OneTicker
  <2> QED
    BY <2>1, <2>2
<1>9. TicksOnlyAsLeader'
  <2> SUFFICES ASSUME NEW q \in Procs \ raced', client'[q] = None
               PROVE  \A t \in timers'[q] : t.kind = "retry"
    BY DEF TicksOnlyAsLeader
  <2>1. CASE q = p
    BY <2>1, Stops
  <2>2. CASE q # p
    BY <2>2, Stops DEF TickInd, TicksOnlyAsLeader
  <2> QED
    BY <2>1, <2>2
<1> QED
  BY <1>2, <1>5, <1>6, <1>7, <1>8, <1>9 DEF TickInd

\* A connection that frees its lock, while the client of a process is another.
LEMMA FreesLock ==
  ASSUME TickInd, NEW s \in Sessions, FreeLockOf(s)
  PROVE  /\ holder' \in Sessions \cup {None} /\ holds' \in Nat
         /\ holder' # None => holds' > 0
         /\ \A q \in Procs : client[q] # s /\ holder = client[q] => holder' = holder
<1>1. holder \in Sessions \cup {None} /\ holds \in Nat /\ (holder # None => holds > 0)
  BY Types
<1>2. /\ holder = s => holder' = None /\ holds' = 0
      /\ holder # s => holder' = holder /\ holds' = holds
  BY DEF FreeLockOf
<1> QED
  BY <1>1, <1>2

\* Steps that change connections which are nobody's client, and no more.
LEMMA ConnectionStep ==
  ASSUME TickInd, UNCHANGED <<client, startPromise, start, timers, handle, raced, candidates>>,
         stopping' \subseteq stopping,
         session' \in [Sessions -> Doings],
         \A s \in Sessions : session'[s] = "pool" =>
           session[s] = "pool" \/ (s \in stopping /\ s \notin stopping'),
         listening' \subseteq Sessions,
         holder' \in Sessions \cup {None}, holds' \in Nat, holder' # None => holds' > 0,
         faults' \in [Procs -> Nat], \A q \in Procs : faults'[q] \in 0 .. MaxFaults[q],
         \A q \in Procs : client[q] # None =>
           /\ session'[client[q]] = session[client[q]]
           /\ client[q] \in listening'
           /\ holder = client[q] => holder' = holder
  PROVE  TickInd'
<1>1. \A q \in Procs, b \in Starts : /\ AtLock(q, b)' = AtLock(q, b) /\ AtTick(q, b)' = AtTick(q, b)
                                     /\ ConnOf(q, b)' = ConnOf(q, b)
  BY DEF AtLock, AtTick, ConnOf
<1>2. TickerTypes'
  BY <1>1, Types DEF TickerTypes, TickerTypeOK, StartRecs, StartAt, Doings
<1>3. OneHand'
  <2>1. ASSUME NEW q \in Procs, NEW b \in Starts, AtLock(q, b)
        PROVE  /\ session'[ConnOf(q, b)] # "pool"
               /\ ConnOf(q, b) # client[q] /\ ConnOf(q, b) \notin stopping'
               /\ \A c \in Starts : AtLock(q, c) /\ ConnOf(q, c) = ConnOf(q, b) => c = b
    <3>1. ConnOf(q, b) \in Sessions
      BY <2>1, Types
    <3> QED
      BY <2>1, <3>1 DEF TickInd, OneHand
  <2>2. \A s \in stopping' : session'[s] # "pool"
    BY Types DEF TickInd, OneHand
  <2> QED
    BY <2>1, <2>2, <1>1 DEF OneHand
<1>4. ClientInHand'
  BY DEF TickInd, ClientInHand
<1>5. LeaderHoldsLock'
  BY DEF TickInd, LeaderHoldsLock
<1>6. OneTicker'
  BY <1>1 DEF TickInd, OneTicker
<1>7. TicksOnlyAsLeader'
  BY DEF TickInd, TicksOnlyAsLeader
<1> QED
  BY <1>2, <1>3, <1>4, <1>5, <1>6, <1>7 DEF TickInd

\* PostgreSQL ends a session in use: if it is a client, it is one that is lost.
LEMMA SessionLostStep ==
  ASSUME TickInd, NEW s \in Sessions, SessionLost(s)
  PROVE  TickInd'
<1>1. /\ Fault(s[1]) /\ session[s] = "out" /\ session' = [session EXCEPT ![s] = "lost"]
      /\ FreeLockOf(s)
      /\ UNCHANGED <<client, startPromise, start, timers, handle, stopping, listening, raced,
                     candidates>>
  BY DEF SessionLost, procVars
<1>2. faults' \in [Procs -> Nat] /\ \A q \in Procs : faults'[q] \in 0 .. MaxFaults[q]
  BY <1>1, Types, Constants DEF Fault
<1>3. /\ session' \in [Sessions -> Doings]
      /\ \A r \in Sessions : session'[r] = IF r = s THEN "lost" ELSE session[r]
  BY <1>1, Types DEF Doings
<1>4. /\ holder' \in Sessions \cup {None} /\ holds' \in Nat /\ (holder' # None => holds' > 0)
      /\ \A q \in Procs : client[q] # s /\ holder = client[q] => holder' = holder
  BY <1>1, FreesLock
<1>5. \A q \in Procs, b \in Starts : /\ AtLock(q, b)' = AtLock(q, b) /\ AtTick(q, b)' = AtTick(q, b)
                                     /\ ConnOf(q, b)' = ConnOf(q, b)
  BY <1>1 DEF AtLock, AtTick, ConnOf
<1>6. TickerTypes'
  BY <1>1, <1>2, <1>3, <1>4, <1>5, Types DEF TickerTypes, TickerTypeOK, StartRecs, StartAt, Doings
<1>7. OneHand'
  <2>1. \A r \in Sessions : session[r] # "pool" => session'[r] # "pool"
    BY <1>3
  <2> QED
    BY <2>1, <1>1, <1>5, Types DEF TickInd, OneHand
<1>8. ClientInHand'
  BY <1>1, <1>3, Types DEF TickInd, ClientInHand
<1>9. LeaderHoldsLock'
  BY <1>1, <1>3, <1>4, Types DEF TickInd, LeaderHoldsLock
<1>10. OneTicker' /\ TicksOnlyAsLeader'
  BY <1>1, <1>5 DEF TickInd, OneTicker, TicksOnlyAsLeader
<1> QED
  BY <1>6, <1>7, <1>8, <1>9, <1>10 DEF TickInd

\* The process hears that a connection is lost.
LEMMA ConnectionErrorStep ==
  ASSUME TickInd, NEW s \in Sessions, ConnectionError(s)
  PROVE  TickInd'
<1>1. /\ session' = [session EXCEPT ![s] = "broken"] /\ listening' = listening \ {s}
      /\ UNCHANGED <<start, holder, holds, faults>>
  BY DEF ConnectionError
<1>2. s[1] \in Procs
  BY Constants
<1>3. /\ faults' \in [Procs -> Nat] /\ \A q \in Procs : faults'[q] \in 0 .. MaxFaults[q]
      /\ holder' \in Sessions \cup {None} /\ holds' \in Nat /\ (holder' # None => holds' > 0)
  BY <1>1, Types
<1>4. /\ session' \in [Sessions -> Doings]
      /\ \A r \in Sessions : session'[r] = IF r = s THEN "broken" ELSE session[r]
      /\ \A r \in Sessions : session'[r] = "pool" => session[r] = "pool"
      /\ listening' \subseteq Sessions
  BY <1>1, Types DEF Doings
<1>5. \A q \in Procs : client[q] # None =>
        client[q] \in Sessions /\ client[q][1] = q /\ client[q] \in listening
  BY Types DEF TickInd, ClientInHand
<1>6. CASE s \in listening
  <2>1. StopNow(s[1])
    BY <1>6 DEF ConnectionError
  <2>2. \A q \in Procs \ {s[1]} : client[q] # None =>
           /\ session'[client[q]] = session[client[q]]
           /\ client[q] \in listening'
           /\ holder = client[q] => holder' = holder
    BY <1>1, <1>4, <1>5
  <2> QED
    BY <2>1, <2>2, <1>1, <1>2, <1>3, <1>4, StopStep
<1>7. CASE s \notin listening
  <2>1. UNCHANGED <<timers, handle, client, startPromise, stopping, raced, candidates>>
    BY <1>7 DEF ConnectionError
  <2>2. \A q \in Procs : client[q] # None =>
           /\ session'[client[q]] = session[client[q]]
           /\ client[q] \in listening'
           /\ holder = client[q] => holder' = holder
    BY <1>1, <1>4, <1>5, <1>7
  <2> QED
    BY <2>1, <2>2, <1>1, <1>3, <1>4, ConnectionStep
<1> QED
  BY <1>6, <1>7

\* The rest of stop().
LEMMA StopUnlockStep ==
  ASSUME TickInd, NEW s \in Sessions, StopUnlock(s)
  PROVE  TickInd'
<1>1. /\ s \in stopping /\ stopping' = stopping \ {s} /\ listening' = listening \ {s}
      /\ session' = [session EXCEPT ![s] = "pool"]
      /\ UNCHANGED <<client, startPromise, start, timers, handle, raced, candidates, faults>>
  BY DEF StopUnlock, Release
<1>2. /\ holder = s => holds' = holds - 1 /\ holder' = IF holds = 1 THEN None ELSE s
      /\ holder # s => holds' = holds /\ holder' = holder
  BY DEF StopUnlock
<1>3. /\ holder' \in Sessions \cup {None} /\ holds' \in Nat /\ (holder' # None => holds' > 0)
  BY <1>2, Types, Constants
<1>4. \A q \in Procs : client[q] # None =>
        /\ client[q] \in Sessions /\ client[q] # s /\ client[q] \in listening
        /\ holder = client[q] => holder' = holder
  BY <1>1, <1>2, Types DEF TickInd, ClientInHand
<1>5. /\ session' \in [Sessions -> Doings]
      /\ \A r \in Sessions : session'[r] = IF r = s THEN "pool" ELSE session[r]
      /\ listening' \subseteq Sessions
  BY <1>1, Types DEF Doings
<1>6. faults' \in [Procs -> Nat] /\ \A q \in Procs : faults'[q] \in 0 .. MaxFaults[q]
  BY <1>1, Types
<1> QED
  BY <1>1, <1>2, <1>3, <1>4, <1>5, <1>6, ConnectionStep

\* The pool closes an idle connection.
LEMMA IdleCloseStep ==
  ASSUME TickInd, NEW s \in Sessions, IdleClose(s)
  PROVE  TickInd'
<1>1. /\ session[s] = "pool" /\ FreeLockOf(s) /\ listening' = listening \ {s}
      /\ UNCHANGED <<client, startPromise, start, timers, handle, stopping, session, raced,
                     candidates, faults>>
  BY DEF IdleClose, procVars
<1>2. /\ holder' \in Sessions \cup {None} /\ holds' \in Nat /\ (holder' # None => holds' > 0)
      /\ \A q \in Procs : client[q] # s /\ holder = client[q] => holder' = holder
  BY <1>1, FreesLock
<1>3. \A q \in Procs : client[q] # None =>
        client[q] \in Sessions /\ client[q] # s /\ client[q] \in listening
  BY <1>1, Types DEF TickInd, ClientInHand
<1>4. /\ session' \in [Sessions -> Doings]
      /\ listening' \subseteq Sessions
      /\ faults' \in [Procs -> Nat] /\ \A q \in Procs : faults'[q] \in 0 .. MaxFaults[q]
  BY <1>1, Types
<1> QED
  BY <1>1, <1>2, <1>3, <1>4, ConnectionStep

\* An idle connection breaks and its listener stops the process's ticker.
LEMMA IdleErrorStep ==
  ASSUME TickInd, NEW s \in Sessions, IdleError(s)
  PROVE  TickInd'
<1>1. /\ session[s] = "pool" /\ FreeLockOf(s) /\ listening' = listening \ {s}
      /\ StopNow(s[1]) /\ UNCHANGED <<start, session, faults>>
  BY DEF IdleError
<1>2. /\ holder' \in Sessions \cup {None} /\ holds' \in Nat /\ (holder' # None => holds' > 0)
      /\ \A q \in Procs : client[q] # s /\ holder = client[q] => holder' = holder
  BY <1>1, FreesLock
<1>3. \A q \in Procs : client[q] # None =>
        client[q] \in Sessions /\ client[q] # s /\ client[q] \in listening
  BY <1>1, Types DEF TickInd, ClientInHand
<1>4. /\ session' \in [Sessions -> Doings]
      /\ listening' \subseteq Sessions
      /\ faults' \in [Procs -> Nat] /\ \A q \in Procs : faults'[q] \in 0 .. MaxFaults[q]
  BY <1>1, Types
<1>5. s[1] \in Procs
  BY Constants
<1> QED
  BY <1>1, <1>2, <1>3, <1>4, <1>5, StopStep

-----------------------------------------------------------------------------
\* Every step keeps the invariant.
LEMMA TickStep == TickInd /\ [TickerNext]_tickerVars => TickInd'
<1> SUFFICES ASSUME TickInd, [TickerNext]_tickerVars PROVE TickInd'
  OBVIOUS
<1>1. ASSUME NEW p \in Procs, NEW a \in Starts, Progress(p, a) PROVE TickInd'
  BY <1>1, ConnectStep, AcquireStep, NotAcquiredStep, FirstTickDoneStep,
     StartFailsStep DEF Progress
<1>2. ASSUME NEW p \in Procs, NEW i \in Ids, TickTimeout(p, i) \/ RetryTimeout(p, i) PROVE TickInd'
  BY <1>2, TickTimeoutStep, RetryTimeoutStep
<1>3. ASSUME NEW p \in Procs, NEW a \in Starts, EnsureStarted(p, a) \/ StartFails(p, a)
      PROVE  TickInd'
  BY <1>3, EnsureStartedStep, StartFailsStep
<1>4. ASSUME NEW s \in Sessions,
             SessionLost(s) \/ ConnectionError(s) \/ StopUnlock(s) \/ IdleClose(s) \/ IdleError(s)
      PROVE  TickInd'
  BY <1>4, SessionLostStep, ConnectionErrorStep, StopUnlockStep, IdleCloseStep, IdleErrorStep
<1>5. CASE UNCHANGED tickerVars
  <2>1. UNCHANGED <<client, startPromise, start, timers, handle, stopping, listening, session,
                    holder, holds, raced, candidates, faults>>
    BY <1>5 DEF tickerVars, procVars
  <2> QED
    BY <2>1 DEF TickInd, TickerTypes, TickerTypeOK, OneHand, ClientInHand, OneTicker,
       LeaderHoldsLock, TicksOnlyAsLeader, AtLock, AtTick, ConnOf
<1> QED
  BY <1>1, <1>2, <1>3, <1>4, <1>5 DEF TickerNext

\* For any number of processes, connections, overlapping starts, timers and
\* faults: a process that keeps a client holds the lock with it, or has not yet
\* heard that its session is lost; and it ticks only while it keeps one, unless one
\* of its starts overtook a stop() or took the client of another.
THEOREM LeadershipIsOneThing == TickerSpec => []TickerInv
<1>1. TickInd => TickerInv
  BY DEF TickInd, TickerTypes, TickerInv
<1> QED
  BY <1>1, TickInitial, TickStep, PTL DEF TickerSpec

\* Two processes believe at once that they lead only if one of them has not yet
\* heard that its session is lost: the advisory lock elects one leader among the
\* processes whose connections live, whichever starts overlap.
THEOREM OneLeader ==
  TickerSpec =>
    [](\A p, q \in Procs : client[p] # None /\ client[q] # None /\ p # q =>
         session[client[p]] = "lost" \/ session[client[q]] = "lost")
<1>1. TickInd =>
        \A p, q \in Procs : client[p] # None /\ client[q] # None /\ p # q =>
          session[client[p]] = "lost" \/ session[client[q]] = "lost"
  BY DEF TickInd, ClientInHand, LeaderHoldsLock
<1> QED
  BY <1>1, TickInitial, TickStep, PTL DEF TickerSpec

-----------------------------------------------------------------------------
(***************************************************************************)
(* The domain-event collector.  The queue says at any time what a batch    *)
(* made of it would have to say: its keys are distinct and name what the   *)
(* maps hold (KeysKnown), and the maps hold what was published, for a      *)
(* classroom the event published last (QueueKnows).                        *)
(***************************************************************************)
QueueTypes ==
  /\ orderedKeys \in Seq(Key)
  /\ hasAllWhitelistsChanged \in BOOLEAN
  /\ whitelistChanged \subseteq Groups
  /\ DOMAIN classroomChanged \subseteq Classrooms
  /\ published \in Seq(DomainEvent)
  /\ phase \in {"open", "committed", "rolledback"}

HasKey(k) == \E i \in 1 .. Len(orderedKeys) : orderedKeys[i] = k

KeysKnown ==
  /\ \A i, j \in 1 .. Len(orderedKeys) : i # j => orderedKeys[i] # orderedKeys[j]
  /\ HasKey(AllKey) <=> hasAllWhitelistsChanged
  /\ \A g \in Groups :
       ~hasAllWhitelistsChanged => (HasKey(WhitelistKey(g)) <=> g \in whitelistChanged)
  /\ \A c \in Classrooms : HasKey(ClassroomKey(c)) <=> c \in DOMAIN classroomChanged

IsPublished(e) == \E i \in 1 .. Len(published) : published[i] = e

About(e, c) == e.type = "classroom.changed" /\ e.id = c

QueueKnows ==
  /\ hasAllWhitelistsChanged <=> IsPublished(AllWhitelists)
  /\ \A g \in whitelistChanged : IsPublished(Whitelist(g))
  /\ \A g \in Groups :
       IsPublished(Whitelist(g)) => hasAllWhitelistsChanged \/ g \in whitelistChanged
  /\ \A c \in Classrooms :
       (\E i \in 1 .. Len(published) : About(published[i], c)) => c \in DOMAIN classroomChanged
  /\ \A c \in DOMAIN classroomChanged :
       \E i \in 1 .. Len(published) :
         /\ published[i] = classroomChanged[c] /\ About(published[i], c)
         /\ \A j \in 1 .. Len(published) : About(published[j], c) => j <= i

\* What the dispatcher has is what the queue says.
BatchKnown ==
  /\ phase # "committed" => dispatched = <<>>
  /\ phase = "committed" => dispatched \in normalizeEvents

CollectorInd == QueueTypes /\ KeysKnown /\ QueueKnows /\ BatchKnown

\* Keys are of one kind and name one group or classroom.
LEMMA KeysDiffer ==
  /\ \A g, c : WhitelistKey(g) # ClassroomKey(c)
  /\ \A g : WhitelistKey(g) # AllKey /\ ClassroomKey(g) # AllKey
  /\ \A g, h : WhitelistKey(g) = WhitelistKey(h) => g = h
  /\ \A c, d : ClassroomKey(c) = ClassroomKey(d) => c = d
BY DEF WhitelistKey, ClassroomKey, AllKey

\* The kinds of keys and of events.
LEMMA KeyKinds ==
  /\ \A g : WhitelistKey(g)[1] = "whitelist.changed" /\ WhitelistKey(g)[2] = g
  /\ \A c : ClassroomKey(c)[1] = "classroom.changed" /\ ClassroomKey(c)[2] = c
  /\ AllKey[1] = "whitelists.allChanged"
BY DEF WhitelistKey, ClassroomKey, AllKey

\* The three kinds of events, by their fields.
LEMMA EventKinds ==
  /\ \A g : Whitelist(g).type = "whitelist.changed" /\ Whitelist(g).id = g
  /\ \A c, t : Classroom(c, t).type = "classroom.changed" /\ Classroom(c, t).id = c
  /\ AllWhitelists.type = "whitelists.allChanged"
BY DEF Whitelist, Classroom, AllWhitelists

\* A key is appended to orderedKeys.
LEMMA KeyAppended ==
  ASSUME QueueTypes, NEW k \in Key, orderedKeys' = Append(orderedKeys, k), ~HasKey(k),
         \A i, j \in 1 .. Len(orderedKeys) : i # j => orderedKeys[i] # orderedKeys[j]
  PROVE  /\ orderedKeys' \in Seq(Key)
         /\ \A i, j \in 1 .. Len(orderedKeys') : i # j => orderedKeys'[i] # orderedKeys'[j]
         /\ \A l : HasKey(l)' <=> HasKey(l) \/ l = k
<1>1. /\ orderedKeys \in Seq(Key) /\ orderedKeys' \in Seq(Key)
      /\ Len(orderedKeys') = Len(orderedKeys) + 1 /\ Len(orderedKeys) \in Nat
  BY DEF QueueTypes
<1>2. /\ \A i \in 1 .. Len(orderedKeys) : orderedKeys'[i] = orderedKeys[i]
      /\ orderedKeys'[Len(orderedKeys) + 1] = k
  BY <1>1
<1>3. \A i, j \in 1 .. Len(orderedKeys') : i # j => orderedKeys'[i] # orderedKeys'[j]
  BY <1>1, <1>2 DEF HasKey
<1>4. ASSUME NEW l PROVE HasKey(l)' <=> HasKey(l) \/ l = k
  BY <1>1, <1>2 DEF HasKey
<1> QED
  BY <1>1, <1>3, <1>4

\* An event is published.
LEMMA EventPublished ==
  ASSUME QueueTypes, NEW e \in DomainEvent, published' = Append(published, e)
  PROVE  /\ published' \in Seq(DomainEvent) /\ Len(published') = Len(published) + 1
         /\ Len(published) \in Nat
         /\ \A i \in 1 .. Len(published) : published'[i] = published[i]
         /\ published'[Len(published) + 1] = e
         /\ \A d : IsPublished(d)' <=> IsPublished(d) \/ d = e
<1>1. /\ published \in Seq(DomainEvent) /\ published' \in Seq(DomainEvent)
      /\ Len(published') = Len(published) + 1 /\ Len(published) \in Nat
  BY DEF QueueTypes
<1>2. /\ \A i \in 1 .. Len(published) : published'[i] = published[i]
      /\ published'[Len(published) + 1] = e
  BY <1>1
<1>3. ASSUME NEW d PROVE IsPublished(d)' <=> IsPublished(d) \/ d = e
  BY <1>1, <1>2 DEF IsPublished
<1> QED
  BY <1>1, <1>2, <1>3

\* An event that is about no classroom leaves what is known of classrooms.
LEMMA ClassroomsKept ==
  ASSUME CollectorInd, NEW e \in DomainEvent, published' = Append(published, e),
         UNCHANGED classroomChanged, e.type # "classroom.changed"
  PROVE  /\ \A c \in Classrooms :
              (\E i \in 1 .. Len(published') : About(published'[i], c)) =>
                c \in DOMAIN classroomChanged'
         /\ \A c \in DOMAIN classroomChanged' :
              \E i \in 1 .. Len(published') :
                /\ published'[i] = classroomChanged'[c] /\ About(published'[i], c)
                /\ \A j \in 1 .. Len(published') : About(published'[j], c) => j <= i
<1>1. /\ published' \in Seq(DomainEvent) /\ Len(published') = Len(published) + 1
      /\ Len(published) \in Nat
      /\ \A i \in 1 .. Len(published) : published'[i] = published[i]
      /\ published'[Len(published) + 1] = e
  BY EventPublished DEF CollectorInd
<1>2. \A c : ~About(e, c)
  BY DEF About
<1>3. ASSUME NEW c \in Classrooms, NEW i \in 1 .. Len(published'), About(published'[i], c)
      PROVE  c \in DOMAIN classroomChanged'
  <2>1. i \in 1 .. Len(published) /\ About(published[i], c)
    BY <1>1, <1>2, <1>3
  <2> QED
    BY <2>1 DEF CollectorInd, QueueKnows
<1>4. ASSUME NEW c \in DOMAIN classroomChanged'
      PROVE  \E i \in 1 .. Len(published') :
               /\ published'[i] = classroomChanged'[c] /\ About(published'[i], c)
               /\ \A j \in 1 .. Len(published') : About(published'[j], c) => j <= i
  <2>1. PICK i \in 1 .. Len(published) :
          /\ published[i] = classroomChanged[c] /\ About(published[i], c)
          /\ \A j \in 1 .. Len(published) : About(published[j], c) => j <= i
    BY DEF CollectorInd, QueueKnows
  <2> QED
    BY <1>1, <1>2, <2>1
<1> QED
  BY <1>3, <1>4

\* queueEvent, case by case.
LEMMA WhitelistPublished ==
  ASSUME CollectorInd, NEW g \in Groups, NEW e \in DomainEvent, e = Whitelist(g),
         QueueWhitelist(e), published' = Append(published, e), UNCHANGED phase
  PROVE  QueueTypes' /\ KeysKnown' /\ QueueKnows'
<1>1. /\ published' \in Seq(DomainEvent) /\ Len(published') = Len(published) + 1
      /\ Len(published) \in Nat
      /\ \A i \in 1 .. Len(published) : published'[i] = published[i]
      /\ published'[Len(published) + 1] = e
      /\ \A d : IsPublished(d)' <=> IsPublished(d) \/ d = e
  BY EventPublished DEF CollectorInd
<1>2. e.type = "whitelist.changed" /\ e.id = g
  BY EventKinds
<1>4. e # AllWhitelists /\ \A h : e = Whitelist(h) => h = g
  BY EventKinds
<1>5. UNCHANGED <<hasAllWhitelistsChanged, classroomChanged>>
  BY DEF QueueWhitelist, queueVars
<1>6. /\ \A c \in Classrooms :
           (\E i \in 1 .. Len(published') : About(published'[i], c)) => c \in DOMAIN classroomChanged'
      /\ \A c \in DOMAIN classroomChanged' :
           \E i \in 1 .. Len(published') :
             /\ published'[i] = classroomChanged'[c] /\ About(published'[i], c)
             /\ \A j \in 1 .. Len(published') : About(published'[j], c) => j <= i
  BY <1>2, <1>5, ClassroomsKept
<1>7. CASE hasAllWhitelistsChanged \/ g \in whitelistChanged
  <2>1. UNCHANGED <<orderedKeys, whitelistChanged>>
    BY <1>2, <1>7 DEF QueueWhitelist, queueVars
  <2>2. QueueTypes' /\ KeysKnown'
    BY <1>1, <1>5, <2>1 DEF CollectorInd, QueueTypes, KeysKnown, HasKey
  <2>3. QueueKnows'
    BY <1>1, <1>4, <1>5, <1>6, <1>7, <2>1 DEF CollectorInd, QueueKnows
  <2> QED
    BY <2>2, <2>3
<1>8. CASE ~(hasAllWhitelistsChanged \/ g \in whitelistChanged)
  <2>1. /\ whitelistChanged' = whitelistChanged \cup {g}
        /\ orderedKeys' = Append(orderedKeys, WhitelistKey(g))
    BY <1>2, <1>8 DEF QueueWhitelist
  <2>2. WhitelistKey(g) \in Key /\ ~HasKey(WhitelistKey(g))
    BY <1>8 DEF CollectorInd, KeysKnown, Key
  <2>3. PICK k \in Key : k = WhitelistKey(g)
    BY <2>2
  <2>4. /\ orderedKeys' \in Seq(Key)
        /\ \A i, j \in 1 .. Len(orderedKeys') : i # j => orderedKeys'[i] # orderedKeys'[j]
        /\ \A l : HasKey(l)' <=> HasKey(l) \/ l = k
    BY <2>1, <2>2, <2>3, KeyAppended DEF CollectorInd, KeysKnown
  <2>5. QueueTypes'
    BY <1>1, <1>5, <2>1, <2>4 DEF CollectorInd, QueueTypes
  <2>6. KeysKnown'
    BY <1>5, <2>1, <2>3, <2>4, KeysDiffer DEF CollectorInd, KeysKnown
  <2>7. QueueKnows'
    BY <1>1, <1>4, <1>5, <1>6, <2>1 DEF CollectorInd, QueueKnows
  <2> QED
    BY <2>5, <2>6, <2>7
<1> QED
  BY <1>7, <1>8

\* publish() of a change of all groups keeps what the queue knows.
LEMMA BroadcastPublished ==
  ASSUME CollectorInd, NEW e \in DomainEvent, e = AllWhitelists,
         QueueAll(e), published' = Append(published, e), UNCHANGED phase
  PROVE  QueueTypes' /\ KeysKnown' /\ QueueKnows'
<1>1. /\ published' \in Seq(DomainEvent) /\ Len(published') = Len(published) + 1
      /\ Len(published) \in Nat
      /\ \A i \in 1 .. Len(published) : published'[i] = published[i]
      /\ published'[Len(published) + 1] = e
      /\ \A d : IsPublished(d)' <=> IsPublished(d) \/ d = e
  BY EventPublished DEF CollectorInd
<1>2. e.type = "whitelists.allChanged"
  BY EventKinds
<1>4. \A h : e # Whitelist(h)
  BY <1>2, EventKinds
<1>5. UNCHANGED classroomChanged
  BY DEF QueueAll, queueVars
<1>6. /\ \A c \in Classrooms :
           (\E i \in 1 .. Len(published') : About(published'[i], c)) => c \in DOMAIN classroomChanged'
      /\ \A c \in DOMAIN classroomChanged' :
           \E i \in 1 .. Len(published') :
             /\ published'[i] = classroomChanged'[c] /\ About(published'[i], c)
             /\ \A j \in 1 .. Len(published') : About(published'[j], c) => j <= i
  BY <1>2, <1>5, ClassroomsKept
<1>7. CASE hasAllWhitelistsChanged
  <2>1. UNCHANGED <<orderedKeys, hasAllWhitelistsChanged, whitelistChanged>>
    BY <1>7 DEF QueueAll, queueVars
  <2>2. QueueTypes' /\ KeysKnown'
    BY <1>1, <1>5, <2>1 DEF CollectorInd, QueueTypes, KeysKnown, HasKey
  <2>3. QueueKnows'
    BY <1>1, <1>4, <1>6, <1>7, <2>1 DEF CollectorInd, QueueKnows
  <2> QED
    BY <2>2, <2>3
<1>8. CASE ~hasAllWhitelistsChanged
  <2>1. /\ hasAllWhitelistsChanged' = TRUE /\ whitelistChanged' = {}
        /\ orderedKeys' = Append(orderedKeys, AllKey)
    BY <1>8 DEF QueueAll
  <2>2. AllKey \in Key /\ ~HasKey(AllKey)
    BY <1>8 DEF CollectorInd, KeysKnown, Key
  <2>3. PICK k \in Key : k = AllKey
    BY <2>2
  <2>4. /\ orderedKeys' \in Seq(Key)
        /\ \A i, j \in 1 .. Len(orderedKeys') : i # j => orderedKeys'[i] # orderedKeys'[j]
        /\ \A l : HasKey(l)' <=> HasKey(l) \/ l = k
    BY <2>1, <2>2, <2>3, KeyAppended DEF CollectorInd, KeysKnown
  <2>5. QueueTypes'
    BY <1>1, <1>5, <2>1, <2>4 DEF CollectorInd, QueueTypes
  <2>6. KeysKnown'
    BY <1>5, <2>1, <2>3, <2>4, KeysDiffer DEF CollectorInd, KeysKnown
  <2>7. QueueKnows'
    BY <1>1, <1>6, <2>1 DEF CollectorInd, QueueKnows
  <2> QED
    BY <2>5, <2>6, <2>7
<1> QED
  BY <1>7, <1>8

\* publish() of a classroom event keeps what the queue knows: the last one wins.
LEMMA ClassroomPublished ==
  ASSUME CollectorInd, NEW c \in Classrooms, NEW t \in Times, NEW e \in DomainEvent,
         e = Classroom(c, t), QueueClassroom(e), published' = Append(published, e),
         UNCHANGED phase
  PROVE  QueueTypes' /\ KeysKnown' /\ QueueKnows'
<1>1. /\ published' \in Seq(DomainEvent) /\ Len(published') = Len(published) + 1
      /\ Len(published) \in Nat
      /\ \A i \in 1 .. Len(published) : published'[i] = published[i]
      /\ published'[Len(published) + 1] = e
      /\ \A d : IsPublished(d)' <=> IsPublished(d) \/ d = e
  BY EventPublished DEF CollectorInd
<1>2. e.type = "classroom.changed" /\ e.id = c
  BY EventKinds
<1>3. \A d : About(e, d) <=> d = c
  BY <1>2 DEF About
<1>4. e # AllWhitelists /\ \A h : e # Whitelist(h)
  BY <1>2, EventKinds
<1>5. /\ UNCHANGED <<hasAllWhitelistsChanged, whitelistChanged>>
      /\ orderedKeys' = IF c \in DOMAIN classroomChanged THEN orderedKeys
                        ELSE Append(orderedKeys, ClassroomKey(c))
      /\ DOMAIN classroomChanged' = DOMAIN classroomChanged \cup {c}
      /\ classroomChanged'[c] = e
      /\ \A d \in DOMAIN classroomChanged : d # c => classroomChanged'[d] = classroomChanged[d]
  BY <1>2 DEF QueueClassroom
<1>6. QueueKnows'
  <2>1. ASSUME NEW d \in Classrooms, NEW i \in 1 .. Len(published'), About(published'[i], d)
        PROVE  d \in DOMAIN classroomChanged'
    BY <1>1, <1>3, <1>5, <2>1 DEF CollectorInd, QueueKnows
  <2>2. ASSUME NEW d \in DOMAIN classroomChanged'
        PROVE  \E i \in 1 .. Len(published') :
                 /\ published'[i] = classroomChanged'[d] /\ About(published'[i], d)
                 /\ \A j \in 1 .. Len(published') : About(published'[j], d) => j <= i
    <3>1. CASE d = c
      BY <1>1, <1>3, <1>5, <3>1
    <3>2. CASE d # c
      <4>1. PICK i \in 1 .. Len(published) :
              /\ published[i] = classroomChanged[d] /\ About(published[i], d)
              /\ \A j \in 1 .. Len(published) : About(published[j], d) => j <= i
        BY <1>5, <3>2 DEF CollectorInd, QueueKnows
      <4> QED
        BY <1>1, <1>3, <1>5, <3>2, <4>1
    <3> QED
      BY <3>1, <3>2
  <2>3. /\ hasAllWhitelistsChanged' <=> IsPublished(AllWhitelists)'
        /\ \A g \in whitelistChanged' : IsPublished(Whitelist(g))'
        /\ \A g \in Groups :
             IsPublished(Whitelist(g))' => hasAllWhitelistsChanged' \/ g \in whitelistChanged'
    BY <1>1, <1>4, <1>5 DEF CollectorInd, QueueKnows
  <2> QED
    BY <2>1, <2>2, <2>3 DEF QueueKnows
<1>7. CASE c \in DOMAIN classroomChanged
  <2>1. UNCHANGED orderedKeys /\ DOMAIN classroomChanged' = DOMAIN classroomChanged
    BY <1>5, <1>7
  <2>2. QueueTypes' /\ KeysKnown'
    BY <1>1, <1>5, <2>1 DEF CollectorInd, QueueTypes, KeysKnown, HasKey
  <2> QED
    BY <1>6, <2>2
<1>8. CASE c \notin DOMAIN classroomChanged
  <2>1. ClassroomKey(c) \in Key /\ ~HasKey(ClassroomKey(c))
    BY <1>8 DEF CollectorInd, KeysKnown, Key
  <2>2. PICK k \in Key : k = ClassroomKey(c)
    BY <2>1
  <2>3. /\ orderedKeys' \in Seq(Key)
        /\ \A i, j \in 1 .. Len(orderedKeys') : i # j => orderedKeys'[i] # orderedKeys'[j]
        /\ \A l : HasKey(l)' <=> HasKey(l) \/ l = k
    BY <1>5, <1>8, <2>1, <2>2, KeyAppended DEF CollectorInd, KeysKnown
  <2>4. QueueTypes'
    BY <1>1, <1>5, <2>3 DEF CollectorInd, QueueTypes
  <2>5. KeysKnown'
    BY <1>5, <2>2, <2>3, KeysDiffer DEF CollectorInd, KeysKnown
  <2> QED
    BY <1>6, <2>4, <2>5
<1> QED
  BY <1>7, <1>8

\* The events of a batch are those of the keys that survive.
LEMMA BatchOfKeys ==
  ASSUME QueueTypes, dispatched \in normalizeEvents
  PROVE  \E p :
           /\ dispatched = [n \in DOMAIN p |-> EventFor(orderedKeys[p[n]])]
           /\ DOMAIN p = 1 .. Len(dispatched) /\ Len(dispatched) \in Nat
           /\ \A n \in DOMAIN p : p[n] \in 1 .. Len(orderedKeys) /\ Survives(orderedKeys[p[n]])
           /\ \A m, n \in DOMAIN p : m # n => p[m] # p[n]
           /\ \A i \in 1 .. Len(orderedKeys) :
                Survives(orderedKeys[i]) => \E n \in DOMAIN p : p[n] = i
<1>1. PICK K : K = {i \in DOMAIN orderedKeys : Survives(orderedKeys[i])}
  OBVIOUS
<1>2. PICK p \in InOrder(K) : dispatched = [n \in DOMAIN p |-> EventFor(orderedKeys[p[n]])]
  BY <1>1 DEF normalizeEvents
<1>3. K \subseteq 1 .. Len(orderedKeys) /\ Len(orderedKeys) \in Nat
  BY <1>1 DEF QueueTypes
<1>4. Cardinality(K) \in Nat
  <2>1. IsFiniteSet(1 .. Len(orderedKeys))
    BY <1>3, FS_Interval
  <2>2. IsFiniteSet(K)
    BY <1>3, <2>1, FS_Subset
  <2> QED
    BY <2>2, FS_CardinalityType
<1>5. /\ p \in [1 .. Cardinality(K) -> K]
      /\ \A k \in K : \E n \in DOMAIN p : p[n] = k
      /\ \A m, n \in DOMAIN p : m < n => p[m] < p[n]
  BY DEF InOrder
<1>6. DOMAIN p = 1 .. Cardinality(K)
  BY <1>5
<1>7. DOMAIN p = 1 .. Len(dispatched) /\ Len(dispatched) = Cardinality(K)
  BY <1>2, <1>4, <1>6
<1>8. \A m, n \in DOMAIN p : m # n => p[m] # p[n]
  <2> SUFFICES ASSUME NEW m \in DOMAIN p, NEW n \in DOMAIN p, m < n PROVE p[m] # p[n]
    BY <1>4, <1>6
  <2>1. p[m] < p[n] /\ p[m] \in K /\ p[n] \in K
    BY <1>5
  <2>2. K \subseteq Nat
    BY <1>3
  <2>3. p[m] \in Nat /\ p[n] \in Nat
    BY <2>1, <2>2
  <2> QED
    BY <2>1, <2>3
<1>9. \A n \in DOMAIN p : p[n] \in 1 .. Len(orderedKeys) /\ Survives(orderedKeys[p[n]])
  BY <1>1, <1>3, <1>5
<1>10. \A i \in 1 .. Len(orderedKeys) :
         Survives(orderedKeys[i]) => \E n \in DOMAIN p : p[n] = i
  <2>1. DOMAIN orderedKeys = 1 .. Len(orderedKeys)
    BY DEF QueueTypes
  <2> QED
    BY <1>1, <1>5, <2>1
<1> QED
  BY <1>2, <1>4, <1>7, <1>8, <1>9, <1>10

\* The broadcast key always survives.
LEMMA AllKeyEvent == Survives(AllKey) /\ EventFor(AllKey) = AllWhitelists
<1>1. PICK k : k = AllKey
  OBVIOUS
<1>2. k[1] # "whitelist.changed"
  BY <1>1, KeyKinds
<1>3. Survives(k) /\ EventFor(k) = AllWhitelists
  BY <1>1, <1>2 DEF Survives, EventFor
<1> QED
  BY <1>1, <1>3

\* The event of a surviving key, kind by kind.
LEMMA EventOfKey ==
  ASSUME CollectorInd, NEW k \in Key, Survives(k)
  PROVE  \/ k = AllKey /\ EventFor(k) = AllWhitelists /\ (HasKey(k) => hasAllWhitelistsChanged)
         \/ \E g \in Groups :
              /\ k = WhitelistKey(g) /\ EventFor(k) = Whitelist(g)
              /\ ~hasAllWhitelistsChanged /\ g \in whitelistChanged
         \/ \E c \in DOMAIN classroomChanged :
              k = ClassroomKey(c) /\ EventFor(k) = classroomChanged[c]
<1>1. CASE k = AllKey
  BY <1>1, AllKeyEvent DEF CollectorInd, KeysKnown
<1>2. ASSUME NEW g \in Groups, k = WhitelistKey(g)
      PROVE  /\ EventFor(k) = Whitelist(g)
             /\ ~hasAllWhitelistsChanged /\ g \in whitelistChanged
  <2>1. k # AllKey /\ k[1] = "whitelist.changed" /\ k[2] = g
    BY <1>2, KeysDiffer, KeyKinds
  <2> QED
    BY <2>1 DEF EventFor, Survives
<1>3. ASSUME NEW c \in Classrooms, k = ClassroomKey(c)
      PROVE  c \in DOMAIN classroomChanged /\ EventFor(k) = classroomChanged[c]
  <2>1. k # AllKey /\ k[1] = "classroom.changed" /\ k[2] = c
    BY <1>3, KeysDiffer, KeyKinds
  <2> QED
    BY <2>1 DEF EventFor, Survives
<1> QED
  BY <1>1, <1>2, <1>3 DEF Key

\* What the map holds for a classroom is the event published last for it.
LEMMA LastPublished ==
  ASSUME CollectorInd, NEW c \in DOMAIN classroomChanged
  PROVE  /\ IsPublished(classroomChanged[c]) /\ About(classroomChanged[c], c)
         /\ LastFor(c) = classroomChanged[c]
<1>1. PICK i \in 1 .. Len(published) :
        /\ published[i] = classroomChanged[c] /\ About(published[i], c)
        /\ \A j \in 1 .. Len(published) : About(published[j], c) => j <= i
  BY DEF CollectorInd, QueueKnows
<1>2. PICK at : at = {n \in DOMAIN published :
                        published[n].type = "classroom.changed" /\ published[n].id = c}
  OBVIOUS
<1>3. DOMAIN published = 1 .. Len(published) /\ Len(published) \in Nat
  BY DEF CollectorInd, QueueTypes
<1>4. i \in at /\ at \subseteq Nat /\ \A j \in at : j <= i
  BY <1>1, <1>2, <1>3 DEF About
<1>5. (CHOOSE n \in at : \A j \in at : j <= n) = i
  <2>1. PICK m : m = CHOOSE n \in at : \A j \in at : j <= n
    OBVIOUS
  <2>2. m \in at /\ \A j \in at : j <= m
    BY <1>4, <2>1
  <2>3. m = i
    BY <1>4, <2>2
  <2> QED
    BY <2>1, <2>3
<1>6. LastFor(c) = published[i]
  BY <1>2, <1>5 DEF LastFor
<1> QED
  BY <1>1, <1>6 DEF IsPublished

\* What is dispatched was published.
LEMMA BatchWasPublished ==
  ASSUME CollectorInd, phase = "committed", NEW n \in 1 .. Len(dispatched)
  PROVE  dispatched[n] \in DomainEvent /\ IsPublished(dispatched[n])
<1>1. QueueTypes /\ dispatched \in normalizeEvents
  BY DEF CollectorInd, BatchKnown
<1>2. PICK p :
        /\ dispatched = [m \in DOMAIN p |-> EventFor(orderedKeys[p[m]])]
        /\ DOMAIN p = 1 .. Len(dispatched)
        /\ \A m \in DOMAIN p : p[m] \in 1 .. Len(orderedKeys) /\ Survives(orderedKeys[p[m]])
  BY <1>1, BatchOfKeys
<1>3. PICK k \in Key : k = orderedKeys[p[n]] /\ Survives(k) /\ HasKey(k)
  <2>1. p[n] \in 1 .. Len(orderedKeys) /\ Survives(orderedKeys[p[n]])
    BY <1>2
  <2>2. orderedKeys[p[n]] \in Key
    BY <1>1, <2>1 DEF QueueTypes
  <2> QED
    BY <2>1, <2>2 DEF HasKey
<1>4. dispatched[n] = EventFor(k)
  BY <1>2, <1>3
<1>5. IsPublished(EventFor(k))
  <2>1. CASE k = AllKey
    BY <1>3, <2>1, EventOfKey, KeysDiffer DEF CollectorInd, QueueKnows
  <2>2. CASE k # AllKey
    BY <1>3, <2>2, EventOfKey, LastPublished DEF CollectorInd, QueueKnows
  <2> QED
    BY <2>1, <2>2
<1>6. \A e : IsPublished(e) => e \in DomainEvent
  BY <1>1 DEF IsPublished, QueueTypes
<1> QED
  BY <1>4, <1>5, <1>6

\* Two places of a batch come from two keys.
LEMMA BatchIsNotRedundant ==
  ASSUME CollectorInd, phase = "committed",
         NEW i \in 1 .. Len(dispatched), NEW j \in 1 .. Len(dispatched), i # j
  PROVE  /\ dispatched[i].type # "whitelists.allChanged" \/
              dispatched[j].type \notin {"whitelist.changed", "whitelists.allChanged"}
         /\ dispatched[i].type = dispatched[j].type /\ dispatched[i].type # "whitelists.allChanged"
              => dispatched[i].id # dispatched[j].id
<1>1. QueueTypes /\ dispatched \in normalizeEvents
  BY DEF CollectorInd, BatchKnown
<1>2. PICK p :
        /\ dispatched = [m \in DOMAIN p |-> EventFor(orderedKeys[p[m]])]
        /\ DOMAIN p = 1 .. Len(dispatched)
        /\ \A m \in DOMAIN p : p[m] \in 1 .. Len(orderedKeys) /\ Survives(orderedKeys[p[m]])
        /\ \A m, n \in DOMAIN p : m # n => p[m] # p[n]
  BY <1>1, BatchOfKeys
<1>3. PICK k \in Key : k = orderedKeys[p[i]] /\ Survives(k) /\ HasKey(k)
  <2>1. p[i] \in 1 .. Len(orderedKeys) /\ Survives(orderedKeys[p[i]])
    BY <1>2
  <2>2. orderedKeys[p[i]] \in Key
    BY <1>1, <2>1 DEF QueueTypes
  <2> QED
    BY <2>1, <2>2 DEF HasKey
<1>4. PICK l \in Key : l = orderedKeys[p[j]] /\ Survives(l) /\ HasKey(l)
  <2>1. p[j] \in 1 .. Len(orderedKeys) /\ Survives(orderedKeys[p[j]])
    BY <1>2
  <2>2. orderedKeys[p[j]] \in Key
    BY <1>1, <2>1 DEF QueueTypes
  <2> QED
    BY <2>1, <2>2 DEF HasKey
<1>5. k # l
  BY <1>2, <1>3, <1>4 DEF CollectorInd, KeysKnown
<1>6. dispatched[i] = EventFor(k) /\ dispatched[j] = EventFor(l)
  BY <1>2, <1>3, <1>4
<1>7. \/ k = AllKey /\ EventFor(k).type = "whitelists.allChanged" /\ hasAllWhitelistsChanged
      \/ \E g \in Groups :
           /\ k = WhitelistKey(g) /\ ~hasAllWhitelistsChanged
           /\ EventFor(k).type = "whitelist.changed" /\ EventFor(k).id = g
      \/ \E c \in Classrooms :
           /\ k = ClassroomKey(c)
           /\ EventFor(k).type = "classroom.changed" /\ EventFor(k).id = c
  BY <1>1, <1>3, EventOfKey, EventKinds, LastPublished DEF About, QueueTypes
<1>8. \/ l = AllKey /\ EventFor(l).type = "whitelists.allChanged" /\ hasAllWhitelistsChanged
      \/ \E g \in Groups :
           /\ l = WhitelistKey(g) /\ ~hasAllWhitelistsChanged
           /\ EventFor(l).type = "whitelist.changed" /\ EventFor(l).id = g
      \/ \E c \in Classrooms :
           /\ l = ClassroomKey(c)
           /\ EventFor(l).type = "classroom.changed" /\ EventFor(l).id = c
  BY <1>1, <1>4, EventOfKey, EventKinds, LastPublished DEF About, QueueTypes
<1> QED
  BY <1>5, <1>6, <1>7, <1>8

\* The event of a key that survives is dispatched.
LEMMA KeyIsDispatched ==
  ASSUME CollectorInd, phase = "committed", NEW k, HasKey(k), Survives(k)
  PROVE  Dispatched(EventFor(k))
<1>1. QueueTypes /\ dispatched \in normalizeEvents
  BY DEF CollectorInd, BatchKnown
<1>2. PICK p :
        /\ dispatched = [n \in DOMAIN p |-> EventFor(orderedKeys[p[n]])]
        /\ \A i \in 1 .. Len(orderedKeys) :
             Survives(orderedKeys[i]) => \E n \in DOMAIN p : p[n] = i
  BY <1>1, BatchOfKeys
<1>3. PICK i \in 1 .. Len(orderedKeys) : orderedKeys[i] = k
  BY DEF HasKey
<1>4. PICK n \in DOMAIN p : p[n] = i
  BY <1>2, <1>3
<1> QED
  BY <1>2, <1>3, <1>4 DEF Dispatched

\* A batch made of a queue that knows what was published covers every event.
LEMMA CollectorCovers == CollectorInd => EveryEventCovered
<1> SUFFICES ASSUME CollectorInd, phase = "committed", NEW i \in DOMAIN published, NEW e,
                    e = published[i]
             PROVE  CASE e.type = "whitelist.changed" ->
                           Dispatched(e) \/ Dispatched(AllWhitelists)
                      [] e.type = "whitelists.allChanged" -> Dispatched(e)
                      [] OTHER -> Dispatched(LastFor(e.id))
  BY DEF EveryEventCovered
<1>1. i \in 1 .. Len(published) /\ e \in DomainEvent /\ IsPublished(e)
  BY DEF CollectorInd, QueueTypes, IsPublished
<1>2. hasAllWhitelistsChanged => Dispatched(AllWhitelists)
  <2> SUFFICES ASSUME hasAllWhitelistsChanged PROVE Dispatched(AllWhitelists)
    OBVIOUS
  <2>1. HasKey(AllKey) /\ Survives(AllKey) /\ EventFor(AllKey) = AllWhitelists
    BY AllKeyEvent DEF CollectorInd, KeysKnown
  <2> QED
    BY <2>1, KeyIsDispatched
<1>3. CASE e = AllWhitelists
  <2>1. e.type = "whitelists.allChanged" /\ Dispatched(e)
    BY <1>1, <1>2, <1>3, EventKinds DEF CollectorInd, QueueKnows
  <2> QED
    BY <2>1
<1>4. ASSUME NEW g \in Groups, e = Whitelist(g)
      PROVE  e.type = "whitelist.changed" /\ (Dispatched(e) \/ Dispatched(AllWhitelists))
  <2>1. e.type = "whitelist.changed"
    BY <1>4, EventKinds
  <2>2. CASE hasAllWhitelistsChanged
    BY <1>2, <2>1, <2>2
  <2>3. CASE ~hasAllWhitelistsChanged
    <3>1. g \in whitelistChanged
      BY <1>1, <1>4, <2>3 DEF CollectorInd, QueueKnows
    <3>2. PICK k \in Key : k = WhitelistKey(g)
      BY DEF Key
    <3>3. HasKey(k)
      BY <2>3, <3>1, <3>2 DEF CollectorInd, KeysKnown
    <3>4. k # AllKey /\ k[1] = "whitelist.changed" /\ k[2] = g
      BY <3>2, KeysDiffer, KeyKinds
    <3>5. Survives(k) /\ EventFor(k) = e
      BY <1>4, <2>3, <3>1, <3>4 DEF Survives, EventFor
    <3> QED
      BY <2>1, <3>3, <3>5, KeyIsDispatched
  <2> QED
    BY <2>2, <2>3
<1>5. ASSUME NEW c \in Classrooms, NEW t \in Times, e = Classroom(c, t)
      PROVE  e.type = "classroom.changed" /\ Dispatched(LastFor(e.id))
  <2>1. e.type = "classroom.changed" /\ e.id = c
    BY <1>5, EventKinds
  <2>2. c \in DOMAIN classroomChanged
    BY <1>1, <2>1 DEF CollectorInd, QueueKnows, About
  <2>3. PICK k \in Key : k = ClassroomKey(c)
    BY DEF Key
  <2>4. HasKey(k)
    BY <2>2, <2>3 DEF CollectorInd, KeysKnown
  <2>5. k # AllKey /\ k[1] = "classroom.changed" /\ k[2] = c
    BY <2>3, KeysDiffer, KeyKinds
  <2>6. Survives(k) /\ EventFor(k) = classroomChanged[c]
    BY <2>2, <2>5 DEF Survives, EventFor
  <2>7. LastFor(c) = classroomChanged[c]
    BY <2>2, LastPublished
  <2> QED
    BY <2>1, <2>4, <2>6, <2>7, KeyIsDispatched
<1> QED
  BY <1>1, <1>3, <1>4, <1>5 DEF DomainEvent

\* Every step of a command keeps the invariant of the collector.
LEMMA CollectorStep == CollectorInd /\ [Next]_vars => CollectorInd'
<1> SUFFICES ASSUME CollectorInd, [Next]_vars PROVE CollectorInd'
  OBVIOUS
<1>1. ASSUME UNCHANGED <<queueVars, published>>, phase' \in {"open", "committed", "rolledback"}
      PROVE  /\ QueueTypes' /\ KeysKnown' /\ QueueKnows'
             /\ normalizeEvents' = normalizeEvents
  <2>1. UNCHANGED <<orderedKeys, hasAllWhitelistsChanged, whitelistChanged, classroomChanged,
                    published>>
    BY <1>1 DEF queueVars
  <2>2. QueueTypes' /\ KeysKnown' /\ QueueKnows'
    BY <1>1, <2>1 DEF CollectorInd, QueueTypes, KeysKnown, HasKey, QueueKnows, IsPublished
  <2>3. normalizeEvents' = normalizeEvents
    BY <2>1 DEF normalizeEvents, EventFor, Survives
  <2> QED
    BY <2>2, <2>3
<1>2. ASSUME NEW e \in DomainEvent, Publish(e)
      PROVE  CollectorInd'
  <2>1. /\ phase = "open" /\ UNCHANGED <<phase, dispatched>>
        /\ published' = Append(published, e)
        /\ QueueWhitelist(e) \/ QueueAll(e) \/ QueueClassroom(e)
    BY <1>2 DEF Publish
  <2>2. BatchKnown'
    BY <2>1 DEF CollectorInd, BatchKnown
  <2>3. QueueTypes' /\ KeysKnown' /\ QueueKnows'
    <3>1. CASE e = AllWhitelists
      <4>1. QueueAll(e)
        BY <2>1, <3>1, EventKinds DEF QueueWhitelist, QueueClassroom
      <4> QED
        BY <2>1, <3>1, <4>1, BroadcastPublished
    <3>2. ASSUME NEW g \in Groups, e = Whitelist(g)
          PROVE  QueueTypes' /\ KeysKnown' /\ QueueKnows'
      <4>1. QueueWhitelist(e)
        BY <2>1, <3>2, EventKinds DEF QueueAll, QueueClassroom
      <4> QED
        BY <2>1, <3>2, <4>1, WhitelistPublished
    <3>3. ASSUME NEW c \in Classrooms, NEW t \in Times, e = Classroom(c, t)
          PROVE  QueueTypes' /\ KeysKnown' /\ QueueKnows'
      <4>1. QueueClassroom(e)
        BY <2>1, <3>3, EventKinds DEF QueueAll, QueueWhitelist
      <4> QED
        BY <2>1, <3>3, <4>1, ClassroomPublished
    <3> QED
      BY <3>1, <3>2, <3>3 DEF DomainEvent
  <2> QED
    BY <2>2, <2>3 DEF CollectorInd
<1>3. CASE Commit
  <2>1. /\ phase' = "committed" /\ dispatched' \in normalizeEvents
        /\ UNCHANGED <<queueVars, published>>
    BY <1>3 DEF Commit
  <2> QED
    BY <1>1, <2>1 DEF CollectorInd, BatchKnown
<1>4. CASE Rollback
  <2>1. /\ phase = "open" /\ phase' = "rolledback"
        /\ UNCHANGED <<queueVars, published, dispatched>>
    BY <1>4 DEF Rollback
  <2> QED
    BY <1>1, <2>1 DEF CollectorInd, BatchKnown
<1>5. CASE UNCHANGED vars
  <2>1. UNCHANGED <<queueVars, published, phase, dispatched>>
    BY <1>5 DEF vars
  <2> QED
    BY <1>1, <2>1 DEF CollectorInd, QueueTypes, BatchKnown
<1> QED
  BY <1>2, <1>3, <1>4, <1>5 DEF Next

\* An empty collector satisfies it.
LEMMA CollectorInitial == Init => CollectorInd
<1> SUFFICES ASSUME Init PROVE CollectorInd
  OBVIOUS
<1>1. Len(orderedKeys) = 0 /\ Len(published) = 0 /\ DOMAIN classroomChanged = {}
  BY DEF Init
<1>2. QueueTypes
  <2>1. <<>> \in Seq(Key) /\ <<>> \in Seq(DomainEvent)
    OBVIOUS
  <2> QED
    BY <1>1, <2>1 DEF Init, QueueTypes
<1>3. KeysKnown /\ QueueKnows
  BY <1>1 DEF Init, KeysKnown, HasKey, QueueKnows, IsPublished
<1>4. BatchKnown
  BY DEF Init, BatchKnown
<1> QED
  BY <1>2, <1>3, <1>4 DEF CollectorInd

(***************************************************************************)
(* Whatever a command publishes, in any order and any number: if it        *)
(* commits, each of its events reaches the dispatcher, as itself, as the   *)
(* broadcast or as the classroom's last event (queueEvent and              *)
(* normalizeEvents of collector.ts).                                       *)
(***************************************************************************)
THEOREM NoEventIsLost == Spec => []EveryEventCovered
BY CollectorInitial, CollectorStep, CollectorCovers, PTL DEF Spec

(***************************************************************************)
(* And it reaches nothing else: what is dispatched is of a committed       *)
(* command, was published by it, and wakes nobody twice.                   *)
(***************************************************************************)
THEOREM BatchesAreExact == Spec => []DispatchInv
<1>1. CollectorInd => DispatchInv
  <2> SUFFICES ASSUME CollectorInd PROVE DispatchInv
    OBVIOUS
  <2>1. phase = "committed" => dispatched \in Seq(DomainEvent)
    <3> SUFFICES ASSUME phase = "committed" PROVE dispatched \in Seq(DomainEvent)
      OBVIOUS
    <3>1. QueueTypes /\ dispatched \in normalizeEvents
      BY DEF CollectorInd, BatchKnown
    <3>2. PICK p :
            /\ dispatched = [n \in DOMAIN p |-> EventFor(orderedKeys[p[n]])]
            /\ DOMAIN p = 1 .. Len(dispatched) /\ Len(dispatched) \in Nat
      BY <3>1, BatchOfKeys
    <3>3. \A n \in 1 .. Len(dispatched) : dispatched[n] \in DomainEvent
      BY BatchWasPublished
    <3>4. dispatched \in [1 .. Len(dispatched) -> DomainEvent]
      BY <3>2, <3>3
    <3> QED
      BY <3>2, <3>4
  <2>2. phase # "committed" => dispatched = <<>>
    BY DEF CollectorInd, BatchKnown
  <2>3. dispatched \in Seq(DomainEvent)
    <3>1. <<>> \in Seq(DomainEvent)
      OBVIOUS
    <3> QED
      BY <2>1, <2>2, <3>1
  <2>4. DOMAIN dispatched = 1 .. Len(dispatched) /\ (phase # "committed" => Len(dispatched) = 0)
    BY <2>2, <2>3
  <2>5. TypeOK
    BY <2>3 DEF CollectorInd, QueueTypes, TypeOK
  <2>6. OnlyCommittedEvents
    <3> SUFFICES ASSUME NEW n \in 1 .. Len(dispatched)
                 PROVE  /\ phase = "committed"
                        /\ \E j \in DOMAIN published : published[j] = dispatched[n]
      BY <2>4 DEF OnlyCommittedEvents
    <3>1. phase = "committed"
      BY <2>4
    <3> QED
      BY <3>1, BatchWasPublished DEF IsPublished, CollectorInd, QueueTypes
  <2>7. NoRedundantDispatch
    <3> SUFFICES ASSUME NEW i \in 1 .. Len(dispatched), NEW j \in 1 .. Len(dispatched), i # j
                 PROVE  /\ dispatched[i].type # "whitelists.allChanged" \/
                             dispatched[j].type \notin
                               {"whitelist.changed", "whitelists.allChanged"}
                        /\ dispatched[i].type = dispatched[j].type
                             /\ dispatched[i].type # "whitelists.allChanged"
                             => dispatched[i].id # dispatched[j].id
      BY <2>4 DEF NoRedundantDispatch
    <3>1. phase = "committed"
      BY <2>4
    <3> QED
      BY <3>1, BatchIsNotRedundant
  <2> QED
    BY <2>5, <2>6, <2>7 DEF DispatchInv
<1> QED
  BY <1>1, CollectorInitial, CollectorStep, PTL DEF Spec
=============================================================================
