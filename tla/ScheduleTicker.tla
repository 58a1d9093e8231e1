--------------------------- MODULE ScheduleTicker ---------------------------
(***************************************************************************)
(* The schedule boundary ticker (api/src/lib/schedule-boundary-ticker.ts). *)
(* Several API processes share one database.  The process whose session    *)
(* holds a PostgreSQL advisory lock ticks once a minute; the others try    *)
(* again every 30 seconds and whenever an agent opens an event stream.     *)
(*                                                                         *)
(* A start is a chain of awaits (pool.connect, pg_try_advisory_lock, the   *)
(* first tick) between which the process's variables change: the retry     *)
(* timer and stop() reset startPromise, so that two starts may overlap.    *)
(* Handles of timers are overwritten; a timer whose handle was lost keeps  *)
(* firing.                                                                 *)
(***************************************************************************)
EXTENDS Integers, FiniteSets

CONSTANTS
  Procs,      \* API processes
  PoolMax,    \* connections of each process's pool (config.database.poolMax)
  MaxStarts,  \* bound: starts of one process in flight together
  MaxTimers,  \* bound: live timers of one kind in one process
  None,       \* null
  MaxFaults   \* bound per process: errors of connections in use and failing awaits

ASSUME TickerAssumption ==
  /\ MaxFaults \in [Procs -> Nat] /\ MaxStarts \in Nat /\ MaxTimers \in Nat
  /\ PoolMax \in Nat
  /\ None \notin (Procs \X Nat) \cup Nat

Starts == 1 .. MaxStarts
Ids == 1 .. MaxTimers
Sessions == Procs \X (1 .. PoolMax)
Kinds == {"tick", "interval", "retry"}

VARIABLES
  client,       \* the leader's connection, or None
  startPromise, \* the start ensureStarted would wait for, or None
  start,        \* per process and start: where its async function is
  timers,       \* the live timers of each process
  handle,       \* tickTimeout, tickInterval and retryTimeout
  stopping,     \* sessions whose stop() awaits the unlock
  listening,    \* sessions that carry the error listener
  session,      \* "pool" (idle, or not open), "out", "lost" (out, ended by the server
                \* or the network) or "broken" (and its process knows)
  holder,       \* the session that holds the advisory lock, or None
  holds,        \* how often it holds it (advisory locks nest)
  raced,        \* history: processes in which a start outlived a stop(), or failed and
                \* released the client of another start, or took its variable over
  candidates,   \* history: processes that asked for the lock and whose starts have not
                \* failed or been stopped since
  faults

procVars == <<client, startPromise, start, timers, handle, stopping>>
tickerVars == <<procVars, listening, session, holder, holds, raced,
                candidates, faults>>

Idle == [at |-> "idle", conn |-> None]
Timer == [kind : Kinds, id : Ids]

TickerInit ==
  /\ client = [p \in Procs |-> None]
  /\ startPromise = [p \in Procs |-> None]
  /\ start = [p \in Procs |-> [a \in Starts |-> Idle]]
  /\ timers = [p \in Procs |-> {}]
  /\ handle = [p \in Procs |-> [k \in Kinds |-> None]]
  /\ stopping = {}
  /\ listening = {}
  /\ session = [s \in Sessions |-> "pool"]
  /\ holder = None
  /\ holds = 0
  /\ raced = {}
  /\ candidates = {}
  /\ faults = [p \in Procs |-> 0]

-----------------------------------------------------------------------------
\* A new timer or start takes the lowest number nobody uses.
NewId(p, kind, i) ==
  /\ [kind |-> kind, id |-> i] \notin timers[p]
  /\ \A j \in Ids : j < i => [kind |-> kind, id |-> j] \in timers[p]
NewStart(p, a) ==
  start[p][a] = Idle /\ \A b \in Starts : b < a => start[p][b] # Idle

\* setTimeout or setInterval, its handle kept in the variable of that kind.
SetTimer(p, kind, i) ==
  /\ NewId(p, kind, i)
  /\ timers' = [timers EXCEPT ![p] = @ \cup {[kind |-> kind, id |-> i]}]
  /\ handle' = [handle EXCEPT ![p][kind] = i]

\* The finally clause: a start ends and startPromise is null, whosever it was.
EndStart(p, a) ==
  /\ start' = [start EXCEPT ![p][a] = Idle]
  /\ startPromise' = [startPromise EXCEPT ![p] = None]

\* PostgreSQL frees the advisory locks of a session that ends.
FreeLockOf(s) ==
  /\ holder' = IF holder = s THEN None ELSE holder
  /\ holds' = IF holder = s THEN 0 ELSE holds

\* PoolClient.release(): the place of a broken connection is free again, that of
\* a lost one as soon as the pool hears of it.
Release(s) == session' = [session EXCEPT ![s] = "pool"]

\* Every connection of the pool is out, or lost by a start that failed.
Exhausted(p) ==
  \A s \in Sessions : s[1] = p => session[s] # "pool"

\* An await that cannot but throw: connectionTimeoutMillis, a broken socket.
MustFail(p, a) ==
  \/ start[p][a].at = "connect" /\ Exhausted(p)
  \/ start[p][a].at = "lock" /\ session[start[p][a].conn] = "broken"

Fault(p) == faults[p] < MaxFaults[p] /\ faults' = [faults EXCEPT ![p] = @ + 1]

-----------------------------------------------------------------------------
\* Mutant: the result of the lock query is not looked at.
AcquireUnchecked(p, a) ==
  LET s == start[p][a].conn IN
  /\ start[p][a].at = "lock"
  /\ session[s] = "out"
  /\ holder' = IF holder = None THEN s ELSE holder
  /\ holds' = holds + 1
  /\ client' = [client EXCEPT ![p] = s]
  /\ listening' = listening \cup {s}
  /\ start' = [start EXCEPT ![p][a].at = "firstTick"]
  /\ UNCHANGED <<startPromise, timers, handle, stopping, session, raced, candidates, faults>>

\* Mutant: the timeout does not become an interval.
TickTimeoutOnce(p, i) ==
  /\ [kind |-> "tick", id |-> i] \in timers[p]
  /\ timers' = [timers EXCEPT ![p] = @ \ {[kind |-> "tick", id |-> i]}]
  /\ handle' = [handle EXCEPT ![p]["tick"] = None]
  /\ UNCHANGED <<client, startPromise, start, stopping, listening, session,
                 holder, holds, raced, candidates, faults>>

-----------------------------------------------------------------------------
\* Every start that does not get the lock leaves a retry timer of its own, and
\* every stream that comes between two starts begins one more (bound: MaxStarts).
Chains(p) ==
  Cardinality({a \in Starts : start[p][a] # Idle})
    + Cardinality({t \in timers[p] : t.kind = "retry"})

\* ensureStarted() for an agent's new stream, when it neither finds a client
\* nor a start to wait for.
EnsureStarted(p, a) ==
  /\ Chains(p) < MaxStarts
  /\ client[p] = None /\ startPromise[p] = None
  /\ NewStart(p, a)
  /\ start' = [start EXCEPT ![p][a] = [at |-> "connect", conn |-> None]]
  /\ startPromise' = [startPromise EXCEPT ![p] = a]
  /\ candidates' = candidates \cup {p}
  /\ UNCHANGED <<client, timers, handle, stopping, listening, session, holder,
                 holds, raced, faults>>

\* pool.connect() hands out an idle connection or opens one: the first of those
\* that differ in nothing, or one that a failed start left.
Pooled(p) == {s \in Sessions : s[1] = p /\ session[s] = "pool"}
Connect(p, a, s) ==
  /\ start[p][a].at = "connect"
  /\ s \in Pooled(p)
  /\ s \in listening \/ \A r \in Pooled(p) \ listening : s[2] <= r[2]
  /\ session' = [session EXCEPT ![s] = "out"]
  /\ start' = [start EXCEPT ![p][a] = [at |-> "lock", conn |-> s]]
  /\ UNCHANGED <<client, startPromise, timers, handle, stopping, listening,
                 holder, holds, raced, candidates, faults>>

\* pg_try_advisory_lock: true when no other session holds the lock.  A client
\* whose session is lost unnoticed is overwritten.
Acquire(p, a) ==
  LET s == start[p][a].conn IN
  /\ start[p][a].at = "lock"
  /\ session[s] = "out"
  /\ holder \in {None, s}
  /\ holder' = s
  /\ holds' = holds + 1
  /\ client' = [client EXCEPT ![p] = s]
  /\ raced' = IF client[p] = None THEN raced ELSE raced \cup {p}
  /\ listening' = listening \cup {s}
  /\ start' = [start EXCEPT ![p][a].at = "firstTick"]
  /\ UNCHANGED <<startPromise, timers, handle, stopping, session, candidates, faults>>

\* Not acquired: the connection goes back and the start is retried later.
NotAcquired(p, a, i) ==
  LET s == start[p][a].conn IN
  /\ start[p][a].at = "lock"
  /\ session[s] = "out"
  /\ holder \notin {None, s}
  /\ Release(s)
  /\ SetTimer(p, "retry", i)
  /\ EndStart(p, a)
  /\ UNCHANGED <<client, stopping, listening, holder, holds, raced, candidates, faults>>

\* The first runTickOnce() returns: the timers are armed, whatever happened
\* to the client while it was awaited.
FirstTickDone(p, a, i) ==
  /\ start[p][a].at = "firstTick"
  /\ SetTimer(p, "tick", i)
  /\ EndStart(p, a)
  /\ UNCHANGED <<client, stopping, listening, session, holder, holds, raced,
                 candidates, faults>>

\* One of the three awaits throws: the catch clause releases the client of the
\* process, without an unlock, and loses the start's own connection when it is
\* not that client.
StartFails(p, a) ==
  /\ start[p][a] # Idle
  /\ IF MustFail(p, a) THEN UNCHANGED faults ELSE Fault(p)
  /\ EndStart(p, a)
  /\ client' = [client EXCEPT ![p] = None]
  /\ IF client[p] = None THEN UNCHANGED session ELSE Release(client[p])
  /\ raced' = IF client[p] \in {None, start[p][a].conn}
              THEN raced ELSE raced \cup {p}
  /\ candidates' = candidates \ {p}
  /\ UNCHANGED <<timers, handle, stopping, listening, holder, holds>>

\* The minute's timeout fires, ticks and becomes an interval.
TickTimeout(p, i) ==
  /\ [kind |-> "tick", id |-> i] \in timers[p]
  /\ \E j \in Ids :
       /\ NewId(p, "interval", j)
       /\ timers' = [timers EXCEPT ![p] =
                       (@ \ {[kind |-> "tick", id |-> i]})
                         \cup {[kind |-> "interval", id |-> j]}]
       /\ handle' = [handle EXCEPT ![p]["tick"] = None, ![p]["interval"] = j]
  /\ UNCHANGED <<client, startPromise, start, stopping, listening, session,
                 holder, holds, raced, candidates, faults>>

\* The retry timer fires, forgets the start in flight and calls ensureStarted.
RetryTimeout(p, i) ==
  /\ [kind |-> "retry", id |-> i] \in timers[p]
  /\ timers' = [timers EXCEPT ![p] = @ \ {[kind |-> "retry", id |-> i]}]
  /\ handle' = [handle EXCEPT ![p]["retry"] = None]
  /\ IF client[p] = None
     THEN \E a \in Starts :
            /\ NewStart(p, a)
            /\ start' = [start EXCEPT ![p][a] = [at |-> "connect", conn |-> None]]
            /\ startPromise' = [startPromise EXCEPT ![p] = a]
     ELSE /\ startPromise' = [startPromise EXCEPT ![p] = None]
          /\ UNCHANGED start
  /\ UNCHANGED <<client, stopping, listening, session, holder, holds, raced,
                 candidates, faults>>

-----------------------------------------------------------------------------
\* stop() up to its await: the timers whose handles are known, then the client.
StopNow(p) ==
  /\ timers' = [timers EXCEPT ![p] = {t \in @ : handle[p][t.kind] # t.id}]
  /\ handle' = [handle EXCEPT ![p] = [k \in Kinds |-> None]]
  /\ client' = [client EXCEPT ![p] = None]
  /\ startPromise' = [startPromise EXCEPT
                        ![p] = IF client[p] = None THEN @ ELSE None]
  /\ stopping' = stopping \cup ({client[p]} \ {None})
  /\ raced' = IF \E a \in Starts : start[p][a] # Idle
                  THEN raced \cup {p} ELSE raced
  /\ candidates' = candidates \ {p}

\* PostgreSQL ends a session in use, or the network does, and the lock of the
\* session is free.  Its process does not know yet, and goes on.
SessionLost(s) ==
  /\ Fault(s[1])
  /\ session[s] = "out"
  /\ session' = [session EXCEPT ![s] = "lost"]
  /\ FreeLockOf(s)
  /\ UNCHANGED <<procVars, listening, raced, candidates>>

\* The connection's 'error' event: one that carries the listener stops the
\* ticker of its process, whichever client that has.
ConnectionError(s) ==
  /\ session[s] = "lost"
  /\ session' = [session EXCEPT ![s] = "broken"]
  /\ listening' = listening \ {s}
  /\ IF s \in listening
     THEN StopNow(s[1])
     ELSE UNCHANGED <<timers, handle, client, startPromise, stopping, raced, candidates>>
  /\ UNCHANGED <<start, holder, holds, faults>>

\* Does a query wait for its answer?  Then the loss is noticed in the end.
Awaited(s) ==
  s \in stopping \/ \E a \in Starts : start[s[1]][a] = [at |-> "lock", conn |-> s]

\* The rest of stop(): unlock, remove the listener, release the connection.
StopUnlock(s) ==
  /\ s \in stopping
  /\ session[s] # "lost"
  /\ stopping' = stopping \ {s}
  /\ listening' = listening \ {s}
  /\ holds' = IF holder = s THEN holds - 1 ELSE holds
  /\ holder' = IF holder = s /\ holds = 1 THEN None ELSE holder
  /\ Release(s)
  /\ UNCHANGED <<client, startPromise, start, timers, handle, raced, candidates, faults>>

\* A pooled connection that a failed start left with the lock and the listener
\* is closed when nobody uses it (idleTimeoutMillis) ...
IdleClose(s) ==
  /\ session[s] = "pool" /\ s \in listening
  /\ FreeLockOf(s)
  /\ listening' = listening \ {s}
  /\ UNCHANGED <<procVars, session, raced, candidates, faults>>

\* ... or breaks, and the listener stops the ticker of the process.  Nobody leads
\* with it, so loss and event are one step; and a listener in the pool is what
\* an earlier fault left, so this one needs no bound.
IdleError(s) ==
  /\ session[s] = "pool" /\ s \in listening
  /\ FreeLockOf(s)
  /\ listening' = listening \ {s}
  /\ StopNow(s[1])
  /\ UNCHANGED <<start, session, faults>>

-----------------------------------------------------------------------------
\* An await of a start ends, one way or the other.
Progress(p, a) ==
  \/ \E s \in Sessions : Connect(p, a, s)
  \/ Acquire(p, a)
  \/ \E i \in Ids : NotAcquired(p, a, i) \/ FirstTickDone(p, a, i)
  \/ MustFail(p, a) /\ StartFails(p, a)

TickerNext ==
  \/ \E p \in Procs, a \in Starts :
       Progress(p, a) \/ EnsureStarted(p, a) \/ StartFails(p, a)
  \/ \E p \in Procs, i \in Ids : TickTimeout(p, i) \/ RetryTimeout(p, i)
  \/ \E s \in Sessions : SessionLost(s) \/ ConnectionError(s) \/ StopUnlock(s)
                             \/ IdleClose(s) \/ IdleError(s)

\* Awaits end and timers fire.  Nothing obliges an agent to open a stream (those
\* that are open stay open), the pool to close a connection, or a process to
\* notice that a connection it does not use is lost.
TickerFairness ==
  \A p \in Procs :
    /\ \A a \in Starts : WF_tickerVars(Progress(p, a))
    /\ WF_tickerVars(\E i \in Ids : RetryTimeout(p, i))
    /\ WF_tickerVars(\E k \in 1 .. PoolMax : StopUnlock(<<p, k>>))
    /\ WF_tickerVars(\E k \in 1 .. PoolMax :
                       Awaited(<<p, k>>) /\ ConnectionError(<<p, k>>))

TickerSpec == TickerInit /\ [][TickerNext]_tickerVars /\ TickerFairness

-----------------------------------------------------------------------------
\* The state stays within its types; above all the server's count of holds never
\* drops below zero, whatever a stop() unlocks after its session lost the lock.
TickerTypeOK ==
  /\ client \in [Procs -> Sessions \cup {None}]
  /\ startPromise \in [Procs -> Starts \cup {None}]
  /\ start \in [Procs -> [Starts -> [at : {"idle", "connect", "lock", "firstTick"},
                                     conn : Sessions \cup {None}]]]
  /\ timers \in [Procs -> SUBSET Timer]
  /\ handle \in [Procs -> [Kinds -> Ids \cup {None}]]
  /\ stopping \subseteq Sessions
  /\ listening \subseteq Sessions
  /\ session \in [Sessions -> {"pool", "out", "lost", "broken"}]
  /\ holder \in Sessions \cup {None}
  /\ holds \in Nat
  /\ raced \subseteq Procs /\ candidates \subseteq Procs
  /\ \A p \in Procs : faults[p] \in 0 .. MaxFaults[p]

\* A process that keeps a client keeps the lock with it, or has not yet heard
\* that the session is lost: ensureStarted gives `client` only a session that
\* acquired the lock, and every path of the ticker that gives the lock up clears
\* the variable first.  Hence two processes both believe they lead only between
\* the loss of a session and its 'error' event ("advisory-lock ... used to elect
\* the ticker leader", docs/ENVIRONMENT_VARIABLES.md:68).
LeaderHoldsLock ==
  \A p \in Procs : client[p] # None =>
    holder = client[p] \/ session[client[p]] = "lost"

\* A process ticks only while it leads, unless a start of its own outlived a
\* stop(), or released or overwrote the client of another start: no other retry,
\* failed first tick or overwritten handle leaves timers armed behind a lost
\* leadership.
TicksOnlyAsLeader ==
  \A p \in Procs \ raced :
    client[p] = None => \A t \in timers[p] : t.kind = "retry"

\* Leadership is one thing although lock, client and timers are three: what
\* ensureStarted, stop() and the timers keep true together.
TickerInv == TickerTypeOK /\ LeaderHoldsLock /\ TicksOnlyAsLeader

\* The lock is held by a connection that lies in a pool: a start failed after
\* it had acquired the lock.
Leaked == holder # None /\ session[holder] = "pool"

Ticking(p) == \E t \in timers[p] : t.kind # "retry"

\* Somebody ticks again and again, or one of three things has gone wrong for
\* good: a failed start left the lock with an idle connection; or every process
\* that asked for the lock has had a start fail or stopped since, and waits for
\* an agent to open a stream; or it asks in vain because failed starts took all
\* connections of its pool.  A process that only found the lock taken keeps
\* asking and replaces a leader that lost its session.
SomebodyTicks ==
  \/ []<>(\E p \in Procs : Ticking(p))
  \/ <>[]Leaked
  \/ <>[](\A p \in candidates : Exhausted(p))
=============================================================================
