------------------------- MODULE TemplateProvision -------------------------
(***************************************************************************)
(* Publication of the pinned Windows installer template by runs of         *)
(* provisionWindowsOfflineInstallerTemplate (api/src/services/windows-     *)
(* offline-installer-provision.service.ts), read through                   *)
(* loadCachedWindowsOfflineTemplate (lib/windows-offline-installer-        *)
(* template.ts).                                                           *)
(*                                                                         *)
(* A template is a directory under generations/, complete or not; the file *)
(* .current names the one in use.  A run cleans up what older runs left,   *)
(* downloads and stages a bundle, takes the lock file .publish.lock,       *)
(* renames its staging directory to a new generation and the pointer over  *)
(* .current.  Runs are processes of one host: their process identifiers    *)
(* tell a live lock from one a crash left, and may be used again.  A step  *)
(* is one file operation, and a run may die between any two.               *)
(***************************************************************************)
EXTENDS Naturals, FiniteSets

CONSTANTS
  Runs,      \* provisioning runs
  Pids,      \* process identifiers
  MaxTries,  \* bound: turns of the lock loop before its 30 s deadline
  MaxMishaps, \* bound: runs that die and file operations that fail
  MaxDamage, \* bound: published bundles damaged on disk
  MaxDays    \* bound: times that everything left over grows old

Seed == "seed"      \* a generation an earlier installation published
None == "none"

ASSUME TemplateAssumption ==
  /\ IsFiniteSet(Runs) /\ Runs # {} /\ Runs \cap {Seed, None, "lock"} = {}
  /\ None \notin Pids
  /\ MaxTries \in Nat \ {0} /\ MaxMishaps \in Nat
  /\ MaxDamage \in Nat /\ MaxDays \in Nat

\* A generation is named by the run that publishes it.
Generations == Runs \cup {Seed}

VARIABLES
  bundle,   \* per generation: "none", "good" or "bad" (fails verification)
  current,  \* the generation .current names, or None
  staging,  \* per run: its staging directory: "none", "partial", "good"
  pointer,  \* the runs whose temporary pointer file exists
  lock,     \* .publish.lock: None, or its owner and the pid in it
  old,      \* what is older than the retention: generations, stagings, lock
  pc,       \* per run: its next step
  pid,      \* per run: its process identifier
  tries,    \* per run: turns of the lock loop left
  kept,     \* per run: the generation its cleanup found current
  result,   \* per run: None, "ok" or "failed"
  budget    \* mishaps, damages and days left

tplVars == <<bundle, current, staging, pointer, lock, old, pc, pid, tries, kept, result, budget>>

NoLock == [owner |-> None, pid |-> None]

TplInit ==
  /\ \E b \in {"none", "good", "bad"} :
       /\ bundle = [g \in Generations |-> IF g = Seed THEN b ELSE "none"]
       /\ current = IF b = "none" THEN None ELSE Seed
  /\ staging = [p \in Runs |-> "none"]
  /\ pointer = {}
  /\ lock = NoLock
  /\ old = {Seed}
  /\ pc = [p \in Runs |-> "new"]
  /\ pid \in [Runs -> Pids]
  /\ tries = [p \in Runs |-> 0]
  /\ kept = [p \in Runs |-> None]
  /\ result = [p \in Runs |-> None]
  /\ budget = [mishap |-> MaxMishaps, damage |-> MaxDamage, day |-> MaxDays]

Alive(p) == pc[p] \notin {"new", "ended", "dead"}

\* loadCachedWindowsOfflineTemplate succeeds: the pointer names a generation
\* whose files are there and match the pinned digest.
Verified == current # None /\ bundle[current] = "good"

GoTo(p, step) == pc' = [pc EXCEPT ![p] = step]

Spend(kind) == budget[kind] > 0 /\ budget' = [budget EXCEPT ![kind] = @ - 1]

-----------------------------------------------------------------------------
(***************************************************************************)
(* Cleanup, cached template, download and staging.                         *)
(***************************************************************************)

\* A process starts, with an identifier no live process has; its cleanup
\* reads .current.
ReadPointer(p) ==
  /\ pc[p] = "new"
  /\ \A q \in Runs : Alive(q) => pid[q] # pid[p]
  /\ kept' = [kept EXCEPT ![p] = current]
  /\ GoTo(p, "clean")
  /\ UNCHANGED <<bundle, current, staging, pointer, lock, old, pid, tries, result, budget>>

\* Mutant: the current generation is not spared.
OldGenerations(p) == {g \in Generations \cap old : kept[p] # None}

\* What the cleanup may remove of the generations: the old ones, but the one
\* that was current; all are kept when no pointer was readable.
AbandonedGenerations(p) == {g \in (Generations \cap old) \ {kept[p]} : kept[p] # None}

\* removeIfStale, one entry at a time; a failure is logged and passed over.
CleanOne(p) ==
  /\ pc[p] = "clean"
  /\ \/ \E g \in AbandonedGenerations(p) :
          /\ bundle[g] # "none"
          /\ bundle' = [bundle EXCEPT ![g] = "none"]
          /\ UNCHANGED <<staging, pointer>>
     \/ \E q \in Runs \cap old :
          /\ staging[q] # "none" \/ q \in pointer
          /\ staging' = [staging EXCEPT ![q] = "none"]
          /\ pointer' = pointer \ {q}
          /\ UNCHANGED bundle
  /\ UNCHANGED <<current, lock, old, pc, pid, tries, kept, result, budget>>

\* isStaleFilesystemLock: the process named in the lock is gone, or the lock
\* names none (its creator died before writing it) and is old.  A process
\* takes a lock with its own identifier for a live one.
IsStale(p) ==
  \/ lock = NoLock
  \/ lock.pid # None /\ lock.pid # pid[p] /\ \A q \in Runs : Alive(q) => pid[q] # lock.pid
  \/ lock.pid = None /\ "lock" \in old

\* The cleanup's look at the lock comes with the end of its scan.
CleanDone(p) ==
  /\ pc[p] = "clean"
  /\ kept' = [kept EXCEPT ![p] = None]
  /\ GoTo(p, IF lock # NoLock /\ IsStale(p) THEN "reclaim0" ELSE "cached")
  /\ UNCHANGED <<bundle, current, staging, pointer, lock, old, pid, tries, result, budget>>

\* reclaimStaleFilesystemLock renames whatever lock file is there now.
Reclaim(p) ==
  /\ pc[p] \in {"reclaim0", "reclaim"}
  /\ lock' = NoLock
  /\ old' = old \ {"lock"}
  /\ GoTo(p, IF pc[p] = "reclaim0" THEN "cached" ELSE "lock")
  /\ UNCHANGED <<bundle, current, staging, pointer, pid, tries, kept, result, budget>>

\* A verified template is enough; else the release is resolved, downloaded
\* and checked against the pinned digest, which may fail.
CheckCached(p) ==
  /\ pc[p] = "cached"
  /\ \/ /\ Verified
        /\ GoTo(p, "ended") /\ result' = [result EXCEPT ![p] = "ok"]
     \/ /\ ~Verified
        /\ GoTo(p, "stage") /\ UNCHANGED result
     \/ /\ ~Verified
        /\ GoTo(p, "ended") /\ result' = [result EXCEPT ![p] = "failed"]
  /\ UNCHANGED <<bundle, current, staging, pointer, lock, old, pid, tries, kept, budget>>

\* mkdtemp, then the files; an error goes to the finally block.
Stage(p) ==
  \/ /\ pc[p] = "stage" /\ staging[p] = "none"
     /\ staging' = [staging EXCEPT ![p] = "partial"]
     /\ UNCHANGED <<pc, tries, budget>>
     /\ UNCHANGED <<bundle, current, pointer, lock, old, pid, kept, result>>
  \/ /\ pc[p] = "stage" /\ staging[p] = "partial"
     /\ \/ staging' = [staging EXCEPT ![p] = "good"] /\ GoTo(p, "lock")
           /\ tries' = [tries EXCEPT ![p] = MaxTries] /\ UNCHANGED budget
        \/ Spend("mishap") /\ GoTo(p, "unstage") /\ UNCHANGED <<staging, tries>>
     /\ UNCHANGED <<bundle, current, pointer, lock, old, pid, kept, result>>

-----------------------------------------------------------------------------
(***************************************************************************)
(* The publish lock.                                                       *)
(***************************************************************************)

\* open(lockPath, 'wx') creates the file; when it exists, a stale one is
\* reclaimed and another is waited for, until the deadline.
TryLock(p) ==
  /\ pc[p] = "lock"
  /\ tries' = [tries EXCEPT ![p] = IF @ = 0 THEN 0 ELSE @ - 1]
  /\ \/ /\ tries[p] = 0
        /\ GoTo(p, "unstage") /\ UNCHANGED <<lock, old>>
     \/ /\ tries[p] > 0 /\ lock = NoLock
        /\ lock' = [owner |-> p, pid |-> None] /\ old' = old \ {"lock"}
        /\ GoTo(p, "writepid")
     \/ /\ tries[p] > 0 /\ lock # NoLock
        /\ GoTo(p, "stale") /\ UNCHANGED <<lock, old>>
  /\ UNCHANGED <<bundle, current, staging, pointer, pid, kept, result, budget>>

LookAtLock(p) ==
  /\ pc[p] = "stale"
  /\ GoTo(p, IF IsStale(p) THEN "reclaim" ELSE "lock")
  /\ UNCHANGED <<bundle, current, staging, pointer, lock, old, pid, tries, kept, result, budget>>

\* The handle writes into the file it created, wherever that is by now; a
\* failure removes whatever lock file there is.
WritePid(p) ==
  /\ pc[p] = "writepid"
  /\ \/ /\ lock' = IF lock.owner = p THEN [lock EXCEPT !.pid = pid[p]] ELSE lock
        /\ GoTo(p, "publish") /\ UNCHANGED budget
     \/ Spend("mishap") /\ lock' = NoLock /\ GoTo(p, "unstage")
  /\ UNCHANGED <<bundle, current, staging, pointer, old, pid, tries, kept, result>>

-----------------------------------------------------------------------------
(***************************************************************************)
(* Under the lock, and after.                                              *)
(***************************************************************************)

Decide(p, r) == GoTo(p, "release") /\ result' = [result EXCEPT ![p] = r]

\* Mutant: a failed publication is reported as one.
AcceptAnyway(p) == Decide(p, "ok")

\* The catch block: only a template another run published counts.
Accept(p) == Decide(p, IF Verified THEN "ok" ELSE "failed")

\* A template published meanwhile is enough; else the staged bundle is
\* validated and renamed to a generation.
PublishGeneration(p) ==
  /\ pc[p] = "publish"
  /\ \/ /\ Verified /\ Decide(p, "ok")
        /\ UNCHANGED <<bundle, staging, old, budget>>
     \/ /\ ~Verified /\ staging[p] # "good" /\ Accept(p)
        /\ UNCHANGED <<bundle, staging, old, budget>>
     \/ /\ ~Verified /\ staging[p] = "good"
        /\ bundle' = [bundle EXCEPT ![p] = "good"]
        /\ staging' = [staging EXCEPT ![p] = "none"]
        /\ GoTo(p, "pointer") /\ UNCHANGED <<old, result, budget>>
     \/ /\ ~Verified /\ Spend("mishap") /\ Accept(p)
        /\ UNCHANGED <<bundle, staging, old>>
  /\ UNCHANGED <<current, pointer, lock, pid, tries, kept>>

\* Mutant: the pointer file is written in place, not through a temporary.
WritePointerInPlace(p) ==
  /\ pc[p] = "pointer"
  /\ current' = None
  /\ pointer' = pointer \cup {p} /\ GoTo(p, "commit")
  /\ UNCHANGED <<bundle, staging, lock, old, pid, tries, kept, result, budget>>

\* The temporary pointer file.
WritePointer(p) ==
  /\ pc[p] = "pointer"
  /\ \/ /\ pointer' = pointer \cup {p} /\ GoTo(p, "commit")
        /\ UNCHANGED <<result, budget>>
     \/ Spend("mishap") /\ Accept(p) /\ UNCHANGED pointer
  /\ UNCHANGED <<bundle, current, staging, lock, old, pid, tries, kept>>

\* The rename over .current is the publication; it may fail, and the
\* temporary file is removed.
CommitPointer(p) ==
  /\ pc[p] = "commit"
  /\ pointer' = pointer \ {p}
  /\ \/ current' = p /\ GoTo(p, "verify") /\ UNCHANGED <<result, budget>>
     \/ Spend("mishap") /\ Accept(p) /\ UNCHANGED current
  /\ UNCHANGED <<bundle, staging, lock, old, pid, tries, kept>>

VerifyPublished(p) ==
  /\ pc[p] = "verify"
  /\ Accept(p)
  /\ UNCHANGED <<bundle, current, staging, pointer, lock, old, pid, tries, kept, budget>>

\* The release removes the lock file of that path, whoever owns it.
ReleaseLock(p) ==
  /\ pc[p] = "release"
  /\ lock' = NoLock /\ old' = old \ {"lock"}
  /\ GoTo(p, "unstage")
  /\ UNCHANGED <<bundle, current, staging, pointer, pid, tries, kept, result, budget>>

\* finally: rm of the staging root.
Unstage(p) ==
  /\ pc[p] = "unstage"
  /\ staging' = [staging EXCEPT ![p] = "none"]
  /\ GoTo(p, "ended")
  /\ result' = [result EXCEPT ![p] = IF @ = None THEN "failed" ELSE @]
  /\ UNCHANGED <<bundle, current, pointer, lock, old, pid, tries, kept, budget>>

-----------------------------------------------------------------------------
(***************************************************************************)
(* Faults and time.                                                        *)
(***************************************************************************)

Crash(p) ==
  /\ Alive(p) /\ Spend("mishap")
  /\ GoTo(p, "dead")
  /\ result' = [result EXCEPT ![p] = None]
  /\ UNCHANGED <<bundle, current, staging, pointer, lock, old, pid, tries, kept>>

\* The files of a published generation no longer match the pinned digest.
Damage ==
  /\ Verified /\ Spend("damage")
  /\ bundle' = [bundle EXCEPT ![current] = "bad"]
  /\ UNCHANGED <<current, staging, pointer, lock, old, pc, pid, tries, kept, result>>

\* A day passes, between runs (a run is bounded by its lock deadline).
DayPasses ==
  /\ \A p \in Runs : ~Alive(p)
  /\ Spend("day")
  /\ old' = {g \in Generations : bundle[g] # "none"} \cup {p \in Runs : pc[p] = "dead"}
              \cup {"lock"}
  /\ old' # old
  /\ UNCHANGED <<bundle, current, staging, pointer, lock, pc, pid, tries, kept, result>>

Run(p) ==
  \/ ReadPointer(p) \/ CleanOne(p) \/ CleanDone(p) \/ Reclaim(p) \/ CheckCached(p)
  \/ Stage(p) \/ TryLock(p) \/ LookAtLock(p) \/ WritePid(p) \/ PublishGeneration(p)
  \/ WritePointer(p) \/ CommitPointer(p) \/ VerifyPublished(p) \/ ReleaseLock(p)
  \/ Unstage(p)

TplNext == (\E p \in Runs : Run(p) \/ Crash(p)) \/ Damage \/ DayPasses

TplSpec == TplInit /\ [][TplNext]_tplVars

-----------------------------------------------------------------------------
\* Type invariant: files and lock have their shapes; a run between the
\* rename of its bundle and its answer has a generation.
TplTypeOK ==
  /\ bundle \in [Generations -> {"none", "good", "bad"}]
  /\ current \in Generations \cup {None}
  /\ staging \in [Runs -> {"none", "partial", "good"}]
  /\ pointer \subseteq Runs
  /\ lock \in [owner : Runs \cup {None}, pid : Pids \cup {None}]
  /\ tries \in [Runs -> 0 .. MaxTries]
  /\ result \in [Runs -> {None, "ok", "failed"}]
  /\ \A p \in Runs : pc[p] \in {"pointer", "commit", "verify"} => bundle[p] # "none"

\* A pointer that was published always names a generation that is there:
\* no cleanup, working from the pointer it read earlier, removes the
\* generation another run makes current, and no crash comes between.
PointerNamesGeneration == current # None => bundle[current] # "none"

\* The published pointer and the runs on their way to it name generations that
\* are there, whatever the cleanups of other runs remove.
GenerationInv == TplTypeOK /\ PointerNamesGeneration

\* A template that can be served stays so, whatever runs fail or die, and
\* although a reclaimed lock can let two runs publish at the same time; only
\* damage to the files takes it away.
ServableStaysServable == [][Verified => Verified' \/ budget'.damage < budget.damage]_tplVars

\* A run that reports success leaves a template that can be served: what it
\* verified under the lock is still in place after it released it.
SuccessIsServable ==
  (\E p \in Runs : result[p] = "ok") /\ budget.damage = MaxDamage => Verified

\* Mutual exclusion.  TLC refutes it: between the look at a stale lock and its
\* renaming another run may have reclaimed it and taken the lock, and a release
\* removes whatever lock file it finds.  The properties above hold all the same.
LockIsExclusive ==
  \A p, q \in Runs : pc[p] \in {"publish", "pointer", "commit", "verify"}
                     /\ pc[q] \in {"publish", "pointer", "commit", "verify"} => p = q

=============================================================================
