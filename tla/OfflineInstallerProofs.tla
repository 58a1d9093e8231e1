----------------------- MODULE OfflineInstallerProofs -----------------------
(***************************************************************************)
(* Proofs about the publication of the installer template and about the    *)
(* download leases of the personalised installers.                         *)
(***************************************************************************)
EXTENDS TemplateProvision, InstallerDownloads, FiniteSetTheorems, TLAPS

-----------------------------------------------------------------------------
(***************************************************************************)
(* Template publication.  A cleanup removes old generations on the word of *)
(* the pointer it read before, so the argument is about ages: nothing that *)
(* belongs to a live run is old, and while a cleanup is under way the      *)
(* current generation is the one it read or one published since, which is  *)
(* not old.                                                                *)
(***************************************************************************)

\* The steps of a run.
Steps == {"new", "clean", "reclaim0", "cached", "stage", "lock", "stale", "reclaim",
          "writepid", "publish", "pointer", "commit", "verify", "release",
          "unstage", "ended", "dead"}

\* The values of the variables.
TplTypes ==
  /\ bundle \in [Generations -> {"none", "good", "bad"}]
  /\ current \in Generations \cup {None}
  /\ staging \in [Runs -> {"none", "partial", "good"}]
  /\ pointer \subseteq Runs
  /\ lock \in [owner : Runs \cup {None}, pid : Pids \cup {None}]
  /\ tries \in [Runs -> 0 .. MaxTries]
  /\ result \in [Runs -> {None, "ok", "failed"}]
  /\ pc \in [Runs -> Steps] /\ pid \in [Runs -> Pids]
  /\ kept \in [Runs -> Generations \cup {None}]
  /\ budget \in [mishap : Nat, damage : 0 .. MaxDamage, day : Nat]

\* Nothing that a run made, or is about to make, is old before the run ended.
LiveRunsAreFresh ==
  \A p \in Runs :
    /\ pc[p] \notin {"ended", "dead"} => p \notin old
    /\ pc[p] = "new" => bundle[p] = "none"

\* A run is current only once it has renamed its pointer; until then its
\* generation, once renamed into place, is good.
PublicationOrder ==
  \A p \in Runs :
    /\ current = p => pc[p] \in {"verify", "release", "unstage", "ended", "dead"}
    /\ pc[p] \in {"pointer", "commit"} => bundle[p] = "good"
    /\ pc[p] = "verify" => bundle[p] # "none"

\* What a cleanup in flight may not remove: the current generation is the one
\* the cleanup read, or is not old.
CleanupSparesCurrent ==
  \A p \in Runs : pc[p] = "clean" /\ kept[p] # None =>
                   /\ current # None
                   /\ current = kept[p] \/ current \notin old

\* The inductive invariant.
TplInd ==
  /\ TplTypes /\ LiveRunsAreFresh /\ PublicationOrder /\ CleanupSparesCurrent
  /\ PointerNamesGeneration /\ SuccessIsServable

\* Every step of a run, every crash, damage and day keeps the types.
LEMMA TplTypesStep == TplTypes /\ [TplNext]_tplVars => TplTypes'
<1> SUFFICES ASSUME TplTypes, [TplNext]_tplVars PROVE TplTypes'
  OBVIOUS
<1> USE TemplateAssumption
<1>1. ASSUME NEW p \in Runs, Run(p) PROVE TplTypes'
  <2>1. CASE ReadPointer(p)
    BY <2>1 DEF ReadPointer, TplTypes, GoTo, Steps, Generations, NoLock
  <2>2. CASE CleanOne(p)
    BY <2>2 DEF CleanOne, TplTypes, GoTo, Steps, AbandonedGenerations
  <2>3. CASE CleanDone(p)
    BY <2>3 DEF CleanDone, TplTypes, GoTo, Steps
  <2>4. CASE Reclaim(p)
    BY <2>4 DEF Reclaim, TplTypes, GoTo, Steps, NoLock
  <2>5. CASE CheckCached(p)
    BY <2>5 DEF CheckCached, TplTypes, GoTo, Steps
  <2>6. CASE Stage(p)
    BY <2>6 DEF Stage, TplTypes, GoTo, Steps, Spend
  <2>7. CASE TryLock(p)
    BY <2>7 DEF TryLock, TplTypes, GoTo, Steps
  <2>8. CASE LookAtLock(p)
    BY <2>8 DEF LookAtLock, TplTypes, GoTo, Steps
  <2>9. CASE WritePid(p)
    BY <2>9 DEF WritePid, TplTypes, GoTo, Steps, Spend, NoLock
  <2>10. CASE PublishGeneration(p)
    BY <2>10 DEF PublishGeneration, TplTypes, GoTo, Steps, Spend, Decide, Accept, Generations
  <2>11. CASE WritePointer(p)
    BY <2>11 DEF WritePointer, TplTypes, GoTo, Steps, Spend, Decide, Accept
  <2>12. CASE CommitPointer(p)
    BY <2>12 DEF CommitPointer, TplTypes, GoTo, Steps, Spend, Decide, Accept, Generations
  <2>13. CASE VerifyPublished(p)
    BY <2>13 DEF VerifyPublished, TplTypes, GoTo, Steps, Decide, Accept
  <2>14. CASE ReleaseLock(p)
    BY <2>14 DEF ReleaseLock, TplTypes, GoTo, Steps, NoLock
  <2>15. CASE Unstage(p)
    BY <2>15 DEF Unstage, TplTypes, GoTo, Steps
  <2> QED
    BY <1>1, <2>1, <2>2, <2>3, <2>4, <2>5, <2>6, <2>7, <2>8, <2>9, <2>10, <2>11,
       <2>12, <2>13, <2>14, <2>15 DEF Run
<1>2. ASSUME NEW p \in Runs, Crash(p) PROVE TplTypes'
  BY <1>2 DEF Crash, TplTypes, GoTo, Steps, Spend
<1>3. CASE Damage
  BY <1>3 DEF Damage, TplTypes, Spend, Verified
<1>4. CASE DayPasses
  BY <1>4 DEF DayPasses, TplTypes, Spend
<1>5. CASE UNCHANGED tplVars
  BY <1>5 DEF tplVars, TplTypes
<1> QED
  BY <1>1, <1>2, <1>3, <1>4, <1>5 DEF TplNext

\* Every step keeps the inductive invariant.
LEMMA TplIndStep == TplInd /\ [TplNext]_tplVars => TplInd'
<1> SUFFICES ASSUME TplInd, [TplNext]_tplVars PROVE TplInd'
  OBVIOUS
<1> USE TemplateAssumption
<1> DEFINE Rest == LiveRunsAreFresh /\ PublicationOrder /\ CleanupSparesCurrent
                     /\ PointerNamesGeneration /\ SuccessIsServable
<1>0. TplTypes /\ TplTypes'
  BY TplTypesStep DEF TplInd
<1>1. ASSUME NEW p \in Runs, Run(p) PROVE Rest'
  <2> USE <1>0 DEF TplInd, TplTypes, Generations, LiveRunsAreFresh, PublicationOrder, GoTo,
          CleanupSparesCurrent, PointerNamesGeneration, SuccessIsServable, Verified, Steps,
          Seed, None
  <2>1. CASE ReadPointer(p)
    BY <2>1 DEF ReadPointer, Alive
  <2>2. CASE CleanOne(p)
    <3>1. ASSUME NEW g \in AbandonedGenerations(p), bundle' = [bundle EXCEPT ![g] = "none"]
          PROVE  Rest'
      <4>1. g \in Generations /\ g \in old /\ g # current
        BY <2>2 DEF CleanOne, AbandonedGenerations
      <4>2. UNCHANGED <<current, old, pc, kept, result, budget>>
        BY <2>2 DEF CleanOne
      <4>3. LiveRunsAreFresh' /\ CleanupSparesCurrent'
        BY <3>1, <4>2
      <4>4. PublicationOrder'
        <5> SUFFICES ASSUME NEW q \in Runs
                     PROVE  /\ current = q =>
                               pc[q] \in {"verify", "release", "unstage", "ended", "dead"}
                            /\ pc[q] \in {"pointer", "commit"} => bundle'[q] = "good"
                            /\ pc[q] = "verify" => bundle'[q] # "none"
          BY <4>2 DEF PublicationOrder
        <5>1. pc[q] \in {"pointer", "commit", "verify"} => q # g
          BY <4>1 DEF LiveRunsAreFresh
        <5>2. q # g => bundle'[q] = bundle[q]
          BY <3>1
        <5> QED
          BY <5>1, <5>2 DEF PublicationOrder
      <4>5. PointerNamesGeneration' /\ SuccessIsServable'
        BY <3>1, <4>1, <4>2
      <4> QED
        BY <4>3, <4>4, <4>5
    <3>2. CASE UNCHANGED bundle
      BY <2>2, <3>2 DEF CleanOne
    <3> QED
      BY <2>2, <3>1, <3>2 DEF CleanOne
  <2>3. CASE CleanDone(p)
    BY <2>3 DEF CleanDone
  <2>4. CASE Reclaim(p)
    BY <2>4 DEF Reclaim
  <2>5. CASE CheckCached(p)
    BY <2>5 DEF CheckCached
  <2>6. CASE Stage(p)
    BY <2>6 DEF Stage, Spend
  <2>7. CASE TryLock(p)
    BY <2>7 DEF TryLock
  <2>8. CASE LookAtLock(p)
    BY <2>8 DEF LookAtLock
  <2>9. CASE WritePid(p)
    BY <2>9 DEF WritePid, Spend
  <2>10. CASE PublishGeneration(p)
    BY <2>10 DEF PublishGeneration, Spend, Decide, Accept
  <2>11. CASE WritePointer(p)
    BY <2>11 DEF WritePointer, Spend, Decide, Accept
  <2>12. CASE CommitPointer(p)
    <3>1. CASE current' = p /\ GoTo(p, "verify") /\ UNCHANGED <<result, budget>>
      <4>1. UNCHANGED <<bundle, old, kept, result, budget>> /\ pc[p] = "commit"
        BY <2>12, <3>1 DEF CommitPointer
      <4>2a. p \notin old /\ bundle[p] = "good"
        BY <4>1 DEF LiveRunsAreFresh, PublicationOrder
      <4>2b. pc' = [pc EXCEPT ![p] = "verify"] /\ current' = p
        BY <3>1
      <4>2. p \notin old /\ bundle[p] = "good" /\ pc' = [pc EXCEPT ![p] = "verify"] /\ current' = p
        BY <4>2a, <4>2b
      <4>3. LiveRunsAreFresh'
        BY <4>1, <4>2
      <4>4. PublicationOrder'
        BY <4>1, <4>2
      <4>5. CleanupSparesCurrent' /\ PointerNamesGeneration'
        BY <4>1, <4>2
      <4>6. SuccessIsServable'
        BY <4>1, <4>2
      <4> QED
        BY <4>3, <4>4, <4>5, <4>6
    <3>2. CASE Spend("mishap") /\ Accept(p) /\ UNCHANGED current
      BY <2>12, <3>2 DEF CommitPointer, Spend, Decide, Accept
    <3> QED
      BY <2>12, <3>1, <3>2 DEF CommitPointer
  <2>13. CASE VerifyPublished(p)
    BY <2>13 DEF VerifyPublished, Decide, Accept
  <2>14. CASE ReleaseLock(p)
    BY <2>14 DEF ReleaseLock
  <2>15. CASE Unstage(p)
    BY <2>15 DEF Unstage
  <2> QED
    BY <1>1, <2>1, <2>2, <2>3, <2>4, <2>5, <2>6, <2>7, <2>8, <2>9,
       <2>10, <2>11, <2>12, <2>13, <2>14, <2>15 DEF Run
<1>2. ASSUME NEW p \in Runs, Crash(p) PROVE Rest'
  BY <1>0, <1>2 DEF Crash, TplInd, TplTypes, LiveRunsAreFresh, PublicationOrder, GoTo, Spend,
       CleanupSparesCurrent, PointerNamesGeneration, SuccessIsServable, Verified, None
<1>3. CASE Damage
  BY <1>0, <1>3 DEF Damage, TplInd, TplTypes, LiveRunsAreFresh, PublicationOrder, Generations,
       CleanupSparesCurrent, PointerNamesGeneration, SuccessIsServable, Verified, Spend
<1>4. CASE DayPasses
  <2>1. UNCHANGED <<bundle, current, pc, kept, result>> /\ budget'.damage = budget.damage
    BY <1>0, <1>4 DEF DayPasses, Spend, TplTypes
  <2>2. \A p \in Runs : pc[p] \in {"new", "ended", "dead"}
    BY <1>4 DEF DayPasses, Alive
  <2>3. \A p \in Runs : p \in old' => bundle[p] # "none" \/ pc[p] = "dead"
    BY <1>4 DEF DayPasses
  <2>4. LiveRunsAreFresh'
    <3> SUFFICES ASSUME NEW p \in Runs, pc[p] = "new" PROVE p \notin old' /\ bundle[p] = "none"
      BY <2>1, <2>2 DEF LiveRunsAreFresh
    <3>1. bundle[p] = "none"
      BY DEF LiveRunsAreFresh, TplInd
    <3> QED
      BY <2>3, <3>1
  <2>5. PublicationOrder' /\ CleanupSparesCurrent' /\ PointerNamesGeneration'
    BY <2>1, <2>2 DEF PublicationOrder, CleanupSparesCurrent, PointerNamesGeneration, TplInd
  <2>6. SuccessIsServable'
    BY <2>1 DEF SuccessIsServable, Verified, TplInd
  <2> QED
    BY <1>0, <2>4, <2>5, <2>6 DEF TplInd
<1>5. CASE UNCHANGED tplVars
  BY <1>5 DEF tplVars, TplInd, TplTypes, LiveRunsAreFresh, PublicationOrder,
       CleanupSparesCurrent, PointerNamesGeneration, SuccessIsServable, Verified
<1> QED
  BY <1>0, <1>1, <1>2, <1>3, <1>4, <1>5 DEF TplNext, TplInd

\* The invariant holds at the start and in every state.
LEMMA TplInductive == TplSpec => []TplInd
<1>1. TplInit => TplInd
  <2> SUFFICES ASSUME TplInit PROVE TplInd
    OBVIOUS
  <2> USE TemplateAssumption DEF TplInit, Generations, NoLock, Steps, Seed, None
  <2>1. TplTypes
    BY DEF TplTypes
  <2>2. LiveRunsAreFresh /\ PublicationOrder /\ CleanupSparesCurrent
    BY DEF LiveRunsAreFresh, PublicationOrder, CleanupSparesCurrent
  <2>3. PointerNamesGeneration /\ SuccessIsServable
    BY DEF PointerNamesGeneration, SuccessIsServable
  <2> QED
    BY <2>1, <2>2, <2>3 DEF TplInd
<1> QED
  BY <1>1, TplIndStep, PTL DEF TplSpec

\* For any number of runs, crashes, failures and days, and although the publish
\* lock does not exclude: .current always names a generation that is there, and
\* so does every run between the rename of its bundle and its answer.
THEOREM TemplateGenerations == TplSpec => []GenerationInv
<1>1. TplInd => GenerationInv
  BY DEF TplInd, TplTypes, PublicationOrder, GenerationInv, TplTypeOK
<1> QED
  BY <1>1, TplInductive, PTL

\* A run of provisionWindowsOfflineInstallerTemplate that reports success leaves
\* a template that loadCachedWindowsOfflineTemplate accepts.
THEOREM TemplateSuccess == TplSpec => []SuccessIsServable
<1>1. TplInd => SuccessIsServable
  BY DEF TplInd
<1> QED
  BY <1>1, TplInductive, PTL

\* No step of any run takes a template that can be served away.
THEOREM TemplateStaysServable == TplSpec => ServableStaysServable
<1> DEFINE Stays == Verified => Verified' \/ budget'.damage < budget.damage
<1>1. ASSUME TplInd, [TplNext]_tplVars PROVE Stays
  <2> USE <1>1 DEF TplInd, Verified
  <2>1. ASSUME NEW p \in Runs, CleanOne(p) PROVE Stays
    <3>1. ASSUME NEW g \in AbandonedGenerations(p), bundle' = [bundle EXCEPT ![g] = "none"]
          PROVE  Stays
      BY <2>1, <3>1 DEF CleanOne, AbandonedGenerations, CleanupSparesCurrent, TplTypes
    <3> QED
      BY <2>1, <3>1 DEF CleanOne
  <2>2. ASSUME NEW p \in Runs, CommitPointer(p) PROVE Stays
    BY <2>2, TemplateAssumption
       DEF CommitPointer, PublicationOrder, TplTypes, Spend, Accept, Decide
  <2>3. CASE Damage
    BY <2>3, TemplateAssumption DEF Damage, Spend, TplTypes
  <2>4. ASSUME NEW p \in Runs, Run(p), ~CleanOne(p), ~CommitPointer(p) PROVE Stays
    BY <2>4 DEF Run, ReadPointer, CleanDone, Reclaim, CheckCached, Stage, TryLock, LookAtLock,
         WritePid, PublishGeneration, WritePointer, VerifyPublished, ReleaseLock, Unstage
  <2>5. ASSUME NEW p \in Runs, Crash(p) PROVE Stays
    BY <2>5 DEF Crash
  <2>6. CASE DayPasses
    BY <2>6 DEF DayPasses
  <2>7. CASE UNCHANGED tplVars
    BY <2>7 DEF tplVars
  <2> QED
    BY <2>1, <2>2, <2>3, <2>4, <2>5, <2>6, <2>7 DEF TplNext
<1> QED
  BY <1>1, TplInductive, PTL DEF TplSpec, ServableStaysServable

-----------------------------------------------------------------------------
(***************************************************************************)
(* Downloads.  Rows and files are separate stores, and the cleanup works   *)
(* from what it read several steps before.  Four facts carry the argument: *)
(* the row's counter is the number of its leases; a row that may still be  *)
(* used has its file; what the cleanup deleted is never minted again; and  *)
(* a lease outlives its reference, by more than a transaction lasts.       *)
(***************************************************************************)

\* The shapes of a file, of a row and of a cleanup.
Files == [at : {"none", "overlay", "staging", "stored"}, mtime : 0 .. Horizon]
Rows == [row : BOOLEAN, exp : 0 .. (Horizon + Retention + TTL),
         used : 0 .. MaxAttempts, active : Nat, consumed : BOOLEAN]
Cleaners == [pc : {"idle", "recover", "select", "delete", "names", "files"},
             time : 0 .. LastTime, rows : SUBSET Artifacts, gone : SUBSET Artifacts]

\* How far generations and requests get.
GenSteps == {"new", "overlaying", "staged", "published", "ready", "revoking", "removing",
             "failed", "dead"}
XferSteps == {"new", "reserving", "checking", "streaming", "hung", "releasing", "finishing",
              "removing", "complete", "done"}

\* The values of the variables.
InstTypes ==
  /\ time \in 0 .. LastTime
  /\ gen \in [Artifacts -> GenSteps]
  /\ file \in [Artifacts -> Files]
  /\ ref \in [Artifacts -> Rows]
  /\ lease \in [Transfers -> 0 .. LastTime + 1]
  /\ wants \in [Transfers -> Artifacts]
  /\ xfer \in [Transfers -> XferSteps]
  /\ asked \in [Transfers -> 0 .. LastTime]
  /\ cleaner \in Cleaners
  /\ faults \in Nat

\* No transfer will ever be reserved on this row again: all were handed out, or
\* it expired longer ago than a transaction lasts.
Spent(r) == ~r.row \/ r.consumed \/ r.exp + LeaseTime <= time

\* An artifact: no row before its reference is minted, its file in place and
\* young until then, and kept while the row is of use.
ArtifactOrder(a) ==
  /\ ~ref[a].row => ref[a] = NoRef
  /\ gen[a] \in {"new", "overlaying", "staged", "published", "removing"} => ~ref[a].row
  /\ gen[a] = "overlaying" => file[a].at = "overlay"
  /\ gen[a] = "staged" => file[a].at = "staging"
  /\ gen[a] = "published" => file[a].at = "stored"
  /\ gen[a] \in {"overlaying", "staged", "published"} => time < file[a].mtime + Retention
  /\ ref[a].row /\ ~(ref[a].consumed /\ ref[a].active = 0) => file[a].at = "stored"

\* A request: which row it works on, how long its lease is, and that the row is
\* spent once the request completed or lost its lease.
TransferOrder(t) ==
  LET r == ref[wants[t]]
  IN /\ xfer[t] # "new" => gen[wants[t]] = "ready"
     /\ xfer[t] \in {"new", "reserving"} => lease[t] = 0
     /\ lease[t] # 0 => r.exp + LeaseTime <= lease[t]
     /\ xfer[t] = "reserving" => asked[t] <= time /\ time <= asked[t] + LeaseTime
     /\ xfer[t] = "removing" => r.active = 0 /\ (r.consumed \/ ~r.row)
     /\ xfer[t] \in {"removing", "complete"} => Spent(r)
     /\ xfer[t] \in {"checking", "streaming", "hung", "finishing"} /\ lease[t] = 0 => Spent(r)

\* The cleanup: what it deleted stays deleted, and a row it did not see when it
\* read the names in use belongs to a young file.
CleanerOrder ==
  /\ cleaner.time <= time
  /\ \A a \in cleaner.gone : ~ref[a].row /\ gen[a] \notin {"new", "overlaying", "staged", "published"}
  /\ cleaner.pc = "files" =>
       \A a \in Artifacts : ref[a].row /\ a \notin cleaner.rows => ~OldFile(a)

\* The inductive invariant.
InstInd ==
  /\ InstTypes /\ CleanerOrder /\ LeasesAreCounted
  /\ \A a \in Artifacts : ArtifactOrder(a)
  /\ \A t \in Transfers : TransferOrder(t)
\* The transfers that hold a lease on an artifact.
Holders(a) == {t \in Transfers : wants[t] = a /\ lease[t] # 0}

\* Max of two numbers, as LeaseUntil and RenewAttempt use it.
LEMMA MaxPair ==
  ASSUME NEW m \in Nat, NEW n \in Nat
  PROVE  Max({m, n}) = IF m >= n THEN m ELSE n
<1>1. CASE m >= n
  BY <1>1 DEF Max
<1>2. CASE ~(m >= n)
  BY <1>2 DEF Max
<1> QED
  BY <1>1, <1>2

\* What the counter of a row says about the leases.
LEMMA HolderCount ==
  ASSUME InstInd, NEW a \in Artifacts
  PROVE  /\ IsFiniteSet(Holders(a)) /\ ref[a].active = Cardinality(Holders(a))
         /\ ref[a].active \in 0 .. Cardinality(Transfers)
         /\ ref[a].active = 0 <=> Holders(a) = {}
<1>1. Holders(a) \in SUBSET Transfers
  BY DEF Holders
<1>2. IsFiniteSet(Transfers)
  BY InstallerAssumption
<1>3. IsFiniteSet(Holders(a)) /\ Cardinality(Holders(a)) <= Cardinality(Transfers)
  BY <1>1, <1>2, FS_Subset
<1>4. Cardinality(Holders(a)) \in Nat /\ Cardinality(Transfers) \in Nat
  BY <1>2, <1>3, FS_CardinalityType
<1>5. ref[a].active = Cardinality(Holders(a))
  BY DEF InstInd, LeasesAreCounted, Holders
<1> QED
  BY <1>3, <1>4, <1>5, FS_EmptySet

\* The count is right as long as no row's counter changes and no lease is
\* taken or given back.
LEMMA CountSame ==
  ASSUME InstInd, wants' = wants,
         \A u \in Transfers : lease'[u] = 0 <=> lease[u] = 0,
         \A b \in Artifacts : ref'[b].active = ref[b].active
  PROVE  LeasesAreCounted'
<1> SUFFICES ASSUME NEW b \in Artifacts PROVE ref'[b].active = Cardinality(Holders(b)')
  BY DEF LeasesAreCounted, Holders
<1>1. Holders(b)' = Holders(b)
  BY DEF Holders
<1> QED
  BY <1>1, HolderCount

\* In particular when rows and leases are left alone.
LEMMA CountUnchanged ==
  ASSUME InstInd, UNCHANGED <<lease, wants>>,
         \A b \in Artifacts : ref'[b].active = ref[b].active
  PROVE  LeasesAreCounted'
BY CountSame

\* The fields of a file, a row and the cleanup.
LEMMA Shapes ==
  ASSUME InstInd
  PROVE  /\ \A b \in Artifacts :
              /\ file[b].at \in {"none", "overlay", "staging", "stored"}
              /\ file[b].mtime \in 0 .. Horizon
              /\ ref[b].row \in BOOLEAN /\ ref[b].consumed \in BOOLEAN
              /\ ref[b].exp \in 0 .. (Horizon + Retention + TTL)
              /\ ref[b].used \in 0 .. MaxAttempts /\ ref[b].active \in Nat
         /\ cleaner.pc \in {"idle", "recover", "select", "delete", "names", "files"}
         /\ cleaner.time \in 0 .. LastTime
         /\ cleaner.rows \subseteq Artifacts /\ cleaner.gone \subseteq Artifacts
         /\ NoFile \in Files /\ NoRef \in Rows /\ Idle \in Cleaners /\ LastTime \in Nat
BY InstallerAssumption DEF InstInd, InstTypes, Files, Rows, Cleaners, NoFile, NoRef, Idle, LastTime

\* Every step of a generation keeps the invariant.
LEMMA GenerationStep ==
  ASSUME InstInd, NEW a \in Artifacts, Generation(a)
  PROVE  InstInd'
<1> USE InstallerAssumption DEF LastTime, NoFile, NoRef
<1>0. InstTypes /\ CleanerOrder /\ (\A b \in Artifacts : ArtifactOrder(b))
        /\ (\A u \in Transfers : TransferOrder(u))
  BY DEF InstInd
<1>1. CASE StartOverlay(a)
  <2>1. InstTypes'
    <3>1. [at |-> "overlay", mtime |-> time] \in Files
      BY <1>0, <1>1 DEF StartOverlay, InstTypes, Files
    <3>2. file' \in [Artifacts -> Files]
      BY <1>0, <1>1, <3>1 DEF StartOverlay, InstTypes
    <3>3. gen' \in [Artifacts -> GenSteps]
      BY <1>0, <1>1 DEF StartOverlay, InstTypes, GenSteps
    <3> QED
      BY <1>0, <1>1, <3>2, <3>3 DEF StartOverlay, InstTypes
  <2>2. CleanerOrder'
    BY <1>0, <1>1, Shapes DEF InstTypes, CleanerOrder, ArtifactOrder, OldFile, StartOverlay
  <2>3. LeasesAreCounted'
    BY <1>0, <1>1, CountUnchanged DEF StartOverlay
  <2>4. \A b \in Artifacts : ArtifactOrder(b)'
    BY <1>0, <1>1, Shapes DEF InstTypes, ArtifactOrder, StartOverlay
  <2>5. \A u \in Transfers : TransferOrder(u)'
    BY <1>0, <1>1, Shapes DEF InstTypes, TransferOrder, Spent, StartOverlay
  <2> QED
    BY <2>1, <2>2, <2>3, <2>4, <2>5 DEF InstInd
<1>7. CASE ApplyOverlay(a)
  <2>1. InstTypes'
    <3>1. [file[a] EXCEPT !.at = "staging"] \in Files
      BY <1>0 DEF InstTypes, Files
    <3>2. file' \in [Artifacts -> Files]
      BY <1>0, <1>7, <3>1, Shapes DEF ApplyOverlay, InstTypes
    <3>3. gen' \in [Artifacts -> GenSteps]
      BY <1>0, <1>7 DEF ApplyOverlay, InstTypes, GenSteps
    <3> QED
      BY <1>0, <1>7, <3>2, <3>3 DEF ApplyOverlay, InstTypes
  <2>2. CleanerOrder'
    BY <1>0, <1>7, Shapes DEF InstTypes, CleanerOrder, ArtifactOrder, OldFile, ApplyOverlay
  <2>3. LeasesAreCounted'
    BY <1>0, <1>7, CountUnchanged DEF ApplyOverlay
  <2>4. \A b \in Artifacts : ArtifactOrder(b)'
    <3>1. ASSUME NEW b \in Artifacts, b # a PROVE ArtifactOrder(b)'
      BY <1>0, <1>7, <3>1 DEF ApplyOverlay, InstTypes, ArtifactOrder
    <3>2. gen[a] = "overlaying" /\ ref' = ref /\ time' = time
      BY <1>7 DEF ApplyOverlay
    <3>3. ~ref[a].row /\ time < file[a].mtime + Retention
      BY <1>0, <3>2 DEF ArtifactOrder
    <3>4. ASSUME /\ gen'[a] = "staged" /\ file'[a].at = "staging"
                 /\ file'[a].mtime = file[a].mtime
          PROVE  ArtifactOrder(a)'
      BY <1>0, <3>2, <3>3, <3>4 DEF ArtifactOrder
    <3>5. ASSUME gen'[a] = "failed" PROVE ArtifactOrder(a)'
      BY <1>0, <3>2, <3>3, <3>5 DEF ArtifactOrder
    <3> QED
      BY <1>0, <1>7, <3>1, <3>4, <3>5 DEF ApplyOverlay, InstTypes, Files
  <2>5. \A u \in Transfers : TransferOrder(u)'
    BY <1>0, <1>7, Shapes DEF InstTypes, TransferOrder, Spent, ApplyOverlay
  <2> QED
    BY <2>1, <2>2, <2>3, <2>4, <2>5 DEF InstInd
<1>2. CASE PublishArtifact(a)
  <2>1. InstTypes'
    <3>1. [file[a] EXCEPT !.at = "stored"] \in Files
      BY <1>0 DEF InstTypes, Files
    <3>2. file' \in [Artifacts -> Files]
      BY <1>0, <1>2, <3>1, Shapes DEF PublishArtifact, InstTypes
    <3> QED
      BY <1>0, <1>2, <3>2 DEF PublishArtifact, InstTypes, GenSteps
  <2>2. CleanerOrder'
    BY <1>0, <1>2, Shapes DEF InstTypes, CleanerOrder, ArtifactOrder, OldFile, PublishArtifact
  <2>3. LeasesAreCounted'
    BY <1>0, <1>2, CountUnchanged DEF PublishArtifact
  <2>4. \A b \in Artifacts : ArtifactOrder(b)'
    <3>1. ASSUME NEW b \in Artifacts, b # a PROVE ArtifactOrder(b)'
      BY <1>0, <1>2, <3>1 DEF PublishArtifact, InstTypes, ArtifactOrder
    <3>2. gen[a] = "staged" /\ ref' = ref /\ time' = time
      BY <1>2 DEF PublishArtifact
    <3>3. ~ref[a].row /\ time < file[a].mtime + Retention
      BY <1>0, <3>2 DEF ArtifactOrder
    <3>4. ASSUME /\ gen'[a] = "published" /\ file'[a].at = "stored"
                 /\ file'[a].mtime = file[a].mtime
          PROVE  ArtifactOrder(a)'
      BY <1>0, <3>2, <3>3, <3>4 DEF ArtifactOrder
    <3>5. ASSUME gen'[a] = "failed" PROVE ArtifactOrder(a)'
      BY <1>0, <3>2, <3>3, <3>5 DEF ArtifactOrder
    <3> QED
      BY <1>0, <1>2, <3>1, <3>4, <3>5 DEF PublishArtifact, InstTypes, Files
  <2>5. \A u \in Transfers : TransferOrder(u)'
    BY <1>0, <1>2, Shapes DEF InstTypes, TransferOrder, Spent, PublishArtifact
  <2> QED
    BY <2>1, <2>2, <2>3, <2>4, <2>5 DEF InstInd
<1>3. CASE MintReference(a)
  <2>1. InstTypes'
    <3>1. time + TTL <= Horizon + Retention + TTL
      BY <1>0, <1>3, Shapes DEF MintReference, ArtifactOrder, InstTypes
    <3>2. NewRef \in Rows
      BY <1>0, <3>1 DEF NewRef, Rows, InstTypes
    <3>3. ref' \in [Artifacts -> Rows]
      BY <1>0, <1>3, <3>2 DEF MintReference, InstTypes
    <3> QED
      BY <1>0, <1>3, <3>3 DEF MintReference, InstTypes, GenSteps
  <2>2. CleanerOrder'
    BY <1>0, <1>3, Shapes DEF InstTypes, CleanerOrder, ArtifactOrder, OldFile, MintReference, NewRef
  <2>3. LeasesAreCounted'
    <3>1. ref[a].active = 0
      BY <1>0, <1>3 DEF MintReference, ArtifactOrder
    <3>2. \A b \in Artifacts : ref'[b].active = ref[b].active
      BY <1>0, <1>3, <3>1 DEF MintReference, NewRef, InstTypes
    <3> QED
      BY <1>3, <3>2, CountUnchanged DEF MintReference
  <2>4. \A b \in Artifacts : ArtifactOrder(b)'
    <3>1. ASSUME NEW b \in Artifacts, b # a PROVE ArtifactOrder(b)'
      BY <1>0, <1>3, <3>1 DEF MintReference, InstTypes, ArtifactOrder
    <3>2. ArtifactOrder(a)'
      BY <1>0, <1>3, Shapes DEF MintReference, NewRef, InstTypes, ArtifactOrder
    <3> QED
      BY <3>1, <3>2
  <2>5. \A u \in Transfers : TransferOrder(u)'
    BY <1>0, <1>3, Shapes DEF InstTypes, TransferOrder, Spent, MintReference, NewRef
  <2> QED
    BY <2>1, <2>2, <2>3, <2>4, <2>5 DEF InstInd
<1>4. CASE MintFails(a)
  <2>1. InstTypes'
    <3>1. time + TTL <= Horizon + Retention + TTL
      BY <1>0, <1>4, Shapes DEF MintFails, ArtifactOrder, InstTypes
    <3>2. NewRef \in Rows
      BY <1>0, <3>1 DEF NewRef, Rows, InstTypes
    <3>3. ref' \in [Artifacts -> Rows]
      BY <1>0, <1>4, <3>2 DEF MintFails, InstTypes
    <3>4. faults' \in Nat
      BY <1>0, <1>4 DEF MintFails, InstTypes
    <3>5. gen' \in [Artifacts -> GenSteps]
      BY <1>0, <1>4 DEF MintFails, InstTypes, GenSteps
    <3> QED
      BY <1>0, <1>4, <3>3, <3>4, <3>5 DEF MintFails, InstTypes
  <2>2. CleanerOrder'
    <3>1. /\ gen[a] = "published" /\ UNCHANGED <<time, file, cleaner>>
          /\ gen' = [gen EXCEPT ![a] = "revoking"]
      BY <1>4 DEF MintFails
    <3>2. \A b \in Artifacts : b # a => ref'[b] = ref[b]
      BY <1>0, <1>4 DEF MintFails, InstTypes
    <3>3. a \notin cleaner.gone /\ ~OldFile(a)
      BY <1>0, <3>1, Shapes DEF CleanerOrder, ArtifactOrder, OldFile, InstTypes
    <3>4. \A b \in Artifacts : OldFile(b)' <=> OldFile(b)
      BY <3>1 DEF OldFile
    <3> QED
      BY <1>0, <3>1, <3>2, <3>3, <3>4, Shapes DEF CleanerOrder, InstTypes
  <2>3. LeasesAreCounted'
    <3>1. ref[a].active = 0
      BY <1>0, <1>4 DEF MintFails, ArtifactOrder
    <3>2. \A b \in Artifacts : ref'[b].active = ref[b].active
      BY <1>0, <1>4, <3>1 DEF MintFails, NewRef, InstTypes
    <3> QED
      BY <1>4, <3>2, CountUnchanged DEF MintFails
  <2>4. \A b \in Artifacts : ArtifactOrder(b)'
    <3>1. ASSUME NEW b \in Artifacts, b # a PROVE ArtifactOrder(b)'
      BY <1>0, <1>4, <3>1 DEF MintFails, InstTypes, ArtifactOrder
    <3>2. gen[a] = "published" /\ gen'[a] = "revoking" /\ file' = file
      BY <1>0, <1>4 DEF MintFails, InstTypes
    <3>3. ~ref[a].row /\ file[a].at = "stored"
      BY <1>0, <3>2 DEF ArtifactOrder
    <3>4. ASSUME ref' = ref PROVE ArtifactOrder(a)'
      BY <1>0, <3>2, <3>3, <3>4 DEF ArtifactOrder
    <3>5. ASSUME ref'[a] = NewRef PROVE ArtifactOrder(a)'
      BY <3>2, <3>3, <3>5 DEF ArtifactOrder, NewRef
    <3> QED
      BY <1>0, <1>4, <3>1, <3>4, <3>5 DEF MintFails, InstTypes
  <2>5. \A u \in Transfers : TransferOrder(u)'
    BY <1>0, <1>4, Shapes DEF InstTypes, TransferOrder, Spent, MintFails, NewRef
  <2> QED
    BY <2>1, <2>2, <2>3, <2>4, <2>5 DEF InstInd
<1>5. CASE RevokeReferences(a)
  <2>1. InstTypes'
    <3>1. ref' \in [Artifacts -> Rows]
      BY <1>0, <1>5, Shapes DEF RevokeReferences, InstTypes
    <3> QED
      BY <1>0, <1>5, <3>1 DEF RevokeReferences, InstTypes, GenSteps
  <2>2. CleanerOrder'
    BY <1>0, <1>5, Shapes DEF InstTypes, CleanerOrder, ArtifactOrder, OldFile, RevokeReferences
  <2>3. LeasesAreCounted'
    <3>1. ~ref[a].row => ref[a].active = 0
      BY <1>0 DEF ArtifactOrder
    <3>2. ~(ref[a].row /\ ref[a].active > 0) => ref[a].active = 0
      BY <3>1, Shapes
    <3>3. \A b \in Artifacts : ref'[b].active = ref[b].active
      BY <1>0, <1>5, <3>2 DEF RevokeReferences, InstTypes
    <3> QED
      BY <1>5, <3>3, CountUnchanged DEF RevokeReferences
  <2>4. \A b \in Artifacts : ArtifactOrder(b)'
    <3>1. ASSUME NEW b \in Artifacts, b # a PROVE ArtifactOrder(b)'
      BY <1>0, <1>5, <3>1 DEF RevokeReferences, InstTypes, ArtifactOrder
    <3>2. gen[a] = "revoking" /\ file' = file /\ gen'[a] \in {"failed", "removing"}
      BY <1>0, <1>5 DEF RevokeReferences, InstTypes
    <3>3. ASSUME ref' = ref /\ gen'[a] = "failed" PROVE ArtifactOrder(a)'
      BY <1>0, <3>2, <3>3 DEF ArtifactOrder
    <3>4. ASSUME ref'[a] = NoRef PROVE ArtifactOrder(a)'
      BY <3>2, <3>4 DEF ArtifactOrder
    <3> QED
      BY <1>0, <1>5, <3>1, <3>3, <3>4 DEF RevokeReferences, InstTypes
  <2>5. \A u \in Transfers : TransferOrder(u)'
    BY <1>0, <1>5, Shapes DEF InstTypes, TransferOrder, Spent, RevokeReferences
  <2> QED
    BY <2>1, <2>2, <2>3, <2>4, <2>5 DEF InstInd
<1>6. CASE RemovePublished(a)
  <2>1. InstTypes'
    BY <1>0, <1>6, Shapes DEF InstTypes, GenSteps, RemovePublished
  <2>2. CleanerOrder'
    BY <1>0, <1>6, Shapes DEF InstTypes, CleanerOrder, ArtifactOrder, OldFile, RemovePublished
  <2>3. LeasesAreCounted'
    BY <1>0, <1>6, CountUnchanged DEF RemovePublished
  <2>4. \A b \in Artifacts : ArtifactOrder(b)'
    BY <1>0, <1>6, Shapes DEF InstTypes, ArtifactOrder, RemovePublished
  <2>5. \A u \in Transfers : TransferOrder(u)'
    BY <1>0, <1>6, Shapes DEF InstTypes, TransferOrder, Spent, RemovePublished
  <2> QED
    BY <2>1, <2>2, <2>3, <2>4, <2>5 DEF InstInd
<1> QED
  BY <1>1, <1>2, <1>3, <1>4, <1>5, <1>6, <1>7 DEF Generation

\* A lease counts: its row is there, with a running transfer.
LEMMA LeaseIsCounted ==
  ASSUME InstInd, NEW t \in Transfers, lease[t] # 0
  PROVE  ref[wants[t]].active >= 1 /\ ref[wants[t]].row
<1>1. wants[t] \in Artifacts
  BY DEF InstInd, InstTypes
<1>2. Holders(wants[t]) # {}
  BY <1>1 DEF Holders
<1>3. ref[wants[t]].active # 0 /\ ref[wants[t]].active \in Nat
  BY <1>1, <1>2, HolderCount, Shapes
<1>4. ~ref[wants[t]].row => ref[wants[t]].active = 0
  BY <1>1 DEF InstInd, ArtifactOrder, NoRef
<1> QED
  BY <1>3, <1>4

\* A lease is given back (or was lost before): one transfer less on its row, and
\* no other row changes.
LeaseDropped(t) ==
  /\ lease' = [lease EXCEPT ![t] = 0]
  /\ ref' \in [Artifacts -> Rows]
  /\ \A b \in Artifacts : lease[t] = 0 \/ b # wants[t] => ref'[b] = ref[b]
  /\ \A b \in Artifacts :
       /\ ref'[b].row <=> ref[b].row
       /\ ref'[b].exp = ref[b].exp
       /\ ref[b].consumed => ref'[b].consumed
  /\ lease[t] # 0 => ref'[wants[t]].active = ref[wants[t]].active - 1

\* What one transfer less, and markConsumed, make of a row.
LEMMA DroppedRow ==
  ASSUME NEW w \in Rows, w.active >= 1
  PROVE  LET r == [w EXCEPT !.active = @ - 1] IN
         /\ r \in Rows /\ Consumed(w) \in Rows
         /\ (r.row <=> w.row) /\ r.exp = w.exp /\ r.active = w.active - 1
         /\ r.consumed <=> w.consumed
         /\ (Consumed(w).row <=> w.row) /\ Consumed(w).exp = w.exp
         /\ Consumed(w).active = w.active - 1 /\ Consumed(w).consumed
<1> DEFINE r == [w EXCEPT !.active = @ - 1]
<1>1. w.active - 1 \in Nat
  BY DEF Rows
<1>2. r = [row |-> w.row, exp |-> w.exp, used |-> w.used, active |-> w.active - 1,
           consumed |-> w.consumed]
  BY DEF Rows
<1>3. Consumed(w) = [row |-> w.row, exp |-> w.exp, used |-> w.used, active |-> w.active - 1,
                     consumed |-> TRUE]
  <2>1. Consumed(w) = [r EXCEPT !.consumed = TRUE]
    BY DEF Consumed, Rows
  <2> QED
    BY <1>2, <2>1
<1>4. w.row \in BOOLEAN /\ w.exp \in 0 .. (Horizon + Retention + TTL)
        /\ w.used \in 0 .. MaxAttempts /\ w.consumed \in BOOLEAN
  BY DEF Rows
<1>5. r \in Rows /\ Consumed(w) \in Rows
  BY <1>1, <1>2, <1>3, <1>4 DEF Rows
<1> QED
  BY <1>2, <1>3, <1>5

\* DropLease does that; after markConsumed the row is marked.
LEMMA DropLeaseDrops ==
  ASSUME InstInd, NEW t \in Transfers
  PROVE  /\ DropLease(t, [ref[wants[t]] EXCEPT !.active = @ - 1]) => LeaseDropped(t)
         /\ DropLease(t, Consumed(ref[wants[t]])) =>
              LeaseDropped(t) /\ (lease[t] # 0 => ref'[wants[t]].consumed)
<1> DEFINE w == ref[wants[t]]
           r == [w EXCEPT !.active = @ - 1]
<1>1. wants[t] \in Artifacts /\ ref \in [Artifacts -> Rows] /\ w \in Rows
  BY DEF InstInd, InstTypes
<1>2. CASE lease[t] = 0
  BY <1>1, <1>2 DEF DropLease, LeaseDropped
<1>3. CASE lease[t] # 0
  <2>1. w.active >= 1
    BY <1>3, LeaseIsCounted
  <2>2. /\ r \in Rows /\ Consumed(w) \in Rows
        /\ (r.row <=> w.row) /\ r.exp = w.exp /\ r.active = w.active - 1
        /\ r.consumed <=> w.consumed
        /\ (Consumed(w).row <=> w.row) /\ Consumed(w).exp = w.exp
        /\ Consumed(w).active = w.active - 1 /\ Consumed(w).consumed
    BY <1>1, <2>1, DroppedRow
  <2>3. ASSUME DropLease(t, r) PROVE LeaseDropped(t)
    <3>1. lease' = [lease EXCEPT ![t] = 0] /\ ref' = [ref EXCEPT ![wants[t]] = r]
      BY <1>3, <2>3 DEF DropLease
    <3>2. ref'[wants[t]] = r /\ \A b \in Artifacts : b # wants[t] => ref'[b] = ref[b]
      BY <1>1, <3>1
    <3>3. ref' \in [Artifacts -> Rows]
      BY <1>1, <2>2, <3>1
    <3> HIDE DEF r
    <3> QED
      BY <1>1, <1>3, <2>2, <3>1, <3>2, <3>3 DEF LeaseDropped
  <2>4. ASSUME DropLease(t, Consumed(w)) PROVE LeaseDropped(t) /\ ref'[wants[t]].consumed
    <3>1. lease' = [lease EXCEPT ![t] = 0] /\ ref' = [ref EXCEPT ![wants[t]] = Consumed(w)]
      BY <1>3, <2>4 DEF DropLease
    <3>2. ref'[wants[t]] = Consumed(w) /\ \A b \in Artifacts : b # wants[t] => ref'[b] = ref[b]
      BY <1>1, <3>1
    <3>3. ref' \in [Artifacts -> Rows]
      BY <1>1, <2>2, <3>1
    <3> QED
      BY <1>1, <1>3, <2>2, <3>1, <3>2, <3>3 DEF LeaseDropped
  <2> QED
    BY <2>3, <2>4
<1> QED
  BY <1>2, <1>3

\* Giving a lease back takes one transfer off its row, and off no other.
LEMMA DropLeaseCount ==
  ASSUME InstInd, NEW t \in Transfers, LeaseDropped(t), wants' = wants
  PROVE  LeasesAreCounted'
<1>1. wants[t] \in Artifacts /\ lease \in [Transfers -> 0 .. LastTime + 1]
  BY DEF InstInd, InstTypes
<1> SUFFICES ASSUME NEW a \in Artifacts PROVE ref'[a].active = Cardinality(Holders(a)')
  BY DEF LeasesAreCounted, Holders
<1>2. Holders(a)' = Holders(a) \ {t}
  BY <1>1 DEF Holders, LeaseDropped
<1>3. IsFiniteSet(Holders(a)) /\ ref[a].active = Cardinality(Holders(a))
  BY HolderCount
<1>4. Cardinality(Holders(a)') = IF t \in Holders(a) THEN Cardinality(Holders(a)) - 1
                                                    ELSE Cardinality(Holders(a))
  BY <1>2, <1>3, FS_RemoveElement
<1>5. CASE t \in Holders(a)
  BY <1>3, <1>4, <1>5 DEF Holders, LeaseDropped
<1>6. CASE t \notin Holders(a)
  BY <1>3, <1>4, <1>6 DEF Holders, LeaseDropped
<1> QED
  BY <1>5, <1>6

\* A request that gives its lease back, whatever it does next, keeps the
\* invariant: releaseAttempt and markConsumed.
LEMMA DropLeaseStep ==
  ASSUME InstInd, NEW t \in Transfers, LeaseDropped(t),
         NEW next \in {"done", "complete", "removing", "releasing"},
         xfer' = [xfer EXCEPT ![t] = next], xfer[t] \in {"releasing", "finishing"},
         next \in {"complete", "removing"} =>
           xfer[t] = "finishing" /\ (lease[t] # 0 => ref'[wants[t]].consumed),
         next = "removing" => lease[t] # 0 /\ ref[wants[t]].active = 1,
         UNCHANGED <<time, gen, file, wants, asked, cleaner>>, faults' \in Nat
  PROVE  InstInd'
<1> USE InstallerAssumption
<1>0. InstTypes /\ CleanerOrder /\ (\A b \in Artifacts : ArtifactOrder(b))
        /\ (\A u \in Transfers : TransferOrder(u)) /\ wants[t] \in Artifacts
  BY DEF InstInd, InstTypes
<1>1. UNCHANGED time /\ UNCHANGED gen /\ UNCHANGED file /\ UNCHANGED wants /\ UNCHANGED asked
        /\ UNCHANGED cleaner
  OBVIOUS
<1>2. lease' = [lease EXCEPT ![t] = 0] /\ ref' \in [Artifacts -> Rows]
  BY DEF LeaseDropped
<1>3. \A b \in Artifacts : lease[t] = 0 \/ b # wants[t] => ref'[b] = ref[b]
  BY DEF LeaseDropped
<1>4. \A b \in Artifacts :
      /\ ref'[b].row <=> ref[b].row
      /\ ref'[b].exp = ref[b].exp
      /\ ref[b].consumed => ref'[b].consumed
  BY DEF LeaseDropped
<1>7. InstTypes'
  <2>1. lease' \in [Transfers -> 0 .. LastTime + 1]
    BY <1>0, <1>2, Shapes DEF InstTypes
  <2>2. xfer' \in [Transfers -> XferSteps]
    BY <1>0 DEF InstTypes, XferSteps
  <2> QED
    BY <1>0, <1>1, <1>2, <2>1, <2>2 DEF InstTypes
<1>8. CleanerOrder'
  <2>1. \A b \in Artifacts : OldFile(b)' <=> OldFile(b)
    BY <1>1 DEF OldFile
  <2> QED
    BY <1>0, <1>1, <1>4, <2>1, Shapes DEF CleanerOrder
<1>9. LeasesAreCounted'
  BY <1>1, DropLeaseCount
<1>10. ASSUME NEW b \in Artifacts PROVE ArtifactOrder(b)'
  <2>1. CASE lease[t] = 0 \/ b # wants[t]
    BY <1>0, <1>1, <1>3, <2>1 DEF ArtifactOrder
  <2>2. CASE lease[t] # 0 /\ b = wants[t]
    <3>1. ref[b].row /\ ref[b].active >= 1
      BY <2>2, LeaseIsCounted
    <3>2. ref'[b].row
      BY <1>4, <3>1
    <3>3. file[b].at = "stored" /\ gen[b] \notin {"new", "overlaying", "staged", "published", "removing"}
      BY <1>0, <3>1, Shapes DEF ArtifactOrder
    <3> QED
      BY <1>1, <3>2, <3>3 DEF ArtifactOrder
  <2> QED
    BY <2>1, <2>2
<1>11. ASSUME NEW u \in Transfers PROVE TransferOrder(u)'
  <2>0. wants[u] \in Artifacts
    BY <1>0 DEF InstTypes
  <2>1. Spent(ref[wants[u]]) => Spent(ref[wants[u]])'
    BY <1>1, <1>4, <2>0 DEF Spent
  <2>2. CASE u # t
    <3>1. lease'[u] = lease[u] /\ xfer'[u] = xfer[u]
      BY <1>0, <1>2, <2>2 DEF InstTypes
    <3>2. xfer[u] = "removing" => ref'[wants[u]] = ref[wants[u]]
      <4>1. xfer[u] = "removing" => ref[wants[u]].active = 0
        BY <1>0 DEF TransferOrder
      <4>2. lease[t] # 0 => ref[wants[t]].active >= 1
        BY LeaseIsCounted
      <4> QED
        BY <1>3, <2>0, <4>1, <4>2
    <3> QED
      BY <1>0, <1>1, <1>4, <2>0, <2>1, <3>1, <3>2 DEF TransferOrder
  <2>3. CASE u = t
    <3>1. xfer'[t] = next /\ lease'[t] = 0
      BY <1>0, <1>2 DEF InstTypes
    <3>2. next \in {"complete", "removing"} => Spent(ref[wants[t]])'
      <4>1. CASE lease[t] = 0
        BY <1>0, <2>1, <2>3, <4>1 DEF TransferOrder
      <4>2. CASE lease[t] # 0
        BY <1>1, <4>2 DEF Spent
      <4> QED
        BY <4>1, <4>2
    <3>3. next = "removing" => ref'[wants[t]].active = 0 /\ ref'[wants[t]].consumed
      BY DEF LeaseDropped
    <3>4. gen[wants[t]] = "ready"
      BY <1>0 DEF TransferOrder
    <3> QED
      BY <1>1, <2>3, <3>1, <3>2, <3>3, <3>4 DEF TransferOrder
  <2> QED
    BY <2>2, <2>3
<1> QED
  BY <1>7, <1>8, <1>9, <1>10, <1>11 DEF InstInd

\* What a reservation makes of a row.
LEMMA ReservedRow ==
  ASSUME NEW w \in Rows
  PROVE  [w EXCEPT !.used = @ + 1, !.active = @ + 1] =
           [row |-> w.row, exp |-> w.exp, used |-> w.used + 1, active |-> w.active + 1,
            consumed |-> w.consumed]
<1> DEFINE v == [w EXCEPT !.used = @ + 1]
<1>1. v = [row |-> w.row, exp |-> w.exp, used |-> w.used + 1, active |-> w.active,
           consumed |-> w.consumed]
  BY DEF Rows
<1>2. [v EXCEPT !.active = @ + 1] =
        [row |-> w.row, exp |-> w.exp, used |-> w.used + 1, active |-> w.active + 1,
         consumed |-> w.consumed]
  <2>1. v.active = w.active /\ v.row = w.row /\ v.exp = w.exp /\ v.used = w.used + 1
          /\ v.consumed = w.consumed
    BY <1>1
  <2> HIDE DEF v
  <2> QED
    BY <1>1, <2>1
<1>3. [w EXCEPT !.used = @ + 1, !.active = @ + 1] = [v EXCEPT !.active = @ + 1]
  BY DEF Rows
<1> QED
  BY <1>2, <1>3

\* The guarded update of consumeAttempt: one more transfer, and its lease, on a
\* row that is not spent.
LEMMA ReserveStep ==
  ASSUME InstInd, NEW t \in Transfers, ReserveAttempt(t)
  PROVE  InstInd'
<1> USE InstallerAssumption
<1> DEFINE a == wants[t]
           w == ref[a]
<1>0. InstTypes /\ CleanerOrder /\ (\A b \in Artifacts : ArtifactOrder(b))
        /\ (\A u \in Transfers : TransferOrder(u)) /\ a \in Artifacts
  BY DEF InstInd, InstTypes
<1>1. UNCHANGED time /\ UNCHANGED gen /\ UNCHANGED file /\ UNCHANGED wants /\ UNCHANGED cleaner
        /\ UNCHANGED faults /\ asked' = [asked EXCEPT ![t] = 0] /\ xfer[t] = "reserving"
  BY DEF ReserveAttempt, Answered
<1>2. /\ asked[t] <= time /\ time <= asked[t] + LeaseTime /\ lease[t] = 0
      /\ gen[a] = "ready" /\ asked[t] \in 0 .. LastTime /\ time \in 0 .. LastTime
  BY <1>0, <1>1 DEF TransferOrder, InstTypes
<1>3. LastTime \in Nat /\ LastTime = Horizon + Retention + TTL + LeaseTime
  BY DEF LastTime
<1>4. asked' \in [Transfers -> 0 .. LastTime]
  BY <1>0, <1>1, <1>3 DEF InstTypes
<1>5. \A b \in Artifacts : OldFile(b)' <=> OldFile(b)
  BY <1>1 DEF OldFile
<1>6. CASE ~Usable(w, asked[t])
  <2>1. ref' = ref /\ lease' = lease /\ xfer' = [xfer EXCEPT ![t] = "done"]
    BY <1>6 DEF ReserveAttempt, Answered
  <2>2. InstTypes'
    BY <1>0, <1>1, <1>4, <2>1 DEF InstTypes, XferSteps
  <2>3. CleanerOrder'
    BY <1>0, <1>1, <1>5, <2>1, Shapes DEF CleanerOrder
  <2>4. LeasesAreCounted'
    BY <1>1, <2>1, CountUnchanged
  <2>5. \A b \in Artifacts : ArtifactOrder(b)'
    BY <1>0, <1>1, <2>1 DEF ArtifactOrder
  <2>6. \A u \in Transfers : TransferOrder(u)'
    BY <1>0, <1>1, <1>2, <2>1 DEF TransferOrder, Spent, InstTypes
  <2> QED
    BY <2>2, <2>3, <2>4, <2>5, <2>6 DEF InstInd
<1>7. CASE Usable(w, asked[t])
  <2>1. /\ w.row /\ ~w.consumed /\ w.exp > asked[t] /\ w.used < MaxAttempts
        /\ w \in Rows /\ w.exp \in 0 .. (Horizon + Retention + TTL) /\ w.active \in Nat
    BY <1>0, <1>7, Shapes DEF Usable, InstTypes
  <2>2. LeaseUntil(t) = w.exp + LeaseTime
    BY <1>2, <2>1, MaxPair DEF LeaseUntil
  <2>3. LeaseUntil(t) \in 0 .. LastTime /\ LeaseUntil(t) # 0
    BY <1>3, <2>1, <2>2
  <2>4. /\ ref' = [ref EXCEPT ![a].used = @ + 1, ![a].active = @ + 1]
        /\ lease' = [lease EXCEPT ![t] = LeaseUntil(t)]
        /\ xfer' = [xfer EXCEPT ![t] = "checking"]
    BY <1>7 DEF ReserveAttempt, Answered
  <2>5. [w EXCEPT !.used = @ + 1, !.active = @ + 1] =
           [row |-> w.row, exp |-> w.exp, used |-> w.used + 1, active |-> w.active + 1,
            consumed |-> w.consumed]
    BY <2>1, ReservedRow
  <2>6. ref' = [ref EXCEPT ![a] = [row |-> w.row, exp |-> w.exp, used |-> w.used + 1,
                                   active |-> w.active + 1, consumed |-> w.consumed]]
    <3>1. ref' = [ref EXCEPT ![a] = [w EXCEPT !.used = @ + 1, !.active = @ + 1]]
      BY <1>0, <2>4 DEF InstTypes
    <3> QED
      BY <2>5, <3>1
  <2>7. [row |-> w.row, exp |-> w.exp, used |-> w.used + 1,
         active |-> w.active + 1, consumed |-> w.consumed] \in Rows
    BY <2>1 DEF Rows
  <2>8. ref' \in [Artifacts -> Rows]
    BY <1>0, <2>6, <2>7 DEF InstTypes
  <2>9. /\ \A b \in Artifacts : b # a => ref'[b] = ref[b]
        /\ ref'[a].row /\ ~ref'[a].consumed /\ ref'[a].exp = w.exp
        /\ ref'[a].active = w.active + 1
    BY <1>0, <2>1, <2>6 DEF InstTypes
  <2>10. /\ \A u \in Transfers : u # t => lease'[u] = lease[u] /\ xfer'[u] = xfer[u]
         /\ lease'[t] = w.exp + LeaseTime /\ lease'[t] # 0 /\ xfer'[t] = "checking"
    BY <1>0, <2>2, <2>3, <2>4 DEF InstTypes
  <2>11. InstTypes'
    <3>1. xfer' \in [Transfers -> XferSteps]
      BY <1>0, <2>4 DEF InstTypes, XferSteps
    <3>2. lease' \in [Transfers -> 0 .. LastTime + 1]
      BY <1>0, <1>3, <2>3, <2>4 DEF InstTypes
    <3> QED
      BY <1>0, <1>1, <1>4, <2>8, <3>1, <3>2 DEF InstTypes
  <2>12. CleanerOrder'
    <3>1. \A b \in Artifacts : ref'[b].row <=> ref[b].row
      BY <2>1, <2>9
    <3> QED
      BY <1>0, <1>1, <1>5, <3>1, Shapes DEF CleanerOrder
  <2>13. LeasesAreCounted'
    <3> SUFFICES ASSUME NEW b \in Artifacts PROVE ref'[b].active = Cardinality(Holders(b)')
      BY DEF LeasesAreCounted, Holders
    <3>1. IsFiniteSet(Holders(b)) /\ ref[b].active = Cardinality(Holders(b))
      BY HolderCount
    <3>2. CASE b = a
      <4>1. Holders(b)' = Holders(b) \cup {t} /\ t \notin Holders(b)
        BY <1>1, <1>2, <2>10, <3>2 DEF Holders
      <4>2. Cardinality(Holders(b)') = Cardinality(Holders(b)) + 1
        BY <3>1, <4>1, FS_AddElement
      <4> QED
        BY <2>9, <3>1, <3>2, <4>2
    <3>3. CASE b # a
      <4>1. Holders(b)' = Holders(b)
        BY <1>1, <2>10, <3>3 DEF Holders
      <4> QED
        BY <2>9, <3>1, <3>3, <4>1
    <3> QED
      BY <3>2, <3>3
  <2>14. ASSUME NEW b \in Artifacts PROVE ArtifactOrder(b)'
    <3>1. CASE b # a
      BY <1>0, <1>1, <2>9, <3>1 DEF ArtifactOrder
    <3>2. CASE b = a
      BY <1>0, <1>1, <1>2, <2>1, <2>9, <3>2 DEF ArtifactOrder
    <3> QED
      BY <3>1, <3>2
  <2>15. ASSUME NEW u \in Transfers PROVE TransferOrder(u)'
    <3>0. wants[u] \in Artifacts
      BY <1>0 DEF InstTypes
    <3>1. CASE u # t /\ wants[u] # a
      <4>1. ref'[wants[u]] = ref[wants[u]] /\ asked'[u] = asked[u]
        BY <1>0, <1>1, <2>9, <3>0, <3>1 DEF InstTypes
      <4> QED
        BY <1>0, <1>1, <2>10, <3>1, <4>1 DEF TransferOrder, Spent
    <3>2. CASE u # t /\ wants[u] = a
      <4>1. ~Spent(w)
        BY <1>2, <2>1 DEF Spent
      <4>2. asked'[u] = asked[u]
        BY <1>0, <1>1, <3>2 DEF InstTypes
      <4> QED
        BY <1>0, <1>1, <2>1, <2>9, <2>10, <3>2, <4>1, <4>2 DEF TransferOrder
    <3>3. CASE u = t
      BY <1>1, <1>2, <2>1, <2>9, <2>10, <3>3 DEF TransferOrder
    <3> QED
      BY <3>1, <3>2, <3>3
  <2> QED
    BY <2>11, <2>12, <2>13, <2>14, <2>15 DEF InstInd
<1> QED
  BY <1>6, <1>7

\* A request that moves on, or dies, without touching rows and leases.
LEMMA HandlerStep ==
  ASSUME InstInd, NEW t \in Transfers, xfer[t] # "new",
         NEW next \in {"streaming", "hung", "finishing", "releasing", "done", "complete"},
         xfer' = [xfer EXCEPT ![t] = next],
         next \in {"streaming", "hung", "finishing"} => xfer[t] \in {"checking", "streaming"},
         next = "complete" => xfer[t] = "removing",
         UNCHANGED <<time, gen, file, ref, lease, wants, asked, cleaner>>, faults' \in Nat
  PROVE  InstInd'
<1>0. InstTypes /\ CleanerOrder /\ (\A b \in Artifacts : ArtifactOrder(b))
        /\ (\A u \in Transfers : TransferOrder(u))
  BY DEF InstInd
<1>1. InstTypes'
  BY <1>0 DEF InstTypes, XferSteps
<1>2. CleanerOrder'
  BY <1>0 DEF CleanerOrder, OldFile
<1>3. LeasesAreCounted'
  BY CountUnchanged
<1>4. \A b \in Artifacts : ArtifactOrder(b)'
  BY <1>0 DEF ArtifactOrder
<1>5. ASSUME NEW u \in Transfers PROVE TransferOrder(u)'
  <2>1. CASE u # t
    BY <1>0, <2>1 DEF TransferOrder, Spent, InstTypes
  <2>2. CASE u = t
    <3>1. xfer'[t] = next
      BY <1>0 DEF InstTypes
    <3> QED
      BY <1>0, <2>2, <3>1 DEF TransferOrder, Spent
  <2> QED
    BY <2>1, <2>2
<1> QED
  BY <1>1, <1>2, <1>3, <1>4, <1>5 DEF InstInd

\* A renewal makes a lease longer.
LEMMA RenewStep ==
  ASSUME InstInd, NEW t \in Transfers, RenewAttempt(t)
  PROVE  InstInd'
<1> USE InstallerAssumption
<1>0. InstTypes /\ CleanerOrder /\ (\A b \in Artifacts : ArtifactOrder(b))
        /\ (\A u \in Transfers : TransferOrder(u)) /\ LastTime \in Nat
  BY Shapes DEF InstInd
<1>1. UNCHANGED <<time, gen, file, ref, wants, asked, cleaner>> /\ xfer[t] \in {"streaming", "hung"}
  BY DEF RenewAttempt, Open
<1>2. CASE UNCHANGED lease
  <2>1. xfer' = [xfer EXCEPT ![t] = "releasing"] /\ faults' \in Nat
    <3>1. lease[t] > time /\ lease' = [lease EXCEPT ![t] = Max({lease[t], Beyond(time + LeaseTime)})]
            /\ lease' # lease => FALSE
      BY <1>2
    <3> QED
      BY <1>0, <1>2, <3>1 DEF RenewAttempt, InstTypes
  <2> QED
    BY <1>1, <1>2, <2>1, HandlerStep
<1>3. CASE /\ lease[t] > time
           /\ lease' = [lease EXCEPT ![t] = Max({lease[t], Beyond(time + LeaseTime)})]
           /\ UNCHANGED <<xfer, faults>>
  <2>1. /\ lease[t] \in 0 .. LastTime + 1 /\ time \in 0 .. LastTime /\ wants[t] \in Artifacts
        /\ Beyond(time + LeaseTime) \in 0 .. LastTime + 1
    BY <1>0 DEF InstTypes, Beyond
  <2>2. lease'[t] \in 0 .. LastTime + 1 /\ lease[t] <= lease'[t] /\ lease'[t] # 0 /\ lease[t] # 0
    <3> DEFINE until == Beyond(time + LeaseTime)
    <3>0. until \in Nat /\ until <= LastTime + 1
      BY <1>0, <2>1
    <3>1. Max({lease[t], until}) = IF lease[t] >= until THEN lease[t] ELSE until
      BY <2>1, <3>0, MaxPair
    <3>2. lease'[t] = Max({lease[t], until})
      BY <1>0, <1>3 DEF InstTypes
    <3> HIDE DEF until
    <3> QED
      BY <1>0, <1>3, <2>1, <3>0, <3>1, <3>2
  <2>3. \A u \in Transfers : u # t => lease'[u] = lease[u]
    BY <1>0, <1>3 DEF InstTypes
  <2>4. InstTypes'
    <3>1. lease' \in [Transfers -> 0 .. LastTime + 1]
      BY <1>0, <1>3, <2>2, <2>3 DEF InstTypes
    <3> QED
      BY <1>0, <1>1, <1>3, <3>1 DEF InstTypes
  <2>5. CleanerOrder'
    BY <1>0, <1>1 DEF CleanerOrder, OldFile
  <2>6. LeasesAreCounted'
    BY <1>1, <2>2, <2>3, CountSame
  <2>7. \A b \in Artifacts : ArtifactOrder(b)'
    BY <1>0, <1>1 DEF ArtifactOrder
  <2>8. ASSUME NEW u \in Transfers PROVE TransferOrder(u)'
    <3>1. CASE u # t
      BY <1>0, <1>1, <1>3, <2>3, <3>1 DEF TransferOrder, Spent
    <3>2. CASE u = t
      <4>1. ref[wants[t]].exp + LeaseTime <= lease[t] /\ ref[wants[t]].exp \in Nat
        BY <1>0, <2>1, <2>2, Shapes DEF TransferOrder
      <4>2. ref[wants[t]].exp + LeaseTime <= lease'[t]
        BY <2>1, <2>2, <4>1
      <4> QED
        BY <1>0, <1>1, <1>3, <2>2, <3>2, <4>2 DEF TransferOrder
    <3> QED
      BY <3>1, <3>2
  <2> QED
    BY <2>4, <2>5, <2>6, <2>7, <2>8 DEF InstInd
<1> QED
  BY <1>2, <1>3 DEF RenewAttempt

\* Removing the file of a row whose last transfer was complete.
LEMMA RemoveArtifactStep ==
  ASSUME InstInd, NEW t \in Transfers, RemoveArtifact(t)
  PROVE  InstInd'
<1> USE InstallerAssumption
<1>0. InstTypes /\ CleanerOrder /\ (\A b \in Artifacts : ArtifactOrder(b))
        /\ (\A u \in Transfers : TransferOrder(u)) /\ wants[t] \in Artifacts
  BY DEF InstInd, InstTypes
<1>1. /\ UNCHANGED <<time, gen, ref, lease, wants, asked, cleaner, faults>>
      /\ xfer[t] = "removing" /\ xfer' = [xfer EXCEPT ![t] = "complete"]
      /\ file' = [file EXCEPT ![wants[t]] = NoFile]
  BY DEF RemoveArtifact
<1>2. /\ file'[wants[t]] = NoFile
      /\ \A b \in Artifacts : b # wants[t] => file'[b] = file[b]
  BY <1>0, <1>1 DEF InstTypes
<1>3. InstTypes'
  BY <1>0, <1>1, Shapes DEF InstTypes, XferSteps
<1>4. CleanerOrder'
  <2>1. \A b \in Artifacts : OldFile(b)' => OldFile(b)
    BY <1>0, <1>1, <1>2 DEF OldFile, NoFile
  <2> QED
    BY <1>0, <1>1, <2>1 DEF CleanerOrder
<1>5. LeasesAreCounted'
  BY <1>1, CountUnchanged
<1>6. ASSUME NEW b \in Artifacts PROVE ArtifactOrder(b)'
  <2>1. CASE b # wants[t]
    BY <1>0, <1>1, <1>2, <2>1 DEF ArtifactOrder
  <2>2. CASE b = wants[t]
    <3>1. gen[b] = "ready" /\ ref[b].active = 0 /\ (ref[b].consumed \/ ~ref[b].row)
      BY <1>0, <1>1, <2>2 DEF TransferOrder
    <3> QED
      BY <1>0, <1>1, <3>1 DEF ArtifactOrder
  <2> QED
    BY <2>1, <2>2
<1>7. ASSUME NEW u \in Transfers PROVE TransferOrder(u)'
  <2>1. CASE u # t
    BY <1>0, <1>1, <2>1 DEF TransferOrder, Spent, InstTypes
  <2>2. CASE u = t
    <3>1. xfer'[t] = "complete"
      BY <1>0, <1>1 DEF InstTypes
    <3> QED
      BY <1>0, <1>1, <2>2, <3>1 DEF TransferOrder, Spent
  <2> QED
    BY <2>1, <2>2
<1> QED
  BY <1>3, <1>4, <1>5, <1>6, <1>7 DEF InstInd

\* consumeAttempt reads the row and the clock.
LEMMA BeginStep ==
  ASSUME InstInd, NEW t \in Transfers, BeginAttempt(t)
  PROVE  InstInd'
<1> USE InstallerAssumption
<1>0. InstTypes /\ CleanerOrder /\ (\A b \in Artifacts : ArtifactOrder(b))
        /\ (\A u \in Transfers : TransferOrder(u)) /\ LastTime \in Nat
  BY Shapes DEF InstInd
<1>1. /\ UNCHANGED <<time, gen, file, ref, lease, wants, cleaner, faults>>
      /\ gen[wants[t]] = "ready" /\ xfer[t] = "new"
  BY DEF BeginAttempt, Answered
<1>2. PICK next \in {"reserving", "done"} :
        /\ xfer' = [xfer EXCEPT ![t] = next]
        /\ asked' = [asked EXCEPT ![t] = IF next = "reserving" THEN time ELSE 0]
  BY DEF BeginAttempt, Answered
<1>3. InstTypes'
  BY <1>0, <1>1, <1>2 DEF InstTypes, XferSteps
<1>4. CleanerOrder'
  BY <1>0, <1>1 DEF CleanerOrder, OldFile
<1>5. LeasesAreCounted'
  BY <1>1, CountUnchanged
<1>6. \A b \in Artifacts : ArtifactOrder(b)'
  BY <1>0, <1>1 DEF ArtifactOrder
<1>7. ASSUME NEW u \in Transfers PROVE TransferOrder(u)'
  <2>1. CASE u # t
    BY <1>0, <1>1, <1>2, <2>1 DEF TransferOrder, Spent, InstTypes
  <2>2. CASE u = t
    <3>1. xfer'[t] = next /\ (next = "reserving" => asked'[t] = time) /\ time \in Nat
      BY <1>0, <1>2 DEF InstTypes
    <3> QED
      BY <1>0, <1>1, <2>2, <3>1 DEF TransferOrder, Spent
  <2> QED
    BY <2>1, <2>2
<1> QED
  BY <1>3, <1>4, <1>5, <1>6, <1>7 DEF InstInd

\* Every step of a download request keeps the invariant.
LEMMA TransferStep ==
  ASSUME InstInd, NEW t \in Transfers, Transfer(t)
  PROVE  InstInd'
<1> USE InstallerAssumption
<1>0. InstTypes /\ faults \in Nat
  BY DEF InstInd, InstTypes
<1>1. CASE CheckArtifact(t)
  <2>1. PICK next \in {"streaming", "hung", "releasing"} : xfer' = [xfer EXCEPT ![t] = next]
    BY <1>1 DEF CheckArtifact, Answered
  <2>2. faults' \in Nat
    BY <1>0, <1>1 DEF CheckArtifact
  <2> QED
    BY <1>0, <1>1, <2>1, <2>2, HandlerStep DEF CheckArtifact, Answered
<1>2. CASE AbortStream(t) \/ FinishStream(t)
  <2>1. PICK next \in {"finishing", "releasing"} : xfer' = [xfer EXCEPT ![t] = next]
    BY <1>2 DEF AbortStream, FinishStream, Answered
  <2> QED
    BY <1>0, <1>2, <2>1, HandlerStep DEF AbortStream, FinishStream, Answered, Open
<1>3. CASE ReleaseAttempt(t)
  <2>1. xfer[t] = "releasing" /\ xfer' = [xfer EXCEPT ![t] = "done"]
          /\ UNCHANGED <<time, gen, file, wants, asked, cleaner>> /\ faults' \in Nat
    BY <1>0, <1>3 DEF ReleaseAttempt, Answered
  <2>2. CASE DropLease(t, [ref[wants[t]] EXCEPT !.active = @ - 1])
    BY <2>1, <2>2, DropLeaseDrops, DropLeaseStep
  <2>3. CASE UNCHANGED <<ref, lease>>
    BY <2>1, <2>3, HandlerStep
  <2> QED
    BY <1>3, <2>2, <2>3 DEF ReleaseAttempt
<1>4. CASE MarkConsumed(t)
  <2>1. /\ xfer[t] = "finishing" /\ DropLease(t, Consumed(ref[wants[t]])) /\ faults' \in Nat
        /\ UNCHANGED <<time, gen, file, wants, asked, cleaner>>
    BY <1>0, <1>4 DEF MarkConsumed, Answered
  <2>2. PICK next \in {"removing", "complete"} :
          /\ xfer' = [xfer EXCEPT ![t] = next]
          /\ next = "removing" => lease[t] # 0 /\ ref[wants[t]].active = 1
    BY <1>4 DEF MarkConsumed, Answered
  <2>3. LeaseDropped(t) /\ (lease[t] # 0 => ref'[wants[t]].consumed)
    BY <2>1, DropLeaseDrops
  <2> QED
    BY <2>1, <2>2, <2>3, DropLeaseStep
<1>5. CASE MarkConsumedFails(t)
  <2>1. /\ xfer[t] = "finishing" /\ faults' \in Nat /\ xfer' = [xfer EXCEPT ![t] = "releasing"]
        /\ UNCHANGED <<time, gen, file, wants, asked, cleaner>>
    BY <1>0, <1>5 DEF MarkConsumedFails, Answered
  <2>2. CASE DropLease(t, Consumed(ref[wants[t]]))
    BY <2>1, <2>2, DropLeaseDrops, DropLeaseStep
  <2>3. CASE UNCHANGED <<ref, lease>>
    BY <2>1, <2>3, HandlerStep
  <2> QED
    BY <1>5, <2>2, <2>3 DEF MarkConsumedFails
<1> QED
  BY <1>1, <1>2, <1>3, <1>4, <1>5, BeginStep, ReserveStep, RenewStep, RemoveArtifactStep
     DEF Transfer

\* What a recovery makes of a row.
LEMMA LessActive ==
  ASSUME NEW w \in Rows, NEW n \in 0 .. w.active
  PROVE  LET r == [w EXCEPT !.active = @ - n] IN
         /\ r \in Rows /\ (r.row <=> w.row) /\ r.exp = w.exp /\ r.active = w.active - n
         /\ (r.consumed <=> w.consumed) /\ (n = 0 => r = w)
<1> DEFINE r == [w EXCEPT !.active = @ - n]
<1>1. w.active - n \in Nat /\ (n = 0 => w.active - n = w.active)
  BY DEF Rows
<1>2. r = [row |-> w.row, exp |-> w.exp, used |-> w.used, active |-> w.active - n,
           consumed |-> w.consumed]
  BY DEF Rows
<1>3. w = [row |-> w.row, exp |-> w.exp, used |-> w.used, active |-> w.active,
           consumed |-> w.consumed]
  BY DEF Rows
<1>4. r \in Rows
  BY <1>1, <1>2 DEF Rows
<1> QED
  BY <1>1, <1>2, <1>3, <1>4

\* The cleanup recovers the leases that ran out, each from its row's count.
LEMMA RecoverStep ==
  ASSUME InstInd, RecoverLeases
  PROVE  InstInd'
<1> USE InstallerAssumption
<1> DEFINE Lost(b) == {u \in Transfers : wants[u] = b /\ Expired(u)}
<1>0. InstTypes /\ CleanerOrder /\ (\A b \in Artifacts : ArtifactOrder(b))
        /\ (\A u \in Transfers : TransferOrder(u)) /\ LastTime \in Nat
  BY Shapes DEF InstInd
<1>1. /\ UNCHANGED <<time, gen, file, wants, xfer, asked, faults>>
      /\ lease' = [t \in Transfers |-> IF Expired(t) THEN 0 ELSE lease[t]]
      /\ ref' = [b \in Artifacts |-> [ref[b] EXCEPT !.active = @ - Cardinality(Lost(b))]]
      /\ cleaner' = [cleaner EXCEPT !.pc = "select"]
  BY DEF RecoverLeases
<1>2. ASSUME NEW b \in Artifacts
      PROVE  /\ Cardinality(Lost(b)) \in 0 .. ref[b].active
             /\ Cardinality(Holders(b)') = ref[b].active - Cardinality(Lost(b))
             /\ ref[b].active = 0 => Cardinality(Lost(b)) = 0
  <2>1. /\ IsFiniteSet(Holders(b)) /\ ref[b].active = Cardinality(Holders(b))
        /\ ref[b].active \in Nat
    BY HolderCount
  <2>2. Lost(b) \in SUBSET Holders(b) /\ Holders(b)' = Holders(b) \ Lost(b)
    BY <1>1 DEF Holders, Expired
  <2>3. IsFiniteSet(Lost(b)) /\ Cardinality(Lost(b)) <= Cardinality(Holders(b))
    BY <2>1, <2>2, FS_Subset
  <2>4. Cardinality(Lost(b)) \in Nat
    BY <2>3, FS_CardinalityType
  <2>5. Cardinality(Holders(b) \ Lost(b)) =
          Cardinality(Holders(b)) - Cardinality(Holders(b) \cap Lost(b))
    BY <2>1, <2>3, FS_Difference
  <2>6. Holders(b) \cap Lost(b) = Lost(b)
    BY <2>2
  <2>7. Cardinality(Holders(b)') = Cardinality(Holders(b)) - Cardinality(Lost(b))
    BY <2>2, <2>5, <2>6
  <2> HIDE DEF Lost
  <2>8. Cardinality(Lost(b)) \in 0 .. ref[b].active
    BY <2>1, <2>3, <2>4
  <2> QED
    BY <2>1, <2>4, <2>7, <2>8
<1>3. ASSUME NEW b \in Artifacts
      PROVE  /\ ref'[b] \in Rows /\ (ref'[b].row <=> ref[b].row) /\ ref'[b].exp = ref[b].exp
             /\ ref'[b].active = ref[b].active - Cardinality(Lost(b))
             /\ (ref'[b].consumed <=> ref[b].consumed)
             /\ ref[b].active = 0 => ref'[b] = ref[b]
  <2>1. ref[b] \in Rows /\ Cardinality(Lost(b)) \in 0 .. ref[b].active
    BY <1>0, <1>2 DEF InstTypes
  <2>2. ref'[b] = [ref[b] EXCEPT !.active = @ - Cardinality(Lost(b))]
    BY <1>1
  <2> HIDE DEF Lost
  <2> QED
    BY <1>2, <2>1, <2>2, LessActive
<1> HIDE DEF Lost
<1>4. /\ cleaner' \in Cleaners /\ cleaner'.time = cleaner.time /\ cleaner'.pc = "select"
      /\ cleaner'.gone = cleaner.gone
  BY <1>0, <1>1 DEF InstTypes, Cleaners
<1>5. InstTypes'
  <2>1. ref' \in [Artifacts -> Rows]
    BY <1>1, <1>3
  <2>2. lease' \in [Transfers -> 0 .. LastTime + 1]
    BY <1>0, <1>1 DEF InstTypes
  <2> QED
    BY <1>0, <1>1, <1>4, <2>1, <2>2 DEF InstTypes
<1>6. CleanerOrder'
  BY <1>0, <1>1, <1>3, <1>4, Shapes DEF CleanerOrder
<1>7. LeasesAreCounted'
  BY <1>2, <1>3 DEF LeasesAreCounted, Holders
<1>8. ASSUME NEW b \in Artifacts PROVE ArtifactOrder(b)'
  <2>1. ~ref[b].row => ref[b].active = 0
    BY <1>0 DEF ArtifactOrder, NoRef
  <2> QED
    BY <1>0, <1>1, <1>3, <2>1, Shapes DEF ArtifactOrder
<1>9. ASSUME NEW u \in Transfers PROVE TransferOrder(u)'
  <2>0. wants[u] \in Artifacts /\ cleaner.time \in Nat /\ time \in Nat /\ lease[u] \in Nat
    BY <1>0, Shapes DEF InstTypes
  <2>1. Spent(ref[wants[u]]) => Spent(ref[wants[u]])'
    BY <1>1, <1>3, <2>0 DEF Spent
  <2>2. CASE Expired(u)
    <3>1. lease[u] # 0 /\ lease[u] <= time /\ lease'[u] = 0
      BY <1>0, <1>1, <2>0, <2>2 DEF Expired, CleanerOrder
    <3>2. Spent(ref[wants[u]])
      BY <1>0, <2>0, <3>1, Shapes DEF Spent, TransferOrder
    <3>3. xfer[u] = "removing" => ref[wants[u]].active = 0
      BY <1>0 DEF TransferOrder
    <3> QED
      BY <1>0, <1>1, <1>3, <2>0, <2>1, <3>1, <3>2, <3>3 DEF TransferOrder
  <2>3. CASE ~Expired(u)
    <3>1. lease'[u] = lease[u]
      BY <1>1, <2>3
    <3> QED
      BY <1>0, <1>1, <1>3, <2>0, <2>1, <3>1 DEF TransferOrder
  <2> QED
    BY <2>2, <2>3
<1> QED
  BY <1>5, <1>6, <1>7, <1>8, <1>9 DEF InstInd

\* The cleanup reads, or starts over: rows, leases and files stay.
LEMMA CleanerReads ==
  ASSUME InstInd, StartCleanup \/ SelectStale \/ ReadNames \/ CleanupDies
  PROVE  InstInd'
<1> USE InstallerAssumption
<1>0. InstTypes /\ CleanerOrder /\ (\A b \in Artifacts : ArtifactOrder(b))
        /\ (\A u \in Transfers : TransferOrder(u)) /\ LastTime \in Nat
  BY Shapes DEF InstInd
<1>1. UNCHANGED <<time, gen, file, ref, lease, wants, xfer, asked>> /\ faults' \in Nat
  BY <1>0 DEF StartCleanup, SelectStale, ReadNames, CleanupDies, InstTypes
<1>2. /\ cleaner' \in Cleaners /\ cleaner'.time <= time /\ cleaner'.gone \subseteq cleaner.gone
      /\ cleaner'.pc = "files" => cleaner'.rows = {b \in Artifacts : ref[b].row}
  <2>1. time \in 0 .. LastTime /\ cleaner.time <= time /\ cleaner \in Cleaners
    BY <1>0 DEF InstTypes, CleanerOrder
  <2>2. CASE StartCleanup
    <3>1. cleaner' = [pc |-> "recover", time |-> time, rows |-> {}, gone |-> {}]
      BY <2>2 DEF StartCleanup, Idle
    <3> QED
      BY <2>1, <3>1 DEF Cleaners
  <2>3. CASE SelectStale
    <3>1. {b \in Artifacts : Stale(ref[b])} \in SUBSET Artifacts
      OBVIOUS
    <3> QED
      BY <2>1, <2>3, <3>1 DEF SelectStale, Cleaners
  <2>4. CASE ReadNames
    BY <2>1, <2>4 DEF ReadNames, Cleaners
  <2>5. CASE CleanupDies
    BY <2>1, <2>5, Shapes DEF CleanupDies, Idle
  <2> QED
    BY <2>2, <2>3, <2>4, <2>5
<1>3. InstTypes'
  BY <1>0, <1>1, <1>2 DEF InstTypes
<1>4. CleanerOrder'
  BY <1>0, <1>1, <1>2 DEF CleanerOrder
<1>5. LeasesAreCounted'
  BY <1>1, CountUnchanged
<1>6. (\A b \in Artifacts : ArtifactOrder(b)') /\ (\A u \in Transfers : TransferOrder(u)')
  BY <1>0, <1>1 DEF ArtifactOrder, TransferOrder, Spent
<1> QED
  BY <1>3, <1>4, <1>5, <1>6 DEF InstInd

\* Deleting rows of artifacts that are past their publication, with the leases
\* on them.
LEMMA RowsGo ==
  ASSUME InstInd, NEW D \in SUBSET Artifacts, DeleteRows(D),
         UNCHANGED <<time, gen, file, wants, xfer, asked>>
  PROVE  /\ ref' \in [Artifacts -> Rows] /\ lease' \in [Transfers -> 0 .. LastTime + 1]
         /\ LeasesAreCounted'
         /\ \A b \in Artifacts : ArtifactOrder(b)'
         /\ \A u \in Transfers : TransferOrder(u)'
         /\ \A b \in Artifacts : ref'[b].row => ref[b].row
         /\ \A b \in D : ~ref'[b].row
<1> USE InstallerAssumption
<1>0. InstTypes /\ (\A b \in Artifacts : ArtifactOrder(b))
        /\ (\A u \in Transfers : TransferOrder(u)) /\ LastTime \in Nat
  BY Shapes DEF InstInd
<1>1. /\ ref' = [b \in Artifacts |-> IF b \in D THEN NoRef ELSE ref[b]]
      /\ lease' = [u \in Transfers |-> IF wants[u] \in D THEN 0 ELSE lease[u]]
  BY DEF DeleteRows
<1>2. \A b \in Artifacts : IF b \in D THEN ref'[b] = NoRef ELSE ref'[b] = ref[b]
  BY <1>1
<1>3. ref' \in [Artifacts -> Rows] /\ lease' \in [Transfers -> 0 .. LastTime + 1]
  BY <1>0, <1>1, Shapes DEF InstTypes
<1>4. LeasesAreCounted'
  <2> SUFFICES ASSUME NEW b \in Artifacts PROVE ref'[b].active = Cardinality(Holders(b)')
    BY DEF LeasesAreCounted, Holders
  <2>1. CASE b \in D
    <3>1. Holders(b)' = {}
      BY <1>1, <2>1 DEF Holders
    <3> QED
      BY <1>2, <2>1, <3>1, FS_EmptySet DEF NoRef
  <2>2. CASE b \notin D
    <3>1. Holders(b)' = Holders(b)
      BY <1>1, <2>2 DEF Holders
    <3> QED
      BY <1>2, <2>2, <3>1, HolderCount
  <2> QED
    BY <2>1, <2>2
<1>5. ASSUME NEW b \in Artifacts PROVE ArtifactOrder(b)'
  BY <1>0, <1>2 DEF ArtifactOrder, NoRef
<1>6. ASSUME NEW u \in Transfers PROVE TransferOrder(u)'
  <2>0. wants[u] \in Artifacts
    BY <1>0 DEF InstTypes
  <2>1. CASE wants[u] \notin D
    BY <1>0, <1>1, <1>2, <2>0, <2>1 DEF TransferOrder, Spent
  <2>2. CASE wants[u] \in D
    <3>1. ref'[wants[u]] = NoRef /\ lease'[u] = 0
      BY <1>1, <2>0, <2>2
    <3> QED
      BY <1>0, <3>1 DEF TransferOrder, Spent, NoRef
  <2> QED
    BY <2>1, <2>2
<1> QED
  BY <1>2, <1>3, <1>4, <1>5, <1>6 DEF NoRef

\* The cleanup deletes only rows without a lease, so that the cascade takes none.
LEMMA DeleteStep ==
  ASSUME InstInd, DeleteStale
  PROVE  InstInd' /\ lease' = lease
<1> USE InstallerAssumption
<1>0. InstTypes /\ CleanerOrder /\ (\A b \in Artifacts : ArtifactOrder(b))
  BY DEF InstInd
<1>1. /\ UNCHANGED <<time, gen, file, wants, xfer, asked, faults>> /\ DeleteRows(Deletable)
      /\ cleaner' = [cleaner EXCEPT !.pc = "names", !.rows = {}, !.gone = Deletable]
  BY DEF DeleteStale
<1>2. \A b \in Deletable : b \in Artifacts /\ ref[b].row /\ ref[b].active = 0
  BY Shapes DEF Deletable
<1>3. lease' = lease
  <2>1. \A u \in Transfers : wants[u] \in Deletable => lease[u] = 0
    <3> SUFFICES ASSUME NEW u \in Transfers, wants[u] \in Deletable, lease[u] # 0 PROVE FALSE
      OBVIOUS
    <3>1. ref[wants[u]].active >= 1
      BY LeaseIsCounted
    <3> QED
      BY <1>2, <3>1
  <2> QED
    BY <1>0, <1>1, <2>1 DEF DeleteRows, InstTypes
<1>4. PICK D \in SUBSET Artifacts : D = Deletable
  BY <1>2
<1>5. /\ cleaner' \in Cleaners /\ cleaner'.time = cleaner.time /\ cleaner'.pc = "names"
      /\ cleaner'.gone = D
  BY <1>0, <1>1, <1>4 DEF InstTypes, Cleaners
<1>6. /\ ref' \in [Artifacts -> Rows] /\ lease' \in [Transfers -> 0 .. LastTime + 1]
      /\ LeasesAreCounted'
      /\ \A b \in Artifacts : ArtifactOrder(b)'
      /\ \A u \in Transfers : TransferOrder(u)'
      /\ \A b \in D : ~ref'[b].row
  BY <1>1, <1>4, RowsGo
<1>7. InstTypes'
  BY <1>0, <1>1, <1>5, <1>6 DEF InstTypes
<1>8. CleanerOrder'
  <2>1. \A b \in D : gen[b] \notin {"new", "overlaying", "staged", "published"}
    BY <1>0, <1>2, <1>4 DEF ArtifactOrder
  <2> QED
    BY <1>0, <1>1, <1>5, <1>6, <2>1 DEF CleanerOrder
<1> QED
  BY <1>3, <1>6, <1>7, <1>8 DEF InstInd

\* Deleting a classroom takes leases, and their rows with them.
LEMMA DeleteClassroomStep ==
  ASSUME InstInd, NEW c \in Classrooms, DeleteClassroom(c)
  PROVE  InstInd'
<1>0. InstTypes /\ CleanerOrder
  BY DEF InstInd
<1>1. PICK D \in SUBSET Artifacts : DeleteRows(D)
  BY DEF DeleteClassroom
<1>2. UNCHANGED <<time, gen, file, wants, xfer, asked, cleaner, faults>>
  BY DEF DeleteClassroom
<1>3. /\ ref' \in [Artifacts -> Rows] /\ lease' \in [Transfers -> 0 .. LastTime + 1]
      /\ LeasesAreCounted'
      /\ \A b \in Artifacts : ArtifactOrder(b)'
      /\ \A u \in Transfers : TransferOrder(u)'
      /\ \A b \in Artifacts : ref'[b].row => ref[b].row
  BY <1>1, <1>2, RowsGo
<1>4. InstTypes'
  BY <1>0, <1>2, <1>3 DEF InstTypes
<1>5. CleanerOrder'
  <2>1. \A b \in Artifacts : OldFile(b)' <=> OldFile(b)
    BY <1>2 DEF OldFile
  <2> QED
    BY <1>0, <1>2, <1>3, <2>1, Shapes DEF CleanerOrder
<1> QED
  BY <1>3, <1>4, <1>5 DEF InstInd

\* The files that go are of deleted rows, or old: none of them is of use.
LEMMA RemoveFilesStep ==
  ASSUME InstInd, RemoveFiles
  PROVE  InstInd'
<1> USE InstallerAssumption
<1>0. InstTypes /\ CleanerOrder /\ (\A b \in Artifacts : ArtifactOrder(b))
        /\ (\A u \in Transfers : TransferOrder(u)) /\ LastTime \in Nat /\ time \in Nat
  BY Shapes DEF InstInd, InstTypes
<1>1. /\ UNCHANGED <<time, gen, ref, lease, wants, xfer, asked, faults>>
      /\ file' = [b \in Artifacts |-> IF Removable(b) THEN NoFile ELSE file[b]]
      /\ cleaner' = Idle /\ cleaner.pc = "files"
  BY DEF RemoveFiles
<1>2. \A b \in Artifacts : IF Removable(b) THEN file'[b] = NoFile ELSE file'[b] = file[b]
  BY <1>1
<1>3. ASSUME NEW b \in Artifacts, Removable(b)
      PROVE  gen[b] \notin {"overlaying", "staged", "published"} /\ (ref[b].row => file[b].at # "stored")
  <2>1. gen[b] \in {"overlaying", "staged", "published"} => ~OldFile(b) /\ b \notin cleaner.gone
    BY <1>0, Shapes DEF ArtifactOrder, OldFile, CleanerOrder
  <2>2. ref[b].row => b \notin cleaner.gone /\ (b \notin cleaner.rows => ~OldFile(b))
    BY <1>0, <1>1 DEF CleanerOrder
  <2> QED
    BY <1>3, <2>1, <2>2 DEF Removable
<1>4. InstTypes'
  <2>1. file' \in [Artifacts -> Files]
    BY <1>0, <1>1, Shapes DEF InstTypes
  <2> QED
    BY <1>0, <1>1, <2>1, Shapes DEF InstTypes
<1>5. CleanerOrder'
  BY <1>0, <1>1 DEF CleanerOrder, Idle
<1>6. LeasesAreCounted'
  BY <1>1, CountUnchanged
<1>7. ASSUME NEW b \in Artifacts PROVE ArtifactOrder(b)'
  <2>1. CASE Removable(b)
    BY <1>0, <1>1, <1>3, <2>1 DEF ArtifactOrder
  <2>2. CASE ~Removable(b)
    BY <1>0, <1>1, <1>2, <2>2 DEF ArtifactOrder
  <2> QED
    BY <2>1, <2>2
<1>8. \A u \in Transfers : TransferOrder(u)'
  BY <1>0, <1>1 DEF TransferOrder, Spent
<1> QED
  BY <1>4, <1>5, <1>6, <1>7, <1>8 DEF InstInd

\* An activity dies, or time passes.
LEMMA DeathAndTimeStep ==
  ASSUME InstInd,
         \/ \E a \in Artifacts : GenerationDies(a)
         \/ \E t \in Transfers : TransferDies(t)
         \/ AdvanceTime
         \/ LeasesRunOut
  PROVE  InstInd'
<1> USE InstallerAssumption
<1>0. InstTypes /\ CleanerOrder /\ (\A b \in Artifacts : ArtifactOrder(b))
        /\ (\A u \in Transfers : TransferOrder(u)) /\ LastTime \in Nat /\ time \in Nat
  BY Shapes DEF InstInd, InstTypes
<1>1. ASSUME NEW a \in Artifacts, GenerationDies(a) PROVE InstInd'
  <2>1. /\ UNCHANGED <<time, file, ref, lease, wants, xfer, asked, cleaner>> /\ faults' \in Nat
        /\ gen' = [gen EXCEPT ![a] = "dead"]
        /\ gen[a] \in {"overlaying", "staged", "published", "revoking", "removing"}
    BY <1>0, <1>1 DEF GenerationDies, InstTypes
  <2>2. InstTypes'
    BY <1>0, <2>1 DEF InstTypes, GenSteps
  <2>3. CleanerOrder'
    BY <1>0, <2>1, Shapes DEF CleanerOrder, OldFile, InstTypes
  <2>4. LeasesAreCounted'
    BY <2>1, CountUnchanged
  <2>5. \A b \in Artifacts : ArtifactOrder(b)'
    BY <1>0, <2>1 DEF ArtifactOrder, InstTypes
  <2>6. \A u \in Transfers : TransferOrder(u)'
    BY <1>0, <2>1 DEF TransferOrder, Spent, InstTypes
  <2> QED
    BY <2>2, <2>3, <2>4, <2>5, <2>6 DEF InstInd
<1>2. ASSUME NEW t \in Transfers, TransferDies(t) PROVE InstInd'
  <2>1. /\ UNCHANGED <<time, gen, file, ref, lease, wants, asked, cleaner>> /\ faults' \in Nat
        /\ xfer[t] # "new"
        /\ xfer' = [xfer EXCEPT ![t] = IF xfer[t] = "removing" THEN "complete" ELSE "done"]
    BY <1>0, <1>2 DEF TransferDies, InstTypes
  <2>2. PICK next \in {"done", "complete"} :
          xfer' = [xfer EXCEPT ![t] = next] /\ (next = "complete" => xfer[t] = "removing")
    BY <2>1
  <2> QED
    BY <2>1, <2>2, HandlerStep
<1>3. CASE AdvanceTime
  <2>1. /\ UNCHANGED <<gen, file, ref, lease, wants, xfer, asked, cleaner, faults>>
        /\ time' = time + 1 /\ time < LastTime /\ GenerationIsQuick /\ TransactionIsQuick
    BY <1>3 DEF AdvanceTime
  <2>2. InstTypes'
    BY <1>0, <2>1 DEF InstTypes
  <2>3. CleanerOrder'
    BY <1>0, <2>1, Shapes DEF CleanerOrder, OldFile
  <2>4. LeasesAreCounted'
    BY <2>1, CountUnchanged
  <2>5. \A b \in Artifacts : ArtifactOrder(b)'
    BY <1>0, <2>1, Shapes DEF ArtifactOrder, GenerationIsQuick
  <2>6. ASSUME NEW u \in Transfers PROVE TransferOrder(u)'
    <3>1. wants[u] \in Artifacts /\ asked[u] \in Nat
      BY <1>0 DEF InstTypes
    <3>2. Spent(ref[wants[u]]) => Spent(ref[wants[u]])'
      BY <1>0, <2>1, <3>1, Shapes DEF Spent
    <3>3. xfer[u] = "reserving" => asked[u] <= time + 1 /\ time + 1 <= asked[u] + LeaseTime
      BY <1>0, <2>1, <3>1 DEF TransferOrder, TransactionIsQuick
    <3> QED
      BY <1>0, <2>1, <3>2, <3>3 DEF TransferOrder
  <2> QED
    BY <2>2, <2>3, <2>4, <2>5, <2>6 DEF InstInd
<1>4. CASE LeasesRunOut
  <2>1. /\ UNCHANGED <<time, gen, file, ref, wants, xfer, asked, cleaner, faults>>
        /\ time = LastTime
        /\ lease' = [u \in Transfers |-> IF lease[u] > time /\ ~Open(u) THEN time ELSE lease[u]]
    BY <1>4 DEF LeasesRunOut
  <2>2. LastTime > 0 /\ LastTime = Horizon + Retention + TTL + LeaseTime
    BY DEF LastTime
  <2>3. \A u \in Transfers : /\ lease'[u] \in 0 .. LastTime + 1
                             /\ lease'[u] = lease[u] \/ (lease[u] # 0 /\ lease'[u] = LastTime)
    BY <1>0, <2>1, <2>2 DEF InstTypes
  <2>4. InstTypes'
    BY <1>0, <2>1, <2>3 DEF InstTypes
  <2>5. CleanerOrder'
    BY <1>0, <2>1 DEF CleanerOrder, OldFile
  <2>6. LeasesAreCounted'
    <3>1. \A u \in Transfers : lease'[u] = 0 <=> lease[u] = 0
      BY <2>2, <2>3
    <3> QED
      BY <2>1, <3>1, CountSame
  <2>7. \A b \in Artifacts : ArtifactOrder(b)'
    BY <1>0, <2>1 DEF ArtifactOrder
  <2>8. ASSUME NEW u \in Transfers PROVE TransferOrder(u)'
    <3>1. CASE lease'[u] = lease[u]
      BY <1>0, <2>1, <3>1 DEF TransferOrder, Spent
    <3>2. CASE lease[u] # 0 /\ lease'[u] = LastTime
      <4>1. wants[u] \in Artifacts
        BY <1>0 DEF InstTypes
      <4>2. ref[wants[u]].exp + LeaseTime <= LastTime
        BY <2>2, <4>1, Shapes
      <4>3. xfer[u] \notin {"new", "reserving"} /\ LastTime # 0
        BY <1>0, <2>2, <3>2 DEF TransferOrder
      <4> QED
        BY <1>0, <2>1, <3>2, <4>2, <4>3 DEF TransferOrder, Spent
    <3> QED
      BY <2>3, <3>1, <3>2
  <2> QED
    BY <2>4, <2>5, <2>6, <2>7, <2>8 DEF InstInd
<1> QED
  BY <1>1, <1>2, <1>3, <1>4

\* The invariant holds at the start and in every state.
LEMMA InstInductive == InstSpec => []InstInd
<1> USE InstallerAssumption
<1>1. InstInit => InstInd
  <2> SUFFICES ASSUME InstInit PROVE InstInd
    OBVIOUS
  <2>1. NoFile \in Files /\ NoRef \in Rows /\ Idle \in Cleaners /\ LastTime \in Nat
    BY DEF NoFile, Files, NoRef, Rows, Idle, Cleaners, LastTime
  <2>2. InstTypes
    BY <2>1 DEF InstInit, InstTypes, GenSteps, XferSteps
  <2>3. CleanerOrder
    BY DEF InstInit, CleanerOrder, Idle
  <2>4. LeasesAreCounted
    <3> SUFFICES ASSUME NEW b \in Artifacts PROVE ref[b].active = Cardinality(Holders(b))
      BY DEF LeasesAreCounted, Holders
    <3>1. Holders(b) = {}
      BY DEF Holders, InstInit
    <3> QED
      BY <3>1, FS_EmptySet DEF InstInit, NoRef
  <2>5. (\A b \in Artifacts : ArtifactOrder(b)) /\ (\A u \in Transfers : TransferOrder(u))
    BY DEF InstInit, ArtifactOrder, TransferOrder, NoRef, NoFile
  <2> QED
    BY <2>2, <2>3, <2>4, <2>5 DEF InstInd
<1>2. InstInd /\ [InstNext]_instVars => InstInd'
  <2> SUFFICES ASSUME InstInd, [InstNext]_instVars PROVE InstInd'
    OBVIOUS
  <2>1. CASE UNCHANGED instVars
    BY <2>1 DEF instVars, InstInd, InstTypes, CleanerOrder, LeasesAreCounted, ArtifactOrder,
         TransferOrder, Spent, OldFile
  <2>2. CASE InstNext
    BY <2>2, GenerationStep, TransferStep, CleanerReads, RecoverStep, DeleteStep,
       DeleteClassroomStep, RemoveFilesStep, DeathAndTimeStep
       DEF InstNext, Cleanup, CleanupSteps, Deaths
  <2> QED
    BY <2>1, <2>2
<1> QED
  BY <1>1, <1>2, PTL DEF InstSpec

\* Classrooms go one by one, and an installer stays that of its classroom.
RoomTypes == roomOf \in [Artifacts -> Classrooms] /\ deleted \subseteq Classrooms
RoomsKept ==
  /\ roomOf' = roomOf
  /\ deleted' = deleted \/ \E c \in Classrooms : deleted' = deleted \cup {c} /\ DeleteClassroom(c)

LEMMA RoomStep == [InstNext]_instVars => RoomsKept
BY DEF RoomsKept, InstNext, Generation, StartOverlay, ApplyOverlay, PublishArtifact,
       MintReference, MintFails, RevokeReferences, RemovePublished, Transfer, BeginAttempt,
       ReserveAttempt, CheckArtifact, RenewAttempt, AbortStream, FinishStream, ReleaseAttempt,
       MarkConsumed, MarkConsumedFails, RemoveArtifact, Answered, DeleteClassroom, Cleanup,
       CleanupSteps, StartCleanup, RecoverLeases, SelectStale, DeleteStale, ReadNames,
       RemoveFiles, Deaths, GenerationDies, TransferDies, CleanupDies, AdvanceTime,
       LeasesRunOut, instVars, roomVars

LEMMA RoomsInductive == InstSpec => []RoomTypes
<1>1. InstInit => RoomTypes
  BY DEF InstInit, RoomTypes
<1>2. RoomTypes /\ [InstNext]_instVars => RoomTypes'
  BY RoomStep DEF RoomTypes, RoomsKept
<1> QED
  BY <1>1, <1>2, PTL DEF InstSpec

\* For any number of artifacts, transfers and failures, and any times to live:
\* the rows are well-formed and count their leases exactly, so that the
\* GREATEST(..., 0) of recoverExpiredTransferLeases never hides an error.
THEOREM RowsCountLeases == InstSpec => []LeaseInv
<1>1. InstInd /\ RoomTypes => LeaseInv
  <2> SUFFICES ASSUME InstInd, RoomTypes PROVE LeaseInv
    OBVIOUS
  <2>1. InstTypes /\ LeasesAreCounted
    BY DEF InstInd
  <2>2. LastTime = Horizon + Retention + TTL + LeaseTime
    BY DEF LastTime
  <2>3. ASSUME NEW a \in Artifacts PROVE ref[a] \in Refs
    <3>1. ref[a] \in Rows /\ ref[a].active \in 0 .. Cardinality(Transfers)
      BY <2>1, HolderCount DEF InstTypes
    <3>2. ref[a].exp \in 0 .. LastTime
      BY <2>2, Shapes, InstallerAssumption
    <3>3. ref[a] = [row |-> ref[a].row, exp |-> ref[a].exp, used |-> ref[a].used,
                    active |-> ref[a].active, consumed |-> ref[a].consumed]
      BY <3>1 DEF Rows
    <3> QED
      BY <3>1, <3>2, <3>3, Shapes DEF Refs
  <2>4. \A a \in Artifacts : file[a].at \in {"none", "overlay", "staging", "stored"}
                             /\ file[a].mtime \in 0 .. LastTime
    BY <2>2, Shapes, InstallerAssumption
  <2> QED
    BY <2>1, <2>3, <2>4, Shapes DEF LeaseInv, InstTypeOK, InstTypes, GenSteps, XferSteps, RoomTypes
<1> QED
  BY <1>1, InstInductive, RoomsInductive, PTL

\* A stream whose lease has not run out keeps its row and its file, although the
\* cleanup acts on rows and names it read before.
THEOREM StreamsKeepTheirFile == InstSpec => []ProtectedTransferKeepsFile
<1>1. InstInd => ProtectedTransferKeepsFile
  <2> SUFFICES ASSUME InstInd, NEW t \in Transfers, lease[t] > time
               PROVE  ref[wants[t]].row /\ file[wants[t]].at = "stored"
    BY DEF ProtectedTransferKeepsFile
  <2>1. lease[t] # 0 /\ wants[t] \in Artifacts
    BY DEF InstInd, InstTypes
  <2>2. ref[wants[t]].row /\ ref[wants[t]].active >= 1
    BY <2>1, LeaseIsCounted
  <2> QED
    BY <2>1, <2>2, Shapes DEF InstInd, ArtifactOrder
<1> QED
  BY <1>1, InstInductive, PTL

\* No failed generation, cleanup or crash leaves a reference that could be used
\* without its file.
THEOREM ReferencesHaveFiles == InstSpec => []UsableReferenceHasFile
<1>1. InstInd => UsableReferenceHasFile
  BY DEF InstInd, ArtifactOrder, UsableReferenceHasFile, Usable
<1> QED
  BY <1>1, InstInductive, PTL

\* Only its own request takes a lease that has not run out away, or the deletion
\* of the classroom.
THEOREM LeasesAreNotTaken == InstSpec => LiveLeaseIsKept
<1> DEFINE Kept(t) == lease[t] > time /\ lease'[t] = 0 =>
                      \/ xfer[t] \in {"releasing", "finishing"}
                      \/ roomOf[wants[t]] \in deleted' \ deleted
<1>1. ASSUME InstInd, [InstNext]_instVars, NEW t \in Transfers PROVE Kept(t)
  <2>0. InstTypes /\ CleanerOrder /\ time \in Nat /\ lease[t] \in Nat /\ LastTime \in Nat
    BY <1>1, Shapes DEF InstInd, InstTypes
  <2>1. ASSUME NEW u \in Transfers, Transfer(u) PROVE Kept(t)
    <3>1. CASE ReserveAttempt(u)
      <4>1. lease[u] = 0
        BY <1>1, <3>1 DEF ReserveAttempt, InstInd, TransferOrder
      <4>2. t # u => lease'[t] = lease[t]
        BY <2>0, <3>1 DEF ReserveAttempt, InstTypes
      <4> QED
        BY <2>0, <4>1, <4>2
    <3>2. CASE RenewAttempt(u)
      <4>1. t # u => lease'[t] = lease[t]
        BY <2>0, <3>2 DEF RenewAttempt, InstTypes
      <4>2. lease[u] > time => lease'[u] # 0
        <5>1. lease[u] \in Nat /\ Beyond(time + LeaseTime) \in Nat
          BY <2>0, InstallerAssumption DEF InstTypes, Beyond
        <5>2. Max({lease[u], Beyond(time + LeaseTime)}) =
                IF lease[u] >= Beyond(time + LeaseTime) THEN lease[u] ELSE Beyond(time + LeaseTime)
          BY <5>1, MaxPair
        <5>3. lease'[u] = lease[u] \/ lease'[u] = Max({lease[u], Beyond(time + LeaseTime)})
          BY <2>0, <3>2 DEF RenewAttempt, InstTypes
        <5> QED
          BY <2>0, <5>1, <5>2, <5>3, InstallerAssumption
      <4> QED
        BY <2>0, <4>1, <4>2
    <3>3. CASE ReleaseAttempt(u) \/ MarkConsumed(u) \/ MarkConsumedFails(u)
      BY <2>0, <3>3 DEF ReleaseAttempt, MarkConsumed, MarkConsumedFails, DropLease, InstTypes
    <3>4. CASE UNCHANGED lease
      BY <2>0, <3>4
    <3> QED
      BY <2>1, <3>1, <3>2, <3>3, <3>4
         DEF Transfer, BeginAttempt, CheckArtifact, AbortStream, FinishStream, RemoveArtifact
  <2>2. CASE RecoverLeases
    BY <2>0, <2>2, Shapes, <1>1 DEF RecoverLeases, Expired, CleanerOrder
  <2>3. CASE DeleteStale
    BY <1>1, <2>0, <2>3, DeleteStep
  <2>4. CASE UNCHANGED lease
    BY <2>0, <2>4
  <2>5. ASSUME NEW c \in Classrooms, DeleteClassroom(c) PROVE Kept(t)
    BY <2>0, <2>5 DEF DeleteClassroom, DeleteRows, InstTypes
  <2>6. CASE LeasesRunOut
    <3>1. lease'[t] = lease[t] \/ lease'[t] = time
      BY <2>6 DEF LeasesRunOut
    <3>2. time > 0
      BY <2>6, InstallerAssumption DEF LeasesRunOut, LastTime
    <3> QED
      BY <2>0, <3>1, <3>2
  <2> QED
    BY <1>1, <2>1, <2>2, <2>3, <2>4, <2>5, <2>6
       DEF InstNext, Generation, StartOverlay, ApplyOverlay, PublishArtifact, MintReference, MintFails,
           RevokeReferences, RemovePublished, Cleanup, CleanupSteps, StartCleanup, SelectStale,
           ReadNames, RemoveFiles, Deaths, GenerationDies, TransferDies, CleanupDies,
           AdvanceTime, instVars
<1>2. InstInd /\ [InstNext]_instVars => \A t \in Transfers : Kept(t)
  BY <1>1
<1> QED
  BY <1>2, InstInductive, PTL DEF InstSpec, LiveLeaseIsKept

\* After a complete download no other attempt is reserved, although the
\* transfer may have outlived its lease: by then the reference had expired by
\* more than a transaction of consumeAttempt lasts.
THEOREM CompletionIsLast == InstSpec => CompleteTransferIsLast
<1> DEFINE Last(t) ==
      xfer'[t] = "checking" /\ xfer[t] # "checking" =>
        ~ \E u \in Transfers : wants[u] = wants[t] /\ xfer[u] \in {"removing", "complete"}
<1>1. ASSUME InstInd, [InstNext]_instVars, NEW t \in Transfers PROVE Last(t)
  <2>0. InstTypes
    BY <1>1 DEF InstInd
  <2>1. CASE ReserveAttempt(t)
    <3> SUFFICES ASSUME xfer'[t] = "checking",
                        NEW u \in Transfers, wants[u] = wants[t],
                        xfer[u] \in {"removing", "complete"}
                 PROVE  FALSE
      OBVIOUS
    <3>1. Usable(ref[wants[t]], asked[t])
      BY <2>0, <2>1 DEF ReserveAttempt, Answered, InstTypes
    <3>2. Spent(ref[wants[t]])
      BY <1>1 DEF InstInd, TransferOrder
    <3>3. xfer[t] = "reserving" /\ wants[t] \in Artifacts /\ asked[t] \in Nat /\ time \in Nat
      BY <2>0, <2>1 DEF ReserveAttempt, InstTypes
    <3>4. time <= asked[t] + LeaseTime
      BY <1>1, <3>3 DEF InstInd, TransferOrder
    <3> QED
      BY <1>1, <3>1, <3>2, <3>3, <3>4, Shapes, InstallerAssumption DEF Usable, Spent
  <2>2. ASSUME NEW u \in Transfers, Transfer(u), ~ReserveAttempt(t) PROVE Last(t)
    <3>1. CASE u # t
      BY <2>0, <2>2, <3>1
         DEF Transfer, InstTypes, Answered, BeginAttempt, ReserveAttempt, CheckArtifact,
             RenewAttempt, AbortStream, FinishStream, ReleaseAttempt, MarkConsumed,
             MarkConsumedFails, RemoveArtifact
    <3>2. CASE u = t
      BY <2>0, <2>2, <3>2
         DEF Transfer, InstTypes, Answered, BeginAttempt, CheckArtifact,
             RenewAttempt, AbortStream, FinishStream, ReleaseAttempt, MarkConsumed,
             MarkConsumedFails, RemoveArtifact
    <3> QED
      BY <3>1, <3>2
  <2>3. ASSUME NEW u \in Transfers, TransferDies(u) PROVE Last(t)
    BY <2>0, <2>3 DEF TransferDies, InstTypes
  <2>4. CASE UNCHANGED xfer
    BY <2>4
  <2> QED
    BY <1>1, <2>1, <2>2, <2>3, <2>4
       DEF InstNext, Generation, StartOverlay, ApplyOverlay, PublishArtifact, MintReference, MintFails,
           RevokeReferences, RemovePublished, Cleanup, CleanupSteps, StartCleanup, SelectStale,
           ReadNames, RemoveFiles, RecoverLeases, DeleteStale, Deaths, GenerationDies,
           CleanupDies, DeleteClassroom, AdvanceTime, LeasesRunOut, instVars
<1>2. InstInd /\ [InstNext]_instVars => \A t \in Transfers : Last(t)
  BY <1>1
<1> QED
  BY <1>2, InstInductive, PTL DEF InstSpec, CompleteTransferIsLast

=============================================================================
