------------------------- MODULE InstallerDownloads -------------------------
(***************************************************************************)
(* The personalised Windows installers of the API server: an installer is  *)
(* generated into the artifact directory (services/windows-offline-        *)
(* installer-artifact.service.ts), a download reference to it is minted,   *)
(* the download route streams it under expiring transfer leases            *)
(* (routes/windows-offline-installer.ts and services/windows-offline-      *)
(* installer-download-refs.service.ts), and a periodic cleanup removes     *)
(* what is stale (services/windows-offline-installer-maintenance).         *)
(*                                                                         *)
(* Database rows and files are separate stores: every transaction is one   *)
(* step, every file operation another, and a process may die between any   *)
(* two.  Each activity runs in a server process of its own, so a crash     *)
(* ends one activity; what it kept in the database stays.                  *)
(***************************************************************************)
EXTENDS Naturals, FiniteSets, FiniteSetsExt

CONSTANTS
  Artifacts,     \* the installers that may be generated
  Classrooms,    \* the classrooms they are generated for
  Transfers,     \* the HTTP requests for a download
  MaxAttempts,   \* downloadRefMaxAttempts
  TTL,           \* downloadRefTtlMinutes
  LeaseTime,     \* transferLeaseMs
  Retention,     \* artifactRetentionHours, or the grace of orphan files
  Horizon,       \* bound: no generation and no download starts after it
  MaxFaults      \* bound: the faults below

ASSUME InstallerAssumption ==
  /\ IsFiniteSet(Artifacts) /\ IsFiniteSet(Transfers)
  /\ MaxAttempts \in Nat \ {0} /\ TTL \in Nat \ {0} /\ LeaseTime \in Nat \ {0}
  /\ Retention \in Nat \ {0} /\ Horizon \in Nat
  /\ MaxFaults \in Nat

VARIABLES
  time,       \* the clock of servers and database
  roomOf,     \* per artifact: its classroom
  deleted,    \* the classrooms that were deleted
  gen,        \* per artifact: how far its generation is
  file,       \* per artifact: where its file is, and since when
  ref,        \* per artifact: its row of windows_offline_download_refs
  lease,      \* per transfer: its row of ..._transfer_leases (0: none)
  wants,      \* per transfer: the artifact its reference names
  xfer,       \* per transfer: how far the request handler is
  asked,      \* per transfer: the time consumeAttempt read
  cleaner,    \* the cleanup in flight (single flight per process)
  faults      \* database calls that failed, activities that died and clients
              \* that left too early to be noticed

roomVars == <<roomOf, deleted>>
instVars == <<time, gen, file, ref, lease, wants, xfer, asked, cleaner, faults, roomVars>>

\* Bound: by then every retention has run out, and every lease that nobody renews.
LastTime == Horizon + Retention + TTL + LeaseTime

\* A lease may end beyond the bound, see LeasesRunOut.
Beyond(n) == IF n > LastTime THEN LastTime + 1 ELSE n

NoFile == [at |-> "none", mtime |-> 0]
NoRef == [row |-> FALSE, exp |-> 0, used |-> 0, active |-> 0, consumed |-> FALSE]
Idle == [pc |-> "idle", time |-> 0, rows |-> {}, gone |-> {}]

Refs == [row : BOOLEAN, exp : 0 .. LastTime, used : 0 .. MaxAttempts,
         active : 0 .. Cardinality(Transfers), consumed : BOOLEAN]

InstInit ==
  /\ time = 0
  /\ roomOf \in [Artifacts -> Classrooms] /\ deleted = {}
  /\ gen = [a \in Artifacts |-> "new"]
  /\ file = [a \in Artifacts |-> NoFile]
  /\ ref = [a \in Artifacts |-> NoRef]
  /\ lease = [t \in Transfers |-> 0]
  /\ wants \in [Transfers -> Artifacts]
  /\ xfer = [t \in Transfers |-> "new"]
  /\ asked = [t \in Transfers |-> 0]
  /\ cleaner = Idle
  /\ faults = 0

-----------------------------------------------------------------------------
(***************************************************************************)
(* Generation.                                                             *)
(***************************************************************************)

\* applyOverlay copies the template to a temporary file beside the staging
\* file, for a classroom that was there when generate looked ...
StartOverlay(a) ==
  /\ gen[a] = "new" /\ time <= Horizon /\ roomOf[a] \notin deleted
  /\ gen' = [gen EXCEPT ![a] = "overlaying"]
  /\ file' = [file EXCEPT ![a] = [at |-> "overlay", mtime |-> time]]
  /\ UNCHANGED <<time, ref, lease, wants, xfer, asked, cleaner, faults, roomVars>>

\* ... writes the trailer and renames it to the staging file; when a step
\* fails, its finally block removes the temporary file.
ApplyOverlay(a) ==
  /\ gen[a] = "overlaying"
  /\ \/ /\ gen' = [gen EXCEPT ![a] = "staged"]
        /\ file' = [file EXCEPT ![a].at = "staging"]
     \/ /\ gen' = [gen EXCEPT ![a] = "failed"]
        /\ file' = [file EXCEPT ![a] = NoFile]
  /\ UNCHANGED <<time, ref, lease, wants, xfer, asked, cleaner, faults, roomVars>>

\* renameArtifact: the file gets its storage name before any reference to
\* it exists.  A rename that fails (the staging file was cleaned up, the disk
\* is full) ends in the catch block, which removes either file.
PublishArtifact(a) ==
  /\ gen[a] = "staged"
  /\ \/ /\ file[a].at = "staging"
        /\ gen' = [gen EXCEPT ![a] = "published"]
        /\ file' = [file EXCEPT ![a].at = "stored"]
     \/ /\ gen' = [gen EXCEPT ![a] = "failed"]
        /\ file' = [file EXCEPT ![a] = NoFile]
  /\ UNCHANGED <<time, ref, lease, wants, xfer, asked, cleaner, faults, roomVars>>

NewRef == [row |-> TRUE, exp |-> time + TTL, used |-> 0, active |-> 0, consumed |-> FALSE]

MintReference(a) ==
  /\ gen[a] = "published" /\ roomOf[a] \notin deleted
  /\ gen' = [gen EXCEPT ![a] = "ready"]
  /\ ref' = [ref EXCEPT ![a] = NewRef]
  /\ UNCHANGED <<time, file, lease, wants, xfer, asked, cleaner, faults, roomVars>>

\* The insert fails for the caller: its classroom is gone (the foreign key
\* refuses it), or the database failed, and may have committed it all the same.
MintFails(a) ==
  /\ gen[a] = "published"
  /\ gen' = [gen EXCEPT ![a] = "revoking"]
  /\ \/ /\ roomOf[a] \in deleted
        /\ UNCHANGED <<ref, faults>>
     \/ /\ roomOf[a] \notin deleted /\ faults < MaxFaults
        /\ faults' = faults + 1
        /\ ref' \in {ref, [ref EXCEPT ![a] = NewRef]}
  /\ UNCHANGED <<time, file, lease, wants, xfer, asked, cleaner, roomVars>>

\* Mutant: the file goes whatever became of the references.
RevokeNothing(a) ==
  /\ gen[a] = "revoking"
  /\ gen' = [gen EXCEPT ![a] = "removing"]
  /\ UNCHANGED <<time, file, ref, lease, wants, xfer, asked, cleaner, faults, roomVars>>

\* The catch block of generate: the rows of the artifact without a running
\* transfer are deleted, and the file is removed only when none is left; the
\* database that failed once may fail again.
RevokeReferences(a) ==
  /\ gen[a] = "revoking"
  /\ \/ /\ LET kept == ref[a].row /\ ref[a].active > 0
           IN /\ ref' = IF kept THEN ref ELSE [ref EXCEPT ![a] = NoRef]
              /\ gen' = [gen EXCEPT ![a] = IF kept THEN "failed" ELSE "removing"]
     \/ gen' = [gen EXCEPT ![a] = "failed"] /\ UNCHANGED ref
  /\ UNCHANGED <<time, file, lease, wants, xfer, asked, cleaner, faults, roomVars>>

RemovePublished(a) ==
  /\ gen[a] = "removing"
  /\ gen' = [gen EXCEPT ![a] = "failed"]
  /\ file' = [file EXCEPT ![a] = NoFile]
  /\ UNCHANGED <<time, ref, lease, wants, xfer, asked, cleaner, faults, roomVars>>

-----------------------------------------------------------------------------
(***************************************************************************)
(* A download request.                                                     *)
(***************************************************************************)

Usable(r, now) == r.row /\ ~r.consumed /\ r.exp > now /\ r.used < MaxAttempts

Answered(t, pc) ==
  /\ xfer' = [xfer EXCEPT ![t] = pc]
  /\ UNCHANGED <<time, gen, file, wants, cleaner, roomVars>>

\* consumeAttempt selects the row and reads the clock ...
BeginAttempt(t) ==
  /\ xfer[t] = "new" /\ time <= Horizon /\ gen[wants[t]] = "ready"
  /\ asked' = [asked EXCEPT ![t] = IF Usable(ref[wants[t]], time) THEN time ELSE 0]
  /\ Answered(t, IF Usable(ref[wants[t]], time) THEN "reserving" ELSE "done")
  /\ UNCHANGED <<ref, lease, faults>>

\* Mutant: a lease that counts from the start of the transfer only.
LeaseFromNow(t) == asked[t] + LeaseTime

\* A lease outlives the reference's own time to live by a recovery window.
LeaseUntil(t) == Max({asked[t], ref[wants[t]].exp}) + LeaseTime

\* ... and reserves the attempt with a guarded update, with the time it read
\* before; the lease row is inserted in the same transaction.
ReserveAttempt(t) ==
  /\ xfer[t] = "reserving"
  /\ IF Usable(ref[wants[t]], asked[t])
       THEN /\ ref' = [ref EXCEPT ![wants[t]].used = @ + 1, ![wants[t]].active = @ + 1]
            /\ lease' = [lease EXCEPT ![t] = LeaseUntil(t)]
            /\ Answered(t, "checking")
       ELSE Answered(t, "done") /\ UNCHANGED <<ref, lease>>
  /\ asked' = [asked EXCEPT ![t] = 0]
  /\ UNCHANGED faults

\* access, stat and hash of the file; then the stream is opened, and the
\* listeners attached.  A client that left before that is never noticed: its
\* 'close' event is past, and writes to its response ask for a 'drain' that
\* does not come.
CheckArtifact(t) ==
  /\ xfer[t] = "checking"
  /\ \/ Answered(t, IF file[wants[t]].at = "stored" THEN "streaming" ELSE "releasing")
        /\ UNCHANGED faults
     \/ /\ file[wants[t]].at = "stored" /\ faults < MaxFaults
        /\ Answered(t, "hung")
        /\ faults' = faults + 1
  /\ UNCHANGED <<ref, lease, asked>>

Open(t) == xfer[t] \in {"streaming", "hung"}

\* The renewal timer.  A lease that ran out or is gone, or a renewal that
\* fails, ends the stream.
RenewAttempt(t) ==
  /\ Open(t)
  /\ \/ /\ lease[t] > time
        /\ lease' = [lease EXCEPT ![t] = Max({lease[t], Beyond(time + LeaseTime)})]
        /\ lease' # lease
        /\ UNCHANGED <<xfer, faults>>
     \/ /\ lease[t] <= time
        /\ xfer' = [xfer EXCEPT ![t] = "releasing"]
        /\ UNCHANGED <<lease, faults>>
     \/ /\ faults < MaxFaults /\ faults' = faults + 1
        /\ xfer' = [xfer EXCEPT ![t] = "releasing"]
        /\ UNCHANGED lease
  /\ UNCHANGED <<time, gen, file, ref, wants, asked, cleaner, roomVars>>

\* The client went away, or reading the file failed.
AbortStream(t) ==
  /\ Open(t)
  /\ Answered(t, "releasing")
  /\ UNCHANGED <<ref, lease, asked, faults>>

\* The response is complete: the client has the whole installer.
FinishStream(t) ==
  /\ xfer[t] = "streaming"
  /\ Answered(t, "finishing")
  /\ UNCHANGED <<ref, lease, asked, faults>>

\* Deleting one's lease takes one transfer off the row; a lease that is gone
\* (recovered, or cascaded away with its row) changes nothing.
DropLease(t, r) ==
  /\ lease' = [lease EXCEPT ![t] = 0]
  /\ ref' = IF lease[t] = 0 THEN ref ELSE [ref EXCEPT ![wants[t]] = r]

\* releaseAttempt; a failure is logged, and the lease is left to expire.
ReleaseAttempt(t) ==
  /\ xfer[t] = "releasing"
  /\ \/ /\ DropLease(t, [ref[wants[t]] EXCEPT !.active = @ - 1])
        /\ UNCHANGED faults
     \/ /\ faults < MaxFaults /\ faults' = faults + 1
        /\ UNCHANGED <<ref, lease>>
  /\ Answered(t, "done")
  /\ UNCHANGED asked

Consumed(r) == [r EXCEPT !.active = @ - 1, !.consumed = TRUE]

\* Mutant: every complete download removes the file.
MarkConsumedAndRemove(t) ==
  /\ xfer[t] = "finishing"
  /\ DropLease(t, Consumed(ref[wants[t]]))
  /\ Answered(t, "removing")
  /\ UNCHANGED <<asked, faults>>

\* markConsumed: the last running transfer may remove the file.
MarkConsumed(t) ==
  /\ xfer[t] = "finishing"
  /\ DropLease(t, Consumed(ref[wants[t]]))
  /\ Answered(t, IF lease[t] # 0 /\ ref[wants[t]].active = 1 THEN "removing" ELSE "complete")
  /\ UNCHANGED <<asked, faults>>

\* The transaction fails for the handler (committed or not): it releases the
\* attempt instead.
MarkConsumedFails(t) ==
  /\ xfer[t] = "finishing" /\ faults < MaxFaults
  /\ faults' = faults + 1
  /\ \/ DropLease(t, Consumed(ref[wants[t]]))
     \/ UNCHANGED <<ref, lease>>
  /\ Answered(t, "releasing")
  /\ UNCHANGED asked

RemoveArtifact(t) ==
  /\ xfer[t] = "removing"
  /\ xfer' = [xfer EXCEPT ![t] = "complete"]
  /\ file' = [file EXCEPT ![wants[t]] = NoFile]
  /\ UNCHANGED <<time, gen, ref, lease, wants, asked, cleaner, faults, roomVars>>

-----------------------------------------------------------------------------
(***************************************************************************)
(* The cleanup.                                                            *)
(***************************************************************************)

\* runCleanup: one at a time; cleanupExpired reads the clock once.
StartCleanup ==
  /\ cleaner = Idle
  /\ cleaner' = [Idle EXCEPT !.pc = "recover", !.time = time]
  /\ UNCHANGED <<time, gen, file, ref, lease, wants, xfer, asked, faults, roomVars>>

Expired(t) == lease[t] # 0 /\ lease[t] <= cleaner.time

\* Mutant: the leases are deleted, and the rows left as they are.
RecoverLeasesOnly ==
  /\ cleaner.pc = "recover"
  /\ lease' = [t \in Transfers |-> IF Expired(t) THEN 0 ELSE lease[t]]
  /\ cleaner' = [cleaner EXCEPT !.pc = "select"]
  /\ UNCHANGED <<time, gen, file, ref, wants, xfer, asked, faults, roomVars>>

\* recoverExpiredTransferLeases: each lease that ran out is deleted, and
\* taken off its row.
RecoverLeases ==
  /\ cleaner.pc = "recover"
  /\ lease' = [t \in Transfers |-> IF Expired(t) THEN 0 ELSE lease[t]]
  /\ ref' = [a \in Artifacts |->
               [ref[a] EXCEPT !.active = @ - Cardinality({t \in Transfers :
                                                            wants[t] = a /\ Expired(t)})]]
  /\ cleaner' = [cleaner EXCEPT !.pc = "select"]
  /\ UNCHANGED <<time, gen, file, wants, xfer, asked, faults, roomVars>>

Stale(r) ==
  /\ r.row /\ r.active = 0
  /\ r.consumed \/ r.exp <= cleaner.time \/ r.used >= MaxAttempts

SelectStale ==
  /\ cleaner.pc = "select"
  /\ cleaner' = [cleaner EXCEPT !.pc = "delete", !.rows = {a \in Artifacts : Stale(ref[a])}]
  /\ UNCHANGED <<time, gen, file, ref, lease, wants, xfer, asked, faults, roomVars>>

\* Mutant: the rows selected before, whatever started meanwhile.
DeletableUnguarded == {a \in cleaner.rows : ref[a].row}

\* The rows selected before, those that still have no running transfer.
Deletable == {a \in cleaner.rows : ref[a].row /\ ref[a].active = 0}

\* Deleting rows cascades to their leases.
DeleteRows(D) ==
  /\ ref' = [a \in Artifacts |-> IF a \in D THEN NoRef ELSE ref[a]]
  /\ lease' = [t \in Transfers |-> IF wants[t] \in D THEN 0 ELSE lease[t]]

DeleteStale ==
  /\ cleaner.pc = "delete"
  /\ DeleteRows(Deletable)
  /\ cleaner' = [cleaner EXCEPT !.pc = "names", !.rows = {}, !.gone = Deletable]
  /\ UNCHANGED <<time, gen, file, wants, xfer, asked, faults, roomVars>>

\* Deleting a classroom cascades to the references of its installers, and to
\* their leases, whoever holds them.
DeleteClassroom(c) ==
  /\ c \in Classrooms \ deleted
  /\ deleted' = deleted \cup {c}
  /\ DeleteRows({a \in Artifacts : roomOf[a] = c})
  /\ UNCHANGED <<time, gen, file, wants, xfer, asked, cleaner, faults, roomOf>>

\* A file the cleanup may take for old: it knows the names of staging files and
\* of stored ones, the temporary file of an overlay has neither.
OldFile(a) == file[a].at \in {"staging", "stored"} /\ file[a].mtime + Retention <= cleaner.time

\* The names some row still uses are read (a row only ever names a stored
\* file), then the files are removed in one synchronous loop: those of the
\* deleted rows at once, every other unreferenced one when it is old.
ReadNames ==
  /\ cleaner.pc = "names"
  /\ cleaner' = [cleaner EXCEPT !.pc = "files", !.rows = {a \in Artifacts : ref[a].row}]
  /\ UNCHANGED <<time, gen, file, ref, lease, wants, xfer, asked, faults, roomVars>>

\* Mutant: only the files of deleted rows go, crashed generations stay.
RemovableOfDeletedRow(a) == a \in cleaner.gone \ cleaner.rows

Removable(a) ==
  /\ ~(file[a].at = "stored" /\ a \in cleaner.rows)
  /\ (file[a].at = "stored" /\ a \in cleaner.gone) \/ OldFile(a)

RemoveFiles ==
  /\ cleaner.pc = "files"
  /\ file' = [a \in Artifacts |-> IF Removable(a) THEN NoFile ELSE file[a]]
  /\ cleaner' = Idle
  /\ UNCHANGED <<time, gen, ref, lease, wants, xfer, asked, faults, roomVars>>

-----------------------------------------------------------------------------
(***************************************************************************)
(* Deaths and time.                                                        *)
(***************************************************************************)

GenerationDies(a) ==
  /\ gen[a] \in {"overlaying", "staged", "published", "revoking", "removing"} /\ faults < MaxFaults
  /\ gen' = [gen EXCEPT ![a] = "dead"] /\ faults' = faults + 1
  /\ UNCHANGED <<time, file, ref, lease, wants, xfer, asked, cleaner, roomVars>>

TransferDies(t) ==
  /\ xfer[t] \notin {"new", "done", "complete"} /\ faults < MaxFaults
  /\ xfer' = [xfer EXCEPT ![t] = IF xfer[t] = "removing" THEN "complete" ELSE "done"]
  /\ faults' = faults + 1
  /\ UNCHANGED <<time, gen, file, ref, lease, wants, asked, cleaner, roomVars>>

\* A server that dies in a cleanup, or a database call of it that fails: the
\* next pass starts over.
CleanupDies ==
  /\ cleaner # Idle /\ faults < MaxFaults
  /\ cleaner' = Idle /\ faults' = faults + 1
  /\ UNCHANGED <<time, gen, file, ref, lease, wants, xfer, asked, roomVars>>

\* Bound: a generation does not sit between the writing of its file and its
\* reference for as long as the retention (hours in any configuration).
GenerationIsQuick ==
  \A a \in Artifacts :
    gen[a] \in {"overlaying", "staged", "published"} => time + 1 < file[a].mtime + Retention

\* Bound: nor does the transaction of consumeAttempt last as long as a lease.
TransactionIsQuick ==
  \A t \in Transfers : xfer[t] = "reserving" => time < asked[t] + LeaseTime

AdvanceTime ==
  /\ time < LastTime /\ GenerationIsQuick /\ TransactionIsQuick
  /\ time' = time + 1
  /\ UNCHANGED <<gen, file, ref, lease, wants, xfer, asked, cleaner, faults, roomVars>>

\* At the bound the clock stands, and the leases that end beyond it run out,
\* those apart that a renewal timer goes on renewing in time.
LeasesRunOut ==
  /\ time = LastTime
  /\ lease' = [t \in Transfers |-> IF lease[t] > time /\ ~Open(t) THEN time ELSE lease[t]]
  /\ UNCHANGED <<time, gen, file, ref, wants, xfer, asked, cleaner, faults, roomVars>>

Generation(a) ==
  \/ StartOverlay(a) \/ ApplyOverlay(a) \/ PublishArtifact(a) \/ MintReference(a) \/ MintFails(a)
  \/ RevokeReferences(a) \/ RemovePublished(a)

Transfer(t) ==
  \/ BeginAttempt(t) \/ ReserveAttempt(t) \/ CheckArtifact(t) \/ RenewAttempt(t)
  \/ AbortStream(t) \/ FinishStream(t) \/ ReleaseAttempt(t) \/ MarkConsumed(t)
  \/ MarkConsumedFails(t) \/ RemoveArtifact(t)

CleanupSteps ==
  RecoverLeases \/ SelectStale \/ DeleteStale \/ ReadNames \/ RemoveFiles

Cleanup == StartCleanup \/ CleanupSteps

Deaths ==
  \/ \E a \in Artifacts : GenerationDies(a)
  \/ \E t \in Transfers : TransferDies(t)
  \/ CleanupDies

InstNext ==
  \/ \E a \in Artifacts : Generation(a)
  \/ \E t \in Transfers : Transfer(t)
  \/ \E c \in Classrooms : DeleteClassroom(c)
  \/ Cleanup
  \/ Deaths
  \/ AdvanceTime
  \/ LeasesRunOut

InstSpec == InstInit /\ [][InstNext]_instVars

\* What a handler does in the end: a stream with a client ends one way or the
\* other, that of a client who was gone is left to the renewal timer.
GoesOn(t) ==
  \/ xfer[t] = "streaming" /\ (AbortStream(t) \/ FinishStream(t))
  \/ xfer[t] = "hung" /\ RenewAttempt(t)
  \/ xfer[t] # "new" /\ ~Open(t) /\ Transfer(t)

\* Handlers that run go on, the cleanup is on an interval timer, time passes.
InstFairness ==
  /\ \A a \in Artifacts : WF_instVars(gen[a] # "new" /\ Generation(a))
  /\ \A t \in Transfers : WF_instVars(GoesOn(t))
  /\ WF_instVars(Cleanup)
  /\ WF_instVars(AdvanceTime \/ LeasesRunOut)

InstFairSpec == InstSpec /\ InstFairness

-----------------------------------------------------------------------------
\* Type invariant: rows, leases and files have the shapes of schema.ts; no
\* counter of running transfers is ever negative, which the GREATEST(..., 0)
\* of the code would hide.
InstTypeOK ==
  /\ time \in 0 .. LastTime
  /\ gen \in [Artifacts -> {"new", "overlaying", "staged", "published", "ready", "revoking",
                           "removing", "failed", "dead"}]
  /\ roomOf \in [Artifacts -> Classrooms] /\ deleted \subseteq Classrooms
  /\ \A a \in Artifacts : /\ file[a].at \in {"none", "overlay", "staging", "stored"}
                          /\ file[a].mtime \in 0 .. LastTime
  /\ \A a \in Artifacts : ref[a] \in Refs
  /\ lease \in [Transfers -> 0 .. LastTime + 1]
  /\ xfer \in [Transfers -> {"new", "reserving", "checking", "streaming", "hung", "releasing",
                             "finishing", "removing", "complete", "done"}]
  /\ cleaner.pc \in {"idle", "recover", "select", "delete", "names", "files"}

\* The count of running transfers in a reference's row is the number of its
\* leases, whatever mix of completions, aborts, lost leases and recoveries
\* got there: it is what keeps the cleanup away from the row.
LeasesAreCounted ==
  \A a \in Artifacts :
    ref[a].active = Cardinality({t \in Transfers : wants[t] = a /\ lease[t] # 0})

\* The rows that decide what the cleanup may take: well-formed, with no running
\* transfer too many, too few or below zero.
LeaseInv == InstTypeOK /\ LeasesAreCounted

\* A slow legitimate stream is not deleted early: while a transfer holds a
\* lease that has not run out, its row and its file are there, although
\* cleanups, other transfers and failed generations remove both.
ProtectedTransferKeepsFile ==
  \A t \in Transfers :
    (xfer[t] = "checking" \/ Open(t)) /\ lease[t] > time =>
      ref[wants[t]].row /\ file[wants[t]].at = "stored"

\* Nobody takes a lease that has not run out from its transfer, although a
\* cleanup deletes rows, and with them their leases, that it selected a step
\* before: only its own completion or release ends it, or the deletion of the
\* classroom.
LiveLeaseIsKept ==
  [][\A t \in Transfers : lease[t] > time /\ lease'[t] = 0 =>
       \/ xfer[t] \in {"releasing", "finishing"}
       \/ roomOf[wants[t]] \in deleted' \ deleted]_instVars

\* A reference that can still be used has its file: no failed generation, no
\* cleanup and no crash leaves a live reference to no file.
UsableReferenceHasFile ==
  \A a \in Artifacts : Usable(ref[a], time) => file[a].at = "stored"

\* Once a complete transfer has been recorded, no other attempt is reserved
\* on its reference: also when the transfer outlived its lease, so that the
\* cleanup gave its slot back and markConsumed found nothing to mark.
CompleteTransferIsLast ==
  [][\A t \in Transfers : xfer'[t] = "checking" /\ xfer[t] # "checking" =>
       ~ \E u \in Transfers : wants[u] = wants[t] /\ xfer[u] \in {"removing", "complete"}]_instVars

\* Every installer file is removed in the end, whatever died or failed on the
\* way: a consumed, expired, exhausted or lost artifact does not stay, nor that
\* of a deleted classroom.  Two files may: the temporary file of an overlay that
\* died, which no cleanup knows, and the installer of a stream that hangs, whose
\* lease is renewed for as long as the server runs.
FilesAreReclaimed ==
  <>[](\A a \in Artifacts :
         \/ file[a] = NoFile
         \/ file[a].at = "overlay" /\ gen[a] = "dead"
         \/ file[a].at = "stored" /\ \E t \in Transfers : wants[t] = a /\ xfer[t] = "hung")

\* Not so, for these two reasons: that no file stays.
AllFilesAreReclaimed == <>[](\A a \in Artifacts : file[a] = NoFile)

=============================================================================
