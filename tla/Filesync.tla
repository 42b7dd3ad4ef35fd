------------------------------ MODULE Filesync ------------------------------
(***************************************************************************)
(* The file syncer (internal/filesync/syncer.go) and the two directory     *)
(* trees it works on.  The module holds the syncer's state and one action  *)
(* per step of its goroutines; it has no Next of its own: SyncService and  *)
(* Orchestrator extend it and say who calls it, and when.                  *)
(*                                                                         *)
(* A *SyncJob is an element of JobIds.  It outlives its entry in the       *)
(* syncer's map (a goroutine or a TrackedDownload may still point to it),  *)
(* so the map, jobOf, is a variable of its own.  Each call of SyncJob is   *)
(* an element of Runs, and work[r][f] is the goroutine it starts for file  *)
(* f.  JobIds and Runs are slots: a slot nobody refers to is free again.   *)
(***************************************************************************)
EXTENDS Naturals, FiniteSets

CONSTANTS
  Downloads,      \* torrents, each at one downloader ("downloader:id")
  Hashes,         \* torrent ids (info hashes)
  HashOf,         \* HashOf[d]: the id of d; two downloaders may share one
  Names,          \* names of torrents; each has its directory below a base
  NameOf,         \* NameOf[d]: the name of d; two torrents may share one
  NFiles,         \* every torrent lists the files 1..NFiles, in this order
  JobIds,         \* slots for *SyncJob objects
  Runs,           \* slots for the goroutines that execute SyncJob
  Dests,          \* final base directories
  MaxConcurrent,  \* capacity of the semaphore channel
  Truncated,      \* files whose remote copy is not of the size listed
  Outages,        \* TRUE: a call to a downloader may fail for no other reason
  Faults,         \* TRUE: transfers and file operations may fail, and a
                  \* downloader's list may lack a file it once held
  Nil             \* a nil pointer or a missing map entry

ASSUME FilesyncAssumption ==
  /\ Downloads # {}
  /\ Dests # {}
  /\ HashOf \in [Downloads -> Hashes]
  /\ NameOf \in [Downloads -> Names]
  /\ NFiles \in Nat \ {0}
  /\ MaxConcurrent \in Nat \ {0}
  /\ IsFiniteSet(Runs)
  /\ Truncated \subseteq 1..NFiles
  /\ Nil \notin JobIds
  /\ Outages \in BOOLEAN /\ Faults \in BOOLEAN

Files == 1..NFiles

VARIABLES
  \* the syncer's map and the jobs' fields
  jobOf,      \* Syncer.jobs: torrent id -> job
  jobDl,      \* the download a job was created for (names its LocalBase)
  jobStatus,  \* SyncJob.Status
  cancelled,  \* CancelledAt is set and the job's context is cancelled
  jobDest,    \* SyncJob.FinalPath
  jobFile,    \* status of each FileProgress; "absent": not in job.Files
  \* executions of SyncJob
  runPc, runJob,
  runDl,      \* whose downloader the run asks for the files' states
  runCtx,     \* the watcher has cancelled the run's merged context
  runErr,     \* errChan is not empty
  work,       \* the goroutine of each file
  \* MoveToFinal, called from one goroutine only
  mvJob, mvAt,
  \* the disk
  staged,     \* below LocalBase, one directory per download
  final,      \* below each base directory, one directory per torrent name
  \* outside the syncer
  present,    \* the torrents the downloaders have
  ready,      \* the files of each that are complete there
  rootCtx     \* the parent context of every run has been cancelled

jobVars  == <<jobOf, jobDl, jobStatus, cancelled, jobDest, jobFile>>
runVars  == <<runPc, runJob, runDl, runCtx, runErr, work>>
moveVars == <<mvJob, mvAt>>
diskVars == <<staged, final>>
remoteVars == <<present, ready>>
syncerVars == <<jobVars, runVars, moveVars, diskVars, remoteVars, rootCtx>>

\* What the goroutines of the syncer leave alone most of the time.
jobIdVars == <<jobOf, jobDl, cancelled, jobDest>>
runIdVars == <<runPc, runJob, runDl, runCtx>>
otherVars == <<moveVars, remoteVars, rootCtx>>

-----------------------------------------------------------------------------
FileStatus == {"pending", "syncing", "complete", "error", "skipped"}
Content    == {"none", "part", "full"}
RunPc      == {"idle", "begin", "mark", "list", "wait"}
WorkPc     == {"none", "acquire", "prepare", "transfer", "verify", "done"}

\* A file the job is done with: its status lets the job complete and the move
\* take it.
Synced == {"complete", "skipped"}

\* The goroutines between the two ends of the semaphore.
Holding == {"prepare", "transfer", "verify"}
Holders == {w \in Runs \X Files : work[w[1]][w[2]] \in Holding}

Active(r)   == runPc[r] # "idle"
Expired(r)  == runCtx[r] \/ rootCtx          \* mergedCtx.Done() is closed
Base(j)     == jobDl[j]                      \* LocalBase
Name(j)     == NameOf[jobDl[j]]              \* the directory at the destination
Selected(j) == {f \in Files : jobFile[j][f] # "absent"}

\* A job somebody in the syncer still points to.
Referenced(j) ==
  \/ \E h \in Hashes : jobOf[h] = j
  \/ \E r \in Runs : runJob[r] = j
  \/ mvJob = j

NoFiles == [f \in Files |-> "none"]
NoWork  == [f \in Files |-> "none"]

JobTypeOK ==
  /\ jobOf \in [Hashes -> JobIds \cup {Nil}]
  /\ jobDl \in [JobIds -> Downloads]
  /\ jobStatus \in [JobIds -> FileStatus \ {"skipped"}]
  /\ cancelled \in [JobIds -> BOOLEAN]
  /\ jobDest \in [JobIds -> Dests]
  /\ jobFile \in [JobIds -> [Files -> FileStatus \cup {"absent"}]]

RunTypeOK ==
  /\ runPc \in [Runs -> RunPc]
  /\ runJob \in [Runs -> JobIds \cup {Nil}]
  /\ runDl \in [Runs -> Downloads]
  /\ runCtx \in [Runs -> BOOLEAN]
  /\ runErr \in [Runs -> BOOLEAN]
  /\ work \in [Runs -> [Files -> WorkPc]]
  /\ \A r \in Runs : Active(r) => runJob[r] # Nil

MoveTypeOK ==
  /\ mvJob \in JobIds \cup {Nil}
  /\ mvAt \in 1..(NFiles + 1)

DiskTypeOK ==
  /\ staged \in [Downloads -> [Files -> Content]]
  /\ final \in [Dests -> [Names -> [Files -> Content]]]

RemoteTypeOK ==
  /\ present \in SUBSET Downloads
  /\ ready \in [Downloads -> SUBSET Files]
  /\ rootCtx \in BOOLEAN

FilesyncTypeOK == JobTypeOK /\ RunTypeOK /\ MoveTypeOK /\ DiskTypeOK /\ RemoteTypeOK

AnyDownload == CHOOSE d \in Downloads : TRUE
AnyDest     == CHOOSE b \in Dests : TRUE

\* What a process that has just started knows: nothing.
NoProcess ==
  /\ jobOf = [h \in Hashes |-> Nil]
  /\ jobDl = [j \in JobIds |-> AnyDownload]
  /\ jobStatus = [j \in JobIds |-> "pending"]
  /\ cancelled = [j \in JobIds |-> FALSE]
  /\ jobDest = [j \in JobIds |-> AnyDest]
  /\ jobFile = [j \in JobIds |-> [f \in Files |-> "absent"]]
  /\ runPc = [r \in Runs |-> "idle"]
  /\ runJob = [r \in Runs |-> Nil]
  /\ runDl = [r \in Runs |-> AnyDownload]
  /\ runCtx = [r \in Runs |-> FALSE]
  /\ runErr = [r \in Runs |-> FALSE]
  /\ work = [r \in Runs |-> NoWork]
  /\ mvJob = Nil
  /\ mvAt = 1
  /\ rootCtx = FALSE

\* The process dies and starts again: the same, as a step.
RestartProcess ==
  /\ jobOf' = [h \in Hashes |-> Nil]
  /\ jobDl' = [j \in JobIds |-> AnyDownload]
  /\ jobStatus' = [j \in JobIds |-> "pending"]
  /\ cancelled' = [j \in JobIds |-> FALSE]
  /\ jobDest' = [j \in JobIds |-> AnyDest]
  /\ jobFile' = [j \in JobIds |-> [f \in Files |-> "absent"]]
  /\ runPc' = [r \in Runs |-> "idle"]
  /\ runJob' = [r \in Runs |-> Nil]
  /\ runDl' = [r \in Runs |-> AnyDownload]
  /\ runCtx' = [r \in Runs |-> FALSE]
  /\ runErr' = [r \in Runs |-> FALSE]
  /\ work' = [r \in Runs |-> NoWork]
  /\ mvJob' = Nil
  /\ mvAt' = 1
  /\ rootCtx' = FALSE

FilesyncInit ==
  /\ NoProcess
  /\ staged = [d \in Downloads |-> NoFiles]
  /\ final = [b \in Dests |-> [n \in Names |-> NoFiles]]
  /\ present = {}
  /\ ready = [d \in Downloads |-> {}]

-----------------------------------------------------------------------------
(***************************************************************************)
(* Calls that only touch the job map and the jobs.  They change jobVars    *)
(* (CancelJob also staged) and leave it to the caller to say what happens  *)
(* to the rest.                                                            *)
(***************************************************************************)

\* CreateJob for a torrent the map does not hold: selected files that are at
\* their final place with the listed size are marked skipped.
CreateJob(d, j, dest, selected) ==
  /\ jobOf[HashOf[d]] = Nil
  /\ ~ Referenced(j)
  /\ jobOf' = [jobOf EXCEPT ![HashOf[d]] = j]
  /\ jobDl' = [jobDl EXCEPT ![j] = d]
  /\ jobStatus' = [jobStatus EXCEPT ![j] = "pending"]
  /\ cancelled' = [cancelled EXCEPT ![j] = FALSE]
  /\ jobDest' = [jobDest EXCEPT ![j] = dest]
  /\ jobFile' = [jobFile EXCEPT ![j] =
       [f \in Files |->
          IF f \notin selected THEN "absent"
          ELSE IF final[dest][NameOf[d]][f] = "full" THEN "skipped"
          ELSE "pending"]]

\* CreateJob when the map already holds a job of that id, whoever created it:
\* that job is returned as it is.
ReuseJob(d, j) ==
  /\ jobOf[HashOf[d]] = j
  /\ j # Nil
  /\ UNCHANGED jobVars

\* UpdateDestination: what has been marked skipped stays so.
UpdateDestination(j, dest) ==
  /\ jobDest' = [jobDest EXCEPT ![j] = dest]
  /\ UNCHANGED <<jobOf, jobDl, jobStatus, cancelled, jobFile>>

\* RemoveAll of a job's staging directory, and of the directory of torrent d,
\* which is that of its name, below the job's final path.  The callers go on when
\* it fails.
RemoveStaged(j) ==
  \/ staged' = [staged EXCEPT ![Base(j)] = NoFiles]
  \/ Faults /\ UNCHANGED staged

RemoveFinal(d, j) ==
  \/ final' = [final EXCEPT ![jobDest[j]][NameOf[d]] = NoFiles]
  \/ Faults /\ UNCHANGED final

\* CancelJob: whichever job the map holds under that id is cancelled, then its
\* staging directory is removed.  No goroutine is waited for, and what one of
\* them does between the two steps it may as well do before or after both.
CancelJob(h) ==
  IF jobOf[h] = Nil
  THEN UNCHANGED <<jobStatus, cancelled, staged>>
  ELSE /\ cancelled' = [cancelled EXCEPT ![jobOf[h]] = TRUE]
       /\ jobStatus' = [jobStatus EXCEPT ![jobOf[h]] = "error"]
       /\ RemoveStaged(jobOf[h])

\* RemoveJob: the map forgets the id.
RemoveJob(h) == jobOf' = [jobOf EXCEPT ![h] = Nil]

-----------------------------------------------------------------------------
(***************************************************************************)
(* SyncJob and SyncFile.                                                   *)
(***************************************************************************)

\* The caller's `go SyncJob(ctx, dl, job)`.
StartRun(r, j, d) ==
  /\ runPc[r] = "idle"
  /\ runPc' = [runPc EXCEPT ![r] = "begin"]
  /\ runJob' = [runJob EXCEPT ![r] = j]
  /\ runDl' = [runDl EXCEPT ![r] = d]
  /\ UNCHANGED <<runCtx, runErr, work>>

\* SyncJob returns: its stack is gone.
EndRun(r) ==
  /\ runPc' = [runPc EXCEPT ![r] = "idle"]
  /\ runJob' = [runJob EXCEPT ![r] = Nil]
  /\ runDl' = [runDl EXCEPT ![r] = AnyDownload]
  /\ runCtx' = [runCtx EXCEPT ![r] = FALSE]
  /\ runErr' = [runErr EXCEPT ![r] = FALSE]
  /\ work' = [work EXCEPT ![r] = NoWork]

\* The first test of SyncJob: nothing is done for a cancelled job.
BeginRun(r) ==
  /\ runPc[r] = "begin"
  /\ IF cancelled[runJob[r]]
     THEN EndRun(r)
     ELSE /\ runPc' = [runPc EXCEPT ![r] = "mark"]
          /\ UNCHANGED <<runJob, runDl, runCtx, runErr, work>>
  /\ UNCHANGED <<jobVars, diskVars, otherVars>>

\* The goroutine that watches the job's context closes the merged one; the
\* job's own context has been cancelled some time before.
WatchRun(r) ==
  /\ runPc[r] \in {"mark", "list", "wait"}
  /\ cancelled[runJob[r]]
  /\ ~ runCtx[r]
  /\ runCtx' = [runCtx EXCEPT ![r] = TRUE]
  /\ UNCHANGED <<jobVars, runPc, runJob, runDl, runErr, work, diskVars, otherVars>>

\* Mutant: the job is not marked.
MarkSyncingForgotten(r) ==
  /\ runPc[r] = "mark"
  /\ runPc' = [runPc EXCEPT ![r] = "list"]
  /\ UNCHANGED <<jobVars, runJob, runDl, runCtx, runErr, work, diskVars, otherVars>>

\* The job is marked syncing, whatever happened to it since the first test.
MarkSyncing(r) ==
  /\ runPc[r] = "mark"
  /\ runPc' = [runPc EXCEPT ![r] = "list"]
  /\ jobStatus' = [jobStatus EXCEPT ![runJob[r]] = "syncing"]
  /\ UNCHANGED <<jobIdVars, jobFile, runJob, runDl, runCtx, runErr, work, diskVars, otherVars>>

\* Mutant: only an answer of the downloader ends the call, not the context.
ListFailsUncancelled(r) ==
  /\ runPc[r] = "list"
  /\ Outages \/ (~ Expired(r) /\ runDl[r] \notin present)
  /\ EndRun(r)
  /\ UNCHANGED <<jobVars, diskVars, otherVars>>

\* GetFiles returns an error: so does SyncJob, and the status is left as it is.
ListFails(r) ==
  /\ runPc[r] = "list"
  /\ Outages \/ Expired(r) \/ runDl[r] \notin present
  /\ EndRun(r)
  /\ UNCHANGED <<jobVars, diskVars, otherVars>>

\* Mutant: files that are already staged are synced again.
FanOutAgain(r) ==
  /\ runPc[r] = "list"
  /\ ~ Expired(r) /\ runDl[r] \in present
  /\ runPc' = [runPc EXCEPT ![r] = "wait"]
  /\ work' = [work EXCEPT ![r] =
       [f \in Files |-> IF f \in Selected(runJob[r]) \cap ready[runDl[r]]
                        THEN "acquire" ELSE "none"]]
  /\ UNCHANGED <<jobVars, runJob, runDl, runCtx, runErr, diskVars, otherVars>>

\* One goroutine for every file of the job that no earlier run has finished and
\* that the downloader's list does not call incomplete: it is complete there, or
\* not in the list (any more).
FanOut(r) ==
  /\ runPc[r] = "list"
  /\ ~ Expired(r) /\ runDl[r] \in present
  /\ runPc' = [runPc EXCEPT ![r] = "wait"]
  /\ \E unlisted \in IF Faults THEN SUBSET Files ELSE {{}} :
       work' = [work EXCEPT ![r] =
         [f \in Files |->
            IF /\ f \in Selected(runJob[r])
               /\ f \in ready[runDl[r]] \cup unlisted
               /\ jobFile[runJob[r]][f] \notin Synced
            THEN "acquire" ELSE "none"]]
  /\ UNCHANGED <<jobVars, runJob, runDl, runCtx, runErr, diskVars, otherVars>>

-----------------------------------------------------------------------------
\* Goroutine f of run r moves on to pc, setting the file's status.
Proceed(r, f, pc, status) ==
  /\ work' = [work EXCEPT ![r][f] = pc]
  /\ jobFile' = [jobFile EXCEPT ![runJob[r]][f] = status]

\* SyncFile of f returns an error, which the run collects.  The semaphore, if
\* held, is released on the way out.
Fail(r, f, status) ==
  /\ Proceed(r, f, "done", status)
  /\ runErr' = [runErr EXCEPT ![r] = TRUE]

\* Mutant: the semaphore is not asked for.
AcquireUnasked(r, f) ==
  /\ work[r][f] = "acquire"
  /\ Proceed(r, f, "prepare", "syncing")
  /\ UNCHANGED <<jobIdVars, jobStatus, runIdVars, runErr, diskVars, otherVars>>

\* Mutant: the channel has one place too few.
AcquireShort(r, f) ==
  /\ work[r][f] = "acquire"
  /\ Cardinality(Holders) < MaxConcurrent - 1
  /\ Proceed(r, f, "prepare", "syncing")
  /\ UNCHANGED <<jobIdVars, jobStatus, runIdVars, runErr, diskVars, otherVars>>

\* The two branches of the select that acquires the semaphore; with both open
\* Go takes either.
Acquire(r, f) ==
  /\ work[r][f] = "acquire"
  /\ Cardinality(Holders) < MaxConcurrent
  /\ Proceed(r, f, "prepare", "syncing")
  /\ UNCHANGED <<jobIdVars, jobStatus, runIdVars, runErr, diskVars, otherVars>>

GiveUp(r, f) ==
  /\ work[r][f] = "acquire"
  /\ Expired(r)
  /\ Fail(r, f, jobFile[runJob[r]][f])
  /\ UNCHANGED <<jobIdVars, jobStatus, runIdVars, diskVars, otherVars>>

\* A staged copy of the right size is taken as it is; anything else is
\* transferred.
Prepare(r, f) ==
  /\ work[r][f] = "prepare"
  /\ IF staged[Base(runJob[r])][f] = "full"
     THEN Proceed(r, f, "done", "skipped")
     ELSE Proceed(r, f, "transfer", jobFile[runJob[r]][f])
  /\ UNCHANGED <<jobIdVars, jobStatus, runIdVars, runErr, diskVars, otherVars>>

\* The staging directory cannot be made.
PrepareFails(r, f) ==
  /\ work[r][f] = "prepare"
  /\ Faults
  /\ Fail(r, f, "error")
  /\ UNCHANGED <<jobIdVars, jobStatus, runIdVars, diskVars, otherVars>>

\* Transfer returns (there is a backend: no poll loop runs without a host, see
\* PollsReady of Server).  It makes the copy appear under its name when it
\* is complete, in a directory it creates if need be, so a failed transfer
\* leaves what was there.  A transfer in flight when its job is cancelled, and
\* its directory removed, may end either way.
TransferReturns(r, f) ==
  /\ work[r][f] = "transfer"
  /\ Proceed(r, f, "verify", jobFile[runJob[r]][f])
  /\ staged' = [staged EXCEPT ![Base(runJob[r])][f] =
                  IF f \in Truncated THEN "part" ELSE "full"]
  /\ UNCHANGED <<jobIdVars, jobStatus, runIdVars, runErr, final, otherVars>>

TransferFails(r, f) ==
  /\ work[r][f] = "transfer"
  /\ Faults \/ Expired(r) \/ cancelled[runJob[r]] \/ runDl[r] \notin present
  /\ Fail(r, f, "error")
  /\ UNCHANGED <<jobIdVars, jobStatus, runIdVars, diskVars, otherVars>>

\* Mutant: the size is not looked at.
VerifyNothing(r, f) ==
  /\ work[r][f] = "verify"
  /\ Proceed(r, f, "done", "complete")
  /\ UNCHANGED <<jobIdVars, jobStatus, runIdVars, runErr, diskVars, otherVars>>

\* The size on disk decides.
Verify(r, f) ==
  /\ work[r][f] = "verify"
  /\ IF staged[Base(runJob[r])][f] = "full"
     THEN /\ Proceed(r, f, "done", "complete")
          /\ UNCHANGED runErr
     ELSE Fail(r, f, "error")
  /\ UNCHANGED <<jobIdVars, jobStatus, runIdVars, diskVars, otherVars>>

\* Mutant: a run without an error makes the job complete.
FinishRunEarly(r) ==
  /\ runPc[r] = "wait"
  /\ \A f \in Files : work[r][f] \in {"none", "done"}
  /\ jobStatus' = [jobStatus EXCEPT ![runJob[r]] =
                     IF runErr[r] THEN "error" ELSE "complete"]
  /\ EndRun(r)
  /\ UNCHANGED <<jobIdVars, jobFile, diskVars, otherVars>>

\* Mutant: a job of which every file was skipped is called skipped.
FinishRunSkipped(r) ==
  /\ runPc[r] = "wait"
  /\ \A f \in Files : work[r][f] \in {"none", "done"}
  /\ jobStatus' = [jobStatus EXCEPT ![runJob[r]] =
       IF runErr[r] THEN "error"
       ELSE IF \A f \in Selected(runJob[r]) : jobFile[runJob[r]][f] = "skipped"
       THEN "skipped"
       ELSE IF \A f \in Selected(runJob[r]) : jobFile[runJob[r]][f] \in Synced
       THEN "complete"
       ELSE "pending"]
  /\ EndRun(r)
  /\ UNCHANGED <<jobIdVars, jobFile, diskVars, otherVars>>

\* Mutant: the last of a cancelled job removes what it has staged after that.
FinishRunCleaning(r) ==
  /\ runPc[r] = "wait"
  /\ \A f \in Files : work[r][f] \in {"none", "done"}
  /\ jobStatus' = [jobStatus EXCEPT ![runJob[r]] =
       IF runErr[r] THEN "error"
       ELSE IF \A f \in Selected(runJob[r]) : jobFile[runJob[r]][f] \in Synced
       THEN "complete"
       ELSE "pending"]
  /\ staged' = IF cancelled[runJob[r]]
               THEN [staged EXCEPT ![Base(runJob[r])] = NoFiles] ELSE staged
  /\ EndRun(r)
  /\ UNCHANGED <<jobIdVars, jobFile, final, otherVars>>

\* All goroutines are back: the outcome is published, over whatever status the
\* job has by now.
FinishRun(r) ==
  /\ runPc[r] = "wait"
  /\ \A f \in Files : work[r][f] \in {"none", "done"}
  /\ jobStatus' = [jobStatus EXCEPT ![runJob[r]] =
       IF runErr[r] THEN "error"
       ELSE IF \A f \in Selected(runJob[r]) : jobFile[runJob[r]][f] \in Synced
       THEN "complete"
       ELSE "pending"]
  /\ EndRun(r)
  /\ UNCHANGED <<jobIdVars, jobFile, diskVars, otherVars>>

-----------------------------------------------------------------------------
(***************************************************************************)
(* MoveToFinal: the caller's goroutine takes the files of the job one by   *)
(* one.  Each action leaves the other variables to the caller.             *)
(***************************************************************************)
BeginMove(j) ==
  /\ mvJob = Nil
  /\ mvJob' = j
  /\ mvAt' = 1

\* Mutant: a file that is not found is passed over, too.
MovePassesLenient ==
  /\ mvJob # Nil
  /\ mvAt \in Files
  /\ jobFile[mvJob][mvAt] \notin Synced \/ staged[Base(mvJob)][mvAt] = "none"
  /\ mvAt' = mvAt + 1
  /\ UNCHANGED <<mvJob, diskVars>>

\* Mutant: a file that cannot be moved is only reported.
MovePassesFailing ==
  /\ mvJob # Nil
  /\ mvAt \in Files
  /\ jobFile[mvJob][mvAt] \notin Synced \/ Faults
  /\ mvAt' = mvAt + 1
  /\ UNCHANGED <<mvJob, diskVars>>

\* A file that is not synced stays where it is.
MovePasses ==
  /\ mvJob # Nil
  /\ mvAt \in Files
  /\ jobFile[mvJob][mvAt] \notin Synced
  /\ mvAt' = mvAt + 1
  /\ UNCHANGED <<mvJob, diskVars>>

\* Renamed, or copied and removed; a failing removal is ignored.
MoveFile ==
  /\ mvJob # Nil
  /\ mvAt \in Files
  /\ jobFile[mvJob][mvAt] \in Synced
  /\ staged[Base(mvJob)][mvAt] # "none"
  /\ final' = [final EXCEPT ![jobDest[mvJob]][Name(mvJob)][mvAt] =
                  staged[Base(mvJob)][mvAt]]
  /\ \/ staged' = [staged EXCEPT ![Base(mvJob)][mvAt] = "none"]
     \/ UNCHANGED staged
  /\ mvAt' = mvAt + 1
  /\ UNCHANGED mvJob

\* Mutant: a failing move cleans up behind it.
MoveFailsCleaning ==
  /\ mvJob # Nil
  /\ mvAt \in Files
  /\ jobFile[mvJob][mvAt] \in Synced
  /\ Faults \/ staged[Base(mvJob)][mvAt] = "none"
  /\ staged' = [staged EXCEPT ![Base(mvJob)] = NoFiles]
  /\ mvJob' = Nil
  /\ mvAt' = 1
  /\ UNCHANGED final

\* Neither the rename nor the copy succeeds: there is nothing to take, or the
\* copy breaks off and leaves what it has written.  The files moved before
\* stay moved.
MoveFails ==
  /\ mvJob # Nil
  /\ mvAt \in Files
  /\ jobFile[mvJob][mvAt] \in Synced
  /\ Faults \/ staged[Base(mvJob)][mvAt] = "none"
  /\ \/ UNCHANGED final
     \/ /\ staged[Base(mvJob)][mvAt] # "none"
        /\ final' = [final EXCEPT ![jobDest[mvJob]][Name(mvJob)][mvAt] = "part"]
  /\ mvJob' = Nil
  /\ mvAt' = 1
  /\ UNCHANGED staged

\* Every file is through: the staging directory goes.
EndMove ==
  /\ mvJob # Nil
  /\ mvAt = NFiles + 1
  /\ RemoveStaged(mvJob)
  /\ mvJob' = Nil
  /\ mvAt' = 1
  /\ UNCHANGED final

-----------------------------------------------------------------------------
\* The goroutines of the syncer.
RunStep(r) ==
  \/ BeginRun(r) \/ MarkSyncing(r) \/ ListFails(r) \/ FanOut(r) \/ FinishRun(r)

FileStep(r, f) ==
  \/ GiveUp(r, f)
  \/ Prepare(r, f) \/ PrepareFails(r, f)
  \/ TransferReturns(r, f) \/ TransferFails(r, f)
  \/ Verify(r, f)

SyncerStep ==
  \E r \in Runs :
    \/ RunStep(r)
    \/ WatchRun(r)
    \/ \E f \in Files : Acquire(r, f) \/ FileStep(r, f)

\* Outside: a torrent is added to its downloader, gets ready file by file, and
\* is removed; the parent context is cancelled.
TorrentComes(d) ==
  /\ d \notin present
  /\ present' = present \cup {d}
  /\ UNCHANGED <<jobVars, runVars, moveVars, diskVars, ready, rootCtx>>

FileCompletes(d) ==
  /\ d \in present
  /\ \E f \in Files \ ready[d] : ready' = [ready EXCEPT ![d] = @ \cup {f}]
  /\ UNCHANGED <<jobVars, runVars, moveVars, diskVars, present, rootCtx>>

TorrentGoes(d) ==
  /\ d \in present
  /\ present' = present \ {d}
  /\ ready' = [ready EXCEPT ![d] = {}]
  /\ UNCHANGED <<jobVars, runVars, moveVars, diskVars, rootCtx>>

CancelRoot ==
  /\ ~ rootCtx
  /\ rootCtx' = TRUE
  /\ UNCHANGED <<jobVars, runVars, moveVars, diskVars, remoteVars>>

-----------------------------------------------------------------------------
\* Every run comes to an end, also those of cancelled jobs and those that wait
\* for the semaphore behind others.
RunsEnd == \A r \in Runs : Active(r) ~> ~ Active(r)

=============================================================================
