---------------------------- MODULE SyncService ----------------------------
(***************************************************************************)
(* The syncer with the most general client that keeps to the calling       *)
(* protocol of the orchestrator: one goroutine, the poll loop, that holds  *)
(* at most one *SyncJob per torrent (TrackedDownload.SyncJob) and calls    *)
(* the syncer in the order a TrackedDownload's states allow.  It is what   *)
(* the orchestrator may rely on, and what the Orchestrator module is shown *)
(* to implement.                                                           *)
(***************************************************************************)
EXTENDS Filesync

CONSTANTS
  \* TRUE: a goroutine the poll loop starts reaches the line that marks its
  \* job syncing before the loop looks at that torrent again: mostly a poll
  \* interval later, but nothing in the code waits for it.  FALSE: the Go
  \* scheduler may let it wait longer.
  PromptStart,
  \* TRUE: an app that was asked to import a torrent is through with its files
  \* before a job is made for that torrent again.  FALSE: it may still take
  \* them from under that job.
  PromptImport

ASSUME SyncServiceAssumption == PromptStart \in BOOLEAN /\ PromptImport \in BOOLEAN

VARIABLES
  held,   \* TrackedDownload.SyncJob
  phase   \* what the client has done with that job

clientVars == <<held, phase>>
vars == <<syncerVars, clientVars>>

Phase == {"none", "syncing", "synced", "moving", "moved", "error"}

TypeOK ==
  /\ FilesyncTypeOK
  /\ held \in [Downloads -> JobIds \cup {Nil}]
  /\ phase \in [Downloads -> Phase]

Init ==
  /\ FilesyncInit
  /\ held = [d \in Downloads |-> Nil]
  /\ phase = [d \in Downloads |-> "none"]

FreeJobs == {j \in JobIds : ~ Referenced(j) /\ \A d \in Downloads : held[d] # j}

SetPhase(d, p) == phase' = [phase EXCEPT ![d] = p]

\* MoveToFinal is synchronous: until it returns the poll loop does nothing
\* else.
PollLoopIdle == mvJob = Nil

-----------------------------------------------------------------------------
\* startSyncing: create (or find) the job and run it.
StartSyncing(d) ==
  /\ PollLoopIdle
  /\ phase[d] = "none"
  /\ d \in present /\ ready[d] # {}
  /\ \E j \in JobIds, r \in Runs :
       /\ \/ /\ j \in FreeJobs
             /\ \E dest \in Dests, selected \in SUBSET Files :
                  /\ selected \cap ready[d] # {}
                  /\ CreateJob(d, j, dest, selected)
          \/ ReuseJob(d, j)
       /\ StartRun(r, j, d)
       /\ held' = [held EXCEPT ![d] = j]
  /\ SetPhase(d, "syncing")
  /\ UNCHANGED <<moveVars, diskVars, remoteVars, rootCtx>>

\* continueSyncing, one action for each status of the job it acts upon.
SeesPending(d) ==
  /\ PollLoopIdle
  /\ phase[d] = "syncing"
  /\ jobStatus[held[d]] = "pending"
  /\ PromptStart => \A r \in Runs :
       runJob[r] = held[d] => runPc[r] \notin {"begin", "mark"}
  /\ \E r \in Runs : StartRun(r, held[d], d)
  /\ UNCHANGED <<jobVars, moveVars, diskVars, remoteVars, rootCtx, clientVars>>

SeesComplete(d) ==
  /\ PollLoopIdle
  /\ phase[d] = "syncing"
  /\ jobStatus[held[d]] = "complete"
  /\ SetPhase(d, "synced")
  /\ UNCHANGED <<syncerVars, held>>

SeesError(d) ==
  /\ PollLoopIdle
  /\ phase[d] = "syncing"
  /\ jobStatus[held[d]] = "error"
  /\ SetPhase(d, "error")
  /\ UNCHANGED <<syncerVars, held>>

\* moveToFinal: the call of MoveToFinal, its steps and its two results.
StartMove(d) ==
  /\ phase[d] = "synced"
  /\ BeginMove(held[d])
  /\ SetPhase(d, "moving")
  /\ UNCHANGED <<jobVars, runVars, diskVars, remoteVars, rootCtx, held>>

MoveOne ==
  /\ MovePasses \/ MoveFile
  /\ UNCHANGED <<jobVars, runVars, remoteVars, rootCtx, clientVars>>

MoveReturns(d) ==
  /\ phase[d] = "moving"
  /\ \/ EndMove /\ SetPhase(d, "moved")
     \/ MoveFails /\ SetPhase(d, "error")
  /\ UNCHANGED <<jobVars, runVars, remoteVars, rootCtx, held>>

\* UpdateDestination: the torrent's category now belongs to another app.
Retarget(d) ==
  /\ PollLoopIdle
  /\ phase[d] # "none"
  /\ \E dest \in Dests : dest # jobDest[held[d]] /\ UpdateDestination(held[d], dest)
  /\ UNCHANGED <<runVars, moveVars, diskVars, remoteVars, rootCtx, clientVars>>

\* Cancel an unfinished job, remove what it has synced and forget it.
Abandon(d) ==
  /\ PollLoopIdle
  /\ phase[d] # "none"
  /\ CancelJob(HashOf[d])
  /\ RemoveFinal(d, held[d])
  /\ RemoveJob(HashOf[d])
  /\ held' = [held EXCEPT ![d] = Nil]
  /\ SetPhase(d, "none")
  /\ UNCHANGED <<jobDl, jobDest, jobFile, runVars, moveVars, remoteVars, rootCtx>>

\* What becomes of a torrent's delivered files is not the syncer's business:
\* an app takes them, the orchestrator deletes them or moves them to another
\* app's directory, perhaps not all of them or not in full.  Nobody invents a
\* file.
FilesLeave(d) ==
  \E new \in [Dests -> [Files -> Content]] :
    /\ \A b \in Dests, f \in Files :
         \/ new[b][f] = "none"
         \/ Faults /\ new[b][f] = "part"
         \/ \E c \in Dests : new[b][f] = final[c][NameOf[d]][f]
    /\ final' = [b \in Dests |-> [final[b] EXCEPT ![NameOf[d]] = new[b]]]

Disposal(d) ==
  /\ PromptImport => phase[d] \in {"none", "moved"}
  /\ FilesLeave(d)
  /\ UNCHANGED <<jobVars, runVars, moveVars, staged, remoteVars, rootCtx, clientVars>>

\* Forget a finished job, with or without its files.
Forget(d) ==
  /\ PollLoopIdle
  /\ phase[d] = "moved"
  /\ FilesLeave(d)
  /\ RemoveJob(HashOf[d])
  /\ held' = [held EXCEPT ![d] = Nil]
  /\ SetPhase(d, "none")
  /\ UNCHANGED <<jobDl, jobStatus, cancelled, jobDest, jobFile, runVars, moveVars,
                 staged, remoteVars, rootCtx>>

\* The process dies and is started again; the disk stays.  A copy into the
\* final directory may be cut short.
Crash ==
  /\ RestartProcess
  /\ \/ UNCHANGED final
     \/ /\ mvJob # Nil /\ mvAt \in Files
        /\ jobFile[mvJob][mvAt] \in Synced
        /\ staged[Base(mvJob)][mvAt] # "none"
        /\ final' = [final EXCEPT ![jobDest[mvJob]][Name(mvJob)][mvAt] = "part"]
  /\ held' = [d \in Downloads |-> Nil]
  /\ phase' = [d \in Downloads |-> "none"]
  /\ UNCHANGED <<staged, remoteVars>>

Client(d) ==
  \/ StartSyncing(d) \/ SeesPending(d) \/ SeesComplete(d) \/ SeesError(d)
  \/ StartMove(d) \/ MoveReturns(d)
  \/ Retarget(d) \/ Abandon(d) \/ Forget(d) \/ Disposal(d)

Remote(d) == TorrentComes(d) \/ FileCompletes(d) \/ TorrentGoes(d)

Next ==
  \/ SyncerStep /\ UNCHANGED clientVars
  \/ MoveOne
  \/ \E d \in Downloads : Client(d)
  \/ (\E d \in Downloads : Remote(d)) /\ UNCHANGED clientVars
  \/ CancelRoot /\ UNCHANGED clientVars
  \/ Crash

Spec == Init /\ [][Next]_vars

\* The Go scheduler runs every goroutine that can run, every transfer and
\* every call of the downloader returns, and the semaphore's channel serves
\* waiting goroutines in the order they came.
RunFairness ==
  \A r \in Runs :
    /\ WF_vars(RunStep(r) /\ UNCHANGED clientVars)
    /\ \A f \in Files :
         /\ WF_vars(FileStep(r, f) /\ UNCHANGED clientVars)
         /\ SF_vars(Acquire(r, f) /\ UNCHANGED clientVars)

FairSpec == Spec /\ RunFairness

-----------------------------------------------------------------------------
\* At most MaxConcurrent files are between acquiring and releasing the
\* semaphore (sync.md: "Maximum files to transfer concurrently"), over all
\* jobs and all runs together.
SemaphoreBound == Cardinality(Holders) <= MaxConcurrent

\* A job never has two runs at once: the poll loop starts another one only when
\* the last has published its result.
OneRunPerJob ==
  \A r, s \in Runs : (Active(r) /\ Active(s) /\ runJob[r] = runJob[s]) => r = s

\* Once a job's status says complete, and until it is moved, every file of it
\* is there in full, staged or at a final place, whatever cancelled runs of
\* earlier jobs for the same torrent still do to the same staging directory.
CompleteIsBacked ==
  \A d \in Downloads :
    (phase[d] \in {"syncing", "synced"} /\ jobStatus[held[d]] = "complete") =>
      \A f \in Selected(held[d]) :
        /\ jobFile[held[d]][f] \in Synced
        /\ \/ staged[d][f] = "full"
           \/ \E dest \in Dests : final[dest][NameOf[d]][f] = "full"

\* A file the job has done with stays so: no later or concurrent run starts it
\* again or fails it.
SyncedIsStable ==
  [][\A d \in Downloads :
       (held[d] # Nil /\ held'[d] = held[d]) =>
         \A f \in Files :
           jobFile[held[d]][f] \in Synced => jobFile'[held[d]][f] = jobFile[held[d]][f]]_vars

\* When MoveToFinal reports success every selected file is at the destination
\* with its listed size: this is what the import triggered next relies on.
MoveDelivers ==
  [][\A d \in Downloads :
       (phase[d] = "moving" /\ phase'[d] = "moved") =>
         \A f \in Selected(held[d]) :
           final'[jobDest[held[d]]][NameOf[d]][f] = "full"]_vars

\* What has been transferred is kept: until the move reports success or the job
\* is abandoned, through failing runs, a move that breaks off and a change of
\* destination, a transferred file is in full where it is staged or at a final
\* place.
TransferredIsKept ==
  \A d \in Downloads :
    phase[d] \in {"syncing", "synced", "moving", "error"} =>
      \A f \in Files :
        jobFile[held[d]][f] = "complete" =>
          \/ staged[d][f] = "full"
          \/ \E dest \in Dests : final[dest][NameOf[d]][f] = "full"

-----------------------------------------------------------------------------
\* What comments of the source promise and the code does not keep.

\* "CancelJob cancels a sync job and cleans up its staging files": when the last
\* run of a cancelled job comes back and no other job exists for the torrent,
\* nothing of it is staged.
CancelLeavesNothing ==
  [][\A r \in Runs :
       LET d == Base(runJob[r]) IN
       (/\ FinishRun(r) /\ cancelled[runJob[r]]
        /\ held[d] = Nil
        /\ \A s \in Runs \ {r} : ~ Active(s))
       => staged[d] = NoFiles]_vars
=============================================================================
