--------------------- MODULE SyncServiceFileProofs ---------------------
(***************************************************************************)
(* What is known of each file: complete jobs are backed by whole files,    *)
(* transferred files are kept, and a move that reports success has         *)
(* delivered.  As for OneRun, goroutines begin before the poll loop comes  *)
(* back (PromptStart) and no two downloaders have the same torrent         *)
(* (OwnIds).  Besides, apps are through with what they import before the   *)
(* torrent gets another job (PromptImport), and no two torrents have one   *)
(* directory at the destination (OwnNames).                                *)
(***************************************************************************)
EXTENDS SyncServiceRunProofs

\* Torrents of one name share their directory, whatever their ids.
OwnNames == \A d, e \in Downloads : NameOf[d] = NameOf[e] => d = e

\* A torrent's job is the one made for it, so it stages in its directory.
JobIsOwn == \A d \in Downloads : held[d] # Nil => jobDl[held[d]] = d

\* A file whose remote copy has another size than listed is never whole, and
\* staging directories hold no other incomplete files.
SizesTell ==
  /\ \A d \in Downloads : \A f \in Files :
       /\ staged[d][f] = "full" => f \notin Truncated
       /\ staged[d][f] = "part" => f \in Truncated
  /\ \A b \in Dests : \A n \in Names : \A f \in Files :
       final[b][n][f] = "full" => f \notin Truncated

\* So no job is done with it.
SyncedIsWhole ==
  \A j \in JobIds : \A f \in Files : jobFile[j][f] \in Synced => f \notin Truncated

\* What the client has taken for complete stays so.
StatusKept ==
  \A d \in Downloads :
    phase[d] \in {"synced", "moving", "moved"} => jobStatus[held[d]] = "complete"

\* A complete job is done with every file it has.
CompleteIsSynced ==
  \A d \in Downloads :
    (held[d] # Nil /\ jobStatus[held[d]] = "complete") =>
      \A f \in Files : jobFile[held[d]][f] \in Synced \cup {"absent"}

\* A file a job is done with is whole somewhere.
WholeAtFinal(d, f) == \E b \in Dests : final[b][NameOf[d]][f] = "full"

Backed ==
  \A d \in Downloads :
    phase[d] \in {"syncing", "synced", "moving", "error"} =>
      \A f \in Files :
        jobFile[held[d]][f] \in Synced => staged[d][f] = "full" \/ WholeAtFinal(d, f)

\* MoveToFinal works for the torrent that is moving, if one is.
MoveIsOurs ==
  /\ \A d \in Downloads : phase[d] = "moving" => mvJob = held[d]
  /\ mvJob # Nil => \E d \in Downloads : phase[d] = "moving"

\* The files it has passed are whole at the destination.
MovedSoFar ==
  \A d \in Downloads :
    phase[d] = "moving" =>
      \A f \in Files :
        (f < mvAt /\ jobFile[held[d]][f] \in Synced) =>
          final[jobDest[held[d]]][NameOf[d]][f] = "full"

FileInv ==
  /\ JobIsOwn /\ SizesTell /\ SyncedIsWhole /\ StatusKept
  /\ CompleteIsSynced /\ Backed /\ MoveIsOurs /\ MovedSoFar

Inv == TypeInv /\ RunInv /\ FileInv

-----------------------------------------------------------------------------
\* The invariant says what it is for.
LEMMA FileInvSuffices == Inv => CompleteIsBacked /\ TransferredIsKept
  <1> SUFFICES ASSUME Inv PROVE CompleteIsBacked /\ TransferredIsKept
    OBVIOUS
  <1>1. \A d \in Downloads : phase[d] # "none" => held[d] # Nil
    BY DEF Inv, TypeInv, HeldWhileBusy
  <1>2. CompleteIsBacked
    BY <1>1 DEF Inv, FileInv, CompleteIsSynced, Backed, WholeAtFinal, CompleteIsBacked, Selected
  <1>3. TransferredIsKept
    BY DEF Inv, FileInv, Backed, WholeAtFinal, TransferredIsKept, Synced
  <1> QED
    BY <1>2, <1>3

\* A complete job that the client has is not run.
LEMMA CompleteIsIdle ==
  ASSUME TypeInv, RunInv, NEW d \in Downloads, held[d] # Nil, jobStatus[held[d]] = "complete"
  PROVE  \A r \in Runs : Active(r) => runJob[r] # held[d]
  <1>1. ~ cancelled[held[d]]
    BY DEF RunInv, MapAgrees
  <1> QED
    BY <1>1 DEF RunInv, StatusTells, StatusOfRun, Active, TypeInv, TypeOK, FilesyncTypeOK,
                RunTypeOK, RunPc

\* So the files of a job that is complete, and kept, are left alone.
LEMMA CompleteFilesStay ==
  ASSUME TypeInv, RunInv, [Next]_vars, NEW d \in Downloads, held[d] # Nil, held'[d] = held[d],
         jobStatus[held[d]] = "complete"
  PROVE  jobFile'[held[d]] = jobFile[held[d]]
  <1>1. held[d] \in JobIds
    BY DEF TypeInv, TypeOK
  <1>2. ASSUME NEW r \in Runs, NEW f \in Files, Acquire(r, f) \/ FileStep(r, f)
        PROVE  jobFile'[held[d]] = jobFile[held[d]]
    <2>1. runJob[r] # held[d] /\ runJob[r] \in JobIds
      BY <1>2, FileStepWrites, CompleteIsIdle
    <2>2. \E pc, s : Proceed(r, f, pc, s)
      BY <1>2, FileStepWrites
    <2> QED
      BY <1>1, <2>1, <2>2 DEF Proceed, TypeInv, TypeOK, FilesyncTypeOK, JobTypeOK
  <1>3. ~ Crash
    BY DEF Crash
  <1> QED
    BY <1>1, <1>2, <1>3, OtherStepWrites DEF RunInv

\* Two torrents never have the same job.
LEMMA HeldOnce ==
  ASSUME OwnIds, RunInv, NEW d \in Downloads, NEW e \in Downloads, held[d] # Nil,
         held[d] = held[e]
  PROVE  d = e
  <1>1. HashOf[d] \in Hashes /\ HashOf[e] \in Hashes
    BY FilesyncAssumption
  <1>2. jobOf[HashOf[d]] = held[d] /\ jobOf[HashOf[e]] = held[d]
    BY DEF RunInv, MapAgrees
  <1>3. HashOf[d] = HashOf[e]
    BY <1>1, <1>2 DEF RunInv, MapAgrees
  <1> QED
    BY <1>3 DEF OwnIds

\* Steps that touch none of it.
LEMMA FileFrame ==
  ASSUME FileInv, UNCHANGED <<held, phase, jobDl, jobDest, jobStatus, jobFile, moveVars, diskVars>>
  PROVE  FileInv'
  BY DEF FileInv, JobIsOwn, SizesTell, SyncedIsWhole, StatusKept, CompleteIsSynced, Backed,
         WholeAtFinal, MoveIsOurs, MovedSoFar, moveVars, diskVars

\* Where no file's status and nothing on disk changes, only the conjuncts about
\* the job's status are at stake.
LEMMA StatusFrame ==
  ASSUME FileInv, UNCHANGED <<held, phase, jobDl, jobDest, jobFile, moveVars, diskVars>>
  PROVE  JobIsOwn' /\ SizesTell' /\ SyncedIsWhole' /\ Backed' /\ MoveIsOurs' /\ MovedSoFar'
  BY DEF FileInv, JobIsOwn, SizesTell, SyncedIsWhole, Backed, WholeAtFinal, MoveIsOurs,
         MovedSoFar, moveVars, diskVars

\* SyncJob publishes a status.
LEMMA RunStepFiles ==
  ASSUME Inv, NEW r \in Runs, RunStep(r) \/ WatchRun(r), UNCHANGED clientVars
  PROVE  FileInv'
  <1>1. UNCHANGED <<held, phase, jobDl, jobDest, jobFile, moveVars, diskVars>>
    BY DEF RunStep, BeginRun, MarkSyncing, ListFails, FanOut, FinishRun, WatchRun, jobVars,
           jobIdVars, otherVars, clientVars
  <1>2. Active(r) /\ runJob[r] \in JobIds
    BY DEF RunStep, BeginRun, MarkSyncing, ListFails, FanOut, FinishRun, WatchRun, Active, Inv,
           TypeInv, TypeOK, FilesyncTypeOK, RunTypeOK
  <1>3. \A j \in JobIds \ {runJob[r]} : jobStatus'[j] = jobStatus[j]
    BY OtherJobsKeepStatus DEF Inv
  <1>4. ASSUME NEW d \in Downloads, held[d] # Nil, jobStatus[held[d]] = "complete"
        PROVE  jobStatus'[held[d]] = "complete"
    BY <1>2, <1>3, <1>4, CompleteIsIdle DEF Inv, TypeInv, TypeOK
  <1>5. StatusKept'
    BY <1>1, <1>4 DEF Inv, FileInv, StatusKept, TypeInv, HeldWhileBusy
  <1>6. CompleteIsSynced'
    <2> SUFFICES ASSUME NEW d \in Downloads, held[d] # Nil, jobStatus'[held[d]] = "complete",
                        jobStatus[held[d]] # "complete", NEW f \in Files
                 PROVE  jobFile[held[d]][f] \in Synced \cup {"absent"}
      BY <1>1 DEF Inv, FileInv, CompleteIsSynced
    <2>1. held[d] = runJob[r]
      BY <1>3 DEF Inv, TypeInv, TypeOK
    <2>2. FinishRun(r)
      <3>1. CASE BeginRun(r) \/ ListFails(r) \/ FanOut(r) \/ WatchRun(r)
        BY <3>1 DEF BeginRun, ListFails, FanOut, WatchRun, jobVars
      <3>2. CASE MarkSyncing(r)
        BY <1>2, <2>1, <3>2 DEF MarkSyncing, Inv, TypeInv, TypeOK, FilesyncTypeOK, JobTypeOK
      <3> QED
        BY <3>1, <3>2 DEF RunStep
    <2>3. \A g \in Selected(runJob[r]) : jobFile[runJob[r]][g] \in Synced
      BY <1>2, <2>1, <2>2 DEF FinishRun, Inv, TypeInv, TypeOK, FilesyncTypeOK, JobTypeOK
    <2> QED
      BY <2>1, <2>3 DEF Selected
  <1> QED
    BY <1>1, <1>5, <1>6, StatusFrame DEF FileInv, Inv

\* What each step of SyncFile does to the file it is about: it is called done
\* only when its copy is whole, and a copy that arrives is as whole as the
\* remote one.
LEMMA FileStepOutcome ==
  ASSUME Inv, NEW r \in Runs, NEW f \in Files, Acquire(r, f) \/ FileStep(r, f)
  PROVE  /\ runJob[r] \in JobIds /\ Base(runJob[r]) \in Downloads /\ Active(r)
         /\ \A j \in JobIds, g \in Files :
              jobFile'[j][g] # jobFile[j][g] =>
                /\ j = runJob[r] /\ g = f
                /\ jobFile'[j][g] \in Synced \ {jobFile[j][g]} => 
                     staged[Base(runJob[r])][f] = "full" /\ staged' = staged
         /\ \A d \in Downloads, g \in Files :
              staged'[d][g] # staged[d][g] =>
                staged'[d][g] = IF g \in Truncated THEN "part" ELSE "full"
  <1>1. work[r][f] # "none"
    BY DEF Acquire, FileStep, GiveUp, Prepare, PrepareFails, TransferReturns, TransferFails,
           Verify
  <1>2. Active(r) /\ runJob[r] \in JobIds
    BY <1>1 DEF Inv, TypeInv, TypeOK, FilesyncTypeOK, RunTypeOK, WorkIsWaitedFor, Active
  <1>3. Base(runJob[r]) \in Downloads
    BY <1>2, PlaceTyped DEF Inv, TypeInv, TypeOK, FilesyncTypeOK
  <1>4. PICK s : /\ jobFile' = [jobFile EXCEPT ![runJob[r]][f] = s]
                 /\ \/ s \notin Synced
                    \/ s = jobFile[runJob[r]][f]
                    \/ staged[Base(runJob[r])][f] = "full" /\ staged' = staged
    <2>0. "syncing" \notin Synced /\ "error" \notin Synced
      BY DEF Synced
    <2>1. CASE Acquire(r, f)
      <3>1. jobFile' = [jobFile EXCEPT ![runJob[r]][f] = "syncing"]
        BY <2>1 DEF Acquire, Proceed
      <3> QED
        BY <2>0, <3>1
    <2>2. CASE GiveUp(r, f)
      BY <2>2 DEF GiveUp, Fail, Proceed
    <2>3. CASE Prepare(r, f)
      <3>1. CASE staged[Base(runJob[r])][f] = "full"
        <4>1. jobFile' = [jobFile EXCEPT ![runJob[r]][f] = "skipped"] /\ staged' = staged
          BY <2>3, <3>1 DEF Prepare, Proceed, diskVars
        <4> QED
          BY <3>1, <4>1
      <3>2. CASE staged[Base(runJob[r])][f] # "full"
        <4>1. jobFile' = [jobFile EXCEPT ![runJob[r]][f] = jobFile[runJob[r]][f]]
          BY <2>3, <3>2 DEF Prepare, Proceed
        <4> QED
          BY <4>1
      <3> QED
        BY <3>1, <3>2
    <2>4. CASE PrepareFails(r, f) \/ TransferFails(r, f)
      <3>1. jobFile' = [jobFile EXCEPT ![runJob[r]][f] = "error"]
        BY <2>4 DEF PrepareFails, TransferFails, Fail, Proceed
      <3> QED
        BY <2>0, <3>1
    <2>5. CASE TransferReturns(r, f)
      BY <2>5 DEF TransferReturns, Proceed
    <2>6. CASE Verify(r, f)
      <3>1. CASE staged[Base(runJob[r])][f] = "full"
        <4>1. jobFile' = [jobFile EXCEPT ![runJob[r]][f] = "complete"] /\ staged' = staged
          BY <2>6, <3>1 DEF Verify, Proceed, diskVars
        <4> QED
          BY <3>1, <4>1
      <3>2. CASE staged[Base(runJob[r])][f] # "full"
        <4>1. jobFile' = [jobFile EXCEPT ![runJob[r]][f] = "error"]
          BY <2>6, <3>2 DEF Verify, Fail, Proceed
        <4> QED
          BY <2>0, <4>1
      <3> QED
        BY <3>1, <3>2
    <2> QED
      BY <2>1, <2>2, <2>3, <2>4, <2>5, <2>6 DEF FileStep
  <1>5. \A j \in JobIds, g \in Files :
          jobFile'[j][g] # jobFile[j][g] => j = runJob[r] /\ g = f /\ jobFile'[j][g] = s
    BY <1>2, <1>4 DEF Inv, TypeInv, TypeOK, FilesyncTypeOK, JobTypeOK
  <1>6. \/ staged' = staged
        \/ staged' = [staged EXCEPT ![Base(runJob[r])][f] =
                        IF f \in Truncated THEN "part" ELSE "full"]
    BY DEF Acquire, FileStep, GiveUp, Prepare, PrepareFails, TransferReturns, TransferFails,
           Verify, diskVars
  <1>7. \A d \in Downloads, g \in Files :
          staged'[d][g] # staged[d][g] =>
            staged'[d][g] = IF g \in Truncated THEN "part" ELSE "full"
    BY <1>3, <1>6 DEF Inv, TypeInv, TypeOK, FilesyncTypeOK, DiskTypeOK
  <1> QED
    BY <1>2, <1>3, <1>4, <1>5, <1>7

\* SyncFile, also that of a cancelled run, keeps what is known.
LEMMA FileStepFiles ==
  ASSUME Inv, NEW r \in Runs, NEW f \in Files, Acquire(r, f) \/ FileStep(r, f),
         UNCHANGED clientVars
  PROVE  FileInv'
  <1>1. UNCHANGED <<held, phase, jobDl, jobDest, jobStatus, final, mvJob, mvAt>>
    BY DEF Acquire, FileStep, GiveUp, Prepare, PrepareFails, TransferReturns, TransferFails,
           Verify, jobIdVars, otherVars, moveVars, diskVars, clientVars
  <1>2. JobIsOwn' /\ StatusKept' /\ MoveIsOurs'
    BY <1>1 DEF Inv, FileInv, JobIsOwn, StatusKept, MoveIsOurs
  <1>3. SizesTell'
    BY <1>1, FileStepOutcome DEF Inv, FileInv, SizesTell
  <1>4. SyncedIsWhole'
    <2> SUFFICES ASSUME NEW j \in JobIds, NEW g \in Files, jobFile'[j][g] \in Synced
                 PROVE  g \notin Truncated
      BY DEF SyncedIsWhole
    <2>1. CASE jobFile'[j][g] = jobFile[j][g]
      BY <2>1 DEF Inv, FileInv, SyncedIsWhole
    <2>2. CASE jobFile'[j][g] # jobFile[j][g]
      <3>1. g = f /\ Base(runJob[r]) \in Downloads /\ staged[Base(runJob[r])][f] = "full"
        BY <2>2, FileStepOutcome
      <3> QED
        BY <3>1 DEF Inv, FileInv, SizesTell
    <2> QED
      BY <2>1, <2>2
  <1>5. \A d \in Downloads : held[d] # Nil /\ jobStatus[held[d]] = "complete" =>
          \A g \in Files : jobFile'[held[d]][g] = jobFile[held[d]][g]
    BY FileStepOutcome, CompleteIsIdle DEF Inv, TypeInv, TypeOK
  <1>6. CompleteIsSynced'
    BY <1>1, <1>5 DEF Inv, FileInv, CompleteIsSynced
  <1>7. MovedSoFar'
    BY <1>1, <1>5 DEF Inv, FileInv, MovedSoFar, StatusKept, TypeInv, HeldWhileBusy
  <1>8. Backed'
    <2> SUFFICES ASSUME NEW d \in Downloads, phase[d] \in {"syncing", "synced", "moving", "error"},
                        NEW g \in Files, jobFile'[held[d]][g] \in Synced,
                        ~ WholeAtFinal(d, g)
                 PROVE  staged'[d][g] = "full"
      BY <1>1 DEF Backed, WholeAtFinal
    <2>1. held[d] \in JobIds /\ jobDl[held[d]] = d
      BY DEF Inv, TypeInv, TypeOK, HeldWhileBusy, FileInv, JobIsOwn
    <2>2. g \notin Truncated
      BY <1>4, <2>1 DEF SyncedIsWhole
    <2>3. staged[d][g] = "full" => staged'[d][g] = "full"
      BY <2>2, FileStepOutcome
    <2>4. CASE jobFile'[held[d]][g] = jobFile[held[d]][g]
      BY <2>3, <2>4 DEF Inv, FileInv, Backed
    <2>5. CASE jobFile'[held[d]][g] # jobFile[held[d]][g]
      <3>1. held[d] = runJob[r] /\ g = f /\ staged[Base(runJob[r])][f] = "full"
        BY <2>1, <2>5, FileStepOutcome
      <3> QED
        BY <2>1, <2>3, <3>1 DEF Base
    <2> QED
      BY <2>4, <2>5
  <1> QED
    BY <1>2, <1>3, <1>4, <1>6, <1>7, <1>8 DEF FileInv

-----------------------------------------------------------------------------
\* StartSyncing: the new job is done with the files that are at their final
\* place, and with no others.
LEMMA StartSyncingFiles ==
  ASSUME Inv, OwnIds, NEW d \in Downloads, StartSyncing(d)
  PROVE  FileInv'
  <1>1. held[d] = Nil /\ phase[d] = "none" /\ mvJob = Nil
    BY DEF StartSyncing, Inv, TypeInv, HeldWhileBusy, PollLoopIdle
  <1>2. HashOf[d] \in Hashes /\ jobOf[HashOf[d]] = Nil
    BY <1>1, FilesyncAssumption DEF Inv, RunInv, MapAgrees, OwnIds
  <1>3. PICK j \in JobIds, dest \in Dests, selected \in SUBSET Files :
          CreateJob(d, j, dest, selected) /\ held' = [held EXCEPT ![d] = j]
    BY <1>2 DEF StartSyncing, ReuseJob
  <1>4. /\ phase' = [phase EXCEPT ![d] = "syncing"]
        /\ UNCHANGED <<moveVars, diskVars>>
    BY DEF StartSyncing, SetPhase
  <1>5. \A e \in Downloads : held[e] # j
    BY <1>3, FilesyncAssumption DEF CreateJob, Referenced, Inv, RunInv, MapAgrees
  <1>6. /\ jobDl'[j] = d /\ jobStatus'[j] = "pending" /\ held'[d] = j /\ phase'[d] = "syncing"
        /\ \A f \in Files : jobFile'[j][f] \in Synced => final[dest][NameOf[d]][f] = "full"
        /\ \A i \in JobIds \ {j} : /\ jobDl'[i] = jobDl[i] /\ jobStatus'[i] = jobStatus[i]
                                   /\ jobDest'[i] = jobDest[i] /\ jobFile'[i] = jobFile[i]
        /\ \A e \in Downloads \ {d} : held'[e] = held[e] /\ phase'[e] = phase[e]
    BY <1>3, <1>4 DEF CreateJob, Synced, Inv, TypeInv, TypeOK, FilesyncTypeOK, JobTypeOK
  <1>7. \A e \in Downloads \ {d} : held'[e] # Nil => held'[e] \in JobIds \ {j}
    BY <1>5, <1>6 DEF Inv, TypeInv, TypeOK
  <1>8. JobIsOwn'
    BY <1>6, <1>7 DEF Inv, FileInv, JobIsOwn
  <1>9. SizesTell' /\ MoveIsOurs'
    BY <1>1, <1>4, <1>6 DEF Inv, FileInv, SizesTell, MoveIsOurs, diskVars, moveVars
  <1>10. SyncedIsWhole'
    BY <1>6, FilesyncAssumption DEF Inv, FileInv, SyncedIsWhole, SizesTell
  <1>11. StatusKept' /\ CompleteIsSynced'
    BY <1>6, <1>7 DEF Inv, FileInv, StatusKept, CompleteIsSynced, TypeInv, HeldWhileBusy
  <1>12. Backed'
    BY <1>4, <1>6, <1>7 DEF Inv, FileInv, Backed, WholeAtFinal, diskVars, TypeInv, HeldWhileBusy
  <1>13. MovedSoFar'
    <2>1. \A e \in Downloads : phase'[e] # "moving"
      BY <1>1, <1>6 DEF Inv, FileInv, MoveIsOurs, TypeInv, HeldWhileBusy
    <2> QED
      BY <2>1 DEF MovedSoFar
  <1> QED
    BY <1>8, <1>9, <1>10, <1>11, <1>12, <1>13 DEF FileInv

\* The other calls between two moves that leave disk and files alone: only the
\* phase of d changes, or the destination of its job.
LEMMA QuietClientFiles ==
  ASSUME Inv, NEW d \in Downloads,
         SeesPending(d) \/ SeesComplete(d) \/ SeesError(d) \/ Retarget(d)
  PROVE  FileInv'
  <1>1. /\ UNCHANGED <<held, jobDl, jobStatus, jobFile, moveVars, diskVars>>
        /\ mvJob = Nil
    BY DEF SeesPending, SeesComplete, SeesError, Retarget, UpdateDestination, PollLoopIdle,
           jobVars, syncerVars, clientVars
  <1>2. \/ phase' = phase
        \/ phase[d] = "syncing" /\ jobStatus[held[d]] = "complete"
           /\ phase' = [phase EXCEPT ![d] = "synced"]
        \/ phase[d] = "syncing" /\ phase' = [phase EXCEPT ![d] = "error"]
    BY DEF SeesPending, SeesComplete, SeesError, Retarget, SetPhase, clientVars
  <1>3. JobIsOwn' /\ SizesTell' /\ SyncedIsWhole' /\ CompleteIsSynced'
    BY <1>1 DEF Inv, FileInv, JobIsOwn, SizesTell, SyncedIsWhole, CompleteIsSynced, diskVars
  <1>4. StatusKept'
    BY <1>1, <1>2 DEF Inv, FileInv, StatusKept, TypeInv, TypeOK
  <1>5. \A e \in Downloads : phase'[e] \in {"syncing", "synced", "moving", "error"} =>
          phase[e] \in {"syncing", "synced", "moving", "error"}
    BY <1>2 DEF Inv, TypeInv, TypeOK
  <1>6. Backed'
    BY <1>1, <1>5 DEF Inv, FileInv, Backed, WholeAtFinal, diskVars
  <1>7. \A e \in Downloads : phase'[e] # "moving"
    BY <1>1, <1>2 DEF Inv, FileInv, MoveIsOurs, TypeInv, TypeOK, HeldWhileBusy
  <1> QED
    BY <1>1, <1>3, <1>4, <1>6, <1>7 DEF FileInv, MoveIsOurs, MovedSoFar, moveVars

\* StartMove: a move begins when none is under way.
LEMMA StartMoveFiles ==
  ASSUME Inv, NEW d \in Downloads, StartMove(d)
  PROVE  FileInv'
  <1>1. /\ UNCHANGED <<held, jobDl, jobDest, jobStatus, jobFile, diskVars>>
        /\ mvJob = Nil /\ mvJob' = held[d] /\ mvAt' = 1
        /\ phase[d] = "synced" /\ phase' = [phase EXCEPT ![d] = "moving"]
    BY DEF StartMove, BeginMove, SetPhase, jobVars
  <1>2. \A e \in Downloads : phase[e] # "moving"
    BY <1>1 DEF Inv, FileInv, MoveIsOurs, TypeInv, HeldWhileBusy
  <1>3. phase'[d] = "moving" /\ \A e \in Downloads \ {d} : phase'[e] = phase[e]
    BY <1>1 DEF Inv, TypeInv, TypeOK
  <1>4. JobIsOwn' /\ SizesTell' /\ SyncedIsWhole' /\ CompleteIsSynced'
    BY <1>1 DEF Inv, FileInv, JobIsOwn, SizesTell, SyncedIsWhole, CompleteIsSynced, diskVars
  <1>5. StatusKept' /\ MoveIsOurs'
    BY <1>1, <1>2, <1>3 DEF Inv, FileInv, StatusKept, MoveIsOurs
  <1>6. Backed'
    BY <1>1, <1>3 DEF Inv, FileInv, Backed, WholeAtFinal, diskVars
  <1>7. MovedSoFar'
    <2>1. \A f \in Files : ~ (f < 1)
      BY FilesyncAssumption DEF Files
    <2> QED
      BY <1>1, <2>1 DEF MovedSoFar
  <1> QED
    BY <1>4, <1>5, <1>6, <1>7 DEF FileInv

\* A torrent is forgotten: whatever happens to its job and to its directories,
\* the others keep theirs.
LEMMA GoneFiles ==
  ASSUME Inv, OwnIds, NEW d \in Downloads,
         held' = [held EXCEPT ![d] = Nil],
         phase' = [phase EXCEPT ![d] = "none"],
         mvJob = Nil, mvJob' = Nil, jobDl' = jobDl, jobFile' = jobFile,
         \A j \in JobIds \ {held[d]} : jobStatus'[j] = jobStatus[j],
         \A e \in Downloads \ {d} : staged'[e] = staged[e],
         \A e \in Downloads \ {d} : \A b \in Dests : final'[b][NameOf[e]] = final[b][NameOf[e]],
         SizesTell'
  PROVE  FileInv'
  <1>1. \A e \in Downloads : phase'[e] # "moving"
    BY DEF Inv, FileInv, MoveIsOurs, TypeInv, TypeOK, HeldWhileBusy
  <1>2. /\ held'[d] = Nil /\ phase'[d] = "none"
        /\ \A e \in Downloads \ {d} : held'[e] = held[e] /\ phase'[e] = phase[e]
    BY DEF Inv, TypeInv, TypeOK
  <1>3. \A e \in Downloads \ {d} : held[e] # Nil => held[e] \in JobIds \ {held[d]}
    BY HeldOnce DEF Inv, TypeInv, TypeOK
  <1>4. \A e \in Downloads \ {d} : held[e] # Nil => jobStatus'[held[e]] = jobStatus[held[e]]
    BY <1>3
  <1>5. JobIsOwn' /\ SyncedIsWhole'
    BY <1>2 DEF Inv, FileInv, JobIsOwn, SyncedIsWhole
  <1>6. StatusKept'
    BY <1>2, <1>4 DEF Inv, FileInv, StatusKept, TypeInv, HeldWhileBusy
  <1>7. CompleteIsSynced'
    BY <1>2, <1>4 DEF Inv, FileInv, CompleteIsSynced
  <1>8. Backed'
    <2> SUFFICES ASSUME NEW e \in Downloads,
                        phase'[e] \in {"syncing", "synced", "moving", "error"},
                        NEW f \in Files, jobFile'[held'[e]][f] \in Synced
                 PROVE  staged'[e][f] = "full" \/ \E b \in Dests : final'[b][NameOf[e]][f] = "full"
      BY DEF Backed, WholeAtFinal
    <2>1. e # d
      BY <1>2
    <2>2. staged[e][f] = "full" \/ \E b \in Dests : final[b][NameOf[e]][f] = "full"
      BY <1>2, <2>1 DEF Inv, FileInv, Backed, WholeAtFinal
    <2> QED
      BY <2>1, <2>2
  <1> QED
    BY <1>1, <1>5, <1>6, <1>7, <1>8 DEF FileInv, MoveIsOurs, MovedSoFar

\* Abandon: cancelling empties the torrent's staging directory and its final
\* one, if the removals work.
LEMMA AbandonFiles ==
  ASSUME Inv, OwnIds, OwnNames, NEW d \in Downloads, Abandon(d)
  PROVE  FileInv'
  <1> DEFINE j == held[d]
  <1>1. j \in JobIds /\ j # Nil /\ NameOf[d] \in Names
    BY FilesyncAssumption DEF Abandon, Inv, TypeInv, TypeOK, HeldWhileBusy
  <1>2. jobOf[HashOf[d]] = j /\ Base(j) = d /\ jobDest[j] \in Dests
    BY <1>1, PlaceTyped DEF Inv, RunInv, MapAgrees, FileInv, JobIsOwn, Base, TypeInv, TypeOK,
                            FilesyncTypeOK
  <1>3. /\ held' = [held EXCEPT ![d] = Nil] /\ phase' = [phase EXCEPT ![d] = "none"]
        /\ mvJob = Nil
        /\ UNCHANGED <<jobDl, jobDest, jobFile, moveVars>>
        /\ jobStatus' = [jobStatus EXCEPT ![j] = "error"]
        /\ staged' = staged \/ staged' = [staged EXCEPT ![d] = NoFiles]
        /\ final' = final \/ final' = [final EXCEPT ![jobDest[j]][NameOf[d]] = NoFiles]
    BY <1>1, <1>2 DEF Abandon, CancelJob, RemoveStaged, RemoveFinal, SetPhase, PollLoopIdle
  <1> HIDE DEF j
  <1>0. \A f \in Files : NoFiles[f] = "none"
    BY DEF NoFiles
  <1>4. \A e \in Downloads : \A f \in Files :
          staged'[e][f] \in {staged[e][f], "none"}
    <2>1. CASE staged' = staged
      BY <2>1
    <2>2. CASE staged' = [staged EXCEPT ![d] = NoFiles]
      BY <1>0, <2>2 DEF Inv, TypeInv, TypeOK, FilesyncTypeOK, DiskTypeOK
    <2> QED
      BY <1>3, <2>1, <2>2
  <1>5. \A b \in Dests : \A n \in Names : \A f \in Files :
          final'[b][n][f] \in {final[b][n][f], "none"}
    <2>1. CASE final' = final
      BY <2>1
    <2>2. CASE final' = [final EXCEPT ![jobDest[j]][NameOf[d]] = NoFiles]
      BY <1>0, <1>1, <1>2, <2>2 DEF Inv, TypeInv, TypeOK, FilesyncTypeOK, DiskTypeOK
    <2> QED
      BY <1>3, <2>1, <2>2
  <1>6. SizesTell'
    BY <1>4, <1>5 DEF Inv, FileInv, SizesTell
  <1>7. \A e \in Downloads \ {d} : NameOf[e] # NameOf[d] /\ NameOf[e] \in Names
    BY FilesyncAssumption DEF OwnNames
  <1>8. \A e \in Downloads \ {d} : staged'[e] = staged[e]
    BY <1>3 DEF Inv, TypeInv, TypeOK, FilesyncTypeOK, DiskTypeOK
  <1>9. \A e \in Downloads \ {d} : \A b \in Dests : final'[b][NameOf[e]] = final[b][NameOf[e]]
    <2>1. CASE final' = final
      BY <2>1
    <2>2. CASE final' = [final EXCEPT ![jobDest[j]][NameOf[d]] = NoFiles]
      BY <1>1, <1>2, <1>7, <2>2 DEF Inv, TypeInv, TypeOK, FilesyncTypeOK, DiskTypeOK
    <2> QED
      BY <1>3, <2>1, <2>2
  <1>10. \A i \in JobIds \ {held[d]} : jobStatus'[i] = jobStatus[i]
    BY <1>3 DEF j, Inv, TypeInv, TypeOK, FilesyncTypeOK, JobTypeOK
  <1>11. mvJob' = Nil
    BY <1>3 DEF moveVars
  <1> QED
    BY <1>3, <1>6, <1>8, <1>9, <1>10, <1>11, GoneFiles

\* What FilesLeave leaves is no more whole than it was.
LEMMA LeavingTells ==
  ASSUME Inv, NEW d \in Downloads, FilesLeave(d), UNCHANGED staged
  PROVE  /\ SizesTell'
         /\ \A b \in Dests : \A n \in Names \ {NameOf[d]} : final'[b][n] = final[b][n]
  <1>1. PICK new \in [Dests -> [Files -> Content]] :
          /\ \A b \in Dests, f \in Files :
               \/ new[b][f] = "none"
               \/ Faults /\ new[b][f] = "part"
               \/ \E c \in Dests : new[b][f] = final[c][NameOf[d]][f]
          /\ final' = [b \in Dests |-> [final[b] EXCEPT ![NameOf[d]] = new[b]]]
    BY DEF FilesLeave
  <1>2. NameOf[d] \in Names
    BY FilesyncAssumption
  <1>3. \A b \in Dests : \A f \in Files : new[b][f] = "full" => f \notin Truncated
    BY <1>1, <1>2 DEF Inv, FileInv, SizesTell
  <1>4. \A b \in Dests : /\ final'[b][NameOf[d]] = new[b]
                         /\ \A n \in Names \ {NameOf[d]} : final'[b][n] = final[b][n]
    BY <1>1, <1>2 DEF Inv, TypeInv, TypeOK, FilesyncTypeOK, DiskTypeOK
  <1>5. SizesTell'
    BY <1>3, <1>4 DEF Inv, FileInv, SizesTell
  <1> QED
    BY <1>4, <1>5

\* Disposal: the files of a torrent nobody works for go their way, also while
\* another is being moved.
LEMMA DisposalFiles ==
  ASSUME Inv, OwnNames, PromptImport, NEW d \in Downloads, Disposal(d)
  PROVE  FileInv'
  <1>1. /\ FilesLeave(d) /\ phase[d] \in {"none", "moved"}
        /\ UNCHANGED <<jobDl, jobDest, jobStatus, jobFile, moveVars, staged, held, phase>>
    BY DEF Disposal, jobVars, clientVars
  <1>2. SizesTell'
    BY <1>1, LeavingTells
  <1>3. \A e \in Downloads \ {d} : \A b \in Dests : final'[b][NameOf[e]] = final[b][NameOf[e]]
    BY <1>1, LeavingTells, FilesyncAssumption DEF OwnNames
  <1>4. JobIsOwn' /\ SyncedIsWhole' /\ StatusKept' /\ CompleteIsSynced' /\ MoveIsOurs'
    BY <1>1 DEF Inv, FileInv, JobIsOwn, SyncedIsWhole, StatusKept, CompleteIsSynced, MoveIsOurs,
                moveVars
  <1>5. Backed'
    BY <1>1, <1>3 DEF Inv, FileInv, Backed, WholeAtFinal
  <1>6. MovedSoFar'
    <2> SUFFICES ASSUME NEW e \in Downloads, phase[e] = "moving", NEW f \in Files,
                        f < mvAt, jobFile[held[e]][f] \in Synced
                 PROVE  final'[jobDest[held[e]]][NameOf[e]][f] = "full"
      BY <1>1 DEF MovedSoFar, moveVars
    <2>1. e # d /\ held[e] \in JobIds
      BY <1>1 DEF Inv, TypeInv, TypeOK, HeldWhileBusy
    <2>2. jobDest[held[e]] \in Dests
      BY <2>1, PlaceTyped DEF Inv, TypeInv, TypeOK, FilesyncTypeOK
    <2> QED
      BY <1>3, <2>1, <2>2 DEF Inv, FileInv, MovedSoFar
  <1> QED
    BY <1>2, <1>4, <1>5, <1>6 DEF FileInv

\* Forget: so do those of a torrent that is finished.
LEMMA ForgetFiles ==
  ASSUME Inv, OwnIds, OwnNames, NEW d \in Downloads, Forget(d)
  PROVE  FileInv'
  <1>1. /\ FilesLeave(d) /\ mvJob = Nil /\ mvJob' = Nil
        /\ jobDl' = jobDl /\ jobFile' = jobFile /\ jobStatus' = jobStatus
        /\ staged' = staged
        /\ held' = [held EXCEPT ![d] = Nil] /\ phase' = [phase EXCEPT ![d] = "none"]
    BY DEF Forget, SetPhase, PollLoopIdle, moveVars
  <1>2. \A e \in Downloads \ {d} : NameOf[e] # NameOf[d] /\ NameOf[e] \in Names
    BY FilesyncAssumption DEF OwnNames
  <1>3. SizesTell'
    BY <1>1, LeavingTells
  <1>4. \A e \in Downloads \ {d} : \A b \in Dests : final'[b][NameOf[e]] = final[b][NameOf[e]]
    BY <1>1, <1>2, LeavingTells
  <1> QED
    BY <1>1, <1>3, <1>4, GoneFiles

-----------------------------------------------------------------------------
\* The torrent that is being moved, and where.
LEMMA MovingOne ==
  ASSUME Inv, OwnIds, OwnNames, mvJob # Nil
  PROVE  \E d \in Downloads :
           /\ phase[d] = "moving" /\ held[d] = mvJob /\ mvJob \in JobIds
           /\ Base(mvJob) = d /\ Name(mvJob) = NameOf[d] /\ NameOf[d] \in Names
           /\ jobDest[mvJob] \in Dests
           /\ \A e \in Downloads \ {d} : phase[e] # "moving" /\ NameOf[e] # NameOf[d]
  <1>1. PICK d \in Downloads : phase[d] = "moving"
    BY DEF Inv, FileInv, MoveIsOurs
  <1>2. held[d] = mvJob
    BY <1>1 DEF Inv, FileInv, MoveIsOurs
  <1>3. mvJob \in JobIds
    BY DEF Inv, TypeInv, TypeOK, FilesyncTypeOK, MoveTypeOK
  <1>4. Base(mvJob) = d /\ Name(mvJob) = NameOf[d]
    BY <1>2 DEF Inv, FileInv, JobIsOwn, Base, Name
  <1>5. NameOf[d] \in Names /\ jobDest[mvJob] \in Dests
    BY <1>3, PlaceTyped, FilesyncAssumption DEF Inv, TypeInv, TypeOK, FilesyncTypeOK
  <1>6. \A e \in Downloads \ {d} : phase[e] # "moving" /\ NameOf[e] # NameOf[d]
    <2> SUFFICES ASSUME NEW e \in Downloads, phase[e] = "moving" PROVE e = d
      BY DEF OwnNames
    <2>1. held[e] = held[d] /\ held[d] # Nil
      BY <1>2 DEF Inv, FileInv, MoveIsOurs
    <2> QED
      BY <2>1, HeldOnce DEF Inv
  <1> QED
    BY <1>1, <1>2, <1>3, <1>4, <1>5, <1>6

\* The file that MoveToFinal is at, if it is one the job is done with and is
\* staged, is whole.
LEMMA StagedIsWhole ==
  ASSUME Inv, NEW d \in Downloads, NEW f \in Files, held[d] \in JobIds,
         jobFile[held[d]][f] \in Synced, staged[d][f] # "none"
  PROVE  staged[d][f] = "full"
  <1>1. f \notin Truncated
    BY DEF Inv, FileInv, SyncedIsWhole
  <1>2. staged[d][f] \in {"none", "part", "full"}
    BY DEF Inv, TypeInv, TypeOK, FilesyncTypeOK, DiskTypeOK, Content
  <1> QED
    BY <1>1, <1>2 DEF Inv, FileInv, SizesTell

\* A file is passed over or moved.  A moved one was whole where it was staged,
\* and is whole where it is now.
LEMMA MoveOneFiles ==
  ASSUME Inv, OwnIds, OwnNames, MoveOne
  PROVE  FileInv'
  <1>1. /\ UNCHANGED <<held, phase, jobDl, jobDest, jobStatus, jobFile, mvJob>>
        /\ mvJob # Nil /\ mvAt \in Files /\ mvAt' = mvAt + 1
    BY DEF MoveOne, MovePasses, MoveFile, jobVars, clientVars
  <1>2. PICK d \in Downloads :
          /\ phase[d] = "moving" /\ held[d] = mvJob /\ mvJob \in JobIds
          /\ Base(mvJob) = d /\ Name(mvJob) = NameOf[d] /\ NameOf[d] \in Names
          /\ jobDest[mvJob] \in Dests
          /\ \A e \in Downloads \ {d} : phase[e] # "moving" /\ NameOf[e] # NameOf[d]
    BY <1>1, MovingOne
  <1>3. JobIsOwn' /\ SyncedIsWhole' /\ StatusKept' /\ CompleteIsSynced' /\ MoveIsOurs'
    BY <1>1 DEF Inv, FileInv, JobIsOwn, SyncedIsWhole, StatusKept, CompleteIsSynced, MoveIsOurs
  <1>4. \A f \in Files : f < mvAt + 1 => f < mvAt \/ f = mvAt
    BY <1>1, FilesyncAssumption DEF Files
  <1>5. CASE MovePasses
    <2>1. jobFile[mvJob][mvAt] \notin Synced /\ UNCHANGED diskVars
      BY <1>5 DEF MovePasses
    <2>2. SizesTell' /\ Backed'
      BY <1>1, <2>1 DEF Inv, FileInv, SizesTell, Backed, WholeAtFinal, diskVars
    <2>3. MovedSoFar'
      BY <1>1, <1>2, <1>4, <2>1 DEF Inv, FileInv, MovedSoFar, diskVars
    <2> QED
      BY <1>3, <2>2, <2>3 DEF FileInv
  <1>6. CASE MoveFile
    <2>1. staged[d][mvAt] = "full" /\ jobFile[mvJob][mvAt] \in Synced
      BY <1>1, <1>2, <1>6, StagedIsWhole DEF MoveFile
    <2>2. final' = [final EXCEPT ![jobDest[mvJob]][NameOf[d]][mvAt] = "full"]
      BY <1>2, <1>6, <2>1 DEF MoveFile
    <2>3. staged' = staged \/ staged' = [staged EXCEPT ![d][mvAt] = "none"]
      BY <1>2, <1>6 DEF MoveFile
    <2>4. \A e \in Downloads, f \in Files :
            staged'[e][f] # staged[e][f] => e = d /\ f = mvAt /\ staged'[e][f] = "none"
      <3>1. CASE staged' = staged
        BY <3>1
      <3>2. CASE staged' = [staged EXCEPT ![d][mvAt] = "none"]
        BY <1>1, <3>2 DEF Inv, TypeInv, TypeOK, FilesyncTypeOK, DiskTypeOK
      <3> QED
        BY <2>3, <3>1, <3>2
    <2>5. /\ final'[jobDest[mvJob]][NameOf[d]][mvAt] = "full"
          /\ \A b \in Dests, n \in Names, f \in Files :
               final'[b][n][f] # final[b][n][f] =>
                 b = jobDest[mvJob] /\ n = NameOf[d] /\ f = mvAt /\ final'[b][n][f] = "full"
      BY <1>1, <1>2, <2>2 DEF Inv, TypeInv, TypeOK, FilesyncTypeOK, DiskTypeOK
    <2>6. mvAt \notin Truncated
      BY <1>1, <1>2, <2>1 DEF Inv, FileInv, SyncedIsWhole
    <2>7. SizesTell'
      BY <2>4, <2>5, <2>6 DEF Inv, FileInv, SizesTell
    <2>8. Backed'
      <3> SUFFICES ASSUME NEW e \in Downloads,
                          phase[e] \in {"syncing", "synced", "moving", "error"},
                          NEW f \in Files, jobFile[held[e]][f] \in Synced
                   PROVE  staged'[e][f] = "full" \/ \E b \in Dests : final'[b][NameOf[e]][f] = "full"
        BY <1>1 DEF Backed, WholeAtFinal
      <3>1. staged[e][f] = "full" \/ \E b \in Dests : final[b][NameOf[e]][f] = "full"
        BY DEF Inv, FileInv, Backed, WholeAtFinal
      <3>2. CASE staged[e][f] = "full"
        BY <1>2, <2>4, <2>5, <3>2
      <3>3. CASE \E b \in Dests : final[b][NameOf[e]][f] = "full"
        BY <2>5, <3>3, FilesyncAssumption
      <3> QED
        BY <3>1, <3>2, <3>3
    <2>9. MovedSoFar'
      <3> SUFFICES ASSUME NEW e \in Downloads, phase[e] = "moving", NEW f \in Files,
                          f < mvAt + 1, jobFile[held[e]][f] \in Synced
                   PROVE  final'[jobDest[held[e]]][NameOf[e]][f] = "full"
        BY <1>1 DEF MovedSoFar
      <3>1. e = d
        BY <1>2
      <3>2. CASE f < mvAt
        <4>1. final[jobDest[mvJob]][NameOf[d]][f] = "full"
          BY <1>2, <3>1, <3>2 DEF Inv, FileInv, MovedSoFar
        <4> QED
          BY <1>2, <2>5, <3>1, <4>1
      <3>3. CASE f = mvAt
        BY <1>2, <2>5, <3>1, <3>3
      <3> QED
        BY <1>4, <3>2, <3>3
    <2> QED
      BY <1>3, <2>7, <2>8, <2>9 DEF FileInv
  <1> QED
    BY <1>5, <1>6 DEF MoveOne

\* MoveToFinal returns: after a success the staging directory is gone, after a
\* failure a file may be half written, but is still staged.
LEMMA MoveReturnsFiles ==
  ASSUME Inv, OwnIds, OwnNames, NEW d \in Downloads, MoveReturns(d)
  PROVE  FileInv'
  <1>1. /\ UNCHANGED <<held, jobDl, jobDest, jobStatus, jobFile>>
        /\ mvJob # Nil /\ mvJob' = Nil /\ phase[d] = "moving"
        /\ \/ EndMove /\ phase' = [phase EXCEPT ![d] = "moved"]
           \/ MoveFails /\ phase' = [phase EXCEPT ![d] = "error"]
    BY DEF MoveReturns, EndMove, MoveFails, SetPhase, jobVars
  <1>2. /\ held[d] = mvJob /\ mvJob \in JobIds
        /\ Base(mvJob) = d /\ Name(mvJob) = NameOf[d] /\ NameOf[d] \in Names
        /\ jobDest[mvJob] \in Dests
        /\ \A e \in Downloads \ {d} : phase[e] # "moving" /\ NameOf[e] # NameOf[d]
    BY <1>1, MovingOne
  <1>3. \A e \in Downloads : phase'[e] # "moving"
    BY <1>1, <1>2 DEF Inv, TypeInv, TypeOK
  <1>4. \A e \in Downloads \ {d} : phase'[e] = phase[e]
    BY <1>1 DEF Inv, TypeInv, TypeOK
  <1>5. JobIsOwn' /\ SyncedIsWhole' /\ CompleteIsSynced'
    BY <1>1 DEF Inv, FileInv, JobIsOwn, SyncedIsWhole, CompleteIsSynced
  <1>6. MoveIsOurs' /\ MovedSoFar'
    BY <1>1, <1>3 DEF MoveIsOurs, MovedSoFar
  <1>7. StatusKept'
    BY <1>1, <1>4 DEF Inv, FileInv, StatusKept
  <1>8. CASE EndMove /\ phase' = [phase EXCEPT ![d] = "moved"]
    <2>1. final' = final /\ (staged' = staged \/ staged' = [staged EXCEPT ![d] = NoFiles])
      BY <1>2, <1>8 DEF EndMove, RemoveStaged
    <2>2. \A e \in Downloads, f \in Files :
            staged'[e][f] # staged[e][f] => e = d /\ staged'[e][f] = "none"
      <3>1. \A f \in Files : NoFiles[f] = "none"
        BY DEF NoFiles
      <3>2. CASE staged' = staged
        BY <3>2
      <3>3. CASE staged' = [staged EXCEPT ![d] = NoFiles]
        BY <3>1, <3>3 DEF Inv, TypeInv, TypeOK, FilesyncTypeOK, DiskTypeOK
      <3> QED
        BY <2>1, <3>2, <3>3
    <2>3. SizesTell'
      BY <2>1, <2>2 DEF Inv, FileInv, SizesTell
    <2>4. phase'[d] = "moved"
      BY <1>8 DEF Inv, TypeInv, TypeOK
    <2>5. Backed'
      BY <1>1, <1>4, <2>1, <2>2, <2>4 DEF Inv, FileInv, Backed, WholeAtFinal
    <2> QED
      BY <1>5, <1>6, <1>7, <2>3, <2>5 DEF FileInv
  <1>9. CASE MoveFails /\ phase' = [phase EXCEPT ![d] = "error"]
    <2>1. /\ mvAt \in Files /\ jobFile[mvJob][mvAt] \in Synced /\ staged' = staged
          /\ \/ final' = final
             \/ /\ staged[d][mvAt] # "none"
                /\ final' = [final EXCEPT ![jobDest[mvJob]][NameOf[d]][mvAt] = "part"]
      BY <1>2, <1>9 DEF MoveFails
    <2>2. \A b \in Dests, n \in Names, f \in Files :
            final'[b][n][f] # final[b][n][f] =>
              n = NameOf[d] /\ f = mvAt /\ final'[b][n][f] = "part" /\ staged[d][f] = "full"
      <3>1. CASE final' = final
        BY <3>1
      <3>2. CASE /\ staged[d][mvAt] # "none"
                 /\ final' = [final EXCEPT ![jobDest[mvJob]][NameOf[d]][mvAt] = "part"]
        <4>1. staged[d][mvAt] = "full"
          BY <1>2, <2>1, <3>2, StagedIsWhole
        <4> QED
          BY <1>2, <2>1, <3>2, <4>1 DEF Inv, TypeInv, TypeOK, FilesyncTypeOK, DiskTypeOK
      <3> QED
        BY <2>1, <3>1, <3>2
    <2>3. SizesTell'
      BY <2>1, <2>2 DEF Inv, FileInv, SizesTell
    <2>4. Backed'
      <3> SUFFICES ASSUME NEW e \in Downloads,
                          phase'[e] \in {"syncing", "synced", "moving", "error"},
                          NEW f \in Files, jobFile[held[e]][f] \in Synced
                   PROVE  staged[e][f] = "full" \/ \E b \in Dests : final'[b][NameOf[e]][f] = "full"
        BY <1>1, <2>1 DEF Backed, WholeAtFinal
      <3>1. phase[e] \in {"syncing", "synced", "moving", "error"}
        BY <1>1, <1>4
      <3>2. staged[e][f] = "full" \/ \E b \in Dests : final[b][NameOf[e]][f] = "full"
        BY <3>1 DEF Inv, FileInv, Backed, WholeAtFinal
      <3>3. NameOf[e] \in Names /\ (NameOf[e] = NameOf[d] => e = d)
        BY FilesyncAssumption DEF OwnNames
      <3> QED
        BY <2>2, <3>2, <3>3
    <2> QED
      BY <1>5, <1>6, <1>7, <2>3, <2>4 DEF FileInv
  <1> QED
    BY <1>1, <1>8, <1>9

\* After a crash nothing is known but what the sizes tell.
LEMMA CrashFiles ==
  ASSUME Inv, Crash
  PROVE  FileInv'
  <1>1. /\ staged' = staged /\ mvJob' = Nil
        /\ \A d \in Downloads : held'[d] = Nil /\ phase'[d] = "none"
        /\ \A j \in JobIds : \A f \in Files : jobFile'[j][f] = "absent"
    BY DEF Crash, RestartProcess
  <1>2. SizesTell'
    <2>1. CASE final' = final
      BY <1>1, <2>1 DEF Inv, FileInv, SizesTell
    <2>2. CASE /\ mvJob # Nil /\ mvAt \in Files
               /\ final' = [final EXCEPT ![jobDest[mvJob]][Name(mvJob)][mvAt] = "part"]
      <3>1. Name(mvJob) \in Names /\ jobDest[mvJob] \in Dests
        BY <2>2, PlaceTyped DEF Inv, TypeInv, TypeOK, FilesyncTypeOK, MoveTypeOK
      <3>2. \A b \in Dests, n \in Names, f \in Files :
              final'[b][n][f] = final[b][n][f] \/ final'[b][n][f] = "part"
        BY <2>2, <3>1 DEF Inv, TypeInv, TypeOK, FilesyncTypeOK, DiskTypeOK
      <3> QED
        BY <1>1, <3>2 DEF Inv, FileInv, SizesTell
    <2> QED
      BY <2>1, <2>2 DEF Crash
  <1> QED
    BY <1>1, <1>2
    DEF FileInv, JobIsOwn, SyncedIsWhole, StatusKept, CompleteIsSynced, Backed, MoveIsOurs,
        MovedSoFar, Synced

\* The invariant is inductive.
LEMMA FileInvStep == OwnIds /\ OwnNames /\ PromptImport /\ Inv /\ [Next]_vars => FileInv'
  <1> SUFFICES ASSUME OwnIds, OwnNames, PromptImport, Inv, [Next]_vars PROVE FileInv'
    OBVIOUS
  <1>1. CASE SyncerStep /\ UNCHANGED clientVars
    BY <1>1, RunStepFiles, FileStepFiles DEF SyncerStep
  <1>2. CASE MoveOne
    BY <1>2, MoveOneFiles
  <1>3. ASSUME NEW d \in Downloads, Client(d) PROVE FileInv'
    BY <1>3, StartSyncingFiles, QuietClientFiles, StartMoveFiles, MoveReturnsFiles, AbandonFiles,
       ForgetFiles, DisposalFiles DEF Client
  <1>4. CASE \/ (\E d \in Downloads : Remote(d)) /\ UNCHANGED clientVars
             \/ CancelRoot /\ UNCHANGED clientVars
             \/ UNCHANGED vars
    <2>1. UNCHANGED <<held, phase, jobDl, jobDest, jobStatus, jobFile, moveVars, diskVars>>
      BY <1>4 DEF Remote, TorrentComes, FileCompletes, TorrentGoes, CancelRoot, vars, syncerVars,
                  jobVars, clientVars
    <2> QED
      BY <2>1, FileFrame DEF Inv
  <1>5. CASE Crash
    BY <1>5, CrashFiles
  <1> QED
    BY <1>1, <1>2, <1>3, <1>4, <1>5 DEF Next

\* It holds in the beginning.
LEMMA FileInvInit == Init => FileInv
  BY DEF Init, FilesyncInit, NoProcess, NoFiles, FileInv, JobIsOwn, SizesTell, SyncedIsWhole,
         StatusKept, CompleteIsSynced, Backed, MoveIsOurs, MovedSoFar, Synced

\* So it holds always.
LEMMA InvHolds ==
  ASSUME PromptStart, PromptImport, OwnIds, OwnNames
  PROVE  Spec => []Inv
  <1>1. Init => RunInv
    BY NobodyRuns DEF Init, FilesyncInit, NoProcess
  <1>2. Init => Inv
    BY <1>1, InitTyped, FileInvInit DEF Inv
  <1>3. Inv /\ [Next]_vars => Inv'
    BY StepTyped, RunInvStep, FileInvStep DEF Inv
  <1> QED
    BY <1>2, <1>3, PTL DEF Spec

\* Nothing but its return ends a move in success.
LEMMA OnlyMoveReturns ==
  ASSUME TypeOK, [Next]_vars, NEW d \in Downloads, phase[d] = "moving", phase'[d] = "moved"
  PROVE  MoveReturns(d)
  <1>1. ~ UNCHANGED phase
    OBVIOUS
  <1>2. PICK e \in Downloads : Client(e)
    <2>1. CASE Crash
      BY <2>1 DEF Crash
    <2> QED
      BY <1>1, <2>1 DEF Next, MoveOne, vars, clientVars
  <1>3. \E p \in {"syncing", "synced", "error", "moving", "none"} :
          ~ MoveReturns(e) => phase' = [phase EXCEPT ![e] = p]
    BY <1>1, <1>2 DEF Client, StartSyncing, SeesPending, SeesComplete, SeesError, StartMove,
                      Retarget, Abandon, Forget, Disposal, SetPhase, clientVars
  <1>4. MoveReturns(e)
    BY <1>3 DEF TypeOK
  <1>5. e = d
    BY <1>4 DEF MoveReturns, SetPhase, TypeOK
  <1> QED
    BY <1>4, <1>5

\* A job that is complete and not yet moved is whole, whatever cancelled runs of
\* earlier jobs still do to its staging directory.
THEOREM CompleteBacked ==
  ASSUME PromptStart, PromptImport, OwnIds, OwnNames
  PROVE  Spec => []CompleteIsBacked
  BY InvHolds, FileInvSuffices, PTL

\* Whatever has been transferred is kept until the move has succeeded or the job
\* is abandoned.
THEOREM TransferredKept ==
  ASSUME PromptStart, PromptImport, OwnIds, OwnNames
  PROVE  Spec => []TransferredIsKept
  BY InvHolds, FileInvSuffices, PTL

\* A move that returns success has passed every file.
LEMMA ReturnDelivers ==
  ASSUME Inv, [Next]_vars, NEW d \in Downloads, phase[d] = "moving", phase'[d] = "moved",
         NEW f \in Selected(held[d])
  PROVE  final'[jobDest[held[d]]][NameOf[d]][f] = "full"
  <1>1. EndMove
    <2>1. MoveReturns(d)
      BY OnlyMoveReturns DEF Inv, TypeInv
    <2> QED
      BY <2>1 DEF MoveReturns, SetPhase, Inv, TypeInv, TypeOK
  <1>2. held[d] # Nil /\ jobStatus[held[d]] = "complete"
    BY DEF Inv, FileInv, StatusKept, TypeInv, HeldWhileBusy
  <1>3. f \in Files /\ jobFile[held[d]][f] \in Synced
    BY <1>2 DEF Inv, FileInv, CompleteIsSynced, Selected
  <1>4. f < mvAt
    BY <1>1, <1>3, FilesyncAssumption DEF EndMove, Files
  <1>5. final[jobDest[held[d]]][NameOf[d]][f] = "full"
    BY <1>3, <1>4 DEF Inv, FileInv, MovedSoFar
  <1> QED
    BY <1>1, <1>5 DEF EndMove

\* A move that reports success has put every selected file, in full, where the
\* import will look for it.
THEOREM MoveDelivered ==
  ASSUME PromptStart, PromptImport, OwnIds, OwnNames
  PROVE  Spec => MoveDelivers
  <1>1. Inv /\ [Next]_vars =>
          [\A d \in Downloads :
             (phase[d] = "moving" /\ phase'[d] = "moved") =>
               \A f \in Selected(held[d]) :
                 final'[jobDest[held[d]]][NameOf[d]][f] = "full"]_vars
    BY ReturnDelivers
  <1> QED
    BY <1>1, InvHolds, PTL DEF Spec, MoveDelivers

========================================================================
