----------------------- MODULE SyncServiceProofs -----------------------
(***************************************************************************)
(* Proofs about SyncService.                                               *)
(***************************************************************************)
EXTENDS SyncService, TLAPS

\* A torrent has a job exactly while the client is doing something with it.
HeldWhileBusy == \A d \in Downloads : phase[d] = "none" <=> held[d] = Nil

\* Only a run that waits for them has goroutines.
WorkIsWaitedFor ==
  \A r \in Runs : \A f \in Files : work[r][f] # "none" => runPc[r] = "wait"

TypeInv == TypeOK /\ HeldWhileBusy /\ WorkIsWaitedFor

\* The values a slot of no use is reset to.
LEMMA AnyTyped == AnyDownload \in Downloads /\ AnyDest \in Dests
  BY FilesyncAssumption, Zenon DEF AnyDownload, AnyDest

\* An empty directory, and a run without goroutines.
LEMMA NoFilesTyped == NoFiles \in [Files -> Content] /\ NoWork \in [Files -> WorkPc]
  BY DEF NoFiles, NoWork, Content, WorkPc

\* A process starts with everything in its type.
LEMMA InitTyped == Init => TypeInv
  <1> SUFFICES ASSUME Init PROVE TypeInv
    OBVIOUS
  <1>1. JobTypeOK
    BY AnyTyped DEF Init, FilesyncInit, NoProcess, JobTypeOK, FileStatus
  <1>2. RunTypeOK
    BY AnyTyped, NoFilesTyped DEF Init, FilesyncInit, NoProcess, RunTypeOK, RunPc, Active
  <1>3. MoveTypeOK
    BY FilesyncAssumption DEF Init, FilesyncInit, NoProcess, MoveTypeOK
  <1>4. DiskTypeOK
    BY NoFilesTyped DEF Init, FilesyncInit, DiskTypeOK
  <1>5. RemoteTypeOK
    BY DEF Init, FilesyncInit, NoProcess, RemoteTypeOK
  <1>6. held \in [Downloads -> JobIds \cup {Nil}] /\ phase \in [Downloads -> Phase]
    BY DEF Init, Phase
  <1> QED
    BY <1>1, <1>2, <1>3, <1>4, <1>5, <1>6
    DEF Init, FilesyncInit, NoProcess, NoWork, TypeInv, TypeOK, FilesyncTypeOK,
        HeldWhileBusy, WorkIsWaitedFor

\* SyncJob, and the watcher beside it, keep the types.
LEMMA RunStepTyped ==
  ASSUME TypeInv, NEW r \in Runs, RunStep(r) \/ WatchRun(r), UNCHANGED clientVars
  PROVE  TypeInv'
  <1> USE DEF TypeInv, TypeOK, FilesyncTypeOK, JobTypeOK, RunTypeOK, MoveTypeOK, DiskTypeOK,
              RemoteTypeOK, HeldWhileBusy, WorkIsWaitedFor, FileStatus, RunPc, Active, jobVars, jobIdVars,
              diskVars, otherVars, moveVars, remoteVars, clientVars
  <1>0. ASSUME EndRun(r) PROVE RunTypeOK' /\ WorkIsWaitedFor'
    BY <1>0, AnyTyped, NoFilesTyped DEF EndRun, NoWork
  <1>1. CASE BeginRun(r)
    BY <1>1, <1>0 DEF BeginRun
  <1>2. CASE MarkSyncing(r)
    BY <1>2 DEF MarkSyncing
  <1>3. CASE ListFails(r)
    BY <1>3, <1>0 DEF ListFails
  <1>4. CASE FanOut(r)
    BY <1>4 DEF FanOut, WorkPc
  <1>5. CASE FinishRun(r)
    BY <1>5, <1>0 DEF FinishRun
  <1>6. CASE WatchRun(r)
    BY <1>6 DEF WatchRun
  <1> QED
    BY <1>1, <1>2, <1>3, <1>4, <1>5, <1>6 DEF RunStep

\* So does what every step of SyncFile has in common, and it leaves an idle run idle.
LEMMA ProceedTyped ==
  ASSUME TypeInv, NEW r \in Runs, NEW f \in Files, NEW pc \in WorkPc,
         NEW status \in FileStatus \cup {"absent"}, work[r][f] # "none",
         Proceed(r, f, pc, status), runPc' = runPc
  PROVE  /\ jobFile' \in [JobIds -> [Files -> FileStatus \cup {"absent"}]]
         /\ work' \in [Runs -> [Files -> WorkPc]]
         /\ WorkIsWaitedFor'
  BY DEF TypeInv, TypeOK, FilesyncTypeOK, JobTypeOK, RunTypeOK, WorkIsWaitedFor, Proceed

\* SyncFile keeps the types.
LEMMA FileStepTyped ==
  ASSUME TypeInv, NEW r \in Runs, NEW f \in Files, Acquire(r, f) \/ FileStep(r, f),
         UNCHANGED clientVars
  PROVE  TypeInv'
  <1> DEFINE Old == jobFile[runJob[r]][f]
  <1>1. work[r][f] # "none"
    BY DEF Acquire, FileStep, GiveUp, Prepare, PrepareFails, TransferReturns, TransferFails,
           Verify
  <1>2. Old \in FileStatus \cup {"absent"}
    BY <1>1 DEF TypeInv, TypeOK, FilesyncTypeOK, JobTypeOK, RunTypeOK, WorkIsWaitedFor, Active, RunPc
  <1>3. UNCHANGED <<jobIdVars, jobStatus, runIdVars, final, otherVars>>
    BY DEF Acquire, FileStep, GiveUp, Prepare, PrepareFails, TransferReturns, TransferFails,
           Verify, diskVars
  <1>4. \E pc \in WorkPc, status \in FileStatus \cup {"absent"} : Proceed(r, f, pc, status)
    BY <1>2 DEF Acquire, FileStep, GiveUp, Prepare, PrepareFails, TransferReturns, TransferFails,
           Verify, Fail, WorkPc, FileStatus
  <1>5. runErr' \in [Runs -> BOOLEAN]
    BY DEF Acquire, FileStep, GiveUp, Prepare, PrepareFails, TransferReturns, TransferFails,
           Verify, Fail, TypeInv, TypeOK, FilesyncTypeOK, RunTypeOK
  <1>6. staged' \in [Downloads -> [Files -> Content]]
    BY DEF Acquire, FileStep, GiveUp, Prepare, PrepareFails, TransferReturns, TransferFails,
           Verify, diskVars, TypeInv, TypeOK, FilesyncTypeOK, DiskTypeOK, Content
  <1>7. /\ jobFile' \in [JobIds -> [Files -> FileStatus \cup {"absent"}]]
        /\ work' \in [Runs -> [Files -> WorkPc]]
        /\ WorkIsWaitedFor'
    BY <1>1, <1>3, <1>4, ProceedTyped DEF runIdVars
  <1> QED
    BY <1>3, <1>5, <1>6, <1>7
    DEF TypeInv, TypeOK, FilesyncTypeOK, JobTypeOK, RunTypeOK, MoveTypeOK, DiskTypeOK,
        RemoteTypeOK, HeldWhileBusy, Active, jobIdVars, runIdVars, otherVars, moveVars,
        remoteVars, clientVars

\* Writing to the two directory trees keeps their types.
LEMMA WritesTyped ==
  ASSUME DiskTypeOK, NEW dest \in Dests, NEW n \in Names, NEW d \in Downloads,
         NEW f \in Files, NEW c \in Content
  PROVE  /\ [final EXCEPT ![dest][n][f] = c] \in [Dests -> [Names -> [Files -> Content]]]
         /\ [final EXCEPT ![dest][n] = NoFiles] \in [Dests -> [Names -> [Files -> Content]]]
         /\ [staged EXCEPT ![d][f] = c] \in [Downloads -> [Files -> Content]]
         /\ [staged EXCEPT ![d] = NoFiles] \in [Downloads -> [Files -> Content]]
  BY NoFilesTyped DEF DiskTypeOK

\* A job's place in them.
LEMMA PlaceTyped ==
  ASSUME JobTypeOK, NEW j \in JobIds
  PROVE  Base(j) \in Downloads /\ Name(j) \in Names /\ jobDest[j] \in Dests
  BY FilesyncAssumption DEF JobTypeOK, Base, Name

\* Removing a torrent's final directory, when it works and when it fails.
LEMMA RemoveFinalTyped ==
  ASSUME JobTypeOK, DiskTypeOK, NEW d \in Downloads, NEW j \in JobIds, RemoveFinal(d, j)
  PROVE  final' \in [Dests -> [Names -> [Files -> Content]]]
  <1>1. NameOf[d] \in Names /\ jobDest[j] \in Dests
    BY PlaceTyped, FilesyncAssumption
  <1>2. CASE final' = [final EXCEPT ![jobDest[j]][NameOf[d]] = NoFiles]
    BY <1>1, <1>2, NoFilesTyped DEF DiskTypeOK
  <1>3. CASE final' = final
    BY <1>3 DEF DiskTypeOK
  <1> QED
    BY <1>2, <1>3 DEF RemoveFinal

\* CreateJob makes a job of the right type, whatever it finds at the final place.
LEMMA CreateJobTyped ==
  ASSUME JobTypeOK, NEW d \in Downloads, NEW j \in JobIds, NEW dest \in Dests, NEW selected,
         CreateJob(d, j, dest, selected)
  PROVE  JobTypeOK'
  <1> DEFINE marks == [f \in Files |->
                        IF f \notin selected THEN "absent"
                        ELSE IF final[dest][NameOf[d]][f] = "full" THEN "skipped"
                        ELSE "pending"]
  <1>1. marks \in [Files -> FileStatus \cup {"absent"}]
    BY DEF FileStatus
  <1>2. jobFile' = [jobFile EXCEPT ![j] = marks]
    BY DEF CreateJob
  <1> HIDE DEF marks
  <1>3. jobFile' \in [JobIds -> [Files -> FileStatus \cup {"absent"}]]
    BY <1>1, <1>2 DEF JobTypeOK
  <1> QED
    BY <1>3 DEF CreateJob, JobTypeOK, FileStatus

\* CancelJob, with and without a job to cancel.
LEMMA CancelJobTyped ==
  ASSUME JobTypeOK, DiskTypeOK, NEW h \in Hashes, CancelJob(h)
  PROVE  /\ jobStatus' \in [JobIds -> FileStatus \ {"skipped"}]
         /\ cancelled' \in [JobIds -> BOOLEAN]
         /\ staged' \in [Downloads -> [Files -> Content]]
  <1>1. CASE jobOf[h] = Nil
    BY <1>1 DEF CancelJob, JobTypeOK, DiskTypeOK
  <1>2. CASE jobOf[h] # Nil
    <2>1. jobOf[h] \in JobIds
      BY <1>2 DEF JobTypeOK
    <2>2. staged' \in [Downloads -> [Files -> Content]]
      BY <1>2, <2>1, PlaceTyped, NoFilesTyped DEF CancelJob, RemoveStaged, DiskTypeOK
    <2>3. jobStatus' \in [JobIds -> FileStatus \ {"skipped"}]
      BY <1>2 DEF CancelJob, JobTypeOK, FileStatus
    <2>4. cancelled' \in [JobIds -> BOOLEAN]
      BY <1>2 DEF CancelJob, JobTypeOK
    <2> QED
      BY <2>2, <2>3, <2>4
  <1> QED
    BY <1>1, <1>2

\* MoveToFinal, step by step.
LEMMA MoveStepTyped ==
  ASSUME JobTypeOK, MoveTypeOK, DiskTypeOK, MovePasses \/ MoveFile \/ MoveFails \/ EndMove
  PROVE  MoveTypeOK' /\ DiskTypeOK'
  <1>1. mvJob \in JobIds
    BY DEF MovePasses, MoveFile, MoveFails, EndMove, MoveTypeOK
  <1>2. Base(mvJob) \in Downloads /\ Name(mvJob) \in Names /\ jobDest[mvJob] \in Dests
    BY <1>1, PlaceTyped
  <1>3. MoveTypeOK'
    BY FilesyncAssumption DEF MovePasses, MoveFile, MoveFails, EndMove, MoveTypeOK, Files
  <1>4. CASE MovePasses
    BY <1>3, <1>4 DEF MovePasses, DiskTypeOK, diskVars
  <1>5. CASE MoveFile
    <2>1. staged[Base(mvJob)][mvAt] \in Content /\ "none" \in Content
      BY <1>2, <1>5 DEF MoveFile, Content, DiskTypeOK
    <2>2. final' \in [Dests -> [Names -> [Files -> Content]]]
      BY <1>2, <1>5, <2>1, WritesTyped DEF MoveFile
    <2>3. staged' \in [Downloads -> [Files -> Content]]
      <3>1. \/ staged' = [staged EXCEPT ![Base(mvJob)][mvAt] = "none"]
            \/ staged' = staged
        BY <1>5 DEF MoveFile
      <3>2. mvAt \in Files
        BY <1>5 DEF MoveFile
      <3>3. [staged EXCEPT ![Base(mvJob)][mvAt] = "none"] \in [Downloads -> [Files -> Content]]
        BY <1>2, <2>1, <3>2, WritesTyped
      <3> QED
        BY <3>1, <3>3 DEF DiskTypeOK
    <2> QED
      BY <2>2, <2>3, <1>3 DEF DiskTypeOK
  <1>6. CASE MoveFails
    <2>1. final' \in [Dests -> [Names -> [Files -> Content]]]
      <3>1. \/ final' = [final EXCEPT ![jobDest[mvJob]][Name(mvJob)][mvAt] = "part"]
            \/ final' = final
        BY <1>6 DEF MoveFails
      <3>2. mvAt \in Files /\ "part" \in Content
        BY <1>6 DEF MoveFails, Content
      <3>3. [final EXCEPT ![jobDest[mvJob]][Name(mvJob)][mvAt] = "part"]
              \in [Dests -> [Names -> [Files -> Content]]]
        BY <1>2, <3>2, WritesTyped
      <3> QED
        BY <3>1, <3>3 DEF DiskTypeOK
    <2> QED
      BY <1>3, <1>6, <2>1 DEF MoveFails, DiskTypeOK
  <1>7. CASE EndMove
    BY <1>2, <1>3, <1>7, NoFilesTyped DEF EndMove, RemoveStaged, DiskTypeOK
  <1> QED
    BY <1>4, <1>5, <1>6, <1>7

\* A crash that cuts a copy short.
LEMMA CrashTyped ==
  ASSUME JobTypeOK, MoveTypeOK, DiskTypeOK, Crash
  PROVE  DiskTypeOK' /\ MoveTypeOK'
  <1>0. MoveTypeOK'
    <2>1. mvJob' = Nil /\ mvAt' = 1
      BY DEF Crash, RestartProcess
    <2> QED
      BY <2>1, FilesyncAssumption DEF MoveTypeOK
  <1>1. CASE UNCHANGED final
    BY <1>0, <1>1 DEF Crash, DiskTypeOK
  <1>2. CASE /\ mvJob # Nil /\ mvAt \in Files
             /\ final' = [final EXCEPT ![jobDest[mvJob]][Name(mvJob)][mvAt] = "part"]
    <2>1. Name(mvJob) \in Names /\ jobDest[mvJob] \in Dests /\ "part" \in Content
      BY <1>2, PlaceTyped DEF Content, MoveTypeOK
    <2>2. final' \in [Dests -> [Names -> [Files -> Content]]]
      BY <1>2, <2>1, NoFilesTyped DEF DiskTypeOK
    <2> QED
      BY <1>0, <2>2 DEF Crash, DiskTypeOK
  <1> QED
    BY <1>1, <1>2 DEF Crash

\* The calls of the client, one case for each.
LEMMA ClientTyped ==
  ASSUME TypeInv, NEW d \in Downloads, Client(d)
  PROVE  TypeInv'
  <1> USE FilesyncAssumption
      DEF TypeInv, TypeOK, FilesyncTypeOK, JobTypeOK, RunTypeOK, MoveTypeOK, DiskTypeOK,
          RemoteTypeOK, HeldWhileBusy, WorkIsWaitedFor, Active, jobVars, runVars, moveVars, diskVars,
          remoteVars, syncerVars, clientVars, SetPhase, Phase
  <1>1. CASE StartSyncing(d)
    <2> PICK j \in JobIds, r \in Runs :
          /\ \/ \E dest \in Dests, selected \in SUBSET Files : CreateJob(d, j, dest, selected)
             \/ ReuseJob(d, j)
          /\ StartRun(r, j, d)
          /\ held' = [held EXCEPT ![d] = j]
      BY <1>1 DEF StartSyncing
    <2>1. JobTypeOK'
      BY CreateJobTyped DEF ReuseJob
    <2>2. RunTypeOK' /\ WorkIsWaitedFor'
      BY DEF StartRun, RunPc
    <2> QED
      BY <1>1, <2>1, <2>2 DEF StartSyncing
  <1>2. CASE SeesPending(d)
    BY <1>2 DEF SeesPending, StartRun, RunPc
  <1>3. CASE SeesComplete(d) \/ SeesError(d)
    <2>1. UNCHANGED <<syncerVars, held>> /\ phase[d] = "syncing"
      BY <1>3 DEF SeesComplete, SeesError
    <2>2. \E p \in {"synced", "error"} : phase' = [phase EXCEPT ![d] = p]
      BY <1>3 DEF SeesComplete, SeesError
    <2>3. phase' \in [Downloads -> Phase] /\ HeldWhileBusy'
      BY <2>1, <2>2
    <2> QED
      BY <2>1, <2>3
  <1>4. CASE StartMove(d)
    BY <1>4 DEF StartMove, BeginMove
  <1>5. CASE MoveReturns(d)
    <2>1. UNCHANGED <<jobVars, runVars, remoteVars, rootCtx, held>> /\ mvJob' = Nil /\ mvAt' = 1
      BY <1>5 DEF MoveReturns, EndMove, MoveFails
    <2>2. phase[d] = "moving" /\ phase' \in [Downloads -> Phase]
          /\ \A e \in Downloads : phase'[e] = "none" <=> phase[e] = "none"
      BY <1>5 DEF MoveReturns
    <2>3. DiskTypeOK'
      BY <1>5, MoveStepTyped DEF MoveReturns
    <2> QED
      BY <2>1, <2>2, <2>3
  <1>6. CASE Retarget(d)
    BY <1>6 DEF Retarget, UpdateDestination
  <1>7. CASE Abandon(d)
    <2>0. HashOf[d] \in Hashes
      OBVIOUS
    <2>1. JobTypeOK'
      BY <1>7, <2>0, CancelJobTyped DEF Abandon, RemoveJob
    <2>2. DiskTypeOK'
      <3>1. held[d] \in JobIds
        BY <1>7 DEF Abandon
      <3>2. final' \in [Dests -> [Names -> [Files -> Content]]]
        BY <1>7, <3>1, RemoveFinalTyped DEF Abandon
      <3> QED
        BY <1>7, <2>0, <3>2, CancelJobTyped DEF Abandon
    <2> QED
      BY <1>7, <2>1, <2>2 DEF Abandon
  <1>8. CASE Forget(d)
    BY <1>8 DEF Forget, FilesLeave, RemoveJob
  <1>9. CASE Disposal(d)
    BY <1>9 DEF Disposal, FilesLeave
  <1> QED
    BY <1>1, <1>2, <1>3, <1>4, <1>5, <1>6, <1>7, <1>8, <1>9 DEF Client

\* The rest: the move's own steps, the downloaders, the end of the context, a crash.
LEMMA OtherStepTyped ==
  ASSUME TypeInv,
         \/ MoveOne
         \/ \E d \in Downloads : Remote(d) /\ UNCHANGED clientVars
         \/ CancelRoot /\ UNCHANGED clientVars
         \/ Crash
  PROVE  TypeInv'
  <1> USE FilesyncAssumption
      DEF TypeInv, TypeOK, FilesyncTypeOK, JobTypeOK, RunTypeOK, MoveTypeOK, DiskTypeOK,
          RemoteTypeOK, HeldWhileBusy, WorkIsWaitedFor, Active, jobVars, runVars, moveVars, diskVars,
          remoteVars, clientVars
  <1>1. CASE MoveOne
    <2>1. mvJob' = mvJob /\ mvAt' \in 1..(NFiles + 1)
      BY <1>1 DEF MoveOne, MovePasses, MoveFile, Files
    <2>2. DiskTypeOK'
      BY <1>1, MoveStepTyped DEF MoveOne
    <2> QED
      BY <1>1, <2>1, <2>2 DEF MoveOne
  <1>2. CASE \E d \in Downloads : Remote(d) /\ UNCHANGED clientVars
    <2> PICK d \in Downloads : Remote(d)
      BY <1>2
    <2>1. UNCHANGED <<jobVars, runVars, moveVars, diskVars, rootCtx, clientVars>>
      BY <1>2 DEF Remote, TorrentComes, FileCompletes, TorrentGoes
    <2>2. ready' \in [Downloads -> SUBSET Files] /\ present' \subseteq Downloads
      <3>1. CASE TorrentComes(d)
        BY <3>1 DEF TorrentComes
      <3>2. CASE FileCompletes(d)
        BY <3>2 DEF FileCompletes
      <3>3. CASE TorrentGoes(d)
        BY <3>3 DEF TorrentGoes
      <3> QED
        BY <3>1, <3>2, <3>3 DEF Remote
    <2> QED
      BY <2>1, <2>2
  <1>3. CASE CancelRoot /\ UNCHANGED clientVars
    BY <1>3 DEF CancelRoot
  <1>4. CASE Crash
    <2>1. JobTypeOK'
      BY <1>4, AnyTyped DEF Crash, RestartProcess, FileStatus
    <2>2. RunTypeOK' /\ WorkIsWaitedFor'
      BY <1>4, AnyTyped, NoFilesTyped DEF Crash, RestartProcess, RunPc, NoWork
    <2>3. DiskTypeOK'
      BY <1>4, CrashTyped
    <2>4. MoveTypeOK'
      BY <1>4, CrashTyped
    <2>5. RemoteTypeOK'
      BY <1>4 DEF Crash, RestartProcess
    <2>6. /\ held' \in [Downloads -> JobIds \cup {Nil}]
          /\ phase' \in [Downloads -> Phase]
          /\ HeldWhileBusy'
      BY <1>4 DEF Crash, Phase
    <2> QED
      BY <2>1, <2>2, <2>3, <2>4, <2>5, <2>6
  <1> QED
    BY <1>1, <1>2, <1>3, <1>4

\* The invariant is inductive.
LEMMA StepTyped == TypeInv /\ [Next]_vars => TypeInv'
  <1> SUFFICES ASSUME TypeInv, [Next]_vars PROVE TypeInv'
    OBVIOUS
  <1>1. CASE SyncerStep /\ UNCHANGED clientVars
    BY <1>1, RunStepTyped, FileStepTyped DEF SyncerStep
  <1>2. CASE \E d \in Downloads : Client(d)
    BY <1>2, ClientTyped
  <1>3. CASE \/ MoveOne
             \/ \E d \in Downloads : Remote(d) /\ UNCHANGED clientVars
             \/ CancelRoot /\ UNCHANGED clientVars
             \/ Crash
    BY <1>3, OtherStepTyped
  <1>4. CASE UNCHANGED vars
    BY <1>4
    DEF vars, syncerVars, jobVars, runVars, moveVars, diskVars, remoteVars, clientVars, TypeInv,
        TypeOK, FilesyncTypeOK, JobTypeOK, RunTypeOK, MoveTypeOK, DiskTypeOK, RemoteTypeOK,
        HeldWhileBusy, WorkIsWaitedFor, Active
  <1> QED
    BY <1>1, <1>2, <1>3, <1>4 DEF Next

\* Every variable of the syncer and of its client stays within its type.
THEOREM TypeCorrect == Spec => []TypeOK
  <1>1. TypeInv => TypeOK
    BY DEF TypeInv
  <1> QED
    BY <1>1, InitTyped, StepTyped, PTL DEF Spec

========================================================================
