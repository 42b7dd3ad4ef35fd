---------------------- MODULE SyncServiceRunProofs ----------------------
(***************************************************************************)
(* The syncer's runs: how many goroutines hold the semaphore, and that a   *)
(* job has one run at a time.                                              *)
(***************************************************************************)
EXTENDS SyncServiceProofs, FiniteSetTheorems

-----------------------------------------------------------------------------
\* The holders are finite in number.
LEMMA HoldersFinite == IsFiniteSet(Holders)
  <1>1. IsFiniteSet(Files)
    BY FilesyncAssumption, FS_Interval DEF Files
  <1>2. IsFiniteSet(Runs \X Files)
    BY <1>1, FilesyncAssumption, FS_Product
  <1> QED
    BY <1>2, FS_Subset DEF Holders

\* Acquiring adds one holder, when there is room.
LEMMA AcquireHolds ==
  ASSUME RunTypeOK, SemaphoreBound, NEW r \in Runs, NEW f \in Files, Acquire(r, f)
  PROVE  SemaphoreBound'
  <1>1. Holders' \subseteq Holders \cup {<<r, f>>}
    <2>1. work' = [work EXCEPT ![r][f] = "prepare"]
      BY DEF Acquire, Proceed
    <2> SUFFICES ASSUME NEW s \in Runs, NEW g \in Files, work'[s][g] \in Holding,
                        <<s, g>> # <<r, f>>
                 PROVE  work[s][g] \in Holding
      BY DEF Holders
    <2>2. work'[s][g] = work[s][g]
      BY <2>1 DEF RunTypeOK
    <2> QED
      BY <2>2
  <1>2. IsFiniteSet(Holders \cup {<<r, f>>})
    BY HoldersFinite, FS_AddElement
  <1>3. Cardinality(Holders \cup {<<r, f>>}) <= Cardinality(Holders) + 1
    <2>1. Cardinality(Holders \cup {<<r, f>>})
            = IF <<r, f>> \in Holders THEN Cardinality(Holders) ELSE Cardinality(Holders) + 1
      BY HoldersFinite, FS_AddElement
    <2>2. Cardinality(Holders) \in Nat
      BY HoldersFinite, FS_CardinalityType
    <2> QED
      BY <2>1, <2>2
  <1>4. Cardinality(Holders') <= Cardinality(Holders \cup {<<r, f>>})
    BY <1>1, <1>2, FS_Subset
  <1>5. Cardinality(Holders) < MaxConcurrent
    BY DEF Acquire
  <1>6. Cardinality(Holders) \in Nat /\ Cardinality(Holders \cup {<<r, f>>}) \in Nat
        /\ Cardinality(Holders') \in Nat
    BY <1>1, <1>2, HoldersFinite, FS_CardinalityType, FS_Subset
  <1> QED
    BY <1>3, <1>4, <1>5, <1>6, FilesyncAssumption DEF SemaphoreBound

\* A step that lets nobody in keeps the bound.
LEMMA NobodyEnters ==
  ASSUME SemaphoreBound, Holders' \subseteq Holders
  PROVE  SemaphoreBound'
  <1>1. Cardinality(Holders') <= Cardinality(Holders)
        /\ Cardinality(Holders') \in Nat /\ Cardinality(Holders) \in Nat
    BY HoldersFinite, FS_Subset, FS_CardinalityType
  <1> QED
    BY <1>1, FilesyncAssumption DEF SemaphoreBound

\* The rest of SyncFile lets nobody in.
LEMMA FileStepHolds ==
  ASSUME RunTypeOK, SemaphoreBound, NEW r \in Runs, NEW f \in Files, FileStep(r, f)
  PROVE  SemaphoreBound'
  <1>1. \/ work[r][f] \in Holding
        \/ \E pc \in WorkPc \ Holding : work' = [work EXCEPT ![r][f] = pc]
    BY DEF FileStep, GiveUp, Prepare, PrepareFails, TransferReturns, TransferFails, Verify,
           Fail, Proceed, Holding, WorkPc
  <1>2. \E pc : work' = [work EXCEPT ![r][f] = pc]
    BY DEF FileStep, GiveUp, Prepare, PrepareFails, TransferReturns, TransferFails, Verify,
           Fail, Proceed
  <1>3. Holders' \subseteq Holders
    <2> SUFFICES ASSUME NEW s \in Runs, NEW g \in Files, work'[s][g] \in Holding
                 PROVE  work[s][g] \in Holding
      BY DEF Holders
    <2>1. CASE s = r /\ g = f
      BY <1>1, <2>1 DEF RunTypeOK
    <2>2. CASE s # r \/ g # f
      BY <1>2, <2>2 DEF RunTypeOK
    <2> QED
      BY <2>1, <2>2
  <1> QED
    BY <1>3, NobodyEnters

\* Nor does anybody else: a run is given its goroutines before they acquire,
\* and they are gone when it ends.
LEMMA SemaphoreStep == TypeOK /\ SemaphoreBound /\ [Next]_vars => SemaphoreBound'
  <1> SUFFICES ASSUME TypeOK, SemaphoreBound, [Next]_vars
               PROVE  SemaphoreBound'
    OBVIOUS
  <1>0. RunTypeOK
    BY DEF TypeOK, FilesyncTypeOK
  <1>1. ASSUME NEW r \in Runs, NEW f \in Files, Acquire(r, f) PROVE SemaphoreBound'
    BY <1>0, <1>1, AcquireHolds
  <1>2. ASSUME NEW r \in Runs, NEW f \in Files, FileStep(r, f) PROVE SemaphoreBound'
    BY <1>0, <1>2, FileStepHolds
  <1>3. ASSUME NEW r \in Runs, RunStep(r) \/ WatchRun(r) PROVE SemaphoreBound'
    <2>1. \/ work' = work
          \/ work' = [work EXCEPT ![r] = NoWork]
          \/ \E S : work' = [work EXCEPT ![r] = [f \in Files |-> IF f \in S THEN "acquire" ELSE "none"]]
      <3>1. CASE FanOut(r)
        <4>0. PICK unlisted \in SUBSET Files :
                work' = [work EXCEPT ![r] =
                  [f \in Files |->
                     IF /\ f \in Selected(runJob[r])
                        /\ f \in ready[runDl[r]] \cup unlisted
                        /\ jobFile[runJob[r]][f] \notin Synced
                     THEN "acquire" ELSE "none"]]
          BY <3>1 DEF FanOut
        <4> DEFINE S == {f \in Files : /\ f \in Selected(runJob[r])
                                       /\ f \in ready[runDl[r]] \cup unlisted
                                       /\ jobFile[runJob[r]][f] \notin Synced}
        <4>1. work' = [work EXCEPT ![r] = [f \in Files |-> IF f \in S THEN "acquire" ELSE "none"]]
          BY <4>0
        <4> QED
          BY <4>1
      <3>2. CASE BeginRun(r) \/ MarkSyncing(r) \/ ListFails(r) \/ FinishRun(r) \/ WatchRun(r)
        BY <3>2 DEF BeginRun, MarkSyncing, ListFails, FinishRun, WatchRun, EndRun
      <3> QED
        BY <1>3, <3>1, <3>2 DEF RunStep
    <2>2. Holders' \subseteq Holders
      <3> SUFFICES ASSUME NEW s \in Runs, NEW g \in Files, work'[s][g] \in Holding
                   PROVE  work[s][g] \in Holding
        BY DEF Holders
      <3>1. s # r => work'[s] = work[s]
        BY <2>1, <1>0 DEF RunTypeOK
      <3>2. s = r => work'[s] = work[s] \/ work'[s][g] \in {"none", "acquire"}
        BY <2>1, <1>0 DEF RunTypeOK, NoWork
      <3> QED
        BY <3>1, <3>2 DEF Holding
    <2> QED
      BY <2>2, NobodyEnters
  <1>4. CASE work' = work
    BY <1>4, NobodyEnters DEF Holders
  <1>5. CASE Crash
    <2>1. \A s \in Runs : \A g \in Files : work'[s][g] = "none"
      BY <1>5 DEF Crash, RestartProcess, NoWork
    <2>2. Holders' \subseteq Holders
      BY <2>1 DEF Holders, Holding
    <2> QED
      BY <2>2, NobodyEnters
  <1>6. CASE \E d \in Downloads : Client(d)
    <2>1. work' = work
      BY <1>6 DEF Client, StartSyncing, SeesPending, SeesComplete, SeesError, StartMove,
                  MoveReturns, Retarget, Abandon, Forget, Disposal, StartRun, runVars, syncerVars
    <2> QED
      BY <2>1, <1>4
  <1>7. CASE \/ MoveOne
             \/ \E d \in Downloads : Remote(d)
             \/ CancelRoot
             \/ UNCHANGED vars
    <2>1. work' = work
      BY <1>7 DEF MoveOne, Remote, TorrentComes, FileCompletes, TorrentGoes, CancelRoot, vars,
                  syncerVars, runVars
    <2> QED
      BY <2>1, <1>4
  <1> QED
    BY <1>1, <1>2, <1>3, <1>5, <1>6, <1>7 DEF Next, SyncerStep

\* Never are more than MaxConcurrent files between the two ends of the
\* semaphore, over all jobs, runs and torrents.
THEOREM SemaphoreHolds == Spec => []SemaphoreBound
  <1>1. Init => SemaphoreBound
    <2> SUFFICES ASSUME Init PROVE SemaphoreBound
      OBVIOUS
    <2>1. Holders = {}
      BY DEF Init, FilesyncInit, NoProcess, NoWork, Holders, Holding
    <2> QED
      BY <2>1, FS_EmptySet, FilesyncAssumption DEF SemaphoreBound
  <1> QED
    BY <1>1, TypeCorrect, SemaphoreStep, PTL DEF Spec

-----------------------------------------------------------------------------
\* What OneRunPerJob rests on: each torrent has an id of its own.
OwnIds == \A d, e \in Downloads : HashOf[d] = HashOf[e] => d = e

\* The client and the syncer's map agree on who has which job, and the job the
\* client has is not a cancelled one.
MapAgrees ==
  /\ \A d \in Downloads :
       held[d] # Nil => jobOf[HashOf[d]] = held[d] /\ ~ cancelled[held[d]]
  /\ \A h \in Hashes :
       jobOf[h] # Nil => \E d \in Downloads : HashOf[d] = h /\ held[d] = jobOf[h]
  /\ \A g, h \in Hashes : jobOf[g] # Nil /\ jobOf[g] = jobOf[h] => g = h

\* The status of a job that is not cancelled says how far its run is.
StatusOfRun(r) ==
  ~ cancelled[runJob[r]] =>
    /\ runPc[r] \in {"begin", "mark"} => jobStatus[runJob[r]] = "pending"
    /\ runPc[r] \in {"list", "wait"} => jobStatus[runJob[r]] = "syncing"

StatusTells == \A r \in Runs : Active(r) => StatusOfRun(r)

RunInv == OneRunPerJob /\ MapAgrees /\ StatusTells

\* No job is anybody's in the beginning, or after a restart.
LEMMA NobodyRuns ==
  ASSUME /\ \A h \in Hashes : jobOf[h] = Nil
         /\ \A d \in Downloads : held[d] = Nil
         /\ \A r \in Runs : runPc[r] = "idle"
  PROVE  RunInv
  BY DEF RunInv, OneRunPerJob, MapAgrees, StatusTells, Active

\* A run publishes nothing about other jobs.
LEMMA OtherJobsKeepStatus ==
  ASSUME TypeInv, NEW r \in Runs, RunStep(r) \/ WatchRun(r)
  PROVE  \A j \in JobIds \ {runJob[r]} : jobStatus'[j] = jobStatus[j]
  <1>1. CASE BeginRun(r) \/ ListFails(r) \/ FanOut(r) \/ WatchRun(r)
    BY <1>1 DEF BeginRun, ListFails, FanOut, WatchRun, jobVars
  <1>2. CASE MarkSyncing(r)
    BY <1>2 DEF MarkSyncing, TypeInv, TypeOK, FilesyncTypeOK, JobTypeOK
  <1>3. CASE FinishRun(r)
    BY <1>3 DEF FinishRun, TypeInv, TypeOK, FilesyncTypeOK, JobTypeOK
  <1> QED
    BY <1>1, <1>2, <1>3 DEF RunStep

\* SyncJob's own steps.
LEMMA RunStepInv ==
  ASSUME TypeInv, RunInv, NEW r \in Runs, RunStep(r) \/ WatchRun(r), UNCHANGED clientVars
  PROVE  RunInv'
  <1>1. UNCHANGED <<jobOf, cancelled, held>> /\ Active(r)
    BY DEF RunStep, BeginRun, MarkSyncing, ListFails, FanOut, FinishRun, WatchRun, jobVars,
           jobIdVars, clientVars, Active
  <1>2. MapAgrees'
    BY <1>1 DEF RunInv, MapAgrees
  <1>3. runJob[r] \in JobIds
    BY <1>1 DEF TypeInv, TypeOK, FilesyncTypeOK, RunTypeOK
  <1>4. \A s \in Runs \ {r} : runPc'[s] = runPc[s] /\ runJob'[s] = runJob[s]
    <2>1. CASE BeginRun(r) \/ MarkSyncing(r) \/ FanOut(r) \/ WatchRun(r)
      BY <2>1 DEF BeginRun, MarkSyncing, FanOut, WatchRun, EndRun, TypeInv, TypeOK,
                  FilesyncTypeOK, RunTypeOK
    <2>2. CASE ListFails(r) \/ FinishRun(r)
      BY <2>2 DEF ListFails, FinishRun, EndRun, TypeInv, TypeOK, FilesyncTypeOK, RunTypeOK
    <2> QED
      BY <2>1, <2>2 DEF RunStep
  <1>5. \/ runPc'[r] = "idle"
        \/ runJob'[r] = runJob[r]
    BY DEF RunStep, BeginRun, MarkSyncing, ListFails, FanOut, FinishRun, WatchRun, EndRun,
           TypeInv, TypeOK, FilesyncTypeOK, RunTypeOK
  <1>6. OneRunPerJob'
    BY <1>1, <1>4, <1>5 DEF RunInv, OneRunPerJob, Active
  <1>7. \A j \in JobIds \ {runJob[r]} : jobStatus'[j] = jobStatus[j]
    BY OtherJobsKeepStatus
  <1>8. \A s \in Runs \ {r} : Active(s) => runJob[s] # runJob[r] /\ runJob[s] \in JobIds
    BY <1>1 DEF RunInv, OneRunPerJob, TypeInv, TypeOK, FilesyncTypeOK, RunTypeOK
  <1>9. \A s \in Runs \ {r} : Active(s)' => StatusOfRun(s)'
    BY <1>1, <1>4, <1>7, <1>8 DEF RunInv, StatusTells, StatusOfRun, Active
  <1>10. Active(r)' => StatusOfRun(r)'
    <2>1. CASE runPc'[r] = "idle"
      BY <2>1 DEF Active
    <2>2. CASE BeginRun(r) /\ ~ cancelled[runJob[r]]
      BY <1>1, <2>2 DEF BeginRun, jobVars, RunInv, StatusTells, StatusOfRun, TypeInv, TypeOK,
                        FilesyncTypeOK, RunTypeOK
    <2>3. CASE MarkSyncing(r)
      BY <1>3, <2>3 DEF MarkSyncing, StatusOfRun, TypeInv, TypeOK, FilesyncTypeOK, RunTypeOK,
                        JobTypeOK
    <2>4. CASE FanOut(r)
      BY <1>1, <2>4 DEF FanOut, jobVars, RunInv, StatusTells, StatusOfRun, TypeInv, TypeOK,
                        FilesyncTypeOK, RunTypeOK
    <2>5. CASE WatchRun(r)
      BY <1>1, <2>5 DEF WatchRun, jobVars, RunInv, StatusTells, StatusOfRun
    <2>6. CASE \/ BeginRun(r) /\ cancelled[runJob[r]]
               \/ ListFails(r) \/ FinishRun(r)
      <3>1. runPc'[r] = "idle"
        BY <2>6 DEF BeginRun, ListFails, FinishRun, EndRun, TypeInv, TypeOK, FilesyncTypeOK,
                    RunTypeOK
      <3> QED
        BY <3>1, <2>1
    <2> QED
      BY <2>2, <2>3, <2>4, <2>5, <2>6 DEF RunStep
  <1> QED
    BY <1>2, <1>6, <1>9, <1>10 DEF RunInv, StatusTells

\* Steps that start or end no run and touch no job's status.
LEMMA FrameInv ==
  ASSUME RunInv, UNCHANGED <<jobOf, jobStatus, cancelled, runPc, runJob, held>>
  PROVE  RunInv'
  BY DEF RunInv, OneRunPerJob, MapAgrees, StatusTells, StatusOfRun, Active

\* A run started for a pending job that has none.
LEMMA StartRunInv ==
  ASSUME TypeInv, RunInv, NEW r \in Runs, NEW j \in JobIds, NEW d \in Downloads,
         StartRun(r, j, d),
         \A s \in Runs : Active(s) => runJob[s] # j,
         MapAgrees', jobStatus'[j] = "pending",
         \A i \in JobIds \ {j} : jobStatus'[i] = jobStatus[i] /\ cancelled'[i] = cancelled[i]
  PROVE  RunInv'
  <1>1. runPc'[r] = "begin" /\ runJob'[r] = j
    BY DEF StartRun, TypeInv, TypeOK, FilesyncTypeOK, RunTypeOK
  <1>2. \A s \in Runs \ {r} : runPc'[s] = runPc[s] /\ runJob'[s] = runJob[s]
    BY DEF StartRun
  <1>3. OneRunPerJob'
    BY <1>1, <1>2 DEF RunInv, OneRunPerJob, Active
  <1>4. StatusOfRun(r)'
    BY <1>1 DEF StatusOfRun
  <1>5. \A s \in Runs \ {r} : Active(s)' => StatusOfRun(s)'
    BY <1>2 DEF RunInv, StatusTells, StatusOfRun, Active, TypeInv, TypeOK, FilesyncTypeOK,
                RunTypeOK
  <1> QED
    BY <1>3, <1>4, <1>5 DEF RunInv, StatusTells


\* StartSyncing: the map holds no job for a torrent the client has none for, so
\* the job is a new one, which no run works on.
LEMMA NewJob ==
  ASSUME TypeInv, MapAgrees, OwnIds, NEW d \in Downloads, StartSyncing(d)
  PROVE  /\ MapAgrees'
         /\ \E j \in JobIds, r \in Runs :
              /\ StartRun(r, j, d)
              /\ \A s \in Runs : runJob[s] # j
              /\ jobStatus'[j] = "pending"
              /\ \A i \in JobIds \ {j} :
                   jobStatus'[i] = jobStatus[i] /\ cancelled'[i] = cancelled[i]
  <1>1. held[d] = Nil
    BY DEF StartSyncing, TypeInv, HeldWhileBusy
  <1>2. HashOf[d] \in Hashes /\ jobOf[HashOf[d]] = Nil
    BY <1>1, FilesyncAssumption DEF MapAgrees, OwnIds
  <1>3. PICK j \in JobIds, r \in Runs :
          /\ \E dest \in Dests, selected \in SUBSET Files : CreateJob(d, j, dest, selected)
          /\ StartRun(r, j, d)
          /\ held' = [held EXCEPT ![d] = j]
    BY <1>2 DEF StartSyncing, ReuseJob
  <1>4. /\ ~ Referenced(j)
        /\ jobOf' = [jobOf EXCEPT ![HashOf[d]] = j]
        /\ jobStatus' = [jobStatus EXCEPT ![j] = "pending"]
        /\ cancelled' = [cancelled EXCEPT ![j] = FALSE]
    BY <1>3 DEF CreateJob
  <1>5. /\ \A h \in Hashes : jobOf[h] # j
        /\ \A s \in Runs : runJob[s] # j
    BY <1>4 DEF Referenced
  <1>6. \A e \in Downloads : held[e] # j
    BY <1>5, FilesyncAssumption DEF MapAgrees
  <1>7. jobStatus'[j] = "pending" /\ cancelled'[j] = FALSE
        /\ \A i \in JobIds \ {j} : jobStatus'[i] = jobStatus[i] /\ cancelled'[i] = cancelled[i]
    BY <1>4 DEF TypeInv, TypeOK, FilesyncTypeOK, JobTypeOK
  <1>8. /\ jobOf'[HashOf[d]] = j /\ held'[d] = j
        /\ \A h \in Hashes \ {HashOf[d]} : jobOf'[h] = jobOf[h]
        /\ \A e \in Downloads \ {d} : held'[e] = held[e] /\ HashOf[e] # HashOf[d]
    BY <1>2, <1>3, <1>4 DEF TypeInv, TypeOK, FilesyncTypeOK, JobTypeOK, OwnIds
  <1>9. MapAgrees'
    <2>1. ASSUME NEW e \in Downloads, held'[e] # Nil
          PROVE  jobOf'[HashOf[e]] = held'[e] /\ ~ cancelled'[held'[e]]
      <3>1. CASE e = d
        BY <1>7, <1>8, <3>1
      <3>2. CASE e # d
        <4>1. held'[e] = held[e] /\ jobOf'[HashOf[e]] = jobOf[HashOf[e]]
          BY <1>8, <3>2, FilesyncAssumption
        <4>2. held[e] \in JobIds \ {j}
          BY <1>6, <4>1, <2>1 DEF TypeInv, TypeOK
        <4> QED
          BY <1>7, <2>1, <4>1, <4>2 DEF MapAgrees
      <3> QED
        BY <3>1, <3>2
    <2>2. ASSUME NEW h \in Hashes, jobOf'[h] # Nil
          PROVE  \E e \in Downloads : HashOf[e] = h /\ held'[e] = jobOf'[h]
      <3>1. CASE h = HashOf[d]
        BY <1>8, <3>1
      <3>2. CASE h # HashOf[d]
        <4>1. PICK e \in Downloads : HashOf[e] = h /\ held[e] = jobOf[h]
          BY <1>8, <2>2, <3>2 DEF MapAgrees
        <4> QED
          BY <1>8, <3>2, <4>1
      <3> QED
        BY <3>1, <3>2
    <2>3. \A g, h \in Hashes : jobOf'[g] # Nil /\ jobOf'[g] = jobOf'[h] => g = h
      BY <1>5, <1>8 DEF MapAgrees
    <2> QED
      BY <2>1, <2>2, <2>3 DEF MapAgrees
  <1> QED
    BY <1>3, <1>5, <1>7, <1>9

LEMMA StartSyncingInv ==
  ASSUME TypeInv, RunInv, OwnIds, NEW d \in Downloads, StartSyncing(d)
  PROVE  RunInv'
  <1>1. MapAgrees
    BY DEF RunInv
  <1> QED
    BY <1>1, NewJob, StartRunInv

\* SeesPending: a pending job that is not cancelled has no run past the mark,
\* and PromptStart says that none is before it.
LEMMA SeesPendingInv ==
  ASSUME TypeInv, RunInv, PromptStart, NEW d \in Downloads, SeesPending(d)
  PROVE  RunInv'
  <1>1. held[d] \in JobIds /\ held[d] # Nil
    BY FilesyncAssumption DEF SeesPending, TypeInv, TypeOK, HeldWhileBusy
  <1>2. jobStatus[held[d]] = "pending" /\ ~ cancelled[held[d]]
    BY <1>1 DEF SeesPending, RunInv, MapAgrees
  <1>3. \A s \in Runs : Active(s) => runJob[s] # held[d]
    BY <1>2 DEF SeesPending, RunInv, StatusTells, StatusOfRun, Active, TypeInv, TypeOK,
                FilesyncTypeOK, RunTypeOK, RunPc
  <1>4. PICK r \in Runs : StartRun(r, held[d], d)
    BY DEF SeesPending
  <1>5. UNCHANGED <<jobOf, jobStatus, cancelled, held>>
    BY DEF SeesPending, jobVars, clientVars
  <1>6. MapAgrees'
    BY <1>5 DEF RunInv, MapAgrees
  <1> QED
    BY <1>1, <1>2, <1>3, <1>4, <1>5, <1>6, StartRunInv


\* Abandon: the torrent's own job is cancelled and forgotten.
LEMMA OwnJobGoes ==
  ASSUME TypeInv, MapAgrees, OwnIds, NEW d \in Downloads, Abandon(d)
  PROVE  /\ MapAgrees'
         /\ held[d] \in JobIds /\ cancelled'[held[d]] = TRUE
         /\ \A i \in JobIds \ {held[d]} :
              cancelled'[i] = cancelled[i] /\ jobStatus'[i] = jobStatus[i]
         /\ UNCHANGED <<runPc, runJob>>
  <1> DEFINE j == held[d]
  <1>1. j \in JobIds /\ j # Nil /\ HashOf[d] \in Hashes
    BY FilesyncAssumption DEF Abandon, TypeInv, TypeOK, HeldWhileBusy
  <1>2. jobOf[HashOf[d]] = j
    BY <1>1 DEF MapAgrees
  <1>3. /\ cancelled' = [cancelled EXCEPT ![j] = TRUE]
        /\ jobStatus' = [jobStatus EXCEPT ![j] = "error"]
        /\ jobOf' = [jobOf EXCEPT ![HashOf[d]] = Nil]
        /\ held' = [held EXCEPT ![d] = Nil]
        /\ UNCHANGED <<runPc, runJob>>
    BY <1>1, <1>2 DEF Abandon, CancelJob, RemoveJob, runVars
  <1>4. /\ jobOf'[HashOf[d]] = Nil /\ held'[d] = Nil /\ cancelled'[j] = TRUE
        /\ \A h \in Hashes \ {HashOf[d]} : jobOf'[h] = jobOf[h]
        /\ \A e \in Downloads \ {d} : held'[e] = held[e] /\ HashOf[e] # HashOf[d]
        /\ \A i \in JobIds \ {j} : cancelled'[i] = cancelled[i] /\ jobStatus'[i] = jobStatus[i]
    BY <1>1, <1>3 DEF TypeInv, TypeOK, FilesyncTypeOK, JobTypeOK, OwnIds
  <1> HIDE DEF j
  <1>5. MapAgrees'
    <2>1. ASSUME NEW e \in Downloads, held'[e] # Nil
          PROVE  jobOf'[HashOf[e]] = held'[e] /\ ~ cancelled'[held'[e]]
      <3>1. e # d /\ held'[e] = held[e] /\ HashOf[e] \in Hashes \ {HashOf[d]}
        BY <1>4, <2>1, FilesyncAssumption
      <3>2. jobOf[HashOf[e]] = held[e] /\ ~ cancelled[held[e]]
        BY <2>1, <3>1 DEF MapAgrees
      <3>3. held[e] \in JobIds \ {j}
        BY <1>1, <1>2, <2>1, <3>1, <3>2 DEF MapAgrees, TypeInv, TypeOK
      <3> QED
        BY <1>4, <3>1, <3>2, <3>3
    <2>2. ASSUME NEW h \in Hashes, jobOf'[h] # Nil
          PROVE  \E e \in Downloads : HashOf[e] = h /\ held'[e] = jobOf'[h]
      <3>1. h # HashOf[d] /\ jobOf'[h] = jobOf[h]
        BY <1>4, <2>2
      <3>2. PICK e \in Downloads : HashOf[e] = h /\ held[e] = jobOf[h]
        BY <2>2, <3>1 DEF MapAgrees
      <3> QED
        BY <1>4, <3>1, <3>2
    <2>3. \A g, h \in Hashes : jobOf'[g] # Nil /\ jobOf'[g] = jobOf'[h] => g = h
      BY <1>4 DEF MapAgrees
    <2> QED
      BY <2>1, <2>2, <2>3 DEF MapAgrees
  <1> QED
    BY <1>1, <1>3, <1>4, <1>5 DEF j

\* The run of the job, if there is one, now works for a cancelled job.
LEMMA AbandonInv ==
  ASSUME TypeInv, RunInv, OwnIds, NEW d \in Downloads, Abandon(d)
  PROVE  RunInv'
  <1>1. /\ MapAgrees'
        /\ held[d] \in JobIds /\ cancelled'[held[d]] = TRUE
        /\ \A i \in JobIds \ {held[d]} :
             cancelled'[i] = cancelled[i] /\ jobStatus'[i] = jobStatus[i]
        /\ UNCHANGED <<runPc, runJob>>
    BY OwnJobGoes DEF RunInv
  <1>2. OneRunPerJob'
    BY <1>1 DEF RunInv, OneRunPerJob, Active
  <1>3. StatusTells'
    <2> SUFFICES ASSUME NEW r \in Runs, Active(r)' PROVE StatusOfRun(r)'
      BY DEF StatusTells
    <2>1. Active(r) /\ StatusOfRun(r) /\ runJob[r] \in JobIds
      BY <1>1 DEF RunInv, StatusTells, Active, TypeInv, TypeOK, FilesyncTypeOK, RunTypeOK
    <2> QED
      BY <1>1, <2>1 DEF StatusOfRun
  <1> QED
    BY <1>1, <1>2, <1>3 DEF RunInv

\* Forget: likewise, but that the job is not cancelled.
LEMMA OwnEntryGoes ==
  ASSUME TypeInv, MapAgrees, OwnIds, NEW d \in Downloads, Forget(d)
  PROVE  MapAgrees' /\ UNCHANGED <<jobStatus, cancelled, runPc, runJob>>
  <1>1. /\ jobOf' = [jobOf EXCEPT ![HashOf[d]] = Nil]
        /\ held' = [held EXCEPT ![d] = Nil]
        /\ UNCHANGED <<jobStatus, cancelled, runPc, runJob>>
    BY DEF Forget, RemoveJob, runVars
  <1>2. /\ jobOf'[HashOf[d]] = Nil /\ held'[d] = Nil
        /\ \A h \in Hashes \ {HashOf[d]} : jobOf'[h] = jobOf[h]
        /\ \A e \in Downloads \ {d} : held'[e] = held[e] /\ HashOf[e] # HashOf[d]
        /\ \A e \in Downloads : HashOf[e] \in Hashes
    BY <1>1, FilesyncAssumption DEF TypeInv, TypeOK, FilesyncTypeOK, JobTypeOK, OwnIds
  <1> QED
    BY <1>1, <1>2 DEF MapAgrees

LEMMA ForgetInv ==
  ASSUME TypeInv, RunInv, OwnIds, NEW d \in Downloads, Forget(d)
  PROVE  RunInv'
  <1>1. MapAgrees' /\ UNCHANGED <<jobStatus, cancelled, runPc, runJob>>
    BY OwnEntryGoes DEF RunInv
  <1> QED
    BY <1>1 DEF RunInv, OneRunPerJob, StatusTells, StatusOfRun, Active

\* Every other step leaves the map, the client's jobs and their cancellation
\* alone, or is a restart.
LEMMA MapUntouched ==
  ASSUME [Next]_vars, ~ Crash,
         \A d \in Downloads : ~ StartSyncing(d) /\ ~ Abandon(d) /\ ~ Forget(d)
  PROVE  UNCHANGED <<jobOf, jobDl, cancelled, held>>
  <1>1. CASE SyncerStep /\ UNCHANGED clientVars
    BY <1>1 DEF SyncerStep, RunStep, BeginRun, MarkSyncing, ListFails, FanOut, FinishRun, WatchRun,
                FileStep, Acquire, GiveUp, Prepare, PrepareFails, TransferReturns, TransferFails,
                Verify, jobVars, jobIdVars, clientVars
  <1>2. ASSUME NEW d \in Downloads, Client(d) PROVE UNCHANGED <<jobOf, jobDl, cancelled, held>>
    BY <1>2 DEF Client, SeesPending, SeesComplete, SeesError, StartMove, MoveReturns, Retarget,
                Disposal, UpdateDestination, jobVars, syncerVars, clientVars
  <1>3. CASE \/ MoveOne
             \/ (\E d \in Downloads : Remote(d)) /\ UNCHANGED clientVars
             \/ CancelRoot /\ UNCHANGED clientVars
             \/ UNCHANGED vars
    BY <1>3 DEF MoveOne, Remote, TorrentComes, FileCompletes, TorrentGoes, CancelRoot, vars,
                syncerVars, jobVars, clientVars
  <1> QED
    BY <1>1, <1>2, <1>3 DEF Next

\* The agreement of client and map does not depend on when goroutines begin.
LEMMA MapStep ==
  ASSUME OwnIds
  PROVE  TypeInv /\ MapAgrees /\ [Next]_vars => MapAgrees'
  <1> SUFFICES ASSUME TypeInv, MapAgrees, [Next]_vars PROVE MapAgrees'
    OBVIOUS
  <1>1. CASE \E d \in Downloads : StartSyncing(d) \/ Abandon(d) \/ Forget(d)
    BY <1>1, NewJob, OwnJobGoes, OwnEntryGoes
  <1>2. CASE Crash
    BY <1>2 DEF Crash, RestartProcess, MapAgrees
  <1>3. CASE UNCHANGED <<jobOf, jobDl, cancelled, held>>
    BY <1>3 DEF MapAgrees
  <1> QED
    BY <1>1, <1>2, <1>3, MapUntouched

\* Where no two downloaders have the same torrent, the client's jobs are those
\* of the map, and none of them has been cancelled.
THEOREM MapKeepsAgreeing ==
  ASSUME OwnIds
  PROVE  Spec => []MapAgrees
  <1>1. Init => MapAgrees
    BY DEF Init, FilesyncInit, NoProcess, MapAgrees
  <1> QED
    BY <1>1, MapStep, InitTyped, StepTyped, PTL DEF Spec

\* Also where two downloaders have the same torrent: a job goes by the id of
\* the torrent it was made for, in the map and with the client,
JobsKeepIds ==
  /\ \A h \in Hashes : jobOf[h] # Nil => HashOf[jobDl[jobOf[h]]] = h
  /\ \A d \in Downloads : held[d] # Nil => HashOf[jobDl[held[d]]] = HashOf[d]

\* and the map has no job that is nobody's.
EveryJobIsHeld ==
  \A h \in Hashes : jobOf[h] # Nil => \E d \in Downloads : held[d] = jobOf[h]

IdInv == JobsKeepIds /\ EveryJobIsHeld

\* StartSyncing: a job that is made takes this id, a job that is found has it.
LEMMA StartSyncingIds ==
  ASSUME TypeInv, IdInv, NEW d \in Downloads, StartSyncing(d)
  PROVE  IdInv'
  <1>1. PICK j \in JobIds :
          /\ held' = [held EXCEPT ![d] = j]
          /\ \/ /\ \A e \in Downloads : held[e] # j
                /\ \E dest \in Dests, selected \in SUBSET Files : CreateJob(d, j, dest, selected)
             \/ ReuseJob(d, j)
    BY DEF StartSyncing, FreeJobs
  <1>2. j # Nil /\ \A e \in Downloads : HashOf[e] \in Hashes
    BY FilesyncAssumption
  <1>3. held'[d] = j /\ \A e \in Downloads \ {d} : held'[e] = held[e]
    BY <1>1 DEF TypeInv, TypeOK
  <1>4. /\ jobOf'[HashOf[d]] = j /\ HashOf[jobDl'[j]] = HashOf[d]
        /\ \A h \in Hashes \ {HashOf[d]} :
             jobOf'[h] = jobOf[h] /\ (jobOf[h] # Nil => jobDl'[jobOf[h]] = jobDl[jobOf[h]])
        /\ \A e \in Downloads \ {d} :
             held[e] # Nil => HashOf[jobDl'[held[e]]] = HashOf[jobDl[held[e]]]
    <2>1. CASE ReuseJob(d, j)
      BY <1>2, <2>1 DEF ReuseJob, jobVars, IdInv, JobsKeepIds
    <2>2. CASE /\ \A e \in Downloads : held[e] # j
               /\ \E dest \in Dests, selected \in SUBSET Files : CreateJob(d, j, dest, selected)
      <3>1. /\ jobOf' = [jobOf EXCEPT ![HashOf[d]] = j]
            /\ jobDl' = [jobDl EXCEPT ![j] = d]
            /\ \A h \in Hashes : jobOf[h] # j
        BY <2>2 DEF CreateJob, Referenced
      <3> QED
        BY <1>2, <2>2, <3>1 DEF TypeInv, TypeOK, FilesyncTypeOK, JobTypeOK
    <2> QED
      BY <1>1, <2>1, <2>2
  <1>5. JobsKeepIds'
    BY <1>2, <1>3, <1>4 DEF IdInv, JobsKeepIds
  <1>6. EveryJobIsHeld'
    <2> SUFFICES ASSUME NEW h \in Hashes, h # HashOf[d], jobOf[h] # Nil
                 PROVE  \E e \in Downloads : held'[e] = jobOf[h]
      BY <1>3, <1>4 DEF EveryJobIsHeld
    <2>1. PICK e \in Downloads : held[e] = jobOf[h]
      BY DEF IdInv, EveryJobIsHeld
    <2>2. e # d
      <3>1. held[d] = Nil
        BY DEF StartSyncing, TypeInv, HeldWhileBusy
      <3> QED
        BY <2>1, <3>1
    <2> QED
      BY <1>3, <2>1, <2>2
  <1> QED
    BY <1>5, <1>6 DEF IdInv

\* Abandon and Forget: the torrent's job leaves the client and, under the same
\* id, the map.
LEMMA GoneIds ==
  ASSUME TypeInv, IdInv, NEW d \in Downloads, Abandon(d) \/ Forget(d)
  PROVE  IdInv'
  <1>1. /\ jobOf' = [jobOf EXCEPT ![HashOf[d]] = Nil]
        /\ held' = [held EXCEPT ![d] = Nil]
        /\ jobDl' = jobDl
        /\ HashOf[d] \in Hashes
    BY FilesyncAssumption DEF Abandon, Forget, RemoveJob
  <1>2. /\ jobOf'[HashOf[d]] = Nil /\ held'[d] = Nil
        /\ \A h \in Hashes \ {HashOf[d]} : jobOf'[h] = jobOf[h]
        /\ \A e \in Downloads \ {d} : held'[e] = held[e]
    BY <1>1 DEF TypeInv, TypeOK, FilesyncTypeOK, JobTypeOK
  <1>3. JobsKeepIds'
    BY <1>1, <1>2 DEF IdInv, JobsKeepIds
  <1>4. EveryJobIsHeld'
    BY <1>1, <1>2 DEF IdInv, JobsKeepIds, EveryJobIsHeld
  <1> QED
    BY <1>3, <1>4 DEF IdInv

LEMMA IdStep == TypeInv /\ IdInv /\ [Next]_vars => IdInv'
  <1> SUFFICES ASSUME TypeInv, IdInv, [Next]_vars PROVE IdInv'
    OBVIOUS
  <1>1. CASE \E d \in Downloads : StartSyncing(d) \/ Abandon(d) \/ Forget(d)
    BY <1>1, StartSyncingIds, GoneIds
  <1>2. CASE Crash
    BY <1>2 DEF Crash, RestartProcess, IdInv, JobsKeepIds, EveryJobIsHeld
  <1>3. CASE UNCHANGED <<jobOf, jobDl, cancelled, held>>
    BY <1>3 DEF IdInv, JobsKeepIds, EveryJobIsHeld
  <1> QED
    BY <1>1, <1>2, <1>3, MapUntouched

LEMMA InitIds == Init => IdInv
  BY DEF Init, FilesyncInit, NoProcess, IdInv, JobsKeepIds, EveryJobIsHeld

\* The invariant is inductive where goroutines begin promptly and ids are not
\* shared.
LEMMA RunInvStep ==
  ASSUME PromptStart, OwnIds
  PROVE  TypeInv /\ RunInv /\ [Next]_vars => RunInv'
  <1> SUFFICES ASSUME TypeInv, RunInv, [Next]_vars PROVE RunInv'
    OBVIOUS
  <1>1. ASSUME NEW r \in Runs, RunStep(r) \/ WatchRun(r), UNCHANGED clientVars PROVE RunInv'
    BY <1>1, RunStepInv
  <1>2. ASSUME NEW r \in Runs, NEW f \in Files, Acquire(r, f) \/ FileStep(r, f),
               UNCHANGED clientVars
        PROVE  RunInv'
    <2>1. UNCHANGED <<jobOf, jobStatus, cancelled, runPc, runJob, held>>
      BY <1>2 DEF Acquire, FileStep, GiveUp, Prepare, PrepareFails, TransferReturns,
                  TransferFails, Verify, jobIdVars, runIdVars, clientVars
    <2> QED
      BY <2>1, FrameInv
  <1>3. ASSUME NEW d \in Downloads, Client(d) PROVE RunInv'
    <2>1. CASE StartSyncing(d)
      BY <2>1, StartSyncingInv
    <2>2. CASE SeesPending(d)
      BY <2>2, SeesPendingInv
    <2>3. CASE Abandon(d)
      BY <2>3, AbandonInv
    <2>4. CASE Forget(d)
      BY <2>4, ForgetInv
    <2>5. CASE \/ SeesComplete(d) \/ SeesError(d) \/ StartMove(d) \/ MoveReturns(d)
               \/ Retarget(d) \/ Disposal(d)
      <3>1. UNCHANGED <<jobOf, jobStatus, cancelled, runPc, runJob, held>>
        BY <2>5 DEF SeesComplete, SeesError, StartMove, MoveReturns, Retarget, Disposal,
                    UpdateDestination, jobVars, runVars, syncerVars, clientVars
      <3> QED
        BY <3>1, FrameInv
    <2> QED
      BY <1>3, <2>1, <2>2, <2>3, <2>4, <2>5 DEF Client
  <1>4. CASE \/ MoveOne
             \/ (\E d \in Downloads : Remote(d)) /\ UNCHANGED clientVars
             \/ CancelRoot /\ UNCHANGED clientVars
             \/ UNCHANGED vars
    <2>1. UNCHANGED <<jobOf, jobStatus, cancelled, runPc, runJob, held>>
      BY <1>4 DEF MoveOne, Remote, TorrentComes, FileCompletes, TorrentGoes, CancelRoot, vars,
                  syncerVars, jobVars, runVars, clientVars
    <2> QED
      BY <2>1, FrameInv
  <1>5. CASE Crash
    <2>1. /\ \A h \in Hashes : jobOf'[h] = Nil
          /\ \A d \in Downloads : held'[d] = Nil
          /\ \A r \in Runs : runPc'[r] = "idle"
      BY <1>5 DEF Crash, RestartProcess
    <2> QED
      BY <2>1 DEF RunInv, OneRunPerJob, MapAgrees, StatusTells, Active
  <1> QED
    BY <1>1, <1>2, <1>3, <1>4, <1>5 DEF Next, SyncerStep

\* Where a started goroutine begins within a poll interval, and no two
\* downloaders have the same torrent, a job never has two runs at once.
THEOREM OneRun ==
  ASSUME PromptStart, OwnIds
  PROVE  Spec => []OneRunPerJob
  <1>1. Init => RunInv
    BY NobodyRuns DEF Init, FilesyncInit, NoProcess
  <1>2. TypeInv /\ RunInv /\ [Next]_vars => RunInv'
    BY RunInvStep
  <1>3. RunInv => OneRunPerJob
    BY DEF RunInv
  <1> QED
    BY <1>1, <1>2, <1>3, InitTyped, StepTyped, PTL DEF Spec

-----------------------------------------------------------------------------
(***************************************************************************)
(* A goroutine works on a file only while the file needs it, and as a job  *)
(* has one run, no other goroutine finishes the file behind its back.      *)
(***************************************************************************)
Working == {"acquire", "prepare", "transfer", "verify"}

WorkIsNeeded ==
  \A r \in Runs : \A f \in Files :
    work[r][f] \in Working => jobFile[runJob[r]][f] \notin Synced

\* A step of SyncFile moves one goroutine on, and is about its file alone.
LEMMA FileStepWrites ==
  ASSUME TypeInv, NEW r \in Runs, NEW f \in Files, Acquire(r, f) \/ FileStep(r, f)
  PROVE  /\ work[r][f] \in Working /\ Active(r) /\ runJob[r] \in JobIds
         /\ UNCHANGED <<runJob, runPc>>
         /\ \E pc, s : /\ Proceed(r, f, pc, s)
                       /\ pc \in Working => s \notin Synced \/ s = jobFile[runJob[r]][f]
  <1>1. work[r][f] \in Working
    BY DEF Acquire, FileStep, GiveUp, Prepare, PrepareFails, TransferReturns, TransferFails,
           Verify, Working
  <1>2. Active(r) /\ runJob[r] \in JobIds
    BY <1>1 DEF Working, TypeInv, TypeOK, FilesyncTypeOK, RunTypeOK, WorkIsWaitedFor, Active
  <1>3. UNCHANGED <<runJob, runPc>>
    BY DEF Acquire, FileStep, GiveUp, Prepare, PrepareFails, TransferReturns, TransferFails,
           Verify, runIdVars
  <1>4. \E pc, s : /\ Proceed(r, f, pc, s)
                   /\ pc \in Working => s \notin Synced \/ s = jobFile[runJob[r]][f]
    <2>1. CASE Acquire(r, f)
      BY <2>1 DEF Acquire, Synced
    <2>2. CASE FileStep(r, f)
      BY <2>2 DEF FileStep, GiveUp, Prepare, PrepareFails, TransferReturns, TransferFails, Verify,
                  Fail, Working
    <2> QED
      BY <2>1, <2>2
  <1> QED
    BY <1>1, <1>2, <1>3, <1>4

\* Nothing else writes a file's status, but the making of a job that is nobody's.
LEMMA OtherStepWrites ==
  ASSUME TypeInv, MapAgrees, [Next]_vars, ~ Crash,
         \A r \in Runs, f \in Files : ~ (Acquire(r, f) \/ FileStep(r, f))
  PROVE  \/ jobFile' = jobFile
         \/ \E j \in JobIds :
              /\ \A r \in Runs : runJob[r] # j
              /\ \A d \in Downloads : held[d] # j
              /\ \A i \in JobIds \ {j} : jobFile'[i] = jobFile[i]
  <1>1. CASE SyncerStep
    BY <1>1 DEF SyncerStep, RunStep, WatchRun, BeginRun, MarkSyncing, ListFails, FanOut, FinishRun,
                jobVars, jobIdVars
  <1>2. CASE MoveOne
    BY <1>2 DEF MoveOne, jobVars
  <1>3. ASSUME NEW d \in Downloads, StartSyncing(d)
        PROVE  \/ jobFile' = jobFile
               \/ \E j \in JobIds :
                    /\ \A r \in Runs : runJob[r] # j
                    /\ \A e \in Downloads : held[e] # j
                    /\ \A i \in JobIds \ {j} : jobFile'[i] = jobFile[i]
    <2>1. CASE \E j \in JobIds : ReuseJob(d, j)
      BY <2>1 DEF ReuseJob, jobVars
    <2>2. CASE \E j \in FreeJobs, dest \in Dests, selected \in SUBSET Files :
                 CreateJob(d, j, dest, selected)
      BY <2>2 DEF FreeJobs, Referenced, CreateJob, TypeInv, TypeOK, FilesyncTypeOK, JobTypeOK
    <2> QED
      BY <1>3, <2>1, <2>2 DEF StartSyncing
  <1>4. ASSUME NEW d \in Downloads, Client(d), ~ StartSyncing(d) PROVE jobFile' = jobFile
    BY <1>4 DEF Client, SeesPending, SeesComplete, SeesError, StartMove, MoveReturns, Retarget,
                UpdateDestination, Abandon, Forget, Disposal, jobVars, syncerVars
  <1>5. CASE (\E d \in Downloads : Remote(d)) \/ CancelRoot \/ UNCHANGED vars
    BY <1>5 DEF Remote, TorrentComes, FileCompletes, TorrentGoes, CancelRoot, jobVars, vars,
                syncerVars
  <1> QED
    BY <1>1, <1>2, <1>3, <1>4, <1>5 DEF Next

\* What the other steps do to the goroutines of a run: they are gone, started
\* for files that need it, or as before.
LEMMA OtherStepWorks ==
  ASSUME TypeInv, [Next]_vars, NEW r \in Runs, NEW f \in Files,
         \A s \in Runs, g \in Files : ~ (Acquire(s, g) \/ FileStep(s, g)),
         work'[r][f] \in Working
  PROVE  /\ runJob'[r] = runJob[r] /\ runJob[r] \in JobIds /\ Active(r)
         /\ jobFile[runJob[r]][f] \notin Synced \/ work[r][f] \in Working
  <1>1. work \in [Runs -> [Files -> WorkPc]] /\ runJob \in [Runs -> JobIds \cup {Nil}]
    BY DEF TypeInv, TypeOK, FilesyncTypeOK, RunTypeOK
  <1>2. \A s \in Runs : work[s][f] \in Working =>
          Active(s) /\ runJob[s] \in JobIds /\ runPc[s] # "idle"
    BY DEF Working, TypeInv, TypeOK, FilesyncTypeOK, RunTypeOK, WorkIsWaitedFor, Active
  <1>3. CASE UNCHANGED <<work, runJob>>
    BY <1>2, <1>3
  <1>4. ASSUME NEW s \in Runs, FanOut(s)
        PROVE  /\ runJob'[r] = runJob[r] /\ runJob[r] \in JobIds /\ Active(r)
               /\ jobFile[runJob[r]][f] \notin Synced \/ work[r][f] \in Working
    <2>1. runJob' = runJob /\ Active(s) /\ runJob[s] \in JobIds
      BY <1>4 DEF FanOut, Active, TypeInv, TypeOK, FilesyncTypeOK, RunTypeOK
    <2>2. CASE r = s
      BY <1>1, <1>4, <2>1, <2>2 DEF FanOut, Working
    <2>3. CASE r # s
      BY <1>1, <1>2, <1>4, <2>1, <2>3 DEF FanOut
    <2> QED
      BY <2>2, <2>3
  <1>5. ASSUME NEW s \in Runs, EndRun(s)
        PROVE  runJob'[r] = runJob[r] /\ work[r][f] \in Working
    BY <1>1, <1>5 DEF EndRun, NoWork, Working
  <1>6. ASSUME NEW s \in Runs, NEW j, NEW d, StartRun(s, j, d)
        PROVE  runJob'[r] = runJob[r] /\ work[r][f] \in Working
    BY <1>1, <1>2, <1>6 DEF StartRun
  <1>7. CASE Crash
    BY <1>7 DEF Crash, RestartProcess, NoWork, Working
  <1>8. CASE SyncerStep
    <2>1. PICK s \in Runs : RunStep(s) \/ WatchRun(s)
      BY <1>8 DEF SyncerStep
    <2>2. CASE BeginRun(s) \/ ListFails(s) \/ FinishRun(s)
      <3>1. EndRun(s) \/ UNCHANGED <<work, runJob>>
        BY <2>2 DEF BeginRun, ListFails, FinishRun
      <3> QED
        BY <1>2, <1>3, <1>5, <3>1
    <2>3. CASE MarkSyncing(s) \/ WatchRun(s)
      BY <1>3, <2>3 DEF MarkSyncing, WatchRun
    <2> QED
      BY <1>4, <2>1, <2>2, <2>3 DEF RunStep
  <1>9. ASSUME NEW d \in Downloads, StartSyncing(d) \/ SeesPending(d)
        PROVE  runJob'[r] = runJob[r] /\ work[r][f] \in Working
    <2>1. \E s \in Runs : \E j : StartRun(s, j, d)
      BY <1>9 DEF StartSyncing, SeesPending
    <2> QED
      BY <1>6, <2>1
  <1>10. ASSUME NEW d \in Downloads, Client(d), ~ StartSyncing(d), ~ SeesPending(d)
         PROVE  UNCHANGED <<work, runJob>>
    BY <1>10 DEF Client, SeesComplete, SeesError, StartMove, MoveReturns, Retarget, Abandon, Forget,
                 Disposal, runVars, syncerVars
  <1>11. CASE MoveOne \/ (\E d \in Downloads : Remote(d)) \/ CancelRoot \/ UNCHANGED vars
    <2>1. UNCHANGED <<work, runJob>>
      BY <1>11 DEF MoveOne, Remote, TorrentComes, FileCompletes, TorrentGoes, CancelRoot, vars,
                   syncerVars, runVars
    <2> QED
      BY <1>3, <2>1
  <1> QED
    BY <1>2, <1>3, <1>7, <1>8, <1>9, <1>10, <1>11 DEF Next

LEMMA WorkStep ==
  ASSUME TypeInv, RunInv, WorkIsNeeded, [Next]_vars
  PROVE  WorkIsNeeded'
  <1> SUFFICES ASSUME NEW r \in Runs, NEW f \in Files, work'[r][f] \in Working
               PROVE  jobFile'[runJob'[r]][f] \notin Synced
    BY DEF WorkIsNeeded
  <1>1. CASE \E s \in Runs, g \in Files : Acquire(s, g) \/ FileStep(s, g)
    <2>1. PICK s \in Runs, g \in Files : Acquire(s, g) \/ FileStep(s, g)
      BY <1>1
    <2>2. /\ work[s][g] \in Working /\ Active(s) /\ runJob[s] \in JobIds
          /\ UNCHANGED <<runJob, runPc>>
      BY <2>1, FileStepWrites
    <2>3. PICK pc, status :
            /\ Proceed(s, g, pc, status)
            /\ pc \in Working => status \notin Synced \/ status = jobFile[runJob[s]][g]
      BY <2>1, FileStepWrites
    <2>4. CASE r = s /\ f = g
      <3>1. work'[r][f] = pc /\ jobFile'[runJob[s]][g] = status
        BY <2>2, <2>3, <2>4 DEF Proceed, TypeInv, TypeOK, FilesyncTypeOK, JobTypeOK, RunTypeOK
      <3> QED
        BY <2>2, <2>3, <2>4, <3>1 DEF WorkIsNeeded
    <2>5. CASE ~ (r = s /\ f = g)
      <3>1. work[r][f] \in Working
        BY <2>3, <2>5 DEF Proceed, TypeInv, TypeOK, FilesyncTypeOK, RunTypeOK
      <3>2. Active(r) /\ runJob[r] \in JobIds
        BY <3>1 DEF Working, TypeInv, TypeOK, FilesyncTypeOK, RunTypeOK, WorkIsWaitedFor, Active
      <3>3. runJob[r] # runJob[s] \/ f # g
        BY <2>2, <2>5, <3>2 DEF RunInv, OneRunPerJob
      <3>4. jobFile'[runJob[r]][f] = jobFile[runJob[r]][f]
        BY <2>2, <2>3, <3>2, <3>3 DEF Proceed, TypeInv, TypeOK, FilesyncTypeOK, JobTypeOK
      <3> QED
        BY <2>2, <3>1, <3>4 DEF WorkIsNeeded
    <2> QED
      BY <2>4, <2>5
  <1>2. CASE \A s \in Runs, g \in Files : ~ (Acquire(s, g) \/ FileStep(s, g))
    <2>1. /\ runJob'[r] = runJob[r] /\ runJob[r] \in JobIds
          /\ jobFile[runJob[r]][f] \notin Synced
      BY <1>2, OtherStepWorks DEF WorkIsNeeded
    <2>2. ~ Crash
      BY DEF Crash, RestartProcess, NoWork, Working
    <2>3. jobFile'[runJob[r]] = jobFile[runJob[r]]
      BY <1>2, <2>1, <2>2, OtherStepWrites DEF RunInv
    <2> QED
      BY <2>1, <2>3
  <1> QED
    BY <1>1, <1>2

\* What a job is done with is left alone by every later run, and by the end of
\* earlier ones.
THEOREM SyncedStable ==
  ASSUME PromptStart, OwnIds
  PROVE  Spec => SyncedIsStable
  <1> DEFINE NeedInv == TypeInv /\ RunInv /\ WorkIsNeeded
  <1>1. Init => NeedInv
    BY InitTyped, NobodyRuns DEF Init, FilesyncInit, NoProcess, NoWork, WorkIsNeeded, Working
  <1>2. NeedInv /\ [Next]_vars => NeedInv'
    BY StepTyped, RunInvStep, WorkStep
  <1>3. ASSUME NeedInv, [Next]_vars, NEW d \in Downloads, held[d] # Nil, held'[d] = held[d],
               NEW f \in Files, jobFile[held[d]][f] \in Synced
        PROVE  jobFile'[held[d]][f] = jobFile[held[d]][f]
    <2>1. held[d] \in JobIds
      BY <1>3 DEF TypeInv, TypeOK
    <2>2. CASE \E s \in Runs, g \in Files : Acquire(s, g) \/ FileStep(s, g)
      <3>1. PICK s \in Runs, g \in Files : Acquire(s, g) \/ FileStep(s, g)
        BY <2>2
      <3>2. work[s][g] \in Working /\ runJob[s] \in JobIds
        BY <1>3, <3>1, FileStepWrites
      <3>3. \E pc, status : Proceed(s, g, pc, status)
        BY <1>3, <3>1, FileStepWrites
      <3>4. held[d] # runJob[s] \/ f # g
        BY <1>3, <3>2 DEF WorkIsNeeded
      <3> QED
        BY <1>3, <2>1, <3>2, <3>3, <3>4 DEF Proceed, TypeInv, TypeOK, FilesyncTypeOK, JobTypeOK
    <2>3. CASE \A s \in Runs, g \in Files : ~ (Acquire(s, g) \/ FileStep(s, g))
      <3>1. ~ Crash
        BY <1>3 DEF Crash
      <3> QED
        BY <1>3, <2>1, <2>3, <3>1, OtherStepWrites DEF RunInv
    <2> QED
      BY <2>2, <2>3
  <1>4. NeedInv /\ [Next]_vars =>
          [\A d \in Downloads :
             (held[d] # Nil /\ held'[d] = held[d]) =>
               \A f \in Files :
                 jobFile[held[d]][f] \in Synced =>
                   jobFile'[held[d]][f] = jobFile[held[d]][f]]_vars
    BY <1>3
  <1> HIDE DEF NeedInv
  <1> QED
    BY <1>1, <1>2, <1>4, PTL DEF Spec, SyncedIsStable

========================================================================
