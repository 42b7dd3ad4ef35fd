----------------------- MODULE OrchestratorProofs -----------------------
(***************************************************************************)
(* Proofs about Orchestrator.  Its syncer is the one of SyncService, with  *)
(* the poll loop as the client: each step is shown to be a step of         *)
(* SyncService or none, and what is proved there is used here.             *)
(***************************************************************************)
EXTENDS Orchestrator, TLAPS

\* SyncService, as in Orchestrator!Service, with its theorems.
Sync == INSTANCE SyncServiceFileProofs WITH phase <- [d \in Downloads |-> PhaseOf(d)]

-----------------------------------------------------------------------------
(***************************************************************************)
(* Orchestrator and SyncService extend the same module Filesync: what one  *)
(* calls a step of the syncer, the other does too.                         *)
(***************************************************************************)
LEMMA SameNames ==
  /\ Files = Sync!Files /\ NoFiles = Sync!NoFiles /\ NoWork = Sync!NoWork
  /\ Synced = Sync!Synced /\ Content = Sync!Content
  /\ AnyDownload = Sync!AnyDownload /\ AnyDest = Sync!AnyDest
  /\ \A j : Base(j) = Sync!Base(j) /\ Name(j) = Sync!Name(j)
  /\ \A j : Selected(j) = Sync!Selected(j) /\ Referenced(j) = Sync!Referenced(j)
  BY DEF Files, Sync!Files, NoFiles, Sync!NoFiles, NoWork, Sync!NoWork, Synced, Sync!Synced,
         Content, Sync!Content, AnyDownload, Sync!AnyDownload, AnyDest, Sync!AnyDest, Base,
         Sync!Base, Name, Sync!Name, Selected, Sync!Selected, Referenced, Sync!Referenced

LEMMA SameRuns ==
  /\ \A r : RunStep(r) = Sync!RunStep(r)
  /\ \A r : WatchRun(r) = Sync!WatchRun(r)
  /\ \A r, f : Acquire(r, f) = Sync!Acquire(r, f)
  /\ \A r, f : FileStep(r, f) = Sync!FileStep(r, f)
  <1> USE DEF Files, Sync!Files, NoWork, Sync!NoWork, Synced, Sync!Synced, AnyDownload,
         Sync!AnyDownload, Base, Sync!Base, Selected, Sync!Selected, Expired, Sync!Expired,
         EndRun, Sync!EndRun, Proceed, Sync!Proceed, Fail, Sync!Fail, Holders, Sync!Holders,
         Holding, Sync!Holding, jobVars, Sync!jobVars, diskVars, Sync!diskVars, otherVars,
         Sync!otherVars, moveVars, Sync!moveVars, remoteVars, Sync!remoteVars, jobIdVars,
         Sync!jobIdVars, runIdVars, Sync!runIdVars
  <1>1. \A r : RunStep(r) = Sync!RunStep(r)
    BY DEF RunStep, Sync!RunStep, BeginRun, Sync!BeginRun, MarkSyncing, Sync!MarkSyncing,
           ListFails, Sync!ListFails, FanOut, Sync!FanOut, FinishRun, Sync!FinishRun
  <1>2. \A r : WatchRun(r) = Sync!WatchRun(r)
    BY DEF WatchRun, Sync!WatchRun
  <1>3. \A r, f : Acquire(r, f) = Sync!Acquire(r, f)
    BY DEF Acquire, Sync!Acquire, Cardinality, Sync!Cardinality
  <1>4. \A r, f : FileStep(r, f) = Sync!FileStep(r, f)
    <2>1. \A r, f : GiveUp(r, f) = Sync!GiveUp(r, f)
      BY DEF GiveUp, Sync!GiveUp
    <2>2. \A r, f : Prepare(r, f) = Sync!Prepare(r, f)
      BY DEF Prepare, Sync!Prepare
    <2>3. \A r, f : PrepareFails(r, f) = Sync!PrepareFails(r, f)
      BY DEF PrepareFails, Sync!PrepareFails
    <2>4. \A r, f : TransferReturns(r, f) = Sync!TransferReturns(r, f)
      BY DEF TransferReturns, Sync!TransferReturns
    <2>5. \A r, f : TransferFails(r, f) = Sync!TransferFails(r, f)
      BY DEF TransferFails, Sync!TransferFails
    <2>6. \A r, f : Verify(r, f) = Sync!Verify(r, f)
      BY DEF Verify, Sync!Verify
    <2> HIDE DEF GiveUp, Prepare, PrepareFails, TransferReturns, TransferFails, Verify
    <2> QED
      BY <2>1, <2>2, <2>3, <2>4, <2>5, <2>6 DEF FileStep, Sync!FileStep
  <1> QED
    BY <1>1, <1>2, <1>3, <1>4

LEMMA SameSyncerStep == SyncerStep = Sync!SyncerStep
  BY SameRuns DEF SyncerStep, Sync!SyncerStep, Files, Sync!Files

LEMMA SameCalls ==
  /\ \A d, j, dest, selected : CreateJob(d, j, dest, selected) = Sync!CreateJob(d, j, dest, selected)
  /\ \A d, j : ReuseJob(d, j) = Sync!ReuseJob(d, j)
  /\ \A r, j, d : StartRun(r, j, d) = Sync!StartRun(r, j, d)
  /\ \A j, dest : UpdateDestination(j, dest) = Sync!UpdateDestination(j, dest)
  /\ \A d, j : RemoveFinal(d, j) = Sync!RemoveFinal(d, j)
  /\ \A h : CancelJob(h) = Sync!CancelJob(h)
  /\ \A h : RemoveJob(h) = Sync!RemoveJob(h)
  BY DEF CreateJob, Sync!CreateJob, Files, Sync!Files, Referenced, Sync!Referenced, ReuseJob,
         Sync!ReuseJob, jobVars, Sync!jobVars, StartRun, Sync!StartRun, UpdateDestination,
         Sync!UpdateDestination, RemoveFinal, Sync!RemoveFinal, Name, Sync!Name, NoFiles,
         Sync!NoFiles, CancelJob, Sync!CancelJob, RemoveStaged, Sync!RemoveStaged, Base,
         Sync!Base, RemoveJob, Sync!RemoveJob

LEMMA SameMoves ==
  /\ \A j : BeginMove(j) = Sync!BeginMove(j)
  /\ MovePasses = Sync!MovePasses /\ MoveFile = Sync!MoveFile
  /\ EndMove = Sync!EndMove /\ MoveFails = Sync!MoveFails
  BY DEF BeginMove, Sync!BeginMove, MovePasses, Sync!MovePasses, MoveFile, Sync!MoveFile, EndMove,
         Sync!EndMove, MoveFails, Sync!MoveFails, Files, Sync!Files, Synced, Sync!Synced, Base,
         Sync!Base, Name, Sync!Name, RemoveStaged, Sync!RemoveStaged, NoFiles, Sync!NoFiles,
         diskVars, Sync!diskVars

LEMMA SameSurroundings ==
  /\ \A d : TorrentComes(d) = Sync!TorrentComes(d)
  /\ \A d : FileCompletes(d) = Sync!FileCompletes(d)
  /\ \A d : TorrentGoes(d) = Sync!TorrentGoes(d)
  /\ CancelRoot = Sync!CancelRoot
  /\ RestartProcess = Sync!RestartProcess
  /\ FilesyncInit = Sync!FilesyncInit
  BY DEF TorrentComes, Sync!TorrentComes, FileCompletes, Sync!FileCompletes, TorrentGoes,
         Sync!TorrentGoes, CancelRoot, Sync!CancelRoot, RestartProcess, Sync!RestartProcess,
         FilesyncInit, Sync!FilesyncInit, NoProcess, Sync!NoProcess, NoFiles, Sync!NoFiles, NoWork,
         Sync!NoWork, Files, Sync!Files, AnyDownload, Sync!AnyDownload, AnyDest, Sync!AnyDest,
         jobVars, Sync!jobVars, runVars, Sync!runVars, moveVars, Sync!moveVars, diskVars,
         Sync!diskVars, remoteVars, Sync!remoteVars

\* What SyncService asks of its constants holds here.
LEMMA SyncAssumptions == Sync!FilesyncAssumption /\ Sync!SyncServiceAssumption
  <1>1. Sync!IsFiniteSet(Runs)
    BY FilesyncAssumption DEF FilesyncAssumption, IsFiniteSet, Sync!IsFiniteSet
  <1> QED
    BY <1>1, FilesyncAssumption, OrchestratorAssumption
    DEF Sync!FilesyncAssumption, Sync!SyncServiceAssumption

-----------------------------------------------------------------------------
(***************************************************************************)
(* What the poll loop knows.  ControlInv is inductive; it says nothing of  *)
(* the syncer but which job is being moved.                                *)
(***************************************************************************)
\* A tracked torrent has the category of an app, and a job exactly in the
\* states between the sync and the import; after them it may have one.
TrackInv ==
  /\ state \in [Downloads -> State]
  /\ origCat \in [Downloads -> Categories]
  /\ held \in [Downloads -> JobIds \cup {Nil}]
  /\ \A d \in Downloads :
       /\ Tracked(d) => origCat[d] \in AppCategories
       /\ state[d] \in {"syncing", "synced", "moving", "importing", "error"} => held[d] # Nil
       /\ state[d] \in {"untracked", "discovered"} => held[d] = Nil

\* The loop lists torrents of the apps only, and moves nothing outside a poll.
LoopInv ==
  /\ loop \in {"sleep", "poll", "check", "stopped"}
  /\ toList \subseteq Downloaders
  /\ listed \in [Downloads -> AppCategories \cup {Nil}]
  /\ seen \subseteq Downloads
  /\ toCheck \subseteq Downloads
  /\ mvJob # Nil => loop = "poll"

UserInv ==
  /\ category \in [Downloads -> Categories]
  /\ wanted \in [Downloads -> SUBSET Files]
  /\ imported \in [Downloads -> BOOLEAN]
  /\ crashes \in 0..MaxCrashes
  /\ present \subseteq Downloads

\* MoveToFinal works for the one torrent that is moving.
MoveInv ==
  /\ \A d \in Downloads : state[d] = "moving" => mvJob = held[d]
  /\ \A d, e \in Downloads : state[d] = "moving" /\ state[e] = "moving" => d = e
  /\ mvJob # Nil => \E d \in Downloads : state[d] = "moving"

ControlInv == TrackInv /\ LoopInv /\ UserInv /\ MoveInv

LEMMA InitControl == Init => ControlInv
  <1> SUFFICES ASSUME Init PROVE ControlInv
    OBVIOUS
  <1>1. AnyCategory \in Categories
    BY OrchestratorAssumption DEF AnyCategory
  <1>2. TrackInv
    BY <1>1 DEF Init, TrackInv, Tracked, State
  <1>3. LoopInv
    BY DEF Init, LoopInv, NoItems, FilesyncInit, NoProcess
  <1>4. UserInv
    BY <1>1, OrchestratorAssumption DEF Init, UserInv, FilesyncInit
  <1>5. MoveInv
    BY DEF Init, MoveInv, FilesyncInit, NoProcess
  <1> QED
    BY <1>2, <1>3, <1>4, <1>5 DEF ControlInv

\* The tracking of one torrent changes.
LEMMA TrackOne ==
  ASSUME TrackInv, NEW d \in Downloads, NEW s \in State, NEW x \in JobIds \cup {Nil},
         NEW c \in Categories,
         state' = [state EXCEPT ![d] = s],
         held' = [held EXCEPT ![d] = x],
         origCat' = [origCat EXCEPT ![d] = c],
         s # "untracked" => c \in AppCategories,
         s \in {"syncing", "synced", "moving", "importing", "error"} => x # Nil,
         s \in {"untracked", "discovered"} => x = Nil
  PROVE  TrackInv'
  <1>1. /\ state'[d] = s /\ held'[d] = x /\ origCat'[d] = c
        /\ \A e \in Downloads \ {d} :
             state'[e] = state[e] /\ held'[e] = held[e] /\ origCat'[e] = origCat[e]
    BY DEF TrackInv
  <1>2. /\ state' \in [Downloads -> State]
        /\ origCat' \in [Downloads -> Categories]
        /\ held' \in [Downloads -> JobIds \cup {Nil}]
    BY DEF TrackInv
  <1> QED
    BY <1>1, <1>2 DEF TrackInv, Tracked

\* Its state alone, or its category alone.
LEMMA TrackState ==
  ASSUME TrackInv, NEW d \in Downloads, NEW s \in State,
         state' = [state EXCEPT ![d] = s], UNCHANGED <<origCat, held>>,
         Tracked(d),
         s \in {"syncing", "synced", "moving", "importing", "error"} => held[d] # Nil,
         s \notin {"untracked", "discovered"}
  PROVE  TrackInv'
  BY DEF TrackInv, Tracked

\* No torrent starts or ends moving.
LEMMA MoveFrame ==
  ASSUME MoveInv, mvJob' = mvJob,
         \A d \in Downloads : state'[d] = "moving" <=> state[d] = "moving",
         \A d \in Downloads : state[d] = "moving" => held'[d] = held[d]
  PROVE  MoveInv'
  BY DEF MoveInv

\* While the loop waits for no move, none is under way.
LEMMA IdleMovesNothing ==
  ASSUME TrackInv, MoveInv, Idle
  PROVE  \A d \in Downloads : state[d] # "moving"
  BY DEF TrackInv, MoveInv, Idle

\* Being done with a listed torrent keeps the loop's part.
LEMMA ProcessedLoop ==
  ASSUME LoopInv, NEW d \in Downloads, Processing(d), Processed(d) \/ UNCHANGED loopVars,
         mvJob' = mvJob \/ loop = "poll"
  PROVE  LoopInv'
  BY DEF LoopInv, Processing, Processed, loopVars

-----------------------------------------------------------------------------
\* The loop's own steps.
LEMMA LoopControl ==
  ASSUME ControlInv,
         StartPoll \/ ExitLoop \/ StartCheck \/ EndPoll \/ (\E x \in Downloaders : List(x))
  PROVE  ControlInv'
  <1>1. UNCHANGED <<syncerVars, trackVars, userVars>>
    BY DEF StartPoll, ExitLoop, StartCheck, EndPoll, List
  <1>2. TrackInv' /\ UserInv' /\ MoveInv'
    BY <1>1, MoveFrame DEF ControlInv, TrackInv, UserInv, Tracked, syncerVars, remoteVars, moveVars,
                           trackVars, userVars
  <1>3. LoopInv'
    <2>1. CASE StartPoll \/ ExitLoop \/ StartCheck \/ EndPoll
      BY <1>1, <2>1 DEF ControlInv, LoopInv, StartPoll, ExitLoop, StartCheck, EndPoll, Idle,
                        syncerVars, moveVars
    <2>2. ASSUME NEW x \in Downloaders, List(x) PROVE LoopInv'
      <3>1. /\ seen' \subseteq Downloads
            /\ listed' \in [Downloads -> AppCategories \cup {Nil}]
        BY <2>2, OrchestratorAssumption DEF List, ControlInv, LoopInv, UserInv
      <3> QED
        BY <1>1, <2>2, <3>1 DEF ControlInv, LoopInv, List, Idle, syncerVars, moveVars
    <2> QED
      BY <2>1, <2>2
  <1> QED
    BY <1>2, <1>3 DEF ControlInv

\* A torrent that is no longer tracked is known by nothing.
LEMMA UntrackTracks ==
  ASSUME TrackInv, NEW d \in Downloads, Untrack(d)
  PROVE  TrackInv'
  <1>1. origCat' = [origCat EXCEPT ![d] = origCat[d]] /\ origCat[d] \in Categories
    BY DEF TrackInv, Untrack
  <1> QED
    BY <1>1, TrackOne DEF Untrack, SetState, State

\* processDownload, but for a change of category.
LEMMA AdvanceControl ==
  ASSUME ControlInv, NEW d \in Downloads,
         \/ Discover(d) \/ WaitForFiles(d) \/ SkipSync(d) \/ StartSyncing(d)
         \/ SeesPending(d) \/ SeesSyncing(d) \/ SeesComplete(d) \/ SeesError(d)
         \/ StartMove(d) \/ TriggerImport(d) \/ Rest(d) \/ Expire(d)
  PROVE  ControlInv'
  <1> USE DEF ControlInv
  <1>1. /\ Processing(d)
        /\ Processed(d) \/ UNCHANGED loopVars
        /\ loop = "poll" /\ mvJob = Nil
        /\ present' = present
    BY DEF Discover, WaitForFiles, SkipSync, StartSyncing, SeesPending, SeesSyncing,
           SeesComplete, SeesError, StartMove, TriggerImport, Rest, Expire, Advancing, Processing,
           Idle, syncerVars, remoteVars
  <1>2. LoopInv'
    BY <1>1, ProcessedLoop
  <1>3. UserInv'
    <2>1. /\ UNCHANGED <<category, wanted, crashes>>
          /\ imported' = imported \/ imported' = [imported EXCEPT ![d] = TRUE]
      BY DEF Discover, WaitForFiles, SkipSync, StartSyncing, SeesPending, SeesSyncing,
             SeesComplete, SeesError, StartMove, TriggerImport, Rest, Expire, RequestImport, userVars
    <2> QED
      BY <1>1, <2>1 DEF UserInv
  <1>4. \A e \in Downloads : state[e] # "moving"
    BY <1>1, IdleMovesNothing DEF Idle
  <1>5. CASE Discover(d)
    <2>1. TrackInv'
      <3>1. listed[d] \in AppCategories /\ listed[d] \in Categories
        BY <1>5, OrchestratorAssumption DEF Discover, Processing, LoopInv
      <3>2. held[d] = Nil /\ held' = [held EXCEPT ![d] = Nil]
        BY <1>5 DEF Discover, TrackInv, Tracked
      <3> QED
        BY <1>5, <3>1, <3>2, TrackOne DEF Discover, SetState, State
    <2>2. MoveInv'
      BY <1>4, <1>5, MoveFrame DEF Discover, SetState, TrackInv, syncerVars, moveVars
    <2> QED
      BY <1>2, <1>3, <2>1, <2>2
  <1>6. CASE WaitForFiles(d) \/ SeesPending(d) \/ SeesSyncing(d) \/ Rest(d)
    <2>1. UNCHANGED trackVars /\ UNCHANGED mvJob
      BY <1>6 DEF WaitForFiles, SeesPending, SeesSyncing, Rest, syncerVars, moveVars
    <2>2. TrackInv' /\ MoveInv'
      BY <2>1, MoveFrame DEF TrackInv, Tracked, trackVars
    <2> QED
      BY <1>2, <1>3, <2>2
  <1>7. CASE SkipSync(d) \/ SeesComplete(d) \/ SeesError(d) \/ TriggerImport(d)
    <2>1. /\ UNCHANGED <<origCat, held, mvJob>>
          /\ \E s \in {"complete", "synced", "error"} :
               /\ state' = [state EXCEPT ![d] = s]
               /\ s # "complete" => state[d] = "syncing"
          /\ state[d] \in {"discovered", "syncing", "importing"}
      BY <1>7 DEF SkipSync, SeesComplete, SeesError, TriggerImport, Advancing, SetState, syncerVars,
                  moveVars
    <2>2. TrackInv'
      BY <2>1, TrackState DEF TrackInv, Tracked, State
    <2>3. MoveInv'
      BY <1>4, <2>1, MoveFrame DEF TrackInv
    <2> QED
      BY <1>2, <1>3, <2>2, <2>3
  <1>8. CASE StartSyncing(d)
    <2>1. PICK j \in JobIds : held' = [held EXCEPT ![d] = j]
      BY <1>8 DEF StartSyncing
    <2>2. /\ state' = [state EXCEPT ![d] = "syncing"]
          /\ UNCHANGED <<origCat, mvJob>>
          /\ state[d] = "discovered"
      BY <1>8 DEF StartSyncing, Advancing, SetState, moveVars
    <2>3. TrackInv'
      <3>1. origCat' = [origCat EXCEPT ![d] = origCat[d]] /\ origCat[d] \in AppCategories
            /\ origCat[d] \in Categories /\ j # Nil
        BY <2>2, FilesyncAssumption DEF TrackInv, Tracked
      <3> QED
        BY <2>1, <2>2, <3>1, TrackOne DEF State
    <2>4. MoveInv'
      BY <1>4, <2>2, MoveFrame DEF TrackInv
    <2> QED
      BY <1>2, <1>3, <2>3, <2>4
  <1>9. CASE StartMove(d)
    <2>1. /\ state' = [state EXCEPT ![d] = "moving"]
          /\ UNCHANGED <<origCat, held>>
          /\ mvJob' = held[d]
          /\ state[d] = "synced"
      BY <1>9 DEF StartMove, Advancing, SetState, BeginMove
    <2>2. TrackInv'
      BY <2>1, TrackState DEF TrackInv, Tracked, State
    <2>3. state'[d] = "moving" /\ \A e \in Downloads \ {d} : state'[e] # "moving"
      BY <1>4, <2>1 DEF TrackInv
    <2>4. MoveInv'
      BY <2>1, <2>3 DEF MoveInv
    <2> QED
      BY <1>2, <1>3, <2>2, <2>4
  <1>10. CASE Expire(d)
    <2>1. TrackInv'
      BY <1>10, UntrackTracks DEF Expire
    <2>2. MoveInv'
      BY <1>4, <1>10, MoveFrame DEF Expire, Untrack, SetState, TrackInv, moveVars
    <2> QED
      BY <1>2, <1>3, <2>1, <2>2
  <1> QED
    BY <1>5, <1>6, <1>7, <1>8, <1>9, <1>10

\* moveToFinal under way, and its return.
LEMMA MovingControl ==
  ASSUME ControlInv, MoveOne \/ (\E d \in Downloads : MoveReturns(d))
  PROVE  ControlInv'
  <1> USE DEF ControlInv
  <1>1. CASE MoveOne
    <2>1. UNCHANGED <<mvJob, present, trackVars, loopVars, userVars>>
      BY <1>1 DEF MoveOne, MovePasses, MoveFile, remoteVars
    <2> QED
      BY <2>1, MoveFrame DEF TrackInv, LoopInv, UserInv, Tracked, trackVars, loopVars, userVars
  <1>2. ASSUME NEW d \in Downloads, MoveReturns(d) PROVE ControlInv'
    <2>1. /\ mvJob' = Nil
          /\ UNCHANGED <<present, origCat, held, loopVars, userVars>>
          /\ state[d] = "moving"
          /\ \E s \in {"importing", "error"} : state' = [state EXCEPT ![d] = s]
      BY <1>2 DEF MoveReturns, EndMove, MoveFails, SetState, remoteVars
    <2>2. TrackInv'
      BY <2>1, TrackState DEF TrackInv, Tracked, State
    <2>3. LoopInv' /\ UserInv'
      BY <2>1 DEF LoopInv, UserInv, loopVars, userVars
    <2>4. \A e \in Downloads : state'[e] # "moving"
      BY <2>1 DEF TrackInv, MoveInv
    <2>5. MoveInv'
      BY <2>1, <2>4 DEF MoveInv
    <2> QED
      BY <2>2, <2>3, <2>5
  <1> QED
    BY <1>1, <1>2

\* A change of category and a removal: the torrent is no longer tracked, or
\* tracked under another app's category.
LEMMA ChangeControl ==
  ASSUME TrackInv, UserInv, MoveInv, mvJob = Nil, NEW d \in Downloads, NEW c,
         CategoryChanged(d, c) \/ Removed(d)
  PROVE  TrackInv' /\ UserInv' /\ MoveInv' /\ mvJob' = Nil
  <1>1. UNCHANGED <<mvJob, present, category, wanted, crashes>>
    BY DEF CategoryChanged, Removed, Migrate, Redirect, CancelSync, DropTracking, moveVars,
           remoteVars, userVars
  <1>2. imported' = imported \/ imported' = [imported EXCEPT ![d] = TRUE]
    BY DEF CategoryChanged, Removed, Migrate, Redirect, CancelSync, DropTracking, RequestImport,
           userVars
  <1>3. UserInv'
    BY <1>1, <1>2 DEF UserInv
  <1>4. \A e \in Downloads : state[e] # "moving"
    BY IdleMovesNothing DEF Idle
  <1>5. CASE Untrack(d)
    <2>1. MoveInv'
      BY <1>1, <1>4, <1>5, MoveFrame DEF Untrack, SetState, TrackInv
    <2> QED
      BY <1>1, <1>3, <1>5, <2>1, UntrackTracks
  <1>6. CASE Redirect(d, c)
    <2>1. /\ UNCHANGED <<state, held>>
          /\ origCat' = [origCat EXCEPT ![d] = c]
          /\ c \in AppCategories
          /\ held[d] # Nil
      BY <1>6 DEF Redirect
    <2>2. TrackInv'
      <3>1. c \in Categories /\ Tracked(d)
        BY <2>1, OrchestratorAssumption DEF TrackInv, Tracked
      <3> QED
        BY <2>1, <3>1 DEF TrackInv, Tracked
    <2>3. MoveInv'
      BY <1>1, <2>1, MoveFrame
    <2> QED
      BY <1>1, <1>3, <2>2, <2>3
  <1> QED
    BY <1>5, <1>6 DEF CategoryChanged, Removed, Migrate, CancelSync, DropTracking

LEMMA ProcessChangedControl ==
  ASSUME ControlInv, NEW d \in Downloads, ProcessChanged(d)
  PROVE  ControlInv'
  <1>1. /\ Processing(d) /\ Processed(d) /\ mvJob = Nil
        /\ CategoryChanged(d, listed[d])
    BY DEF ProcessChanged, Processing, Idle
  <1>2. TrackInv' /\ UserInv' /\ MoveInv' /\ mvJob' = Nil
    BY <1>1, ChangeControl DEF ControlInv
  <1> QED
    BY <1>1, <1>2, ProcessedLoop DEF ControlInv

LEMMA CheckControl ==
  ASSUME ControlInv, NEW d \in Downloads, Check(d)
  PROVE  ControlInv'
  <1>1. Checking(d) /\ Checked(d) /\ mvJob = Nil
    BY DEF Check, CheckRemoved, CheckChanged, CheckUnchanged, Checking, ControlInv, LoopInv
  <1>2. TrackInv' /\ UserInv' /\ MoveInv' /\ mvJob' = Nil
    <2>1. CASE Removed(d) \/ CategoryChanged(d, category[d])
      BY <1>1, <2>1, ChangeControl DEF ControlInv
    <2>2. CASE UNCHANGED <<syncerVars, trackVars, userVars>>
      BY <1>1, <2>2 DEF ControlInv, TrackInv, UserInv, MoveInv, Tracked, syncerVars, moveVars,
                        remoteVars, trackVars, userVars
    <2> QED
      BY <2>1, <2>2 DEF Check, CheckRemoved, CheckChanged, CheckUnchanged
  <1>3. LoopInv'
    BY <1>1, <1>2 DEF ControlInv, LoopInv, Checked, Checking
  <1> QED
    BY <1>2, <1>3 DEF ControlInv

\* What happens around the poll loop.
LEMMA AroundControl ==
  ASSUME ControlInv,
         Around \/ Stop \/ (SyncerStep /\ UNCHANGED <<trackVars, loopVars, userVars>>)
  PROVE  ControlInv'
  <1> USE DEF ControlInv
  <1>1. CASE Stop \/ (SyncerStep /\ UNCHANGED <<trackVars, loopVars, userVars>>)
    <2>1. UNCHANGED <<trackVars, loopVars, userVars>> /\ UNCHANGED <<mvJob, present>>
      BY <1>1 DEF Stop, CancelRoot, SyncerStep, RunStep, BeginRun, MarkSyncing, ListFails, FanOut,
                  FinishRun, WatchRun, FileStep, Acquire, GiveUp, Prepare, PrepareFails,
                  TransferReturns, TransferFails, Verify, otherVars, moveVars, remoteVars
    <2> QED
      BY <2>1 DEF TrackInv, LoopInv, UserInv, MoveInv, Tracked, trackVars, loopVars, userVars
  <1>2. ASSUME NEW d \in Downloads,
               \/ AddTorrent(d) \/ CompleteFile(d) \/ RemoveTorrent(d)
               \/ Recategorise(d) \/ SelectFiles(d) \/ AppTakes(d)
        PROVE  ControlInv'
    <2>1. UNCHANGED <<trackVars, loopVars, mvJob, crashes>>
      BY <1>2 DEF AddTorrent, CompleteFile, RemoveTorrent, Recategorise, SelectFiles, AppTakes,
                  TorrentComes, FileCompletes, TorrentGoes, syncerVars, moveVars, userVars
    <2>2. present' \subseteq Downloads
      BY <1>2 DEF AddTorrent, CompleteFile, RemoveTorrent, Recategorise, SelectFiles, AppTakes,
                  TorrentComes, FileCompletes, TorrentGoes, syncerVars, remoteVars, UserInv
    <2>3. /\ category' \in [Downloads -> Categories]
          /\ wanted' \in [Downloads -> SUBSET Files]
          /\ imported' \in [Downloads -> BOOLEAN]
      BY <1>2 DEF AddTorrent, CompleteFile, RemoveTorrent, Recategorise, SelectFiles, AppTakes,
                  userVars, UserInv
    <2> QED
      BY <2>1, <2>2, <2>3 DEF TrackInv, LoopInv, UserInv, MoveInv, Tracked, trackVars, loopVars
  <1> QED
    BY <1>1, <1>2 DEF Around

LEMMA CrashControl ==
  ASSUME ControlInv, Crash
  PROVE  ControlInv'
  <1>1. AnyCategory \in Categories
    BY OrchestratorAssumption DEF AnyCategory
  <1>2. mvJob' = Nil /\ UNCHANGED <<present, category, wanted, imported>>
    BY DEF Crash, RestartProcess, remoteVars
  <1>3. TrackInv'
    BY <1>1 DEF Crash, TrackInv, Tracked, State
  <1>4. LoopInv'
    BY <1>2 DEF Crash, LoopInv, NoItems
  <1>5. UserInv'
    BY <1>2, OrchestratorAssumption DEF Crash, ControlInv, UserInv
  <1>6. MoveInv'
    BY <1>2 DEF Crash, MoveInv
  <1> QED
    BY <1>3, <1>4, <1>5, <1>6 DEF ControlInv

LEMMA ControlStep == ControlInv /\ [Next]_vars => ControlInv'
  <1> SUFFICES ASSUME ControlInv, [Next]_vars PROVE ControlInv'
    OBVIOUS
  <1>1. CASE PollLoop
    BY <1>1, LoopControl, AdvanceControl, MovingControl, ProcessChangedControl, CheckControl
    DEF PollLoop, Process
  <1>2. CASE Around \/ Stop \/ (SyncerStep /\ UNCHANGED <<trackVars, loopVars, userVars>>)
    BY <1>2, AroundControl
  <1>3. CASE Crash
    BY <1>3, CrashControl
  <1>4. CASE UNCHANGED vars
    BY <1>4 DEF vars, syncerVars, moveVars, remoteVars, trackVars, loopVars, userVars, ControlInv,
                TrackInv, LoopInv, UserInv, MoveInv, Tracked
  <1> QED
    BY <1>1, <1>2, <1>3, <1>4 DEF Next

-----------------------------------------------------------------------------
(***************************************************************************)
(* Each step is one of SyncService, or none.  SimInv is what that takes.   *)
(***************************************************************************)
SimInv == ControlInv /\ Sync!TypeInv /\ Sync!IdInv

\* The client's phase for a torrent is its state, but that nothing is left to
\* be done for a job that has been moved, and nothing is known without a job.
LEMMA PhaseSays ==
  ASSUME NEW d \in Downloads
  PROVE  /\ held[d] = Nil => PhaseOf(d) = "none"
         /\ (held[d] # Nil /\ state[d] \in {"importing", "complete"}) => PhaseOf(d) = "moved"
         /\ (held[d] # Nil /\ state[d] \notin {"importing", "complete"}) => PhaseOf(d) = state[d]
  BY DEF PhaseOf

\* One torrent's phase changes, or none does.
LEMMA PhaseSet ==
  ASSUME NEW d \in Downloads, NEW p, PhaseOf(d)' = p,
         \A e \in Downloads \ {d} : state'[e] = state[e] /\ held'[e] = held[e]
  PROVE  Sync!SetPhase(d, p)
  <1>1. \A e \in Downloads \ {d} : PhaseOf(e)' = PhaseOf(e)
    BY DEF PhaseOf
  <1> HIDE DEF PhaseOf
  <1> QED
    BY <1>1 DEF Sync!SetPhase

LEMMA PhasesStay ==
  ASSUME \A d \in Downloads : PhaseOf(d)' = PhaseOf(d), held' = held
  PROVE  UNCHANGED Sync!clientVars
  BY DEF Sync!clientVars

\* Steps that change neither the syncer's state nor what its client knows.
LEMMA Stutters ==
  ASSUME UNCHANGED syncerVars, UNCHANGED Sync!clientVars
  PROVE  UNCHANGED Sync!vars
  BY DEF Sync!vars, Sync!syncerVars, Sync!jobVars, Sync!runVars, Sync!moveVars, Sync!diskVars,
         Sync!remoteVars, syncerVars, jobVars, runVars, moveVars, diskVars, remoteVars

LEMMA QuietSteps ==
  ASSUME SimInv,
         \/ StartPoll \/ ExitLoop \/ StartCheck \/ EndPoll \/ (\E x \in Downloaders : List(x))
         \/ \E d \in Downloads :
              \/ Discover(d) \/ WaitForFiles(d) \/ SkipSync(d) \/ SeesSyncing(d)
              \/ TriggerImport(d) \/ Rest(d) \/ CheckUnchanged(d)
              \/ Recategorise(d) \/ SelectFiles(d)
         \/ UNCHANGED vars
  PROVE  UNCHANGED Sync!vars
  <1>1. UNCHANGED syncerVars /\ held' = held
    BY DEF StartPoll, ExitLoop, StartCheck, EndPoll, List, Discover, WaitForFiles, SkipSync,
           SeesSyncing, TriggerImport, Rest, CheckUnchanged, Recategorise, SelectFiles, trackVars,
           vars
  <1>2. \/ state' = state
        \/ \E d \in Downloads :
             \/ /\ state[d] \in {"untracked", "discovered"}
                /\ \E s \in {"discovered", "complete"} : state' = [state EXCEPT ![d] = s]
             \/ /\ state[d] = "importing"
                /\ state' = [state EXCEPT ![d] = "complete"]
    BY DEF StartPoll, ExitLoop, StartCheck, EndPoll, List, Discover, WaitForFiles, SkipSync,
           SeesSyncing, TriggerImport, Rest, CheckUnchanged, Recategorise, SelectFiles, trackVars,
           vars, Advancing, SetState, Tracked
  <1>3. \A e \in Downloads : PhaseOf(e)' = PhaseOf(e)
    BY <1>1, <1>2 DEF SimInv, ControlInv, TrackInv, PhaseOf
  <1> QED
    BY <1>1, <1>3, PhasesStay, Stutters

\* The syncer's goroutines, the downloaders and the context.
LEMMA SyncerSimulates ==
  ASSUME \/ SyncerStep /\ UNCHANGED <<trackVars, loopVars, userVars>>
         \/ Stop
         \/ \E d \in Downloads : AddTorrent(d) \/ CompleteFile(d) \/ RemoveTorrent(d)
  PROVE  Sync!Next
  <1>1. UNCHANGED trackVars
    BY DEF Stop, AddTorrent, CompleteFile, RemoveTorrent
  <1>2. UNCHANGED Sync!clientVars
    <2>1. state' = state /\ held' = held
      BY <1>1 DEF trackVars
    <2> QED
      BY <2>1, PhasesStay DEF PhaseOf
  <1>3. \/ Sync!SyncerStep \/ Sync!CancelRoot
        \/ \E d \in Downloads : Sync!Remote(d)
    BY SameSyncerStep, SameSurroundings DEF Stop, AddTorrent, CompleteFile, RemoveTorrent, Sync!Remote
  <1> QED
    BY <1>2, <1>3 DEF Sync!Next

\* The variables, too, are the same, in the same groups.
LEMMA SameFrames ==
  /\ UNCHANGED jobVars => UNCHANGED Sync!jobVars
  /\ UNCHANGED runVars => UNCHANGED Sync!runVars
  /\ UNCHANGED moveVars => UNCHANGED Sync!moveVars
  /\ UNCHANGED diskVars => UNCHANGED Sync!diskVars
  /\ UNCHANGED remoteVars => UNCHANGED Sync!remoteVars
  /\ UNCHANGED syncerVars => UNCHANGED Sync!syncerVars
  BY DEF jobVars, Sync!jobVars, runVars, Sync!runVars, moveVars, Sync!moveVars, diskVars,
         Sync!diskVars, remoteVars, Sync!remoteVars, syncerVars, Sync!syncerVars

\* The calls that begin a sync, go on with it and end it.
LEMMA StartSyncingSimulates ==
  ASSUME SimInv, NEW d \in Downloads, StartSyncing(d)
  PROVE  Sync!StartSyncing(d)
  <1>1. state[d] = "discovered" /\ held[d] = Nil /\ Idle
    BY DEF StartSyncing, Advancing, Processing, SimInv, ControlInv, TrackInv
  <1>2. PhaseOf(d) = "none" /\ Sync!PollLoopIdle
    BY <1>1, PhaseSays DEF Idle, Sync!PollLoopIdle
  <1>3. d \in present /\ ready[d] # {} /\ wanted[d] \cap ready[d] # {}
    BY DEF StartSyncing, QueryWorks
  <1>4. wanted[d] \in SUBSET Sync!Files /\ SyncDest[origCat[d]] \in Dests
    <2>1. origCat[d] \in AppCategories
      BY <1>1 DEF SimInv, ControlInv, TrackInv, Tracked
    <2> QED
      BY <2>1, SameNames, OrchestratorAssumption DEF SimInv, ControlInv, UserInv
  <1>5. PICK j \in JobIds, r \in Runs :
          /\ \/ j \in FreeJobs /\ CreateJob(d, j, SyncDest[origCat[d]], wanted[d])
             \/ ReuseJob(d, j)
          /\ StartRun(r, j, d)
          /\ held' = [held EXCEPT ![d] = j]
    BY DEF StartSyncing
  <1>6. /\ \/ /\ j \in Sync!FreeJobs
              /\ Sync!CreateJob(d, j, SyncDest[origCat[d]], wanted[d])
           \/ Sync!ReuseJob(d, j)
        /\ Sync!StartRun(r, j, d)
    <2>1. FreeJobs = Sync!FreeJobs
      BY SameNames DEF FreeJobs, Sync!FreeJobs
    <2> QED
      BY <1>5, <2>1, SameCalls
  <1>7. Sync!SetPhase(d, "syncing")
    <2>1. /\ held'[d] = j /\ j # Nil /\ state'[d] = "syncing"
          /\ \A e \in Downloads \ {d} : state'[e] = state[e] /\ held'[e] = held[e]
      BY <1>5, FilesyncAssumption DEF StartSyncing, SetState, SimInv, ControlInv, TrackInv
    <2>2. PhaseOf(d)' = "syncing"
      BY <2>1 DEF PhaseOf
    <2> QED
      BY <2>1, <2>2, PhaseSet
  <1>8. UNCHANGED <<Sync!moveVars, Sync!diskVars, Sync!remoteVars, rootCtx>>
    BY SameFrames DEF StartSyncing
  <1> QED
    BY <1>2, <1>3, <1>4, <1>5, <1>6, <1>7, <1>8 DEF Sync!StartSyncing

LEMMA SeesSimulates ==
  ASSUME SimInv, NEW d \in Downloads, SeesPending(d) \/ SeesComplete(d) \/ SeesError(d)
  PROVE  Sync!SeesPending(d) \/ Sync!SeesComplete(d) \/ Sync!SeesError(d)
  <1>1. state[d] = "syncing" /\ held[d] # Nil /\ Idle
    BY DEF SeesPending, SeesComplete, SeesError, Advancing, Processing, SimInv, ControlInv,
           TrackInv
  <1>2. PhaseOf(d) = "syncing" /\ Sync!PollLoopIdle
    BY <1>1, PhaseSays DEF Idle, Sync!PollLoopIdle
  <1>3. CASE SeesPending(d)
    <2>1. UNCHANGED Sync!clientVars
      <3>1. state' = state /\ held' = held
        BY <1>3 DEF SeesPending, trackVars
      <3> QED
        BY <3>1, PhasesStay DEF PhaseOf
    <2>2. \E r \in Runs : Sync!StartRun(r, held[d], d)
      BY <1>3, SameCalls DEF SeesPending
    <2> QED
      BY <1>2, <1>3, <2>1, <2>2, SameFrames DEF SeesPending, Sync!SeesPending
  <1>4. ASSUME NEW s \in {"synced", "error"}, state' = [state EXCEPT ![d] = s], held' = held
        PROVE  Sync!SetPhase(d, s)
    <2>1. /\ state'[d] = s /\ held'[d] # Nil
          /\ \A e \in Downloads \ {d} : state'[e] = state[e] /\ held'[e] = held[e]
      BY <1>1, <1>4 DEF SimInv, ControlInv, TrackInv
    <2>2. PhaseOf(d)' = s
      BY <2>1 DEF PhaseOf
    <2> QED
      BY <2>1, <2>2, PhaseSet
  <1>5. CASE SeesComplete(d)
    BY <1>2, <1>4, <1>5, SameFrames DEF SeesComplete, SetState, Sync!SeesComplete
  <1>6. CASE SeesError(d)
    BY <1>2, <1>4, <1>6, SameFrames DEF SeesError, SetState, Sync!SeesError
  <1> QED
    BY <1>3, <1>5, <1>6

\* moveToFinal.
LEMMA MovingSimulates ==
  ASSUME SimInv, MoveOne \/ \E d \in Downloads : StartMove(d) \/ MoveReturns(d)
  PROVE  Sync!MoveOne \/ \E d \in Downloads : Sync!StartMove(d) \/ Sync!MoveReturns(d)
  <1>1. CASE MoveOne
    <2>1. UNCHANGED Sync!clientVars
      <3>1. state' = state /\ held' = held
        BY <1>1 DEF MoveOne, trackVars
      <3> QED
        BY <3>1, PhasesStay DEF PhaseOf
    <2> QED
      BY <1>1, <2>1, SameMoves, SameFrames DEF MoveOne, Sync!MoveOne
  <1>2. ASSUME NEW d \in Downloads, NEW s \in {"moving", "importing", "error"}, held[d] # Nil,
               state' = [state EXCEPT ![d] = s], held' = held
        PROVE  Sync!SetPhase(d, IF s = "importing" THEN "moved" ELSE s)
    <2>1. /\ state'[d] = s /\ held'[d] # Nil
          /\ \A e \in Downloads \ {d} : state'[e] = state[e] /\ held'[e] = held[e]
      BY <1>2 DEF SimInv, ControlInv, TrackInv
    <2>2. PhaseOf(d)' = IF s = "importing" THEN "moved" ELSE s
      BY <2>1 DEF PhaseOf
    <2> QED
      BY <2>1, <2>2, PhaseSet
  <1>3. ASSUME NEW d \in Downloads, StartMove(d) PROVE Sync!StartMove(d)
    <2>1. PhaseOf(d) = "synced" /\ held[d] # Nil
      BY <1>3, PhaseSays DEF StartMove, Advancing, SimInv, ControlInv, TrackInv
    <2>2. Sync!SetPhase(d, "moving")
      BY <1>2, <1>3, <2>1 DEF StartMove, SetState
    <2> QED
      BY <1>3, <2>1, <2>2, SameMoves, SameFrames DEF StartMove, Sync!StartMove
  <1>4. ASSUME NEW d \in Downloads, MoveReturns(d) PROVE Sync!MoveReturns(d)
    <2>1. PhaseOf(d) = "moving" /\ held[d] # Nil
      BY <1>4, PhaseSays DEF MoveReturns, SimInv, ControlInv, TrackInv
    <2>2. \/ Sync!EndMove /\ Sync!SetPhase(d, "moved")
          \/ Sync!MoveFails /\ Sync!SetPhase(d, "error")
      BY <1>2, <1>4, <2>1, SameMoves DEF MoveReturns, SetState
    <2> QED
      BY <1>4, <2>1, <2>2, SameFrames DEF MoveReturns, Sync!MoveReturns
  <1> QED
    BY <1>1, <1>3, <1>4

-----------------------------------------------------------------------------
\* What a tracked torrent's job is, and what is on the disk.
LEMMA HeldJob ==
  ASSUME SimInv, NEW d \in Downloads, held[d] # Nil
  PROVE  held[d] \in JobIds /\ jobDest[held[d]] \in Dests
  <1>1. held[d] \in JobIds
    BY DEF SimInv, ControlInv, TrackInv
  <1>2. jobDest \in [JobIds -> Dests]
    BY DEF SimInv, Sync!TypeInv, Sync!TypeOK, Sync!FilesyncTypeOK, Sync!JobTypeOK
  <1> QED
    BY <1>1, <1>2

LEMMA FinalTyped == SimInv => final \in [Dests -> [Names -> [Files -> Content]]]
  BY SameNames DEF SimInv, Sync!TypeInv, Sync!TypeOK, Sync!FilesyncTypeOK, Sync!DiskTypeOK

\* A torrent's directories hold what they held, or less.
LEMMA Leaving ==
  ASSUME NEW d \in Downloads, NEW new \in [Dests -> [Files -> Content]],
         \A b \in Dests, f \in Files :
           \/ new[b][f] = "none"
           \/ Faults /\ new[b][f] = "part"
           \/ \E c \in Dests : new[b][f] = final[c][NameOf[d]][f],
         final' = [b \in Dests |-> [final[b] EXCEPT ![NameOf[d]] = new[b]]]
  PROVE  Sync!FilesLeave(d)
  BY SameNames DEF Sync!FilesLeave

\* One of them holds less, or nothing,
LEMMA OneLeaves ==
  ASSUME SimInv, NEW d \in Downloads, NEW b \in Dests, NEW rest \in [Files -> Content],
         \A f \in Files : rest[f] \in {"none", final[b][NameOf[d]][f]},
         final' = [final EXCEPT ![b][NameOf[d]] = rest]
  PROVE  Sync!FilesLeave(d)
  <1> DEFINE new == [c \in Dests |-> IF c = b THEN rest ELSE final[c][NameOf[d]]]
  <1>1. NameOf[d] \in Names
    BY FilesyncAssumption
  <1>2. final \in [Dests -> [Names -> [Files -> Content]]]
    BY FinalTyped
  <1>3. new \in [Dests -> [Files -> Content]]
    BY <1>1, <1>2
  <1>4. \A c \in Dests, f \in Files :
          new[c][f] = "none" \/ new[c][f] = final[c][NameOf[d]][f]
    OBVIOUS
  <1>5. final' = [c \in Dests |-> [final[c] EXCEPT ![NameOf[d]] = new[c]]]
    <2>1. \A c \in Dests : [final[c] EXCEPT ![NameOf[d]] = final[c][NameOf[d]]] = final[c]
      BY <1>1, <1>2
    <2> QED
      BY <1>2, <2>1
  <1> HIDE DEF new
  <1>6. \A c \in Dests, f \in Files :
          \/ new[c][f] = "none"
          \/ Faults /\ new[c][f] = "part"
          \/ \E e \in Dests : new[c][f] = final[e][NameOf[d]][f]
    BY <1>4
  <1> QED
    BY <1>3, <1>5, <1>6, Leaving

\* or all are as they were,
LEMMA StayingLeaves ==
  ASSUME SimInv, NEW d \in Downloads, UNCHANGED final
  PROVE  Sync!FilesLeave(d)
  <1>1. PICK b \in Dests : TRUE
    BY FilesyncAssumption
  <1>2. NameOf[d] \in Names /\ final \in [Dests -> [Names -> [Files -> Content]]]
    BY FinalTyped, FilesyncAssumption
  <1>3. final' = [final EXCEPT ![b][NameOf[d]] = final[b][NameOf[d]]]
    BY <1>2
  <1>4. final[b][NameOf[d]] \in [Files -> Content]
    BY <1>2
  <1> QED
    BY <1>3, <1>4, OneLeaves

LEMMA RemovalLeaves ==
  ASSUME SimInv, NEW d \in Downloads, held[d] # Nil, RemoveFinal(d, held[d])
  PROVE  Sync!FilesLeave(d)
  <1>1. CASE UNCHANGED final
    BY <1>1, StayingLeaves
  <1>2. CASE final' = [final EXCEPT ![jobDest[held[d]]][NameOf[d]] = NoFiles]
    <2>1. NoFiles \in [Files -> Content] /\ \A f \in Files : NoFiles[f] = "none"
      BY DEF NoFiles, Content
    <2> QED
      BY <1>2, <2>1, HeldJob, OneLeaves
  <1> QED
    BY <1>1, <1>2 DEF RemoveFinal

\* or moved.
LEMMA MovingLeaves ==
  ASSUME SimInv, NEW d \in Downloads, NEW src \in Dests, NEW dst \in Dests,
         NEW moved, NEW cut, cut # {} => Faults,
         NEW rest \in {NoFiles, final[src][NameOf[d]]},
         MoveDirectory(d, src, dst, moved, cut, rest)
  PROVE  Sync!FilesLeave(d)
  <1> DEFINE new == [b \in Dests |-> IF b = dst THEN Merged(d, src, dst, moved, cut)
                                     ELSE IF b = src THEN rest ELSE final[b][NameOf[d]]]
  <1>1. NameOf[d] \in Names
    BY FilesyncAssumption
  <1>2. final \in [Dests -> [Names -> [Files -> Content]]]
    BY FinalTyped
  <1>3. /\ Merged(d, src, dst, moved, cut) \in [Files -> Content]
        /\ \A f \in Files :
             LET new_f == Merged(d, src, dst, moved, cut)[f]
             IN  \/ Faults /\ new_f = "part"
                 \/ \E c \in Dests : new_f = final[c][NameOf[d]][f]
    BY <1>1, <1>2 DEF Merged, Content
  <1>4. rest \in [Files -> Content]
        /\ \A f \in Files : rest[f] = "none" \/ rest[f] = final[src][NameOf[d]][f]
    BY <1>1, <1>2 DEF NoFiles, Content
  <1>5. new \in [Dests -> [Files -> Content]]
    BY <1>1, <1>2, <1>3, <1>4
  <1>6. \A b \in Dests, f \in Files :
          \/ new[b][f] = "none"
          \/ Faults /\ new[b][f] = "part"
          \/ \E c \in Dests : new[b][f] = final[c][NameOf[d]][f]
    BY <1>3, <1>4
  <1>7. final' = [b \in Dests |-> [final[b] EXCEPT ![NameOf[d]] = new[b]]]
    BY <1>1, <1>2 DEF MoveDirectory
  <1> HIDE DEF new
  <1> QED
    BY <1>5, <1>6, <1>7, Leaving

\* A torrent that is complete, or never had a job, is no longer tracked.
LEMMA UntrackSimulates ==
  ASSUME SimInv, Idle, NEW d \in Downloads, state[d] = "complete" \/ held[d] = Nil,
         Sync!FilesLeave(d), ForgetJob(d), Untrack(d),
         UNCHANGED <<jobDl, jobStatus, cancelled, jobDest, jobFile, runVars, moveVars, staged,
                     remoteVars, rootCtx>>
  PROVE  Sync!Forget(d) \/ Sync!Disposal(d)
  <1>1. /\ held'[d] = Nil
        /\ \A e \in Downloads \ {d} : state'[e] = state[e] /\ held'[e] = held[e]
    BY DEF Untrack, SetState, SimInv, ControlInv, TrackInv
  <1>2. Sync!PollLoopIdle
    BY DEF Idle, Sync!PollLoopIdle
  <1>3. UNCHANGED <<Sync!runVars, Sync!moveVars, Sync!remoteVars>>
    BY SameFrames
  <1>4. CASE held[d] = Nil
    <2>1. PhaseOf(d) = "none" /\ PhaseOf(d)' = "none" /\ held' = held
      BY <1>1, <1>4, PhaseSays DEF PhaseOf, Untrack, SimInv, ControlInv, TrackInv
    <2>2. UNCHANGED Sync!clientVars
      <3>1. \A e \in Downloads : PhaseOf(e)' = PhaseOf(e)
        BY <1>1, <2>1 DEF PhaseOf
      <3> QED
        BY <2>1, <3>1, PhasesStay
    <2>3. UNCHANGED Sync!jobVars
      BY <1>4 DEF ForgetJob, Sync!jobVars
    <2> HIDE DEF PhaseOf
    <2> QED
      BY <1>3, <2>1, <2>2, <2>3 DEF Sync!Disposal
  <1>5. CASE held[d] # Nil
    <2>1. PhaseOf(d) = "moved"
      BY <1>5, PhaseSays
    <2>2. Sync!SetPhase(d, "none")
      <3>1. PhaseOf(d)' = "none"
        BY <1>1 DEF PhaseOf
      <3> QED
        BY <1>1, <3>1, PhaseSet
    <2>3. Sync!RemoveJob(HashOf[d])
      BY <1>5, SameCalls DEF ForgetJob
    <2> QED
      BY <1>2, <1>3, <2>1, <2>2, <2>3 DEF Sync!Forget, Untrack
  <1> QED
    BY <1>4, <1>5
LEMMA CancelSimulates ==
  ASSUME SimInv, Idle, NEW d \in Downloads, CancelSync(d)
  PROVE  Sync!Abandon(d)
  <1>1. state[d] # "complete" /\ held[d] # Nil
    BY DEF CancelSync
  <1>2. /\ held'[d] = Nil
        /\ \A e \in Downloads \ {d} : state'[e] = state[e] /\ held'[e] = held[e]
    BY DEF CancelSync, Untrack, SetState, SimInv, ControlInv, TrackInv
  <1>3. PhaseOf(d) # "none" /\ Sync!PollLoopIdle
    BY <1>1, PhaseSays DEF SimInv, ControlInv, TrackInv, State, Idle, Sync!PollLoopIdle
  <1>4. Sync!SetPhase(d, "none")
    <2>1. PhaseOf(d)' = "none"
      BY <1>2 DEF PhaseOf
    <2> QED
      BY <1>2, <2>1, PhaseSet
  <1>5. UNCHANGED <<Sync!runVars, Sync!moveVars, Sync!remoteVars>>
    BY SameFrames DEF CancelSync
  <1>6. Sync!CancelJob(HashOf[d]) /\ Sync!RemoveFinal(d, held[d]) /\ Sync!RemoveJob(HashOf[d])
    BY SameCalls DEF CancelSync
  <1> QED
    BY <1>3, <1>4, <1>5, <1>6 DEF Sync!Abandon, CancelSync, Untrack

LEMMA DropSimulates ==
  ASSUME SimInv, Idle, NEW d \in Downloads, NEW cleanup, DropTracking(d, cleanup)
  PROVE  Sync!Forget(d) \/ Sync!Disposal(d)
  <1>1. Sync!FilesLeave(d)
    BY RemovalLeaves, StayingLeaves DEF DropTracking
  <1> QED
    BY <1>1, UntrackSimulates DEF DropTracking

LEMMA ExpireSimulates ==
  ASSUME SimInv, NEW d \in Downloads, Expire(d)
  PROVE  Sync!Forget(d) \/ Sync!Disposal(d)
  <1>1. Sync!FilesLeave(d) /\ UNCHANGED staged
    BY StayingLeaves DEF Expire, diskVars
  <1>2. Idle /\ state[d] = "complete"
    BY DEF Expire, Advancing, Processing
  <1> QED
    BY <1>1, <1>2, UntrackSimulates DEF Expire

LEMMA MigrateSimulates ==
  ASSUME SimInv, Idle, NEW d \in Downloads, NEW c, Migrate(d, c)
  PROVE  Sync!Forget(d) \/ Sync!Disposal(d)
  <1>1. MigrateFrom(d) \in Dests /\ MigrateDest[c] \in Dests
    <2>1. origCat[d] \in AppCategories
      BY DEF Migrate, SimInv, ControlInv, TrackInv, Tracked
    <2> QED
      BY <2>1, HeldJob, OrchestratorAssumption DEF Migrate, MigrateFrom
  <1>2. \E moved, cut, rest :
          /\ cut # {} => Faults
          /\ rest \in {NoFiles, final[MigrateFrom(d)][NameOf[d]]}
          /\ MoveDirectory(d, MigrateFrom(d), MigrateDest[c], moved, cut, rest)
    <2>1. CASE \E rest \in {NoFiles} \cup (IF Faults THEN {final[MigrateFrom(d)][NameOf[d]]} ELSE {}) :
                 MoveDirectory(d, MigrateFrom(d), MigrateDest[c], Files, {}, rest)
      BY <2>1
    <2>2. CASE \E moved \in SUBSET Files, cut \in SUBSET Files :
                 /\ moved \cup cut = {} \/ Faults
                 /\ MoveDirectory(d, MigrateFrom(d), MigrateDest[c], moved, cut,
                                  final[MigrateFrom(d)][NameOf[d]])
      BY <2>2
    <2> QED
      BY <2>1, <2>2 DEF Migrate
  <1>3. Sync!FilesLeave(d)
    BY <1>1, <1>2, MovingLeaves
  <1> QED
    BY <1>3, UntrackSimulates DEF Migrate

\* Only where the job goes changes, if it changes.
LEMMA RedirectSimulates ==
  ASSUME SimInv, Idle, NEW d \in Downloads, NEW c, Redirect(d, c)
  PROVE  Sync!Retarget(d) \/ UNCHANGED Sync!vars
  <1>1. held[d] # Nil /\ c \in AppCategories /\ MigrateDest[c] \in Dests
    BY OrchestratorAssumption DEF Redirect
  <1>2. PhaseOf(d) # "none" /\ Sync!PollLoopIdle
    BY <1>1, PhaseSays DEF Redirect, SimInv, ControlInv, TrackInv, State, Idle, Sync!PollLoopIdle
  <1>3. UNCHANGED Sync!clientVars
    <2>1. state' = state /\ held' = held
      BY DEF Redirect
    <2> QED
      BY <2>1, PhasesStay DEF PhaseOf
  <1>4. CASE MigrateDest[c] = jobDest[held[d]]
    <2>1. jobDest' = jobDest
      <3>1. jobDest \in [JobIds -> Dests]
        BY DEF SimInv, Sync!TypeInv, Sync!TypeOK, Sync!FilesyncTypeOK, Sync!JobTypeOK
      <3> QED
        BY <1>4, <3>1 DEF Redirect, UpdateDestination
    <2>2. UNCHANGED syncerVars
      BY <2>1 DEF Redirect, UpdateDestination, syncerVars, jobVars
    <2> QED
      BY <1>3, <2>2, Stutters
  <1>5. CASE MigrateDest[c] # jobDest[held[d]]
    <2>1. Sync!UpdateDestination(held[d], MigrateDest[c])
      BY SameCalls DEF Redirect
    <2>2. UNCHANGED <<Sync!runVars, Sync!moveVars, Sync!diskVars, Sync!remoteVars, rootCtx>>
      BY SameFrames DEF Redirect
    <2> HIDE DEF PhaseOf
    <2> QED
      BY <1>1, <1>2, <1>3, <1>5, <2>1, <2>2 DEF Sync!Retarget
  <1> QED
    BY <1>4, <1>5

LEMMA ChangeSimulates ==
  ASSUME SimInv, Idle, NEW d \in Downloads, NEW c, CategoryChanged(d, c) \/ Removed(d)
  PROVE  \/ UNCHANGED Sync!vars
         \/ Sync!Retarget(d) \/ Sync!Abandon(d) \/ Sync!Forget(d) \/ Sync!Disposal(d)
  BY CancelSimulates, DropSimulates, MigrateSimulates, RedirectSimulates
  DEF CategoryChanged, Removed

LEMMA AppTakesSimulates ==
  ASSUME SimInv, NEW d \in Downloads, AppTakes(d)
  PROVE  Sync!Disposal(d)
  <1>1. PromptImport => PhaseOf(d) \in {"none", "moved"}
    BY PhaseSays DEF AppTakes, SimInv, ControlInv, TrackInv
  <1>2. Sync!FilesLeave(d)
    <2>1. PICK b \in Dests, taken \in SUBSET Files :
            final' = [final EXCEPT ![b][NameOf[d]] =
                        [f \in Files |-> IF f \in taken THEN "none" ELSE @[f]]]
      BY DEF AppTakes
    <2> DEFINE rest == [f \in Files |-> IF f \in taken THEN "none" ELSE final[b][NameOf[d]][f]]
    <2>2. NameOf[d] \in Names /\ final \in [Dests -> [Names -> [Files -> Content]]]
      BY FinalTyped, FilesyncAssumption
    <2>3. rest \in [Files -> Content]
      BY <2>2 DEF Content
    <2>4. final' = [final EXCEPT ![b][NameOf[d]] = rest]
      BY <2>1, <2>2
    <2>5. \A f \in Files : rest[f] \in {"none", final[b][NameOf[d]][f]}
      OBVIOUS
    <2> HIDE DEF rest
    <2> QED
      BY <2>3, <2>4, <2>5, OneLeaves
  <1>3. UNCHANGED Sync!clientVars
    <2>1. state' = state /\ held' = held
      BY DEF AppTakes, trackVars
    <2> QED
      BY <2>1, PhasesStay DEF PhaseOf
  <1>4. UNCHANGED <<Sync!jobVars, Sync!runVars, Sync!moveVars, Sync!remoteVars>>
    BY SameFrames DEF AppTakes
  <1> HIDE DEF PhaseOf
  <1> QED
    BY <1>1, <1>2, <1>3, <1>4 DEF Sync!Disposal, AppTakes

LEMMA CrashSimulates ==
  ASSUME Crash
  PROVE  Sync!Crash
  <1>1. Sync!RestartProcess /\ UNCHANGED Sync!remoteVars
    BY SameSurroundings, SameFrames DEF Crash
  <1>2. [d \in Downloads |-> PhaseOf(d)]' = [d \in Downloads |-> "none"]
    BY DEF Crash, PhaseOf
  <1>3. \/ UNCHANGED final
        \/ /\ mvJob # Nil /\ mvAt \in Sync!Files
           /\ jobFile[mvJob][mvAt] \in Sync!Synced
           /\ staged[Sync!Base(mvJob)][mvAt] # "none"
           /\ final' = [final EXCEPT ![jobDest[mvJob]][Sync!Name(mvJob)][mvAt] = "part"]
    BY SameNames DEF Crash
  <1> QED
    BY <1>1, <1>2, <1>3 DEF Crash, Sync!Crash

-----------------------------------------------------------------------------
\* Every step is one of SyncService, or changes nothing of it.
LEMMA StepSimulates ==
  ASSUME SimInv, [Next]_vars
  PROVE  [Sync!Next]_(Sync!vars)
  <1> DEFINE Simulated == Sync!Next \/ UNCHANGED Sync!vars
  <1>1. ASSUME NEW d \in Downloads, Sync!Client(d) PROVE Simulated
    BY <1>1 DEF Sync!Next
  <1>2. CASE PollLoop
    <2>1. CASE MoveOne \/ \E d \in Downloads : StartMove(d) \/ MoveReturns(d)
      BY <1>1, <2>1, MovingSimulates DEF Sync!Next, Sync!Client
    <2>2. CASE StartPoll \/ ExitLoop \/ StartCheck \/ EndPoll \/ \E x \in Downloaders : List(x)
      BY <2>2, QuietSteps
    <2>3. ASSUME NEW d \in Downloads, Process(d), ~ StartMove(d) PROVE Simulated
      <3>1. CASE StartSyncing(d)
        BY <1>1, <3>1, StartSyncingSimulates DEF Sync!Client
      <3>2. CASE SeesPending(d) \/ SeesComplete(d) \/ SeesError(d)
        BY <1>1, <3>2, SeesSimulates DEF Sync!Client
      <3>3. CASE Expire(d)
        BY <1>1, <3>3, ExpireSimulates DEF Sync!Client
      <3>4. CASE ProcessChanged(d)
        <4>1. Idle /\ CategoryChanged(d, listed[d])
          BY <3>4 DEF ProcessChanged, Processing
        <4> QED
          BY <1>1, <4>1, ChangeSimulates DEF Sync!Client
      <3>5. CASE \/ Discover(d) \/ WaitForFiles(d) \/ SkipSync(d) \/ SeesSyncing(d)
                 \/ TriggerImport(d) \/ Rest(d)
        BY <3>5, QuietSteps
      <3> QED
        BY <2>3, <3>1, <3>2, <3>3, <3>4, <3>5 DEF Process
    <2>4. ASSUME NEW d \in Downloads, Check(d) PROVE Simulated
      <3>1. Idle
        BY <2>4 DEF Check, CheckRemoved, CheckChanged, CheckUnchanged, Checking, Idle, SimInv,
                    ControlInv, LoopInv
      <3>2. CASE CheckUnchanged(d)
        BY <3>2, QuietSteps
      <3>3. CASE CheckRemoved(d) \/ CheckChanged(d)
        <4>1. Removed(d) \/ CategoryChanged(d, category[d])
          BY <3>3 DEF CheckRemoved, CheckChanged
        <4> QED
          BY <1>1, <3>1, <4>1, ChangeSimulates DEF Sync!Client
      <3> QED
        BY <2>4, <3>2, <3>3 DEF Check
    <2> QED
      BY <1>2, <2>1, <2>2, <2>3, <2>4 DEF PollLoop
  <1>3. CASE \/ SyncerStep /\ UNCHANGED <<trackVars, loopVars, userVars>>
             \/ Stop
             \/ \E d \in Downloads : AddTorrent(d) \/ CompleteFile(d) \/ RemoveTorrent(d)
    BY <1>3, SyncerSimulates
  <1>4. CASE UNCHANGED vars \/ \E d \in Downloads : Recategorise(d) \/ SelectFiles(d)
    BY <1>4, QuietSteps
  <1>5. CASE \E d \in Downloads : AppTakes(d)
    BY <1>1, <1>5, AppTakesSimulates DEF Sync!Client
  <1>6. CASE Crash
    BY <1>6, CrashSimulates DEF Sync!Next
  <1>7. Simulated
    BY <1>2, <1>3, <1>4, <1>5, <1>6 DEF Next, Around
  <1> QED
    BY <1>7

\* The initial states are SyncService's.
LEMMA InitSimulates == Init => Sync!Init
  <1> SUFFICES ASSUME Init PROVE Sync!Init
    OBVIOUS
  <1>1. [d \in Downloads |-> PhaseOf(d)] = [d \in Downloads |-> "none"]
    BY DEF Init, PhaseOf
  <1> QED
    BY <1>1, SameSurroundings DEF Init, Sync!Init

LEMMA SimStep == SimInv /\ [Next]_vars => SimInv'
  <1> SUFFICES ASSUME SimInv, [Next]_vars PROVE SimInv'
    OBVIOUS
  <1>1. [Sync!Next]_(Sync!vars)
    BY StepSimulates
  <1>2. Sync!TypeInv'
    BY <1>1, SyncAssumptions, Sync!StepTyped DEF SimInv
  <1>3. Sync!IdInv'
    BY <1>1, SyncAssumptions, Sync!IdStep DEF SimInv
  <1> QED
    BY <1>2, <1>3, ControlStep DEF SimInv

LEMMA SimInit == Init => SimInv
  BY InitControl, InitSimulates, SyncAssumptions, Sync!InitTyped, Sync!InitIds DEF SimInv

LEMMA SimHolds == Spec => []SimInv
  BY SimInit, SimStep, PTL DEF Spec

\* The orchestrator behaves as SyncService does.
LEMMA Simulates == Spec => Sync!Spec
  <1>1. SimInv /\ [Next]_vars => [Sync!Next]_(Sync!vars)
    BY StepSimulates
  <1> QED
    BY <1>1, InitSimulates, SimHolds, PTL DEF Spec, Sync!Spec

\* Orchestrator!Service is SyncService without the theorems: the same definitions
\* under another name.
LEMMA SameService ==
  /\ Service!Init = Sync!Init /\ Service!Next = Sync!Next
  /\ UNCHANGED Sync!vars => UNCHANGED Service!vars
  <1> USE DEF Service!FilesyncInit, Sync!FilesyncInit, Service!SyncerStep, Sync!SyncerStep,
              Service!clientVars, Sync!clientVars, Service!MoveOne, Sync!MoveOne, Service!Remote,
              Sync!Remote, Service!CancelRoot, Sync!CancelRoot, Service!Crash, Sync!Crash,
              Service!syncerVars, Sync!syncerVars, Service!NoProcess, Sync!NoProcess, Service!NoFiles,
              Sync!NoFiles, Service!jobVars, Sync!jobVars, Service!CancelJob, Sync!CancelJob,
              Service!RunStep, Sync!RunStep, Service!WatchRun, Sync!WatchRun, Service!Files, Sync!Files,
              Service!Acquire, Sync!Acquire, Service!FileStep, Sync!FileStep, Service!MovePasses,
              Sync!MovePasses, Service!MoveFile, Sync!MoveFile, Service!runVars, Sync!runVars,
              Service!remoteVars, Sync!remoteVars, Service!StartSyncing, Sync!StartSyncing,
              Service!SeesPending, Sync!SeesPending, Service!SeesComplete, Sync!SeesComplete,
              Service!SeesError, Sync!SeesError, Service!StartMove, Sync!StartMove, Service!MoveReturns,
              Sync!MoveReturns, Service!Retarget, Sync!Retarget, Service!Abandon, Sync!Abandon,
              Service!Forget, Sync!Forget, Service!Disposal, Sync!Disposal, Service!TorrentComes,
              Sync!TorrentComes, Service!FileCompletes, Sync!FileCompletes, Service!TorrentGoes,
              Sync!TorrentGoes, Service!moveVars, Sync!moveVars, Service!diskVars, Sync!diskVars,
              Service!RestartProcess, Sync!RestartProcess, Service!Synced, Sync!Synced, Service!Base,
              Sync!Base, Service!Name, Sync!Name, Service!AnyDownload, Sync!AnyDownload,
              Service!AnyDest, Sync!AnyDest, Service!NoWork, Sync!NoWork, Service!RemoveStaged,
              Sync!RemoveStaged, Service!BeginRun, Sync!BeginRun, Service!MarkSyncing, Sync!MarkSyncing,
              Service!ListFails, Sync!ListFails, Service!FanOut, Sync!FanOut, Service!FinishRun,
              Sync!FinishRun, Service!otherVars, Sync!otherVars, Service!Holders, Sync!Holders,
              Service!Proceed, Sync!Proceed, Service!jobIdVars, Sync!jobIdVars, Service!runIdVars,
              Sync!runIdVars, Service!GiveUp, Sync!GiveUp, Service!Prepare, Sync!Prepare,
              Service!PrepareFails, Sync!PrepareFails, Service!TransferReturns, Sync!TransferReturns,
              Service!TransferFails, Sync!TransferFails, Service!Verify, Sync!Verify,
              Service!PollLoopIdle, Sync!PollLoopIdle, Service!FreeJobs, Sync!FreeJobs,
              Service!CreateJob, Sync!CreateJob, Service!ReuseJob, Sync!ReuseJob, Service!StartRun,
              Sync!StartRun, Service!SetPhase, Sync!SetPhase, Service!BeginMove, Sync!BeginMove,
              Service!EndMove, Sync!EndMove, Service!MoveFails, Sync!MoveFails,
              Service!UpdateDestination, Sync!UpdateDestination, Service!RemoveFinal, Sync!RemoveFinal,
              Service!RemoveJob, Sync!RemoveJob, Service!FilesLeave, Sync!FilesLeave, Service!EndRun,
              Sync!EndRun, Service!Expired, Sync!Expired, Service!Selected, Sync!Selected,
              Service!Holding, Sync!Holding, Service!Fail, Sync!Fail, Service!Referenced,
              Sync!Referenced, Service!Content, Sync!Content
  <1>1. Service!SyncerStep = Sync!SyncerStep
    BY DEF Service!Cardinality, Sync!Cardinality
  <1>2. \A d : Service!Remote(d) = Sync!Remote(d)
    OBVIOUS
  <1>3. Service!MoveOne = Sync!MoveOne
    OBVIOUS
  <1>4. Service!CancelRoot = Sync!CancelRoot
    OBVIOUS
  <1>5. Service!Crash = Sync!Crash
    OBVIOUS
  <1>6. \A d : Service!StartSyncing(d) = Sync!StartSyncing(d)
    OBVIOUS
  <1>7. \A d : Service!SeesPending(d) = Sync!SeesPending(d)
    OBVIOUS
  <1>8. \A d : Service!SeesComplete(d) = Sync!SeesComplete(d)
    OBVIOUS
  <1>9. \A d : Service!SeesError(d) = Sync!SeesError(d)
    OBVIOUS
  <1>10. \A d : Service!StartMove(d) = Sync!StartMove(d)
    OBVIOUS
  <1>11. \A d : Service!MoveReturns(d) = Sync!MoveReturns(d)
    OBVIOUS
  <1>12. \A d : Service!Retarget(d) = Sync!Retarget(d)
    OBVIOUS
  <1>13. \A d : Service!Abandon(d) = Sync!Abandon(d)
    OBVIOUS
  <1>14. \A d : Service!Forget(d) = Sync!Forget(d)
    OBVIOUS
  <1>15. \A d : Service!Disposal(d) = Sync!Disposal(d)
    OBVIOUS
  <1>16. Service!Init = Sync!Init
    BY DEF Service!Init, Sync!Init
  <1>17. UNCHANGED Sync!vars => UNCHANGED Service!vars
    BY DEF Service!vars, Sync!vars
  <1> HIDE DEF Service!SyncerStep, Sync!SyncerStep, Service!Remote, Sync!Remote, Service!MoveOne,
              Sync!MoveOne, Service!CancelRoot, Sync!CancelRoot, Service!Crash, Sync!Crash
  <1> HIDE DEF Service!StartSyncing, Sync!StartSyncing, Service!SeesPending, Sync!SeesPending,
              Service!SeesComplete, Sync!SeesComplete, Service!SeesError, Sync!SeesError,
              Service!StartMove, Sync!StartMove, Service!MoveReturns, Sync!MoveReturns,
              Service!Retarget, Sync!Retarget, Service!Abandon, Sync!Abandon, Service!Forget,
              Sync!Forget, Service!Disposal, Sync!Disposal
  <1>18. \A d : Service!Client(d) = Sync!Client(d)
    BY <1>6, <1>7, <1>8, <1>9, <1>10, <1>11, <1>12, <1>13, <1>14, <1>15
    DEF Service!Client, Sync!Client
  <1>19. Service!Next = Sync!Next
    BY <1>1, <1>2, <1>3, <1>4, <1>5, <1>18 DEF Service!Next, Sync!Next
  <1> QED
    BY <1>16, <1>17, <1>19

-----------------------------------------------------------------------------
\* Every variable of the orchestrator, of its syncer and of what is around them
\* stays within its type, and a torrent has a job when its state needs one.
THEOREM TypeCorrect == Spec => []TypeOK
  <1>1. SimInv => TypeOK
    <2>1. Sync!FilesyncTypeOK => FilesyncTypeOK
      BY SameNames
      DEF FilesyncTypeOK, Sync!FilesyncTypeOK, JobTypeOK, Sync!JobTypeOK, RunTypeOK,
          Sync!RunTypeOK, MoveTypeOK, Sync!MoveTypeOK, DiskTypeOK, Sync!DiskTypeOK, RemoteTypeOK,
          Sync!RemoteTypeOK, FileStatus, Sync!FileStatus, RunPc, Sync!RunPc, WorkPc, Sync!WorkPc,
          Active, Sync!Active
    <2> QED
      BY <2>1, OrchestratorAssumption
      DEF SimInv, ControlInv, TrackInv, LoopInv, UserInv, Sync!TypeInv, Sync!TypeOK, TypeOK
  <1> QED
    BY <1>1, SimHolds, PTL

\* The orchestrator keeps to the syncer's calling protocol: each of its steps is
\* a step of SyncService, or changes nothing of it.
THEOREM Implements == Spec => ImplementsSyncService
  <1>1. SimInv /\ [Next]_vars => [Service!Next]_(Service!vars)
    BY StepSimulates, SameService
  <1>2. Init => Service!Init
    BY InitSimulates, SameService
  <1> QED
    BY <1>1, <1>2, SimHolds, PTL DEF Spec, ImplementsSyncService, Service!Spec

\* No path that ends the tracking of a torrent leaves a job in the syncer's map,
\* also where two downloaders have the same torrent.
THEOREM NothingLeaks == Spec => []NoJobLeaks
  <1>1. SimInv => NoJobLeaks
    BY DEF SimInv, Sync!IdInv, Sync!EveryJobIsHeld, NoJobLeaks
  <1> QED
    BY <1>1, SimHolds, PTL

\* Where no two downloaders have the same torrent, no path takes away the job of
\* a torrent still tracked,
THEOREM JobsOwned ==
  ASSUME Sync!OwnIds
  PROVE  Spec => []JobsAreOwned
  <1>1. Sync!MapAgrees => JobsAreOwned
    BY DEF Sync!MapAgrees, JobsAreOwned
  <1>2. Sync!Spec => []Sync!MapAgrees
    BY SyncAssumptions, Sync!MapKeepsAgreeing
  <1> QED
    BY <1>1, <1>2, Simulates, PTL

\* and what the poll loop moves, imports or keeps has not been cancelled.
THEOREM HeldLive ==
  ASSUME Sync!OwnIds
  PROVE  Spec => []HeldIsLive
  <1>1. Sync!MapAgrees => HeldIsLive
    BY DEF Sync!MapAgrees, HeldIsLive
  <1>2. Sync!Spec => []Sync!MapAgrees
    BY SyncAssumptions, Sync!MapKeepsAgreeing
  <1> QED
    BY <1>1, <1>2, Simulates, PTL

-----------------------------------------------------------------------------
(***************************************************************************)
(* What the syncer promises holds of the syncer in the orchestrator's      *)
(* hands: where a started goroutine begins before the poll loop comes      *)
(* back, apps are through with what they import before the torrent gets    *)
(* another job, no two downloaders have the same torrent and no two        *)
(* torrents one directory.                                                 *)
(***************************************************************************)
LEMMA SyncHolds ==
  ASSUME PromptStart, PromptImport, Sync!OwnIds, Sync!OwnNames
  PROVE  Spec => []Sync!Inv
  <1>1. Sync!Spec => []Sync!Inv
    BY SyncAssumptions, Sync!InvHolds
  <1> QED
    BY <1>1, Simulates, PTL

\* Never has a job two runs; a job that is complete is backed by whole files
\* until it is moved; what has been transferred is kept; no file of a job goes back
\* once it is done; and a move that returns has delivered all of them.
THEOREM SyncerServes ==
  ASSUME PromptStart, PromptImport, Sync!OwnIds, Sync!OwnNames
  PROVE  Spec => /\ [](Sync!OneRunPerJob /\ Sync!CompleteIsBacked /\ Sync!TransferredIsKept)
                 /\ Sync!SyncedIsStable /\ Sync!MoveDelivers
  <1>1. Sync!Inv => Sync!OneRunPerJob /\ Sync!CompleteIsBacked /\ Sync!TransferredIsKept
    BY SyncAssumptions, Sync!FileInvSuffices DEF Sync!Inv, Sync!RunInv
  <1>2. Sync!Spec => Sync!SyncedIsStable
    BY SyncAssumptions, Sync!SyncedStable
  <1>3. Sync!Spec => Sync!MoveDelivers
    BY SyncAssumptions, Sync!MoveDelivered
  <1> QED
    BY <1>1, <1>2, <1>3, SyncHolds, Simulates, PTL

\* With any goroutines and any torrents, the orchestrator has no more transfers
\* under way than the semaphore has places.
THEOREM TransfersBounded == Spec => []Sync!SemaphoreBound
  <1>1. Sync!Spec => []Sync!SemaphoreBound
    BY SyncAssumptions, Sync!SemaphoreHolds
  <1> QED
    BY <1>1, Simulates, PTL

-----------------------------------------------------------------------------
(***************************************************************************)
(* Where a torrent's files are.                                            *)
(***************************************************************************)
\* The apps' directories: what the first of two categories uses, a migration
\* to the second does not touch.
OwnDirectories ==
  \A a, b \in AppCategories : a # b => MigrateDest[b] \notin {SyncDest[a], MigrateDest[a]}

\* There is one app, and so no migration.
OneApp == \A a, b \in AppCategories : a = b

\* Where no two downloaders have the same torrent, other torrents have other
\* jobs, which have been made for them.
LEMMA OthersJobs ==
  ASSUME SimInv, Sync!OwnIds, NEW d \in Downloads, NEW e \in Downloads, d # e, held[e] # Nil
  PROVE  Name(held[e]) = NameOf[e] /\ held[e] # held[d]
  <1>1. \A x \in Downloads : held[x] # Nil => jobDl[held[x]] = x
    <2> SUFFICES ASSUME NEW x \in Downloads, held[x] # Nil PROVE jobDl[held[x]] = x
      OBVIOUS
    <2>1. HashOf[jobDl[held[x]]] = HashOf[x]
      BY DEF SimInv, Sync!IdInv, Sync!JobsKeepIds
    <2>2. jobDl[held[x]] \in Downloads
      BY HeldJob DEF SimInv, Sync!TypeInv, Sync!TypeOK, Sync!FilesyncTypeOK, Sync!JobTypeOK
    <2> QED
      BY <2>1, <2>2 DEF Sync!OwnIds
  <1>2. held[e] # held[d]
    BY <1>1
  <1> QED
    BY <1>1, <1>2 DEF Name

\* A change of another torrent does not touch this one's files,
LEMMA ChangesOthers ==
  ASSUME SimInv, Sync!OwnNames, NEW d \in Downloads, NEW e \in Downloads, d # e, NEW c,
         CategoryChanged(e, c) \/ Removed(e) \/ AppTakes(e)
  PROVE  \A b \in Dests : final'[b][NameOf[d]] = final[b][NameOf[d]]
  <1>1. NameOf[e] # NameOf[d] /\ NameOf[e] \in Names /\ NameOf[d] \in Names
    BY FilesyncAssumption DEF Sync!OwnNames
  <1>2. final \in [Dests -> [Names -> [Files -> Content]]]
    BY FinalTyped
  <1>3. CASE UNCHANGED final
    BY <1>3
  <1>4. CASE held[e] # Nil /\ RemoveFinal(e, held[e])
    BY <1>1, <1>2, <1>4, HeldJob DEF RemoveFinal
  <1>5. ASSUME NEW src, NEW dst, NEW moved, NEW cut, NEW rest,
               MoveDirectory(e, src, dst, moved, cut, rest)
        PROVE  \A b \in Dests : final'[b][NameOf[d]] = final[b][NameOf[d]]
    BY <1>1, <1>2, <1>5 DEF MoveDirectory
  <1>6. CASE AppTakes(e)
    BY <1>1, <1>2, <1>6 DEF AppTakes
  <1>7. CASE Migrate(e, c)
    BY <1>5, <1>7 DEF Migrate
  <1>8. CASE Redirect(e, c)
    BY <1>3, <1>8 DEF Redirect, diskVars
  <1>9. CASE CancelSync(e) \/ \E cleanup : DropTracking(e, cleanup)
    BY <1>3, <1>4, <1>9 DEF CancelSync, DropTracking
  <1> QED
    BY <1>6, <1>7, <1>8, <1>9 DEF CategoryChanged, Removed

\* nor does the move of another, or its end in a crash.
LEMMA MovesOthers ==
  ASSUME SimInv, Sync!OwnIds, Sync!OwnNames, NEW d \in Downloads, state[d] # "moving",
         MoveOne \/ (\E e \in Downloads : MoveReturns(e)) \/ Crash
  PROVE  \A b \in Dests : final'[b][NameOf[d]] = final[b][NameOf[d]]
  <1>1. NameOf[d] \in Names
    BY FilesyncAssumption
  <1>2. final \in [Dests -> [Names -> [Files -> Content]]]
    BY FinalTyped
  <1>3. mvJob # Nil => Name(mvJob) # NameOf[d] /\ jobDest[mvJob] \in Dests /\ Name(mvJob) \in Names
    <2> SUFFICES ASSUME mvJob # Nil
                 PROVE  Name(mvJob) # NameOf[d] /\ jobDest[mvJob] \in Dests /\ Name(mvJob) \in Names
      OBVIOUS
    <2>1. PICK e \in Downloads : state[e] = "moving" /\ mvJob = held[e]
      BY DEF SimInv, ControlInv, MoveInv
    <2> QED
      BY <2>1, OthersJobs, HeldJob, FilesyncAssumption DEF Sync!OwnNames
  <1>4. \/ UNCHANGED final
        \/ /\ mvJob # Nil
           /\ \E f, x : final' = [final EXCEPT ![jobDest[mvJob]][Name(mvJob)][f] = x]
    BY DEF MoveOne, MovePasses, MoveFile, MoveReturns, EndMove, MoveFails, Crash, diskVars
  <1>5. ASSUME NEW p \in Dests, NEW n \in Names, n # NameOf[d], NEW f, NEW x,
               final' = [final EXCEPT ![p][n][f] = x]
        PROVE  \A b \in Dests : final'[b][NameOf[d]] = final[b][NameOf[d]]
    BY <1>1, <1>2, <1>5
  <1>6. CASE UNCHANGED final
    BY <1>6
  <1>7. ASSUME mvJob # Nil,
               \E f, x : final' = [final EXCEPT ![jobDest[mvJob]][Name(mvJob)][f] = x]
        PROVE  \A b \in Dests : final'[b][NameOf[d]] = final[b][NameOf[d]]
    <2>1. PICK f, x : final' = [final EXCEPT ![jobDest[mvJob]][Name(mvJob)][f] = x]
      BY <1>7
    <2>2. jobDest[mvJob] \in Dests /\ Name(mvJob) \in Names /\ Name(mvJob) # NameOf[d]
      BY <1>3, <1>7
    <2> QED
      BY <1>5, <2>1, <2>2
  <1> QED
    BY <1>4, <1>6, <1>7

\* So only its own change, or an app, touches the files of a torrent that is not
\* being moved.
LEMMA FilesStay ==
  ASSUME SimInv, Sync!OwnIds, Sync!OwnNames, [Next]_vars, NEW d \in Downloads, state[d] # "moving",
         ~ AppTakes(d), ~ ProcessChanged(d), ~ CheckRemoved(d), ~ CheckChanged(d)
  PROVE  \A b \in Dests : final'[b][NameOf[d]] = final[b][NameOf[d]]
  <1>1. CASE UNCHANGED final
    BY <1>1
  <1>2. CASE MoveOne \/ (\E e \in Downloads : MoveReturns(e)) \/ Crash
    BY <1>2, MovesOthers
  <1>3. ASSUME NEW e \in Downloads, AppTakes(e) \/ ProcessChanged(e) \/ CheckRemoved(e) \/ CheckChanged(e)
        PROVE  \A b \in Dests : final'[b][NameOf[d]] = final[b][NameOf[d]]
    <2>1. e # d
      BY <1>3
    <2>2. \E c : CategoryChanged(e, c) \/ Removed(e) \/ AppTakes(e)
      BY <1>3 DEF ProcessChanged, CheckRemoved, CheckChanged
    <2> QED
      BY <2>1, <2>2, ChangesOthers
  <1>4. CASE PollLoop
    <2>1. CASE StartPoll \/ ExitLoop \/ StartCheck \/ EndPoll \/ \E x \in Downloaders : List(x)
      BY <1>1, <2>1 DEF StartPoll, ExitLoop, StartCheck, EndPoll, List, syncerVars, diskVars
    <2>2. ASSUME NEW e \in Downloads,
                 \/ Discover(e) \/ WaitForFiles(e) \/ SkipSync(e) \/ StartSyncing(e)
                 \/ SeesPending(e) \/ SeesSyncing(e) \/ SeesComplete(e) \/ SeesError(e)
                 \/ StartMove(e) \/ TriggerImport(e) \/ Rest(e) \/ Expire(e)
                 \/ CheckUnchanged(e)
          PROVE  UNCHANGED final
      BY <2>2 DEF Discover, WaitForFiles, SkipSync, StartSyncing, SeesPending, SeesSyncing,
                  SeesComplete, SeesError, StartMove, TriggerImport, Rest, Expire, CheckUnchanged,
                  syncerVars, diskVars
    <2> QED
      BY <1>1, <1>2, <1>3, <1>4, <2>1, <2>2 DEF PollLoop, Process, Check
  <1>5. CASE SyncerStep
    <2>1. PICK r \in Runs : \/ RunStep(r) \/ WatchRun(r)
                            \/ \E f \in Files : Acquire(r, f) \/ FileStep(r, f)
      BY <1>5 DEF SyncerStep
    <2>2. ASSUME RunStep(r) \/ WatchRun(r)
          PROVE  UNCHANGED final
      BY <2>2 DEF RunStep, BeginRun, MarkSyncing, ListFails, FanOut, FinishRun, WatchRun, diskVars
    <2>3. ASSUME NEW f \in Files, Acquire(r, f) \/ FileStep(r, f)
          PROVE  UNCHANGED final
      BY <2>3 DEF FileStep, Acquire, GiveUp, Prepare, PrepareFails, TransferReturns,
                  TransferFails, Verify, diskVars
    <2> QED
      BY <1>1, <2>1, <2>2, <2>3
  <1>6. ASSUME NEW e \in Downloads, 
               \/ AddTorrent(e) \/ CompleteFile(e) \/ RemoveTorrent(e)
               \/ Recategorise(e) \/ SelectFiles(e)
        PROVE  UNCHANGED final
    BY <1>6 DEF AddTorrent, CompleteFile, RemoveTorrent, Recategorise, SelectFiles, TorrentComes,
                FileCompletes, TorrentGoes, syncerVars, diskVars
  <1>7. CASE Stop \/ UNCHANGED vars
    BY <1>1, <1>7 DEF Stop, CancelRoot, vars, syncerVars, diskVars
  <1> QED
    BY <1>1, <1>2, <1>3, <1>4, <1>5, <1>6, <1>7 DEF Next, Around

\* Which job a torrent has, where that job goes and the torrent's category
\* change in few places.
LEMMA PlacesChange ==
  ASSUME SimInv, [Next]_vars
  PROVE  \/ UNCHANGED <<held, origCat, jobDest>>
         \/ Crash
         \/ \E d \in Downloads :
              \/ Discover(d) \/ StartSyncing(d)
              \/ Untrack(d) /\ UNCHANGED jobDest
              \/ \E c : Redirect(d, c) /\ c # origCat[d]
  <1> DEFINE Changes(d) == \/ Discover(d) \/ StartSyncing(d)
                           \/ Untrack(d) /\ UNCHANGED jobDest
                           \/ \E c : Redirect(d, c) /\ c # origCat[d]
  <1>1. CASE PollLoop
    <2>1. CASE StartPoll \/ ExitLoop \/ StartCheck \/ EndPoll \/ MoveOne \/ \E x \in Downloaders : List(x)
      BY <2>1 DEF StartPoll, ExitLoop, StartCheck, EndPoll, List, MoveOne, syncerVars, jobVars,
                  trackVars
    <2>2. ASSUME NEW d \in Downloads,
                 \/ WaitForFiles(d) \/ SkipSync(d)
                 \/ SeesPending(d) \/ SeesSyncing(d) \/ SeesComplete(d) \/ SeesError(d)
                 \/ StartMove(d) \/ MoveReturns(d) \/ TriggerImport(d) \/ Rest(d)
                 \/ CheckUnchanged(d)
          PROVE  UNCHANGED <<held, origCat, jobDest>>
      BY <2>2 DEF WaitForFiles, SkipSync, SeesPending, SeesSyncing, SeesComplete, SeesError,
                  StartMove, MoveReturns, TriggerImport, Rest, CheckUnchanged, syncerVars, jobVars,
                  trackVars
    <2>3. ASSUME NEW d \in Downloads, Expire(d) \/ Removed(d) PROVE Changes(d)
      BY <2>3 DEF Expire, Removed, CancelSync, DropTracking
    <2>4. ASSUME NEW d \in Downloads, NEW c, c # origCat[d], CategoryChanged(d, c) PROVE Changes(d)
      BY <2>4 DEF CategoryChanged, CancelSync, DropTracking, Migrate
    <2>5. ASSUME NEW d \in Downloads, ProcessChanged(d) \/ CheckRemoved(d) \/ CheckChanged(d)
          PROVE  Changes(d)
      BY <2>3, <2>4, <2>5 DEF ProcessChanged, CheckRemoved, CheckChanged
    <2> QED
      BY <1>1, <2>1, <2>2, <2>3, <2>5 DEF PollLoop, Process, Check
  <1>2. CASE SyncerStep /\ UNCHANGED <<trackVars, loopVars, userVars>>
    <2>1. PICK r \in Runs : \/ RunStep(r) \/ WatchRun(r)
                            \/ \E f \in Files : Acquire(r, f) \/ FileStep(r, f)
      BY <1>2 DEF SyncerStep
    <2>2. ASSUME RunStep(r) \/ WatchRun(r)
          PROVE  UNCHANGED jobDest
      BY <2>2 DEF RunStep, BeginRun, MarkSyncing, ListFails, FanOut, FinishRun, WatchRun, jobVars,
                  jobIdVars
    <2>3. ASSUME NEW f \in Files, Acquire(r, f) \/ FileStep(r, f)
          PROVE  UNCHANGED jobDest
      BY <2>3 DEF FileStep, Acquire, GiveUp, Prepare, PrepareFails, TransferReturns,
                  TransferFails, Verify, jobIdVars
    <2> QED
      BY <1>2, <2>1, <2>2, <2>3 DEF trackVars
  <1>3. CASE Around \/ Stop \/ UNCHANGED vars
    BY <1>3 DEF Around, AddTorrent, CompleteFile, RemoveTorrent, Recategorise, SelectFiles, AppTakes,
                TorrentComes, FileCompletes, TorrentGoes, Stop, CancelRoot, vars, syncerVars, jobVars,
                trackVars
  <1> QED
    BY <1>1, <1>2, <1>3 DEF Next

\* The job of a torrent goes to a directory of its category.
PlaceKept ==
  \A d \in Downloads :
    held[d] # Nil => jobDest[held[d]] \in {SyncDest[origCat[d]], MigrateDest[origCat[d]]}

LEMMA PlaceStep ==
  ASSUME SimInv, Sync!OwnIds, Sync!MapAgrees, PlaceKept, [Next]_vars
  PROVE  PlaceKept'
  <1>1. jobDest \in [JobIds -> Dests] /\ held \in [Downloads -> JobIds \cup {Nil}]
        /\ origCat \in [Downloads -> Categories]
    BY DEF SimInv, ControlInv, TrackInv, Sync!TypeInv, Sync!TypeOK, Sync!FilesyncTypeOK,
           Sync!JobTypeOK
  <1>2. CASE UNCHANGED <<held, origCat, jobDest>>
    BY <1>2 DEF PlaceKept
  <1>3. ASSUME NEW d \in Downloads, Discover(d) PROVE PlaceKept'
    <2>1. held[d] = Nil /\ UNCHANGED <<held, jobDest>>
          /\ \A e \in Downloads \ {d} : origCat'[e] = origCat[e]
      BY <1>1, <1>3 DEF Discover, Tracked, SimInv, ControlInv, TrackInv, syncerVars, jobVars
    <2> QED
      BY <2>1 DEF PlaceKept
  <1>4. ASSUME NEW d \in Downloads, StartSyncing(d) PROVE PlaceKept'
    <2>1. held[d] = Nil
      BY <1>4 DEF StartSyncing, Advancing, SimInv, ControlInv, TrackInv
    <2>2. jobOf[HashOf[d]] = Nil
      BY <2>1, FilesyncAssumption DEF Sync!MapAgrees, Sync!OwnIds
    <2>3. PICK j \in FreeJobs : /\ CreateJob(d, j, SyncDest[origCat[d]], wanted[d])
                                /\ held' = [held EXCEPT ![d] = j]
      BY <1>4, <2>2 DEF StartSyncing, ReuseJob
    <2>4. /\ j \in JobIds /\ \A e \in Downloads : held[e] # j
          /\ jobDest' = [jobDest EXCEPT ![j] = SyncDest[origCat[d]]]
          /\ origCat' = origCat
      BY <1>4, <2>3 DEF FreeJobs, CreateJob, StartSyncing
    <2> QED
      BY <1>1, <2>3, <2>4 DEF PlaceKept
  <1>5. ASSUME NEW d \in Downloads, Untrack(d), UNCHANGED jobDest PROVE PlaceKept'
    BY <1>1, <1>5 DEF Untrack, PlaceKept
  <1>6. ASSUME NEW d \in Downloads, NEW c, Redirect(d, c) PROVE PlaceKept'
    <2>1. held[d] # Nil /\ held[d] \in JobIds /\ c \in AppCategories /\ held' = held
          /\ jobDest' = [jobDest EXCEPT ![held[d]] = MigrateDest[c]]
          /\ origCat' = [origCat EXCEPT ![d] = c]
      BY <1>1, <1>6 DEF Redirect, UpdateDestination
    <2>2. \A e \in Downloads \ {d} : held[e] # held[d]
      BY <2>1, OthersJobs
    <2> QED
      BY <1>1, <2>1, <2>2 DEF PlaceKept
  <1>7. CASE Crash
    BY <1>7 DEF Crash, PlaceKept
  <1> QED
    BY <1>2, <1>3, <1>4, <1>5, <1>6, <1>7, PlacesChange

-----------------------------------------------------------------------------
\* A migration copies before it removes.
LEMMA MigrateKeeps ==
  ASSUME SimInv, NEW d \in Downloads, NEW c, Migrate(d, c), MigrateFrom(d) \in Dests,
         MigrateDest[c] \in Dests, MigrateFrom(d) # MigrateDest[c], NEW f \in Files,
         final[MigrateFrom(d)][NameOf[d]][f] = "full"
  PROVE  \E b \in Dests : final'[b][NameOf[d]][f] = "full"
  <1> DEFINE src == MigrateFrom(d)
             dst == MigrateDest[c]
             was == final[src][NameOf[d]]
  <1>1. NameOf[d] \in Names /\ final \in [Dests -> [Names -> [Files -> Content]]]
    BY FinalTyped, FilesyncAssumption
  <1>2. ASSUME NEW rest, MoveDirectory(d, src, dst, Files, {}, rest)
        PROVE  final'[dst][NameOf[d]][f] = "full"
    BY <1>1, <1>2 DEF MoveDirectory, Merged
  <1>3. ASSUME NEW moved, NEW cut, MoveDirectory(d, src, dst, moved, cut, was)
        PROVE  final'[src][NameOf[d]][f] = "full"
    BY <1>1, <1>3 DEF MoveDirectory
  <1> QED
    BY <1>2, <1>3 DEF Migrate

\* Where no two downloaders have the same torrent, no two torrents one name and
\* the apps have directories of their own, a completed torrent's files outlive
\* whatever ends its tracking, also a migration that breaks off, when no app has
\* asked for cleanup.  (Of two torrents of one name, the cleanup of one that is
\* not complete takes the files of one that is.)
THEOREM FilesSurvive ==
  ASSUME Sync!OwnIds, Sync!OwnNames, OwnDirectories
  PROVE  Spec => CompletedFilesSurvive
  <1>1. Init => PlaceKept
    BY DEF Init, PlaceKept
  <1>2. SimInv /\ Sync!MapAgrees /\ PlaceKept /\ [Next]_vars => PlaceKept'
    BY PlaceStep
  <1>3. ASSUME SimInv, PlaceKept, [Next]_vars, NEW d \in Downloads, state[d] = "complete",
               ~ AppTakes(d), origCat[d] \notin CleanOnChange \cup CleanOnRemove,
               NEW f \in Files, final[MigrateFrom(d)][NameOf[d]][f] = "full"
        PROVE  \E b \in Dests : final'[b][NameOf[d]][f] = "full"
    <2>1. origCat[d] \in AppCategories
      BY <1>3 DEF SimInv, ControlInv, TrackInv, Tracked
    <2>2. MigrateFrom(d) \in {SyncDest[origCat[d]], MigrateDest[origCat[d]]}
          /\ MigrateFrom(d) \in Dests
      BY <1>3, <2>1, OrchestratorAssumption DEF PlaceKept, MigrateFrom
    <2>3. CASE final'[MigrateFrom(d)][NameOf[d]] = final[MigrateFrom(d)][NameOf[d]]
      BY <1>3, <2>2, <2>3
    <2>4. CASE ProcessChanged(d) \/ CheckRemoved(d) \/ CheckChanged(d)
      <3>1. CASE \E c : c # origCat[d] /\ Migrate(d, c)
        <4>1. PICK c : c # origCat[d] /\ Migrate(d, c)
          BY <3>1
        <4>2. MigrateDest[c] \in Dests /\ MigrateFrom(d) # MigrateDest[c]
          BY <2>1, <2>2, <4>1, OrchestratorAssumption DEF Migrate, OwnDirectories
        <4> QED
          BY <1>3, <2>2, <4>1, <4>2, MigrateKeeps
      <3>2. CASE \/ DropTracking(d, origCat[d] \in CleanOnChange)
                 \/ DropTracking(d, origCat[d] \in CleanOnRemove)
        BY <1>3, <2>2, <3>2 DEF DropTracking
      <3> QED
        BY <1>3, <2>4, <3>1, <3>2 DEF ProcessChanged, CheckRemoved, CheckChanged, CategoryChanged,
                                      Removed, Redirect, CancelSync
    <2> QED
      BY <1>3, <2>2, <2>3, <2>4, FilesStay
  <1>4. SimInv /\ PlaceKept /\ [Next]_vars =>
          [\A d \in Downloads :
             (/\ state[d] = "complete" /\ ~ AppTakes(d)
              /\ origCat[d] \notin CleanOnChange \cup CleanOnRemove) =>
               \A f \in Files :
                 final[MigrateFrom(d)][NameOf[d]][f] = "full" =>
                   \E b \in Dests : final'[b][NameOf[d]][f] = "full"]_vars
    BY <1>3
  <1>5. Sync!Spec => []Sync!MapAgrees
    BY SyncAssumptions, Sync!MapKeepsAgreeing
  <1> QED
    BY <1>1, <1>2, <1>4, <1>5, SimHolds, Simulates, PTL DEF Spec, CompletedFilesSurvive
-----------------------------------------------------------------------------
\* What the move has delivered for a torrent about to be imported is there.
Delivered ==
  \A d \in Downloads :
    state[d] = "importing" =>
      \A f \in Selected(held[d]) : final[jobDest[held[d]]][NameOf[d]][f] = "full"

\* A torrent is about to be imported when its move has returned.
LEMMA OnlyMoveBringsImport ==
  ASSUME SimInv, [Next]_vars, NEW d \in Downloads, state[d] # "importing", state'[d] = "importing"
  PROVE  MoveReturns(d)
  <1>1. state \in [Downloads -> State]
    BY DEF SimInv, ControlInv, TrackInv
  <1>2. ~ UNCHANGED state
    OBVIOUS
  <1>3. ASSUME NEW e \in Downloads, NEW s, s # "importing" PROVE ~ SetState(e, s)
    BY <1>1, <1>3 DEF SetState
  <1>4. \A e \in Downloads : ~ Untrack(e)
    BY <1>3 DEF Untrack
  <1>5. ~ Crash
    BY DEF Crash
  <1>6. PollLoop
    BY <1>2, <1>5 DEF Next, Around, AddTorrent, CompleteFile, RemoveTorrent, Recategorise,
                      SelectFiles, AppTakes, Stop, vars, trackVars
  <1>7. \A e \in Downloads : \A c : ~ CategoryChanged(e, c) /\ ~ Removed(e)
    BY <1>2, <1>4 DEF CategoryChanged, Removed, Migrate, Redirect, CancelSync, DropTracking
  <1>8. PICK e \in Downloads : MoveReturns(e)
    BY <1>2, <1>3, <1>4, <1>6, <1>7
    DEF PollLoop, StartPoll, ExitLoop, StartCheck, EndPoll, MoveOne, List, Process, Discover,
        WaitForFiles, SkipSync, StartSyncing, SeesPending, SeesSyncing, SeesComplete, SeesError,
        StartMove, TriggerImport, Rest, Expire, ProcessChanged, Check, CheckRemoved, CheckChanged,
        CheckUnchanged, trackVars
  <1>9. e = d
    BY <1>1, <1>8 DEF MoveReturns, SetState
  <1> QED
    BY <1>8, <1>9

\* Then all of it has been delivered.
LEMMA MoveBringsFiles ==
  ASSUME SimInv, Sync!Inv, [Next]_vars, NEW d \in Downloads, MoveReturns(d),
         state'[d] = "importing", NEW f \in Selected(held[d])
  PROVE  final'[jobDest[held[d]]][NameOf[d]][f] = "full"
  <1>1. held[d] # Nil /\ held' = held /\ state[d] = "moving"
    BY DEF MoveReturns, SimInv, ControlInv, TrackInv
  <1>2. PhaseOf(d) = "moving" /\ PhaseOf(d)' = "moved"
    BY <1>1 DEF PhaseOf
  <1>3. f \in Sync!Selected(held[d])
    BY SameNames
  <1>4. [Sync!Next]_(Sync!vars)
    BY StepSimulates
  <1> HIDE DEF PhaseOf
  <1> QED
    BY <1>2, <1>3, <1>4, SyncAssumptions, Sync!ReturnDelivers

\* And it stays so until the import, where no migration takes the job elsewhere.
LEMMA DeliveredStep ==
  ASSUME PromptImport, SimInv, Sync!Inv, Sync!OwnIds, Sync!OwnNames, OneApp, Delivered, [Next]_vars
  PROVE  Delivered'
  <1> SUFFICES ASSUME NEW d \in Downloads, state'[d] = "importing"
               PROVE  \A f \in Selected(held[d])' :
                        final'[jobDest'[held'[d]]][NameOf[d]][f] = "full"
    BY DEF Delivered
  <1>1. CASE state[d] # "importing"
    <2>1. MoveReturns(d)
      BY <1>1, OnlyMoveBringsImport
    <2>2. held' = held /\ jobDest' = jobDest /\ Selected(held[d])' = Selected(held[d])
      BY <2>1 DEF MoveReturns, jobVars, Selected
    <2> QED
      BY <2>1, <2>2, MoveBringsFiles
  <1>2. CASE state[d] = "importing"
    <2>1. held[d] # Nil
      BY <1>2 DEF SimInv, ControlInv, TrackInv
    <2>2. ASSUME NEW e \in Downloads, NEW c PROVE ~ (Redirect(e, c) /\ c # origCat[e])
      BY DEF Redirect, OneApp, SimInv, ControlInv, TrackInv, Tracked
    <2>3. ~ ProcessChanged(d) /\ ~ CheckRemoved(d) /\ ~ CheckChanged(d) /\ ~ AppTakes(d)
      BY <1>2, <2>2 DEF ProcessChanged, CheckRemoved, CheckChanged, AppTakes, CategoryChanged, Removed,
                        Migrate, CancelSync, DropTracking, Untrack, SetState, SimInv, ControlInv,
                        TrackInv
    <2>4. held'[d] = held[d] /\ jobDest'[held[d]] = jobDest[held[d]]
      <3>1. CASE UNCHANGED <<held, origCat, jobDest>>
        BY <3>1
      <3>2. ASSUME NEW e \in Downloads, Discover(e)
            PROVE  held'[d] = held[d] /\ jobDest'[held[d]] = jobDest[held[d]]
        BY <3>2 DEF Discover, syncerVars, jobVars
      <3>3. ASSUME NEW e \in Downloads, StartSyncing(e)
            PROVE  held'[d] = held[d] /\ jobDest'[held[d]] = jobDest[held[d]]
        <4>1. e # d
          BY <1>2, <3>3 DEF StartSyncing, Advancing
        <4>2. held'[d] = held[d]
          BY <3>3, <4>1 DEF StartSyncing, SimInv, ControlInv, TrackInv
        <4>3. \/ jobDest' = jobDest
              \/ \E j : held[d] # j /\ jobDest' = [jobDest EXCEPT ![j] = SyncDest[origCat[e]]]
          BY <3>3 DEF StartSyncing, FreeJobs, CreateJob, ReuseJob, jobVars
        <4>4. held[d] \in JobIds /\ jobDest \in [JobIds -> Dests]
          BY <2>1 DEF SimInv, ControlInv, TrackInv, Sync!TypeInv, Sync!TypeOK, Sync!FilesyncTypeOK,
                      Sync!JobTypeOK
        <4> QED
          BY <4>2, <4>3, <4>4
      <3>4. ASSUME NEW e \in Downloads, Untrack(e), UNCHANGED jobDest
            PROVE  held'[d] = held[d] /\ jobDest'[held[d]] = jobDest[held[d]]
        BY <3>4 DEF Untrack, SetState, SimInv, ControlInv, TrackInv
      <3>5. ~ Crash
        BY DEF Crash
      <3> QED
        BY <2>2, <3>1, <3>2, <3>3, <3>4, <3>5, PlacesChange
    <2>5. Selected(held[d])' = Selected(held[d])
      <3>1. PhaseOf(d) = "moved"
        BY <1>2, <2>1, PhaseSays
      <3>2. jobStatus[held[d]] = "complete"
        BY <3>1 DEF Sync!Inv, Sync!FileInv, Sync!StatusKept
      <3>3. jobFile'[held[d]] = jobFile[held[d]]
        BY <2>1, <2>4, <3>2, StepSimulates, SyncAssumptions, Sync!CompleteFilesStay DEF Sync!Inv
      <3> QED
        BY <2>4, <3>3 DEF Selected
    <2>6. final'[jobDest[held[d]]][NameOf[d]] = final[jobDest[held[d]]][NameOf[d]]
      BY <1>2, <2>1, <2>3, FilesStay, HeldJob
    <2> QED
      BY <1>2, <2>4, <2>5, <2>6 DEF Delivered
  <1> QED
    BY <1>1, <1>2

\* Where there is one app that is through with its imports in time, a goroutine
\* begins before the poll loop comes back, no two downloaders have the same
\* torrent and no two torrents one name, every file the job was made for is at
\* the import path, in full, when the import is asked for.
THEOREM ImportSees ==
  ASSUME PromptStart, PromptImport, Sync!OwnIds, Sync!OwnNames, OneApp
  PROVE  Spec => ImportSeesFiles
  <1>1. Init => Delivered
    BY DEF Init, Delivered
  <1>2. SimInv /\ Sync!Inv /\ Delivered /\ [Next]_vars => Delivered'
    BY DeliveredStep
  <1>3. Delivered /\ [Next]_vars =>
          [\A d \in Downloads :
             (state[d] = "importing" /\ state'[d] = "complete") =>
               \A f \in Selected(held[d]) :
                 final[jobDest[held[d]]][NameOf[d]][f] = "full"]_vars
    BY DEF Delivered
  <1> QED
    BY <1>1, <1>2, <1>3, SimHolds, SyncHolds, PTL DEF Spec, ImportSeesFiles
=============================================================================
