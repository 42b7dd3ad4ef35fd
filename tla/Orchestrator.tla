---------------------------- MODULE Orchestrator ----------------------------
(***************************************************************************)
(* The orchestrator (internal/orchestrator/orchestrator.go) driving the    *)
(* syncer of module Filesync, with the downloaders and the apps around it. *)
(* One goroutine, the poll loop, lists every downloader, takes each listed *)
(* torrent one step through its life, then asks about the tracked torrents *)
(* it has not seen.  It runs beside the goroutines of the syncer, the      *)
(* users of the downloaders, and Stop.                                     *)
(***************************************************************************)
EXTENDS Filesync

CONSTANTS
  PromptStart,    \* as in SyncService
  PromptImport,   \* as in SyncService
  Downloaders,
  DlOf,           \* DlOf[d]: the downloader that has torrent d
  Categories,
  AppCategories,  \* the categories some app is configured for
  SyncDest,       \* SyncDest[c]: where startSyncing sends category c
  MigrateDest,    \* MigrateDest[c]: where a category change to c sends it
  CleanOnChange,  \* categories with cleanup_on_category_change
  CleanOnRemove,  \* categories with cleanup_on_remove
  UserActs,       \* what the users do: a subset of Acts
  MayStop,        \* TRUE: Stop may be called
  AppOutages,     \* TRUE: an import request may fail for no other reason
  MaxCrashes      \* bound: process restarts

Acts == {"remove", "recategorise", "select", "take"}

ASSUME OrchestratorAssumption ==
  /\ PromptStart \in BOOLEAN /\ PromptImport \in BOOLEAN
  /\ MayStop \in BOOLEAN /\ AppOutages \in BOOLEAN
  /\ DlOf \in [Downloads -> Downloaders]
  /\ Categories # {}
  /\ AppCategories \subseteq Categories
  /\ SyncDest \in [AppCategories -> Dests]
  /\ MigrateDest \in [AppCategories -> Dests]
  /\ CleanOnChange \subseteq AppCategories /\ CleanOnRemove \subseteq AppCategories
  /\ UserActs \subseteq Acts
  /\ MaxCrashes \in Nat
  /\ Nil \notin Categories

VARIABLES
  \* Orchestrator.tracked: State, OriginalCategory (which determines Apps) and
  \* SyncJob of each TrackedDownload
  state, origCat, held,
  \* the poll loop
  loop,       \* where it is
  toList,     \* downloaders it has still to list
  listed,     \* the category of each listed torrent it has still to process
  seen,       \* seenKeys
  toCheck,    \* keysToCheck
  \* at the downloaders and the apps
  category,   \* the torrents' categories
  wanted,     \* the files whose priority is not zero
  imported,   \* an app has accepted an import of the torrent
  crashes

trackVars == <<state, origCat, held>>
loopVars  == <<loop, toList, listed, seen, toCheck>>
userVars  == <<category, wanted, imported, crashes>>
vars == <<syncerVars, trackVars, loopVars, userVars>>

State == {"untracked", "discovered", "syncing", "synced", "moving", "importing",
          "complete", "error"}

Tracked(d) == state[d] # "untracked"

TypeOK ==
  /\ FilesyncTypeOK
  /\ state \in [Downloads -> State]
  /\ origCat \in [Downloads -> Categories]
  /\ held \in [Downloads -> JobIds \cup {Nil}]
  /\ loop \in {"sleep", "poll", "check", "stopped"}
  /\ toList \subseteq Downloaders
  /\ listed \in [Downloads -> Categories \cup {Nil}]
  /\ seen \subseteq Downloads
  /\ toCheck \subseteq Downloads
  /\ category \in [Downloads -> Categories]
  /\ wanted \in [Downloads -> SUBSET Files]
  /\ imported \in [Downloads -> BOOLEAN]
  /\ crashes \in 0..MaxCrashes
  \* the "no sync job" branches are dead code
  /\ \A d \in Downloads :
       /\ state[d] \in {"syncing", "synced", "moving", "importing"} => held[d] # Nil
       /\ state[d] \in {"untracked", "discovered"} => held[d] = Nil

AnyCategory == CHOOSE c \in Categories : TRUE
NoItems == [d \in Downloads |-> Nil]

Init ==
  /\ FilesyncInit
  /\ state = [d \in Downloads |-> "untracked"]
  /\ origCat = [d \in Downloads |-> AnyCategory]
  /\ held = [d \in Downloads |-> Nil]
  /\ loop = "sleep"
  /\ toList = {}
  /\ listed = NoItems
  /\ seen = {}
  /\ toCheck = {}
  /\ category = [d \in Downloads |-> AnyCategory]
  /\ wanted = [d \in Downloads |-> {}]
  /\ imported = [d \in Downloads |-> FALSE]
  /\ crashes = 0

-----------------------------------------------------------------------------
(***************************************************************************)
(* Calls over the network.  They carry the context that Stop cancels.      *)
(***************************************************************************)
CallMayFail == Outages \/ rootCtx
CallMayWork == ~ rootCtx

\* GetFiles and GetDownload of a torrent the downloader no longer has fail too.
QueryFails(d) == CallMayFail \/ d \notin present
QueryWorks(d) == CallMayWork /\ d \in present

\* TriggerImport of every app of the category; an error is logged.
RequestImport(d) ==
  \/ /\ CallMayWork
     /\ imported' = [imported EXCEPT ![d] = TRUE]
  \/ /\ AppOutages \/ rootCtx
     /\ UNCHANGED imported

-----------------------------------------------------------------------------
(***************************************************************************)
(* The poll loop.  MoveToFinal is called from it and is synchronous.       *)
(***************************************************************************)
Idle == mvJob = Nil

\* A tick, or the poll at the start.  When Stop has been called and a tick is
\* waiting too, select takes either.
StartPoll ==
  /\ loop = "sleep"
  /\ loop' = "poll"
  /\ toList' = Downloaders
  /\ seen' = {}
  /\ UNCHANGED <<syncerVars, trackVars, listed, toCheck, userVars>>

ExitLoop ==
  /\ loop = "sleep"
  /\ rootCtx
  /\ loop' = "stopped"
  /\ UNCHANGED <<syncerVars, trackVars, toList, listed, seen, toCheck, userVars>>

\* ListDownloads of one downloader, restricted to the apps' categories.
List(x) ==
  /\ loop = "poll" /\ Idle
  /\ x \in toList /\ listed = NoItems
  /\ toList' = toList \ {x}
  /\ \/ /\ CallMayWork
        /\ LET items == {d \in present : DlOf[d] = x /\ category[d] \in AppCategories}
           IN  /\ listed' = [d \in Downloads |-> IF d \in items THEN category[d] ELSE Nil]
               /\ seen' = seen \cup items
     \/ /\ CallMayFail
        /\ UNCHANGED <<listed, seen>>
  /\ UNCHANGED <<syncerVars, trackVars, loop, toCheck, userVars>>

\* checkForChangesAndRemovals collects the tracked torrents no list held.
StartCheck ==
  /\ loop = "poll" /\ Idle
  /\ toList = {} /\ listed = NoItems
  /\ loop' = "check"
  /\ toCheck' = {d \in Downloads : Tracked(d)} \ seen
  /\ UNCHANGED <<syncerVars, trackVars, toList, listed, seen, userVars>>

EndPoll ==
  /\ loop = "check"
  /\ toCheck = {}
  /\ loop' = "sleep"
  /\ UNCHANGED <<syncerVars, trackVars, toList, listed, seen, toCheck, userVars>>

\* Taking the next listed torrent, and being done with it.
Processing(d) == loop = "poll" /\ Idle /\ listed[d] # Nil
Processed(d) ==
  /\ listed' = [listed EXCEPT ![d] = Nil]
  /\ UNCHANGED <<loop, toList, seen, toCheck>>

\* Likewise for a torrent that has to be asked about.
Checking(d) == loop = "check" /\ d \in toCheck
Checked(d) ==
  /\ toCheck' = toCheck \ {d}
  /\ UNCHANGED <<loop, toList, listed, seen>>

SetState(d, s) == state' = [state EXCEPT ![d] = s]

-----------------------------------------------------------------------------
(***************************************************************************)
(* processDownload and advanceState: one action per state of the torrent   *)
(* and outcome.  The item's category is the one it was listed with.        *)
(***************************************************************************)
\* A torrent of an app's category is tracked; the same pass goes on with it.
Discover(d) ==
  /\ Processing(d)
  /\ ~ Tracked(d)
  /\ SetState(d, "discovered")
  /\ origCat' = [origCat EXCEPT ![d] = listed[d]]
  /\ UNCHANGED <<syncerVars, held, loopVars, userVars>>

\* The item is tracked under the category it is listed with: its state s is
\* advanced.
Advancing(d, s) ==
  /\ Processing(d)
  /\ state[d] = s
  /\ listed[d] = origCat[d]
  /\ Processed(d)

\* startSyncing returns early: no answer, or no selected file complete yet.
WaitForFiles(d) ==
  /\ Advancing(d, "discovered")
  /\ QueryFails(d) \/ wanted[d] \cap ready[d] = {}
  /\ UNCHANGED <<syncerVars, trackVars, userVars>>

\* checkFilesAtFinal.
AllAtFinal(d, dest) ==
  wanted[d] # {} /\ \A f \in wanted[d] : final[dest][NameOf[d]][f] = "full"

\* startSyncing finds every selected file at the destination.
SkipSync(d) ==
  /\ Advancing(d, "discovered")
  /\ QueryWorks(d) /\ wanted[d] \cap ready[d] # {}
  /\ AllAtFinal(d, SyncDest[origCat[d]])
  /\ SetState(d, "complete")
  /\ UNCHANGED <<syncerVars, origCat, held, userVars>>

FreeJobs == {j \in JobIds : ~ Referenced(j) /\ \A d \in Downloads : held[d] # j}

\* startSyncing creates the job, or is given the one of that id, and runs it.
StartSyncing(d) ==
  /\ Advancing(d, "discovered")
  /\ QueryWorks(d) /\ wanted[d] \cap ready[d] # {}
  /\ ~ AllAtFinal(d, SyncDest[origCat[d]])
  /\ \E j \in JobIds, r \in Runs :
       /\ \/ j \in FreeJobs /\ CreateJob(d, j, SyncDest[origCat[d]], wanted[d])
          \/ ReuseJob(d, j)
       /\ StartRun(r, j, d)
       /\ held' = [held EXCEPT ![d] = j]
  /\ SetState(d, "syncing")
  /\ UNCHANGED <<moveVars, diskVars, remoteVars, rootCtx, origCat, userVars>>

\* Mutant: a pending job that was started counts as done.
SeesPendingDone(d) ==
  /\ Advancing(d, "syncing")
  /\ jobStatus[held[d]] = "pending"
  /\ PromptStart => \A r \in Runs :
       runJob[r] = held[d] => runPc[r] \notin {"begin", "mark"}
  /\ SetState(d, "synced")
  /\ UNCHANGED <<syncerVars, origCat, held, userVars>>

\* Mutant: a pending job is left alone.
SeesPendingIdle(d) ==
  /\ Advancing(d, "syncing")
  /\ jobStatus[held[d]] = "pending"
  /\ UNCHANGED <<syncerVars, trackVars, userVars>>

\* continueSyncing, by the status of the job.
SeesPending(d) ==
  /\ Advancing(d, "syncing")
  /\ jobStatus[held[d]] = "pending"
  /\ PromptStart => \A r \in Runs :
       runJob[r] = held[d] => runPc[r] \notin {"begin", "mark"}
  /\ \E r \in Runs : StartRun(r, held[d], d)
  /\ UNCHANGED <<jobVars, moveVars, diskVars, remoteVars, rootCtx, trackVars, userVars>>

SeesSyncing(d) ==
  /\ Advancing(d, "syncing")
  /\ jobStatus[held[d]] = "syncing"
  /\ UNCHANGED <<syncerVars, trackVars, userVars>>

SeesComplete(d) ==
  /\ Advancing(d, "syncing")
  /\ jobStatus[held[d]] = "complete"
  /\ SetState(d, "synced")
  /\ UNCHANGED <<syncerVars, origCat, held, userVars>>

SeesError(d) ==
  /\ Advancing(d, "syncing")
  /\ jobStatus[held[d]] = "error"
  /\ SetState(d, "error")
  /\ UNCHANGED <<syncerVars, origCat, held, userVars>>

\* moveToFinal: the call, its steps, and its two results.
StartMove(d) ==
  /\ Advancing(d, "synced")
  /\ BeginMove(held[d])
  /\ SetState(d, "moving")
  /\ UNCHANGED <<jobVars, runVars, diskVars, remoteVars, rootCtx, origCat, held, userVars>>

MoveOne ==
  /\ MovePasses \/ MoveFile
  /\ UNCHANGED <<jobVars, runVars, remoteVars, rootCtx, trackVars, loopVars, userVars>>

MoveReturns(d) ==
  /\ state[d] = "moving"
  /\ \/ EndMove /\ SetState(d, "importing")
     \/ MoveFails /\ SetState(d, "error")
  /\ UNCHANGED <<jobVars, runVars, remoteVars, rootCtx, origCat, held, loopVars, userVars>>

\* triggerImport asks every app and then calls the torrent complete.
TriggerImport(d) ==
  /\ Advancing(d, "importing")
  /\ RequestImport(d)
  /\ SetState(d, "complete")
  /\ UNCHANGED <<syncerVars, origCat, held, category, wanted, crashes>>

\* Nothing is left to do for a complete torrent, and nothing is done for one in
\* error.
Rest(d) ==
  /\ Advancing(d, "complete") \/ Advancing(d, "error")
  /\ UNCHANGED <<syncerVars, trackVars, userVars>>

-----------------------------------------------------------------------------
\* Mutant: the entry keeps its job.
UntrackKeepsJob(d) ==
  /\ SetState(d, "untracked")
  /\ UNCHANGED <<origCat, held>>

\* The torrent leaves the tracked map, its job the syncer's.
Untrack(d) ==
  /\ SetState(d, "untracked")
  /\ held' = [held EXCEPT ![d] = Nil]
  /\ UNCHANGED origCat

\* Mutant: nobody removes the job from the syncer.
ForgetJobNot(d) == UNCHANGED jobOf

ForgetJob(d) == IF held[d] = Nil THEN UNCHANGED jobOf ELSE RemoveJob(HashOf[d])

\* cleanup: a day after its completion the torrent is no longer tracked.
Expire(d) ==
  /\ Advancing(d, "complete")
  /\ Untrack(d)
  /\ ForgetJob(d)
  /\ UNCHANGED <<jobDl, jobStatus, cancelled, jobDest, jobFile, runVars, moveVars,
                 diskVars, remoteVars, rootCtx, userVars>>

\* Mutant: the entry is kept, in error.
CancelSyncKept(d) ==
  /\ state[d] # "complete"
  /\ held[d] # Nil
  /\ CancelJob(HashOf[d])
  /\ RemoveFinal(d, held[d])
  /\ RemoveJob(HashOf[d])
  /\ SetState(d, "error")
  /\ UNCHANGED <<jobDl, jobDest, jobFile, runVars, moveVars, remoteVars, rootCtx,
                 origCat, held, userVars>>

\* Mutant: the job is removed, but not cancelled.
CancelSyncRunning(d) ==
  /\ state[d] # "complete"
  /\ held[d] # Nil
  /\ RemoveFinal(d, held[d])
  /\ RemoveJob(HashOf[d])
  /\ Untrack(d)
  /\ UNCHANGED <<jobDl, jobStatus, cancelled, jobDest, jobFile, runVars, moveVars,
                 staged, remoteVars, rootCtx, userVars>>

\* An unfinished torrent with a job: cancelled, its files removed, forgotten.
CancelSync(d) ==
  /\ state[d] # "complete"
  /\ held[d] # Nil
  /\ CancelJob(HashOf[d])
  /\ RemoveFinal(d, held[d])
  /\ RemoveJob(HashOf[d])
  /\ Untrack(d)
  /\ UNCHANGED <<jobDl, jobDest, jobFile, runVars, moveVars, remoteVars, rootCtx, userVars>>

\* Any other torrent: its files go if it has a job, is complete and an app of
\* its wants that.
DropTracking(d, cleanup) ==
  /\ state[d] = "complete" \/ held[d] = Nil
  /\ IF cleanup /\ held[d] # Nil THEN RemoveFinal(d, held[d]) ELSE UNCHANGED final
  /\ ForgetJob(d)
  /\ Untrack(d)
  /\ UNCHANGED <<jobDl, jobStatus, cancelled, jobDest, jobFile, runVars, moveVars, staged,
                 remoteVars, rootCtx, userVars>>

\* Mutant: the job is dropped, to be made anew at the new destination.
RedirectAnew(d, c) ==
  /\ c \in AppCategories
  /\ state[d] # "complete" /\ held[d] # Nil
  /\ RemoveJob(HashOf[d])
  /\ origCat' = [origCat EXCEPT ![d] = c]
  /\ UNCHANGED <<jobDl, jobStatus, cancelled, jobDest, jobFile, runVars, moveVars,
                 diskVars, remoteVars, rootCtx, state, held, userVars>>

\* handleCategoryMigrationWhileSyncing.
Redirect(d, c) ==
  /\ c \in AppCategories
  /\ state[d] # "complete" /\ held[d] # Nil
  /\ UpdateDestination(held[d], MigrateDest[c])
  /\ origCat' = [origCat EXCEPT ![d] = c]
  /\ UNCHANGED <<runVars, moveVars, diskVars, remoteVars, rootCtx, state, held, userVars>>

\* Where handleCategoryMigration takes the files from, and what is at the new
\* place when the files "moved" are there and the file in "cut" is half there.
MigrateFrom(d) == IF held[d] # Nil THEN jobDest[held[d]] ELSE SyncDest[origCat[d]]
Merged(d, src, dst, moved, cut) ==
  LET old == final[src][NameOf[d]]
  IN  [f \in Files |->
         IF old[f] = "none" THEN final[dst][NameOf[d]][f]
         ELSE IF f \in cut THEN "part"
         ELSE IF f \in moved THEN old[f] ELSE final[dst][NameOf[d]][f]]

\* The torrent's directory goes from src to dst.
MoveDirectory(d, src, dst, moved, cut, rest) ==
  final' = [b \in Dests |->
              [final[b] EXCEPT ![NameOf[d]] =
                 IF b = dst THEN Merged(d, src, dst, moved, cut)
                 ELSE IF b = src THEN rest ELSE @]]

\* Mutant: the old directory goes whether or not the copy is whole.
MigrateCarelessly(d, c) ==
  /\ c \in AppCategories
  /\ state[d] = "complete"
  /\ \E moved \in SUBSET Files :
       /\ moved = Files \/ Faults
       /\ MoveDirectory(d, MigrateFrom(d), MigrateDest[c], moved, {}, NoFiles)
  /\ RequestImport(d)
  /\ ForgetJob(d)
  /\ Untrack(d)
  /\ UNCHANGED <<jobDl, jobStatus, cancelled, jobDest, jobFile, runVars, moveVars, staged,
                 remoteVars, rootCtx, category, wanted, crashes>>

\* handleCategoryMigration moves the directory and asks the new apps to import,
\* or fails, perhaps with some of the files copied.
Migrate(d, c) ==
  /\ c \in AppCategories
  /\ state[d] = "complete"
  /\ LET src == MigrateFrom(d)
         dst == MigrateDest[c]
         was == final[src][NameOf[d]]
     IN  \/ /\ was # NoFiles
            /\ \E rest \in {NoFiles} \cup (IF Faults THEN {was} ELSE {}) :
                 MoveDirectory(d, src, dst, Files, {}, rest)
            /\ RequestImport(d)
         \/ /\ Faults \/ was = NoFiles
            /\ \E moved \in SUBSET Files, cut \in SUBSET Files :
                 /\ moved \cup cut = {} \/ Faults
                 /\ Cardinality(cut) <= 1
                 /\ MoveDirectory(d, src, dst, moved, cut, was)
            /\ UNCHANGED imported
  /\ ForgetJob(d)
  /\ Untrack(d)
  /\ UNCHANGED <<jobDl, jobStatus, cancelled, jobDest, jobFile, runVars, moveVars, staged,
                 remoteVars, rootCtx, category, wanted, crashes>>

\* handleCategoryChanged and handleDownloadRemoved.
CategoryChanged(d, c) ==
  \/ Migrate(d, c)
  \/ Redirect(d, c)
  \/ c \notin AppCategories /\ CancelSync(d)
  \/ /\ ~ (c \in AppCategories /\ state[d] = "complete")
     /\ DropTracking(d, origCat[d] \in CleanOnChange)

Removed(d) ==
  \/ CancelSync(d)
  \/ DropTracking(d, origCat[d] \in CleanOnRemove)

\* A listed torrent whose category is not the one it is tracked under.
ProcessChanged(d) ==
  /\ Processing(d) /\ Tracked(d)
  /\ listed[d] # origCat[d]
  /\ CategoryChanged(d, listed[d])
  /\ Processed(d)

\* A tracked torrent that was not listed: any error of GetDownload means it has
\* been removed.
CheckRemoved(d) ==
  /\ Checking(d)
  /\ QueryFails(d)
  /\ Removed(d)
  /\ Checked(d)

CheckChanged(d) ==
  /\ Checking(d)
  /\ QueryWorks(d)
  /\ category[d] # origCat[d]
  /\ CategoryChanged(d, category[d])
  /\ Checked(d)

CheckUnchanged(d) ==
  /\ Checking(d)
  /\ QueryWorks(d)
  /\ category[d] = origCat[d]
  /\ Checked(d)
  /\ UNCHANGED <<syncerVars, trackVars, userVars>>

-----------------------------------------------------------------------------
(***************************************************************************)
(* Around the orchestrator.                                                *)
(***************************************************************************)
AddTorrent(d) ==
  /\ TorrentComes(d)
  /\ \E c \in Categories : category' = [category EXCEPT ![d] = c]
  /\ \E w \in SUBSET Files \ {{}} : wanted' = [wanted EXCEPT ![d] = w]
  /\ imported' = [imported EXCEPT ![d] = FALSE]
  /\ UNCHANGED <<trackVars, loopVars, crashes>>

CompleteFile(d) ==
  /\ FileCompletes(d)
  /\ UNCHANGED <<trackVars, loopVars, userVars>>

RemoveTorrent(d) ==
  /\ "remove" \in UserActs
  /\ TorrentGoes(d)
  /\ UNCHANGED <<trackVars, loopVars, userVars>>

Recategorise(d) ==
  /\ "recategorise" \in UserActs
  /\ d \in present
  /\ \E c \in Categories \ {category[d]} : category' = [category EXCEPT ![d] = c]
  /\ UNCHANGED <<syncerVars, trackVars, loopVars, wanted, imported, crashes>>

SelectFiles(d) ==
  /\ "select" \in UserActs
  /\ d \in present
  /\ \E w \in SUBSET Files \ {wanted[d]} : wanted' = [wanted EXCEPT ![d] = w]
  /\ UNCHANGED <<syncerVars, trackVars, loopVars, category, imported, crashes>>

\* An app takes some of what it has been asked to import out of the directory,
\* in its own time.
AppTakes(d) ==
  /\ "take" \in UserActs
  /\ imported[d]
  /\ PromptImport => state[d] \in {"complete", "untracked", "discovered"}
  /\ \E b \in Dests, taken \in SUBSET Files :
       /\ \E f \in taken : final[b][NameOf[d]][f] # "none"
       /\ final' = [final EXCEPT ![b][NameOf[d]] =
                       [f \in Files |-> IF f \in taken THEN "none" ELSE @[f]]]
  /\ UNCHANGED <<jobVars, runVars, moveVars, staged, remoteVars, rootCtx, trackVars,
                 loopVars, userVars>>

\* Stop cancels the orchestrator's context and waits.
Stop ==
  /\ MayStop
  /\ CancelRoot
  /\ UNCHANGED <<trackVars, loopVars, userVars>>

\* The process ends, at any point, and is started again.  A copy into the final
\* directory may be cut short.
Crash ==
  /\ crashes < MaxCrashes
  /\ crashes' = crashes + 1
  /\ RestartProcess
  /\ \/ UNCHANGED final
     \/ /\ Faults /\ mvJob # Nil /\ mvAt \in Files
        /\ jobFile[mvJob][mvAt] \in Synced
        /\ staged[Base(mvJob)][mvAt] # "none"
        /\ final' = [final EXCEPT ![jobDest[mvJob]][Name(mvJob)][mvAt] = "part"]
  /\ state' = [d \in Downloads |-> "untracked"]
  /\ origCat' = [d \in Downloads |-> AnyCategory]
  /\ held' = [d \in Downloads |-> Nil]
  /\ loop' = "sleep" /\ toList' = {} /\ listed' = NoItems /\ seen' = {} /\ toCheck' = {}
  /\ UNCHANGED <<staged, remoteVars, category, wanted, imported>>

Process(d) ==
  \/ Discover(d) \/ WaitForFiles(d) \/ SkipSync(d) \/ StartSyncing(d)
  \/ SeesPending(d) \/ SeesSyncing(d) \/ SeesComplete(d) \/ SeesError(d)
  \/ StartMove(d) \/ TriggerImport(d) \/ Rest(d) \/ Expire(d)
  \/ ProcessChanged(d)

Check(d) == CheckRemoved(d) \/ CheckChanged(d) \/ CheckUnchanged(d)

PollLoop ==
  \/ StartPoll \/ ExitLoop \/ StartCheck \/ EndPoll \/ MoveOne
  \/ \E x \in Downloaders : List(x)
  \/ \E d \in Downloads : Process(d) \/ Check(d) \/ MoveReturns(d)

Around ==
  \E d \in Downloads :
    \/ AddTorrent(d) \/ CompleteFile(d) \/ RemoveTorrent(d)
    \/ Recategorise(d) \/ SelectFiles(d) \/ AppTakes(d)

Next ==
  \/ PollLoop
  \/ SyncerStep /\ UNCHANGED <<trackVars, loopVars, userVars>>
  \/ Around
  \/ Stop
  \/ Crash

Spec == Init /\ [][Next]_vars

\* The ticker ticks, the poll loop and the syncer's goroutines run when they
\* can, calls return, a waiting goroutine gets the semaphore in turn, and a
\* select that is made again and again takes each of its branches.
Fairness ==
  /\ WF_vars(PollLoop)
  /\ SF_vars(ExitLoop)
  /\ \A d \in Downloads : WF_vars(CompleteFile(d))
  /\ \A r \in Runs :
       /\ WF_vars(RunStep(r) /\ UNCHANGED <<trackVars, loopVars, userVars>>)
       /\ \A f \in Files :
            /\ WF_vars(FileStep(r, f) /\ UNCHANGED <<trackVars, loopVars, userVars>>)
            /\ SF_vars(Acquire(r, f) /\ UNCHANGED <<trackVars, loopVars, userVars>>)

FairSpec == Spec /\ Fairness

-----------------------------------------------------------------------------
\* The orchestrator keeps to the syncer's calling protocol: it implements
\* SyncService, and so everything shown of SyncService holds of it.
PhaseOf(d) ==
  CASE held[d] = Nil -> "none"
    [] state[d] \in {"importing", "complete"} /\ held[d] # Nil -> "moved"
    [] OTHER -> state[d]

Service == INSTANCE SyncService WITH phase <- [d \in Downloads |-> PhaseOf(d)]

ImplementsSyncService == Service!Spec

\* When the apps are asked to import a torrent, every file its job was created
\* for is at the import path with its listed size (sync.md: partial transfers
\* do not trigger imports).
ImportSeesFiles ==
  [][\A d \in Downloads :
       (state[d] = "importing" /\ state'[d] = "complete") =>
         \A f \in Selected(held[d]) :
           final[jobDest[held[d]]][NameOf[d]][f] = "full"]_vars

\* A completed torrent's files survive whatever happens to it, also a migration
\* that fails half-way, when no app has asked for cleanup: what is in full at
\* the torrent's place stays, or is in full elsewhere, until an app takes it.
\* It is about torrents of one name each: see OwnNames of SyncServiceFileProofs.
CompletedFilesSurvive ==
  [][\A d \in Downloads :
       (/\ state[d] = "complete" /\ ~ AppTakes(d)
        /\ origCat[d] \notin CleanOnChange \cup CleanOnRemove) =>
         \A f \in Files :
           final[MigrateFrom(d)][NameOf[d]][f] = "full" =>
             \E b \in Dests : final'[b][NameOf[d]][f] = "full"]_vars

\* The syncer's map holds exactly the jobs of tracked torrents: no path that
\* ends the tracking of a torrent leaves a job behind for the next torrent of
\* that id, and none takes away the job of a torrent still tracked.
JobsAreOwned ==
  \A d \in Downloads : held[d] # Nil => jobOf[HashOf[d]] = held[d]
NoJobLeaks ==
  \A h \in Hashes : jobOf[h] # Nil => \E d \in Downloads : held[d] = jobOf[h]

\* The poll loop never moves, imports or keeps a job that has been cancelled.
HeldIsLive == \A d \in Downloads : held[d] # Nil => ~ cancelled[held[d]]

\* A torrent that has come, in an app's category, is in the end synced and
\* called complete, unless its category changes to that of no app, or Stop is
\* called.
EventuallyComplete ==
  \A d \in Downloads :
    (d \in present /\ category[d] \in AppCategories) ~>
      (state[d] = "complete" \/ category[d] \notin AppCategories \/ rootCtx)

\* Stop comes to an end: when the context is cancelled the poll loop returns,
\* whatever it is doing, and so does every run ("track in WaitGroup so Stop()
\* waits for completion"), also one that waits for the semaphore.
StopEnds ==
  rootCtx ~> (loop = "stopped" /\ \A r \in Runs : ~ Active(r))

-----------------------------------------------------------------------------
\* What the documentation says and the code does not do.

\* ui.md, COMPLETE: "Fully synced and imported".
CompleteIsImported == \A d \in Downloads : state[d] = "complete" => imported[d]

\* orchestrator.go: "Download was removed from downloader" where the removal
\* is handled.
RemovalIsReal ==
  [][\A d \in Downloads : CheckRemoved(d) => d \notin present]_vars

\* apps.md: "If complete: Files are cleaned up if cleanup_on_remove is enabled".
CleanupOnRemoveCleans ==
  [][\A d \in Downloads :
       (CheckRemoved(d) /\ state[d] = "complete" /\ origCat[d] \in CleanOnRemove) =>
         \A b \in Dests : final'[b][NameOf[d]] = NoFiles]_vars

\* apps.md: "To another tracked app: Files are automatically moved to the new
\* app's downloads path", and orchestrator.go: "Check if files already exist at
\* the final destination": what has been moved there is not synced again.
MigrationIsFinal ==
  [][\A d \in Downloads :
       StartSyncing(d) => ~ AllAtFinal(d, MigrateDest[origCat[d]])]_vars

\* orchestrator.go: "Sync is in progress, wait for it to complete": a job that
\* says syncing when no run has it is taken up again, or given up.
SyncEnds ==
  \A d \in Downloads :
    LET Has == \E r \in Runs : Active(r) /\ runJob[r] = held[d]
    IN  (state[d] = "syncing" /\ jobStatus[held[d]] = "syncing" /\ ~ Has)
        ~> (state[d] # "syncing" \/ Has)

=============================================================================
