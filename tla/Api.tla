--------------------------------- MODULE Api ---------------------------------
(***************************************************************************)
(* The HTTP API (internal/api/server.go) beside the poll loop and a run.   *)
(* A handler takes no snapshot of the whole: it reads the map of tracked   *)
(* torrents, then fields of the torrent, then its job, then the files of   *)
(* the job, each under a lock of its own, while the others write.  One     *)
(* torrent is followed from its discovery until it is forgotten.  The      *)
(* steps of the poll loop are those of module Orchestrator, here with      *)
(* their locks and their events and without the files on disk.             *)
(***************************************************************************)
EXTENDS Progress, Timeline

CONSTANTS
  Clients,
  Handlers     \* bound: the handlers that clients call

ASSUME ApiAssumption ==
  /\ Threads = Clients \cup {"poll", "run"}
  /\ Locks = {"tracked", "td", "job"}
  /\ Subjects = {"", "torrent", "app", "box"}
  /\ {"system_started", "discovered", "sync_started", "sync_complete", "move_complete",
       "import_started", "import_complete", "import_failed", "removed", "error",
       "complete"} \subseteq EventTypes

VARIABLES
  tracked,     \* the torrent is in Orchestrator.tracked
  td,          \* its TrackedDownload, which outlives that
  atBox,       \* bytes that, by its list of files, are at the downloader
  inJobs,      \* its job is in Syncer.jobs
  pollPc,
  req,         \* what each client's handler has still to read, and has read
  seen         \* what it was told last: the furthest event, or the bytes

pollVars == <<tracked, td, atBox, inJobs, pollPc>>
clientVars == <<req, seen>>
vars == <<locks, progressVars, timelineVars, pollVars, clientVars>>

State == {"untracked", "discovered", "syncing", "synced", "moving", "importing",
          "complete", "error"}
TrackedDownload == [state : State, err : BOOLEAN, done : BOOLEAN, job : BOOLEAN]

\* How far along a state, or the state at an event, is.  An error may come at any stage.
Stage(x) ==
  CASE x \in {"discovered"} -> 1
    [] x \in {"syncing", "sync_started"} -> 2
    [] x \in {"synced", "sync_complete"} -> 3
    [] x = "moving" -> 4
    [] x \in {"importing", "move_complete", "import_started", "import_complete",
              "import_failed"} -> 5
    [] x = "complete" -> 6
    [] x = "error" -> 7
    [] OTHER -> 0

\* Mutant: the list of downloads reads the error and the times before the state.
ReadsStateLast ==
  [downloads |-> <<"find", "error", "times", "state", "job", "snapshot">>,
   download  |-> <<"find", "state", "job", "snapshot">>,
   jobs      |-> <<"find", "job", "state", "snapshot">>,
   syncJob   |-> <<"lookup", "snapshot", "find", "download", "state">>,
   stats     |-> <<"rlock", "td", "snapshot", "runlock">>,
   timeline  |-> <<"events">>]
\* The order in which each handler reads.
Reads ==
  [downloads |-> <<"find", "state", "error", "times", "job", "snapshot">>,
   download  |-> <<"find", "state", "job", "snapshot">>,
   jobs      |-> <<"find", "job", "state", "snapshot">>,
   syncJob   |-> <<"lookup", "snapshot", "find", "download", "state">>,
   stats     |-> <<"rlock", "td", "snapshot", "runlock">>,
   timeline  |-> <<"events">>]

ASSUME HandlersAssumption == Handlers \subseteq DOMAIN Reads

Nothing == [found |-> FALSE, state |-> "untracked", err |-> FALSE, done |-> FALSE,
            job |-> FALSE, status |-> "absent", bytes |-> 0, stage |-> 0]
NothingSeen == [stage |-> 0, bytes |-> 0]
NoRequest == [handler |-> "none", todo |-> <<>>, at |-> 0, got |-> Nothing]

TypeOK ==
  /\ ProgressTypeOK /\ TimelineTypeOK
  /\ tracked \in BOOLEAN /\ td \in TrackedDownload /\ inJobs \in BOOLEAN
  /\ atBox \in 0..TotalSize
  /\ \A c \in Clients : /\ req[c].handler \in {"none"} \cup DOMAIN Reads
                        /\ req[c].at \in 0..NFiles + 1
                        /\ req[c].got.bytes \in 0..TotalSize
  /\ seen \in [Clients -> [stage : 0..7, bytes : 0..TotalSize]]
  \* what the state says of the rest, while nobody is changing it
  /\ locks["td"].writer = Nobody =>
       /\ td.state \in {"syncing", "synced", "moving", "importing"} => td.job
       /\ td.err <=> td.state = "error"
       /\ td.done <=> td.state = "complete"

Init ==
  /\ ProgressInit /\ TimelineInit
  /\ tracked = FALSE /\ inJobs = FALSE /\ atBox = 0
  /\ td = [state |-> "untracked", err |-> FALSE, done |-> FALSE, job |-> FALSE]
  /\ pollPc = "boot"
  /\ req = [c \in Clients |-> NoRequest]
  /\ seen = [c \in Clients |-> NothingSeen]

-----------------------------------------------------------------------------
(***************************************************************************)
(* The poll loop                                                           *)
(***************************************************************************)
Go(from, to) == pollPc = from /\ pollPc' = to

Log(type, download, app) ==
  Record([type |-> type, download |-> download, app |-> app,
          downloader |-> IF download = "" THEN "" ELSE "box"])

\* A step that only records an event.
LogStep(from, to, type, app) ==
  /\ Go(from, to)
  /\ Log(type, "torrent", app)
  /\ UNCHANGED <<locks, progressVars, tracked, td, atBox, inJobs, clientVars>>

SetState(state) == td' = [td EXCEPT !.state = state]
SetError == td' = [td EXCEPT !.state = "error", !.err = TRUE]
\* Mutant: the time is not set.
SetCompleteUntimed == SetState("complete")
SetComplete == td' = [td EXCEPT !.state = "complete", !.done = TRUE]

\* A step that only changes the TrackedDownload.
SetStep(from, to, Set) ==
  /\ Go(from, to)
  /\ WriteAtOnce("poll", "td")
  /\ Set
  /\ UNCHANGED <<progressVars, timelineVars, tracked, atBox, inJobs, clientVars>>

\* A step that keeps, takes or gives back a lock and changes nothing else.
LockStep(from, to, L) ==
  /\ Go(from, to)
  /\ L
  /\ UNCHANGED <<progressVars, timelineVars, tracked, td, atBox, inJobs, clientVars>>

SystemStarts ==
  /\ Go("boot", "idle")
  /\ Log("system_started", "", "")
  /\ UNCHANGED <<locks, progressVars, tracked, td, atBox, inJobs, clientVars>>

\* The list of files as the downloader has it, or as it was when it does not answer.
\* Bytes that it has it keeps.
GetFiles == atBox' \in atBox..TotalSize
\* A sync begins with a list in which a file is complete.
ReadyFiles == GetFiles /\ atBox' >= FileSize

\* A torrent seen for the first time is entered under trackedMu, which is held
\* while its files are asked for.
Discover ==
  /\ td.state = "untracked"
  /\ LockStep("idle", "discover", Lock("poll", "tracked"))
Discovered ==
  /\ Go("discover", "discovered")
  /\ tracked' = TRUE
  /\ SetState("discovered")
  /\ GetFiles
  /\ Log("discovered", "torrent", "")
  /\ UNCHANGED <<locks, progressVars, inJobs, clientVars>>
DiscoverEnds == LockStep("discovered", "refresh", Unlock("tracked"))

\* The torrent's mutex is held while the files of one still downloading are asked for.
Listed == tracked /\ LockStep("idle", "refresh", UNCHANGED locks)
Refresh ==
  \/ LockStep("refresh", "refreshing", Lock("poll", "td"))
  \/ /\ Go("refreshing", "advance")
     /\ GetFiles
     /\ Unlock("td")
     /\ UNCHANGED <<progressVars, timelineVars, tracked, td, inJobs, clientVars>>
  \/ LockStep("refresh", "advance", UNCHANGED locks)

StartSyncing == td.state = "discovered" /\ LockStep("advance", "starting", Lock("poll", "td"))
NothingReady == LockStep("starting", "idle", Unlock("td"))
\* Mutant: the early return does not unlock.
SkipSyncLocked ==
  /\ Go("starting", "idle")
  /\ SetComplete
  /\ ReadyFiles
  /\ UNCHANGED <<locks, progressVars, timelineVars, tracked, inJobs, clientVars>>
SkipSync ==
  /\ Go("starting", "unlock")
  /\ SetComplete
  /\ ReadyFiles
  /\ UNCHANGED <<locks, progressVars, timelineVars, tracked, inJobs, clientVars>>
CreateSyncJob(atFinal) ==
  /\ Go("starting", "created")
  /\ CreateJob(atFinal)
  /\ td' = [td EXCEPT !.state = "syncing", !.job = TRUE]
  /\ ReadyFiles
  /\ inJobs' = TRUE
  /\ UNCHANGED <<locks, timelineVars, tracked, clientVars>>
LogSyncStarted == LogStep("created", "launch", "sync_started", "")
Launch ==
  /\ Go("launch", "idle")
  /\ StartRun
  /\ Unlock("td")
  /\ UNCHANGED <<timelineVars, tracked, td, atBox, inJobs, clientVars>>

ContinueSyncing == td.state = "syncing" /\ LockStep("advance", "continuing", Lock("poll", "td"))
SeesComplete ==
  /\ Go("continuing", "synced")
  /\ MayRead("job") /\ jobStatus = "complete"
  /\ SetState("synced")
  /\ UNCHANGED <<locks, progressVars, timelineVars, tracked, atBox, inJobs, clientVars>>
SeesError ==
  /\ Go("continuing", "failed")
  /\ MayRead("job") /\ jobStatus = "error"
  /\ SetError
  /\ UNCHANGED <<locks, progressVars, timelineVars, tracked, atBox, inJobs, clientVars>>
SeesSyncing ==
  /\ MayRead("job") /\ jobStatus = "syncing"
  /\ LockStep("continuing", "idle", Unlock("td"))
\* A goroutine that has been started marks the job within a poll interval, as
\* SyncService assumes with PromptStart.
SeesPending ==
  /\ MayRead("job") /\ jobStatus = "pending" /\ runPc = "none"
  /\ LockStep("continuing", "launch", UNCHANGED locks)
LogSync ==
  \/ LogStep("synced", "unlock", "sync_complete", "")
  \/ LogStep("failed", "unlock", "error", "")
UnlockTracked == LockStep("unlock", "idle", Unlock("td"))

StartMove == td.state = "synced" /\ SetStep("advance", "moving", SetState("moving"))
MoveFails == SetStep("moving", "idle", SetError)
MoveReturns == SetStep("moving", "moved", SetState("importing"))
LogMove == LogStep("moved", "idle", "move_complete", "")

StartImport == td.state = "importing" /\ LogStep("advance", "importing", "import_started", "app")
\* Mutant: the completion is recorded as soon as an app has accepted the import.
ImportReturnsComplete ==
  \/ LogStep("importing", "imported", "complete", "app")
  \/ LogStep("importing", "imported", "import_failed", "app")
ImportReturns ==
  \/ LogStep("importing", "imported", "import_complete", "app")
  \/ LogStep("importing", "imported", "import_failed", "app")
Complete == SetStep("imported", "completed", SetComplete)
LogComplete == LogStep("completed", "idle", "complete", "")

\* An error is final; a complete torrent is forgotten after a day.
Rest == td.state \in {"error", "complete"} /\ LockStep("advance", "idle", UNCHANGED locks)
Expire == td.state = "complete" /\ LockStep("advance", "untrack", UNCHANGED locks)

\* A torrent that is gone is logged, its job cancelled, and it is forgotten.
Removed ==
  /\ tracked
  /\ LogStep("idle", "removed", "removed", "")
CancelSync ==
  /\ Go("removed", "untrack")
  /\ IF td.state # "complete" /\ td.job
     THEN Cancel("poll")
     ELSE UNCHANGED <<locks, progressVars>>
  /\ UNCHANGED <<timelineVars, tracked, td, atBox, inJobs, clientVars>>
Untrack ==
  /\ Go("untrack", IF td.job THEN "forget" ELSE "idle")
  /\ WriteAtOnce("poll", "tracked")
  /\ tracked' = FALSE
  /\ UNCHANGED <<progressVars, timelineVars, td, atBox, inJobs, clientVars>>
ForgetJob ==
  /\ Go("forget", "idle")
  /\ inJobs' = FALSE
  /\ UNCHANGED <<locks, progressVars, timelineVars, tracked, td, atBox, clientVars>>

\* A lock that a handler holds is waited for.
PollAwaits ==
  /\ \/ pollPc = "idle" /\ td.state = "untracked" /\ Await("poll", "tracked")
     \/ pollPc = "untrack" /\ Await("poll", "tracked")
     \/ pollPc = "removed" /\ td.state # "complete" /\ td.job /\ Await("poll", "job")
  /\ UNCHANGED <<progressVars, timelineVars, pollVars, clientVars>>

PollStep ==
  \/ SystemStarts \/ Discover \/ Discovered \/ DiscoverEnds \/ Listed \/ Refresh
  \/ StartSyncing \/ NothingReady \/ SkipSync \/ LogSyncStarted \/ Launch
  \/ \E atFinal \in SUBSET Files : atFinal # Files /\ CreateSyncJob(atFinal)
  \/ ContinueSyncing \/ SeesComplete \/ SeesError \/ SeesSyncing \/ SeesPending
  \/ LogSync \/ UnlockTracked \/ StartMove \/ MoveFails \/ MoveReturns \/ LogMove
  \/ StartImport \/ ImportReturns \/ Complete \/ LogComplete \/ Rest \/ Expire
  \/ Removed \/ CancelSync \/ Untrack \/ ForgetJob \/ PollAwaits

-----------------------------------------------------------------------------
(***************************************************************************)
(* The handlers                                                            *)
(***************************************************************************)
Answered(c) == req[c].handler # "none" /\ req[c].todo = <<>>

Request(c, handler) ==
  /\ pollPc # "boot"
  /\ req[c].handler = "none"
  /\ req' = [req EXCEPT ![c] = [NoRequest EXCEPT !.handler = handler, !.todo = Reads[handler]]]
  /\ UNCHANGED <<locks, progressVars, timelineVars, pollVars, seen>>

\* The client has its answer.  It keeps what it was last told of the job.
Receive(c) ==
  /\ Answered(c)
  /\ req' = [req EXCEPT ![c] = NoRequest]
  /\ seen' = [seen EXCEPT ![c] = [stage |-> req[c].got.stage,
                                   bytes |-> IF req[c].got.job THEN req[c].got.bytes ELSE @.bytes]]
  /\ UNCHANGED <<locks, progressVars, timelineVars, pollVars>>

\* The next thing that c's handler reads is r; it then knows got and reads the rest.
Step(c, r, got, rest) ==
  /\ req[c].todo # <<>> /\ Head(req[c].todo) = r
  /\ req' = [req EXCEPT ![c].todo = rest, ![c].got = got]
  /\ UNCHANGED <<progressVars, timelineVars, pollVars, seen>>
Read(c, r, got) == Step(c, r, got, Tail(req[c].todo)) /\ UNCHANGED locks

\* GetTrackedDownloads.  What is not there is answered "not found", or left out.
Find(c) ==
  /\ MayRead("tracked")
  /\ Step(c, "find", [req[c].got EXCEPT !.found = tracked],
          IF tracked THEN Tail(req[c].todo) ELSE <<>>)
  /\ UNCHANGED locks

\* The getters of TrackedDownload.  GetDownload is here where a handler answers with
\* the bytes of its files: GET /jobs/:id counts them while there is no job.
GetState(c) == MayRead("td") /\ Read(c, "state", [req[c].got EXCEPT !.state = td.state])
GetError(c) == MayRead("td") /\ Read(c, "error", [req[c].got EXCEPT !.err = td.err])
GetTimes(c) == MayRead("td") /\ Read(c, "times", [req[c].got EXCEPT !.done = td.done])
GetDownload(c) == MayRead("td") /\ Read(c, "download", [req[c].got EXCEPT !.bytes = atBox])
GetSyncJob(c) == MayRead("td") /\ Read(c, "job", [req[c].got EXCEPT !.job = td.job])

\* Syncer.GetJob.  Without a job the answer is put together from the torrent.
Lookup(c) ==
  /\ Step(c, "lookup", [req[c].got EXCEPT !.job = inJobs],
          IF inJobs THEN <<"snapshot">> ELSE <<"find", "download", "state">>)
  /\ UNCHANGED locks

\* Snapshot and GetProgress hold the job's mutex and read file by file.  Without
\* a job the lists count nothing, but that of jobs shows a complete torrent whole.
NoSnapshot(c) ==
  /\ ~ req[c].got.job
  /\ Read(c, "snapshot",
          IF req[c].handler = "jobs" /\ req[c].got.state = "complete"
          THEN [req[c].got EXCEPT !.bytes = TotalSize] ELSE req[c].got)
BeginSnapshot(c) ==
  /\ req[c].todo # <<>> /\ Head(req[c].todo) = "snapshot"
  /\ req[c].got.job /\ req[c].at = 0
  /\ RLock(c, "job")
  /\ req' = [req EXCEPT ![c].at = 1]
  /\ UNCHANGED <<progressVars, timelineVars, pollVars, seen>>
SnapshotFile(c) ==
  /\ req[c].at \in Files
  /\ req' = [req EXCEPT ![c].at = @ + 1, ![c].got.bytes = @ + shown[req[c].at]]
  /\ UNCHANGED <<locks, progressVars, timelineVars, pollVars, seen>>
EndSnapshot(c) ==
  /\ req[c].at = NFiles + 1
  /\ RUnlock(c, "job")
  /\ req' = [req EXCEPT ![c].at = 0, ![c].todo = Tail(@), ![c].got.status = jobStatus]
  /\ UNCHANGED <<progressVars, timelineVars, pollVars, seen>>

\* GetStats goes through the tracked torrents under trackedMu, and asks the job
\* of one that is syncing.
LockStats(c) ==
  /\ RLock(c, "tracked")
  /\ Step(c, "rlock", [req[c].got EXCEPT !.found = tracked],
          IF tracked THEN Tail(req[c].todo) ELSE <<"runlock">>)
StatsTracked(c) ==
  /\ MayRead("td")
  /\ Read(c, "td", [req[c].got EXCEPT !.state = td.state,
                                      !.job = td.job /\ td.state = "syncing"])
UnlockStats(c) ==
  /\ RUnlock(c, "tracked")
  /\ Step(c, "runlock",
          [req[c].got EXCEPT !.state = CASE req[c].got.status = "error" -> "error"
                                         [] req[c].got.status = "complete" -> "synced"
                                         [] OTHER -> @],
          Tail(req[c].todo))

\* The timeline of the torrent; that of the app and of the downloader are parts of it.
GetTimeline(c) ==
  \E answer \in {GetAll, GetByDownload("torrent"), GetByApp("app"), GetByDownloader("box")} :
     LET stages == {0} \cup {Stage(e.type) : e \in {f \in answer : f.type # "error"}}
     IN  Read(c, "events", [req[c].got EXCEPT !.stage =
                               CHOOSE s \in stages : \A t \in stages : t <= s])

HandlerStep(c) ==
  \/ Find(c) \/ GetState(c) \/ GetError(c) \/ GetTimes(c) \/ GetDownload(c)
  \/ GetSyncJob(c) \/ Lookup(c)
  \/ NoSnapshot(c) \/ BeginSnapshot(c) \/ SnapshotFile(c) \/ EndSnapshot(c)
  \/ LockStats(c) \/ StatsTracked(c) \/ UnlockStats(c) \/ GetTimeline(c)

ClientStep(c) == (\E h \in Handlers : Request(c, h)) \/ Receive(c)

WorkStep == ProgressStep /\ UNCHANGED <<timelineVars, pollVars, clientVars>>

Next ==
  \/ PollStep \/ WorkStep
  \/ \E c \in Clients : ClientStep(c) \/ HandlerStep(c)

Spec == Init /\ [][Next]_vars

\* Goroutines run; calls to the downloader, transfers and moves end.  A reader
\* that waits for a writer is let in when that writer unlocks (sync.RWMutex),
\* however often another comes: its fairness is strong.
FairSpec ==
  /\ Spec
  /\ WF_vars(PollStep)
  /\ WF_vars(RunStep /\ UNCHANGED <<timelineVars, pollVars, clientVars>>)
  /\ \A f \in Files : WF_vars(FileStep(f) /\ UNCHANGED <<timelineVars, pollVars, clientVars>>)
  /\ \A c \in Clients : SF_vars(HandlerStep(c))

-----------------------------------------------------------------------------
\* An answer that has read the job, and says that the torrent or the job is synced
\* or further, counts every byte: the state is read before the job or is that of
\* the snapshot itself, and the job is complete only when all its files are shown
\* in full (api/server.go:217-245, 336-353, 393-427, orchestrator.go:1290;
\* docs/api.md:97 "All files transferred").  So does an entry of GET /jobs without
\* a job that is complete (server.go:373-376).  It says nothing of the other answers
\* without a job: GET /downloads shows a torrent found complete at its final path
\* with synced_bytes 0 (orchestrator.go:519-521), and see ListedIsWhole.
CompleteIsWhole ==
  \A c \in Clients :
    /\ Answered(c)
    /\ \/ /\ req[c].got.job
          /\ \/ req[c].got.state \in {"synced", "moving", "importing", "complete"}
             \/ req[c].got.status = "complete"
       \/ req[c].handler = "jobs" /\ req[c].got.state = "complete"
    => req[c].got.bytes = TotalSize

\* Every entry of GET /jobs that is synced or further counts every byte: one without
\* a job is complete already or "still downloading" (server.go:354-368).  It does
\* not hold: the job is asked for before the state.
ListedIsWhole ==
  \A c \in Clients :
    /\ Answered(c) /\ req[c].handler = "jobs"
    /\ req[c].got.state \in {"synced", "moving", "importing", "complete"}
    => req[c].got.bytes = TotalSize

\* In the list of downloads a state of error comes with the error, and one of
\* complete with the time (docs/api.md:99-100: "completed_at", "error").
ErrorsAreExplained ==
  \A c \in Clients :
    Answered(c) /\ req[c].handler = "downloads" =>
      /\ req[c].got.state = "error" => req[c].got.err
      /\ req[c].got.state = "complete" => req[c].got.done

\* Once a client has seen an event in the timeline, its next answer never shows the
\* torrent at an earlier stage, while the torrent is tracked the first time: an event
\* that is recorded before its state is set is recorded under the torrent's mutex.
EventsFollowStates ==
  \A c \in Clients :
    Answered(c) /\ req[c].got.state # "untracked" => Stage(req[c].got.state) >= seen[c].stage

\* The bytes that a client is shown of a job do not go back from one answer to the
\* next that has read it, whatever it is told in between: neither while files are
\* copied side by side nor when a copy ends beside a report of its monitor.  An
\* answer without a job shows none, or all of them (NoSnapshot), or in GET /jobs/:id
\* those at the downloader (server.go:460), and may well show more than the next.
ProgressNeverGoesBack ==
  \A c \in Clients : Answered(c) /\ req[c].got.job => req[c].got.bytes >= seen[c].bytes

\* Every request is answered, whatever the poll loop holds, waits for, or asks
\* the downloaders for: the locks are taken in one order.
RequestsAnswered ==
  \A c \in Clients : req[c].todo # <<>> ~> req[c].todo = <<>>
=============================================================================
