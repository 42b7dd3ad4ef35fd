# A verification of seedreap's core

seedreap mirrors finished torrents from remote seedboxes to local directories, file by file, and asks
the media apps to import them. Its core is two components that share state: the **orchestrator**,
one goroutine that takes every torrent through its life, and the **file syncer**, many goroutines that
stage, verify and move files. These TLA+ modules model both, with the downloaders, the apps, the disk,
crashes and shutdown around them. Two further models stand beside that one: what the **HTTP API** shows
of it while it changes, with the locks in between, and the life of the **process**, from its configuration
to the end of its shutdown. TLC checks small instances; TLAPS proves every safety property of these
runs for every size: that the syncer bounds its transfers, never runs a job twice at once, keeps what it has
transferred and delivers what it says it has moved; that the orchestrator keeps to the syncer's protocol, and
so inherits all of that, loses no job and imports whole files; that what the API answers of a job, an error or a
completion agrees with itself, with the timeline and with the answer before; that the list of events loses none but the oldest; and that a
shutdown in time leaves nothing behind.

```
tlc -workers 2 -config sync_jobs.cfg MCSyncService        # model-check
for m in SyncService SyncServiceRun SyncServiceFile Orchestrator Api Timeline Server; do tlapm ${m}Proofs.tla; done   # prove
```

## Inventory

| Component | State | Operations | Talks to |
|---|---|---|---|
| File syncer `internal/filesync/syncer.go` | jobs by torrent id; status, files, destination, context of each job; the semaphore | `CreateJob`, `SyncJob`/`SyncFile`, `MoveToFinal`, `CancelJob`, `RemoveJob`, `UpdateDestination` | called by the poll loop; its goroutines call the downloader, the transferer and the disk |
| Orchestrator `internal/orchestrator/orchestrator.go` | `tracked`: state, category, apps and job of each torrent; the poll in progress | `poll`, `processDownload`, `advanceState`, category changes, removals, `cleanup`, `Stop` | the downloaders and apps (calls over the network), the syncer |
| Disk `internal/fileutil` and `os` | staging directories (one per torrent), final directories (one per app path and torrent name) | rename, copy, remove | written by the syncer's goroutines and by the poll loop; the apps take files away |
| qBittorrent client `internal/download` | a session cookie | `ListDownloads`, `GetDownload`, `GetFiles` | the seedbox |
| Apps `internal/app` | configuration only | `TriggerImport` | Sonarr, Radarr |
| Transferer `internal/transfer` | one cached SFTP session, or the error of making it; per transfer a counter and a monitor | `Transfer`, `Close` | the seedbox; reports to the syncer |
| Server and command `internal/server`, `cmd` | the process: what is built, started, stopped; the context | `New`, `Run`, `Shutdown`, the signal handler | all of the above |
| Timeline `internal/timeline` | a bounded list of events, newest first | `Record`, `Clear`, queries | told by the orchestrator, read by the API |
| HTTP API `internal/api` | none; a request holds locks and what it has read so far | one handler per question | reads orchestrator, syncer, timeline |
| Configuration `internal/config` | read once | `Load`, `validate` | the server builds the others from it |
| Web UI | none | | shows what the API answers |

What is hard here, and what would make it correct:

- *Orchestrator and syncer.* `SyncJob` runs in goroutines the poll loop starts and does not wait for.
  The two share the job: the poll loop reads its status to decide whether to start another run, moves
  its files, redirects it, cancels it. A job must have one run at a time; "complete" must mean that
  every file is there; a cancelled job's leftovers must not spoil the next one.
- *Staging, moving, importing.* Files of one job are synced in several runs, and moved one by one. An
  import must see all of them in full; nothing that was transferred may be lost in a half-done move.
- *Category changes and removals* arrive at any state and may be noticed late. Every way out of the
  tracked map must take the job with it.
- *Crashes.* Nothing but the files is persistent: a restart has to work out from them what was done.
- *Failures of calls.* A downloader that does not answer must not be taken for one that says no.
- *Shutdown.* `Stop` cancels a context everybody uses; everybody must come to an end, in an order in
  which none is still needed by the next, and within a limit of time if something hangs.
- *Answers put together from pieces.* A handler reads a torrent's state, error, times, job and files under
  one lock after another while the poll loop, the runs and the monitors of the transfers write them. An
  answer must not contradict itself, nor the one before it, and no lock may be waited for for ever.
- *One session for all transfers*, made by whoever comes first, and closed last.
- *Termination.* A torrent that is offered is in the end delivered; a run always ends, semaphore or not.

`PROJECT.json` lists each of these hazards at its line with the properties that are about it.

## The modules

**Filesync** is the syncer: its jobs, its runs and the disk, one action for every step of its
goroutines. It has no `Next`: two modules extend it and say who calls it.

| State | Code |
|---|---|
| `jobOf` | `Syncer.jobs`; a job outlives its entry |
| `jobDl`, `jobDest`, `jobStatus`, `jobFile`, `cancelled` | a `*SyncJob`: the download it was made for (its `LocalBase`), `FinalPath`, `Status`, the `Files`' statuses, `CancelledAt` with the context |
| `runPc`, `runJob`, `runDl`, `runCtx`, `runErr` | one call of `SyncJob`: where it is, its arguments, the merged context, whether `errChan` has anything |
| `work` | where each file's goroutine is in `SyncFile`: `acquire` (before the semaphore), `prepare`, `transfer`, `verify` (holding it), `done` |
| `mvJob`, `mvAt` | the call of `MoveToFinal` and the file it is at |
| `staged`, `final` | each file on disk: `none`, `part` (there, not of its listed size), `full`; staged by download, final by base directory and torrent name (`NameOf`) |
| `present`, `ready`, `rootCtx` | what the downloaders have; the files complete there; the orchestrator's context has been cancelled |

A run is `BeginRun` (the test for cancellation), `MarkSyncing`, `FanOut` or `ListFails` (the answer of
`GetFiles`), the files' goroutines, and `FinishRun`. A file is `Acquire` or `GiveUp`, `Prepare` (take a
staged copy of the right size, else transfer), `TransferReturns`/`TransferFails`, `Verify`. The move is
`BeginMove`, then `MovePasses`/`MoveFile` per file, then `MoveFails` or `EndMove`. Between any two of
these steps everything else may happen. `JobIds` and `Runs` are slots for objects and goroutines; a
slot nothing refers to is free again, so a behaviour uses any number of them, a bounded number at once.

**SyncService** closes Filesync with the most general client that respects the order of calls a tracked
torrent allows: per torrent a `phase` and the job it `held`. It stands for every possible orchestrator,
with arbitrary destinations, selections of files and abandonments, and what it satisfies the real one
inherits. It is the abstract specification here.

**Orchestrator** extends Filesync with the real client, the poll loop: `StartPoll`, `List` per
downloader, the listed torrents one by one (`Process`: one action per state and outcome of
`advanceState`), `StartCheck` and `Check` for those it has not seen, and `Expire`, `CancelSync`, `DropTracking`,
`Redirect`, `Migrate` for the ways a category change, a removal or the passing of a day ends or changes a
tracking. Around it: users, apps, `Stop`, `Crash`. It implements SyncService with `phase` computed from
the torrent's state (`PhaseOf`).

**Timeline** is the recorder: `Record` prepends and trims, `Clear` takes a torrent's events out, the queries
are sets. Its mutex makes each of them one step.

**RWMutex** is Go's lock, from its documentation: a waiting writer keeps new readers out. **Progress** extends
it with what the syncer shows of a job: its status under the job's mutex, and for each file the goroutine that
copies it, the counter rclone keeps, and the monitor that reads the counter (`Sample`) and reports it
(`Publish`). It has the runs of Filesync again, without the disk and with the locks.

**Api** composes Progress and Timeline with the poll loop, one torrent from discovery to expiry or removal, and
with clients. `pollPc` says between which two writes the poll loop is, and so which lock it holds and which
events it has recorded; `req[c]` is what c's handler has still to read and what it has read. `Reads` is the
order each handler reads in. Handlers end with an answer, and `seen` keeps what the client was told last. `atBox`
is the sum of what the list of files says is downloaded at the seedbox: `GET /jobs/:id` answers with that while there is
no job (`Lookup`, `GetDownload`). The bound `Handlers` says which handlers clients call.

**Sftp** is the session behind `sync.Once` and the calls of `Transfer` that go through it. **Server** extends it
with the process: `main` is the stage the main goroutine has reached (`load` and `new`: configuration and
construction; `start`: `Orchestrator.Start`; `serve`: waiting in `Run`; `api`, `orchestrator`, `syncer`: the three
parts of `Shutdown`, in the order of `After`), `signals` the goroutine for signals, and `loop`, `running`,
`requests` what goes on meanwhile. Where `main` is at a wait with a limit, an action ends the wait for either
reason.

**MCSyncService**, **MCOrchestrator**, **MCApi** and **MCServer** give the constants values. **SyncServiceProofs**,
**SyncServiceRunProofs**, **SyncServiceFileProofs**, **OrchestratorProofs**, **ApiProofs**, **TimelineProofs** and
**ServerProofs** hold the proofs. Operators introduced by a comment that starts with "Mutant" are
deliberately wrong variants of an action; no specification uses them, they serve to confirm that a
property notices the fault.

Abstractions made on purpose:

- In Filesync and Orchestrator progress counters, snapshots and events are left out, since no decision
  depends on them; they are what Progress and Api are about, which in turn leave the disk out. Speeds and
  logs are left out everywhere.
- Api follows one torrent through one tracking: it is discovered once (`Discover`). When it is forgotten and found again
  the code shows an earlier stage than its timeline has, and may count from nothing, as for any new torrent; the properties say
  nothing of that.
- In Api the bytes at the seedbox never get fewer, though a recheck there might take some away; nothing is claimed of them.
- Api has one app, without changes of category. A change of category takes the same
  locks, in the same order, as the steps that are there, and never touches the files' progress.
- A critical section that neither waits nor calls anything inside is one step, guarded by the lock being
  free. Locks are variables where they are held over several steps: `trackedMu` in a discovery and in the
  statistics, a torrent's mutex while its files are asked for, a job's while it is read file by file.
- In Server the configuration is a record of what `validate` asks for; a run is whether any is under way,
  and its transfers are counted against the semaphore.
- A file's content is `none`, `part` or `full`: the code compares sizes and nothing else. The constant
  `Truncated` holds files whose remote copy never has its listed size.
- A transfer puts the file in place at its end: the backend writes under a temporary name.
- `CancelJob` marks, cancels and removes in one step: what a goroutine does in between it might as well
  do before or after.
- Handlers of the poll loop that only touch its own state are one step, calls over the network
  included, with the answer chosen in the step. `MoveToFinal` is the exception: it takes minutes, and it
  is several steps.
- `NFiles` files per torrent. A torrent has one name, `NameOf[d]`: the code takes the directory at the destination from the
  files' paths when it skips and moves (syncer.go:360, 744) and from the base of the torrent's name when it cleans, migrates
  and imports (orchestrator.go:757, 1115, 1198), and here the two are the same, as qBittorrent has it for
  torrents of several files. Torrents may share a name (see Findings).
- `FanOut`'s set `unlisted` stands for files of a job that the downloader's list no longer has, which are
  transferred all the same (syncer.go:636); only with `Faults`.

## Runs

All liveness runs are without symmetry; the others use the symmetry of job and run slots.
`CHECK_DEADLOCK FALSE` throughout: with every slot in use and nothing left to do the system does stop,
and rightly so after `Stop`.

| Run | Instance | What it shows |
|---|---|---|
| `sync_jobs` | 1 torrent, 1 file, 2 jobs, 2 runs, 2 destinations, outages, crashes | `OneRunPerJob`, `CompleteIsBacked`, `TransferredIsKept` and `MoveDelivers` while a cancelled job's run and its successor's share a staging directory and destinations change at any time; `TypeOK` |
| `sync_files` | 2 files, one of them truncated, 1 place in the semaphore, 1 job, 2 runs, 1 destination, outages, faults, crashes | several runs make one job, and no file goes back once synced (`SyncedIsStable`); the size check does what it is there for (`CompleteIsBacked`); failing moves lose nothing (`TransferredIsKept`); files wait for their place (`SemaphoreBound`). A job that has the truncated file never completes, so a move is of one file at most |
| `orch_one` | 1 torrent, 1 app, all user actions, outages, 1 crash | jobs and trackings begin and end together (`NoJobLeaks`, `HeldIsLive`), imports see whole files |
| `orch_apps` | 2 apps, changes of category, imports that take file after file, failing moves and migrations, `Stop` | no job of a tracked torrent is taken away (`JobsAreOwned`); a completed torrent's files survive a migration that fails half-way; the orchestrator implements `SyncService`: each of its steps is a step of the general client or none |
| `orch_live` | 2 files, 1 job, 1 run, `Stop` at any time | a torrent is in the end complete; every run ends; `Stop` ends the loop and all runs |
| `api` | 1 client, all handlers, 1 file copied in 2 steps, 2 events kept | an answer that has read the job is whole when it says so (`CompleteIsWhole`) and shows no less than the last (`ProgressNeverGoesBack`); errors and completions come with their text and time (`ErrorsAreExplained`); states are not behind the timeline (`EventsFollowStates`); the list of events is in order and loses the oldest only; every request is answered |
| `api_files` | 1 client, the two handlers for jobs, 2 files copied in 1 step each, 1 event kept; safety only | `CompleteIsWhole` and `ProgressNeverGoesBack` where files are copied side by side, by one run or several, and read one after the other |
| `server` | 2 downloaders on 2 hosts, 1 app, 2 transfers, 1 request; 35 configurations, right or wrong in one field each | the poll loop starts only with what it needs (`PollsReady`); one session is made (`OneConnection`); a shutdown ends (`ShutdownEnds`), and if no limit of time is reached leaves nothing behind (`CleanExit`, `SessionOutlivesTransfers`) |
| `import_missing`, `removed_stop`, `sync_stuck`, `restart_stuck` | as small as shows it | see Findings |

*Why the bounds are enough.* Two of a kind is what a conflict takes here: two jobs for one torrent (the
abandoned and the next), two runs (the late and the next), two files (in `sync_files` the one synced and the
one that never is, in `api_files` the one being read and the one being copied), two
destinations (the old and the new), two apps. The semaphore has room for one, so that everything
that can wait waits. A third job or run adds another copy of a conflict already there: the variables of a job
slot are written only by its own runs and by its holder. One crash per behaviour in Orchestrator
(`MaxCrashes`): a restart forgets everything but disk and downloader, and what an arbitrary number of
crashes leaves on disk is covered in SyncService, where they are not bounded. In `api` one client is enough,
since clients share nothing but read locks and what one was told is compared with its own next answer; a
copy of two steps (`FileSize`) has a report that is neither the first nor the last, and a timeline of two events
overflows in every life of a torrent. `NFiles = 1` in `api` makes "complete" turn on one file; two files,
without the handlers that read nothing else than those for jobs do, are the run `api_files`, and any number is
what the proofs are about. `sync_jobs` and `orch_one` have one file, `sync_files` one destination, and moves of two files are in
`orch_live` (where they succeed) and `restart_stuck` (where a crash ends one) alone: that a move of several files that breaks off
between two, with or without a change of destination, loses nothing and is not taken for a success is shown by the proofs
(`TransferredKept`, `MoveDelivered`), not by a run. With `Truncated = {}`, `Outages = FALSE` and both properties `sync_files` is an
instance of it, too. Torrents that share an id or a name are in no run; `SemaphoreHolds`, `Implements` and
`NothingLeaks` are for these too. In `server` two of everything makes both
orders and both hosts happen; `MaxRequests` bounds requests under way. No other counter is bounded.

*Fairness.* Weak fairness of each run's and each file's steps: the Go scheduler runs what can run,
transfers and calls return (clients have timeouts, transfers are cancelled with their context). Strong
fairness of `Acquire`: a Go channel serves blocked senders in the order they came. Weak fairness of the
poll loop, by the ticker; strong fairness of `ExitLoop`, since a `select` with two ready branches takes either
with equal chance, so it cannot avoid one for ever. Weak fairness of `CompleteFile`: the seedbox goes on
downloading. Users, apps, crashes, outages and the watcher goroutine have none.
In `api`, strong fairness of each handler: a reader that waits behind a writer is let in when that writer
unlocks, however often another comes, which is what `sync.RWMutex` promises. In `server`, weak fairness of the
main goroutine, which includes the passing of the time each of its waits is limited to, and of the one
that waits for signals; nothing is assumed of transfers, polls, runs and requests, so that `ShutdownEnds` holds
whatever hangs. That the HTTP server fails is possible and never assumed.

*`PromptStart`.* The poll loop reads "pending" both for a job to be started and for one whose goroutine
was started in the poll before and has not got to `syncer.go:602`. `PromptStart = TRUE` assumes that a
goroutine gets that far before the loop looks at the torrent again. That is a poll interval as a rule, but the code
ensures no such thing: any positive `pollInterval` is accepted, the ticker keeps a tick for a loop that is inside
a long `MoveToFinal`, so that two polls may follow each other at once, and a goroutine waits for no one. With FALSE, `OneRunPerJob`
and `MoveDelivers` fail (see below). All passing runs use TRUE.

*`PromptImport`.* Apps import in their own time: the answer to the request only says that it is queued, and a file
may be taken long after, one by one. `PromptImport = TRUE` assumes that an app is through with a torrent's files
before a job is made for that torrent again, which a restart, an expiry or a removal and a return makes possible; until then it may take any
of them at any time. With FALSE the app takes files from under the new job, and what is at the destination is no
longer what the job put there (see below). All passing runs use TRUE; `FilesSurvive`, `JobsOwned`, `NothingLeaks`
and `Implements` need no such assumption.

## Findings

Each is a behaviour TLC exhibits; the first four are runs of the project.

| Run | Property | What happens |
|---|---|---|
| `sync_stuck` | `SyncEnds` | `SyncJob` sets "syncing", then returns the error of `GetFiles` (syncer.go:619) and leaves the status. The poll loop waits for a run that is not there, for ever: `SyncEnds` asks only that a job that says syncing and has no run is taken up again, or given up. |
| `restart_stuck` | `EventuallyComplete` | A restart between the moves of two files: the moved one is "skipped" in the new job, `MoveToFinal` looks for it in staging (syncer.go:744) and fails. The torrent stays in error. |
| `removed_stop` | `RemovalIsReal` | `Stop` cancels the context of a poll in progress; the failing `GetDownload` is taken for a removal (orchestrator.go:885) and unfinished torrents lose what was synced. A downloader that fails twice in a poll does the same (`MayStop = FALSE`, `Outages = TRUE`). |
| `import_missing` | `ImportSeesFiles` | The category changes when the files are moved and the import is not yet requested (orchestrator.go:1007): only the job's path changes, and the new app imports from a directory that is not there. |

More can be seen by checking a definition of the modules on an instance like the ones above:

| Definition | Instance | What happens |
|---|---|---|
| `OneRunPerJob`, `MoveDelivers` (SyncService) | `sync_jobs` with `PromptStart = FALSE` | a late goroutine and the poll loop make two runs of one job (orchestrator.go:680); the second may mark files syncing while `MoveToFinal` passes over them and reports success |
| `CompleteIsBacked`, `TransferredIsKept`, `MoveDelivers` (SyncService) | `sync_jobs` with `PromptImport = FALSE` | an app that is still importing takes a file from the final directory that the next job has marked skipped, or already moved |
| `ImportSeesFiles` (Orchestrator) | `orch_one` with `PromptImport = FALSE` | the same, before the second import is asked for |
| `CancelLeavesNothing` (SyncService) | `sync_jobs` | a run of a cancelled job stages a file after `CancelJob` (syncer.go:770) has cleaned up |
| `CompleteIsImported` (Orchestrator) | `orch_live` with `MaxCrashes = 1`, or `AppOutages = TRUE` | a restart after the move, or an app that refuses, leaves a torrent complete that was never imported (orchestrator.go:511, 765) |
| `CleanupOnRemoveCleans` (Orchestrator) | one app with `CleanOnRemove`, user action "remove", `MaxCrashes = 1` | a complete torrent found after a restart has no job, and its files stay (orchestrator.go:954) |
| `MigrationIsFinal` (Orchestrator) | `orch_apps` with `Faults = FALSE` | a migration goes to a directory below the one a later discovery looks in (orchestrator.go:1112, 497): the torrent is synced again |
| `SessionRecovers` (Sftp) | `server`, with fairness of `TransferStep` | the error of the first attempt at the session is kept (rclone.go:177); every later transfer fails with it, even if it was only the cancellation of the job that came first |
| `TransfersUseOwnHost` (Server) | `server` | with two seedboxes all transfers go to the host of whichever downloader comes first in a map's random order (server.go:67) |
| `ValidConfigRuns` (Server) | `server` | a negative `maxConcurrent` or `pollInterval` passes `validate` and panics in `make` (syncer.go:275) or `NewTicker` (orchestrator.go:244) |
| `CompletedFilesSurvive` (Orchestrator) | `orch_one` with `Downloads <- TwoTorrents`, `Hashes = {h1, h2}`, `HashOf <- OwnHashes`, `NameOf <- OneName`, `Downloaders = {box, box2}`, `DlOf <- TwoBoxes`, one slot of each kind, no cleanup option, no outages, no crash | two torrents with ids of their own have one name, as the same release from two trackers has. The unfinished one is removed; the cleanup of what it synced removes the directory of that name (orchestrator.go:1198), and the complete one's files with it, although no app asks for cleanup (docs/configuration/apps.md:44, 224) |
| `ListedIsWhole` (Api) | `api` | `GET /jobs` asks for the job and then for the state (api/server.go:333). A torrent that gets its job in between is listed as synced, moving or importing with `completed_size` 0, by the branch for torrents that "already exist at final destination or still downloading" (server.go:356); docs/api.md:96 says of synced "All files transferred" |
| `HeldIsLive` (Orchestrator) | two downloaders, `HashOf` the same, user action "remove" | jobs are keyed by torrent id alone (syncer.go:339): a removal at one downloader cancels the other's job |

Two more answers of the API that a reader might not expect, both in the model and outside its properties. `GET /jobs/:id`
shows what the seedbox has downloaded while there is no job and what is synced once there is one, so
its `completed_size` falls when the sync begins (server.go:460, 412). `GET /downloads` shows a torrent whose files
were found at the destination as complete with `synced_bytes` 0 (orchestrator.go:519, server.go:241), while `GET /jobs`
shows it whole (server.go:373).

## Proofs

What the proofs about the syncer assume of the constants is `FilesyncAssumption` and `SyncServiceAssumption`: some
torrent and some destination exist, every torrent has an id and a name, there is at least one file and one place in the semaphore, the
runs at any moment are finitely many. `OrchestratorAssumption` says that there are categories, that those of the
apps are among them, and where each app wants its files; `ProgressAssumption` and `ApiAssumption` that there is a file,
that it has a size, and which threads, locks and events there are, `HandlersAssumption` that the handlers called are among those modelled. `TimelineAssumption` says that the bound is a natural number, `ServerAssumption`
that configurations are of their type and that no host is called nothing. TLC evaluates all of them.

- `TypeCorrect` (SyncServiceProofs): `Spec => []TypeOK`. `TypeOK` is not inductive alone: a run's steps
  index `jobFile` by `runJob[r]`, which is a job only while the run is active, and the client's steps by
  `held[d]`. `TypeInv` adds `WorkIsWaitedFor` (only a run that waits has goroutines) and `HeldWhileBusy` (a
  torrent has a job exactly while its phase is not "none"). One lemma per group of actions, one case per
  action.
- `SemaphoreHolds` (SyncServiceRunProofs): `Spec => []SemaphoreBound`, for any number of torrents, jobs,
  runs and files. Every step but `Acquire` leaves the holders among those there were; `Acquire` adds one
  where there is room. It needs only that types are right.
- `OneRun` (SyncServiceRunProofs): `Spec => []OneRunPerJob`, assuming `PromptStart` and `OwnIds` (no two
  downloaders have the same torrent). `RunInv` adds `MapAgrees` (client and map agree on who has
  which job, and a job that is held is not cancelled) and `StatusTells` (the status of a job that is not
  cancelled is "pending" before the mark and "syncing" from it to the end of the run). So a job that reads
  "pending" has no run past the mark, and by `PromptStart` none before it. Both assumptions are needed:
  without the first there is the late goroutine above, without the second a job shared by two clients.
- `CompleteBacked`, `TransferredKept`, `MoveDelivered` (SyncServiceFileProofs): `CompleteIsBacked`,
  `TransferredIsKept` and `MoveDelivers`, under the assumptions of `OneRun`, with `PromptImport` and `OwnNames` (no two torrents
  have the same name, so that nobody else removes or overwrites what is at the destination). None of them is inductive; `FileInv`
  says what is known of each file. A staged copy of the wrong size exists only of a file whose remote copy has
  it (`SizesTell`), so a file a job is done with is never one of those (`SyncedIsWhole`), and a cancelled run
  that overwrites it writes a whole copy. A job that is complete has no run (by `StatusTells`), so its files
  stay as they are until the move (`StatusKept`, `CompleteIsSynced`). `Backed` is `TransferredIsKept` for skipped
  files too. The move is for the torrent that is moving (`MoveIsOurs`), and what it has passed is whole
  at the destination (`MovedSoFar`). That move and restart together do not terminate in success
  (`restart_stuck`) is no contradiction: then the move reports an error.
- `SyncedStable` (SyncServiceRunProofs): `SyncedIsStable`, under the assumptions of `OneRun`. A goroutine at work on a
  file is there because the file needs it (`WorkIsNeeded`): it was started for such a file, and as a job has one
  run, no other goroutine finishes the file behind its back. `MapKeepsAgreeing`: `MapAgrees` needs `OwnIds` alone.
- `Implements` (OrchestratorProofs): `Spec => ImplementsSyncService`, without further assumptions, so also where two
  downloaders share a torrent and goroutines are late. `Sync` is SyncService with `phase` computed by `PhaseOf`.
  `StepSimulates` takes the steps one by one: a step of the syncer is the same step there; one of the poll
  loop is a client step of the torrent it is about (`SeesPending` is `SeesPending`, `Expire` and `DropTracking` are
  `Forget` or, without a job, `Disposal`, `CancelSync` is `Abandon`, `Redirect` is `Retarget`, ...) or changes nothing of it. It holds where `SimInv` does:
  `ControlInv`, what the poll loop knows (a torrent has a job exactly in the states between sync and import; the job being moved
  is that of the torrent that is moving), with `TypeInv` and `IdInv` of SyncService, which the simulation itself
  hands back for the next step. `SameService` shows that the instance the property names and the one with the
  theorems are the same formulas.
- Through it the theorems on SyncService hold of the orchestrator. `TransfersBounded`: `SemaphoreBound`. `SyncerServes`: `OneRunPerJob`,
  `CompleteIsBacked`, `TransferredIsKept`, `SyncedIsStable` and `MoveDelivers`. `NothingLeaks` (from `IdInv`), `JobsOwned` and `HeldLive` (from `MapAgrees`): every job in the map is a tracked
  torrent's, every tracked torrent's is in it, and none that is held is cancelled. `NothingLeaks` holds for
  shared torrents too; the others do not (see Findings), and assume `OwnIds`. `SyncerServes` assumes what the theorems on SyncService do: `PromptStart`, `PromptImport`, `OwnIds` and `OwnNames`.
- `FilesSurvive`: `CompletedFilesSurvive`, assuming `OwnIds`, `OwnNames` and `OwnDirectories` (where one app's migrations go is not
  where another has its files). Without `OwnNames` it does not hold (see Findings). `PlaceKept` says where a complete torrent's files are; only its own change of
  category or an app touches them (`FilesStay`), and a migration copies before it removes.
- `ImportSees`: `ImportSeesFiles`, assuming `OwnIds`, `OwnNames`, `PromptStart`, `PromptImport` and `OneApp`, the condition under which no migration can come
  between the move and the import; `import_missing` is the counterexample for two. `Delivered` says that from
  the return of the move on all selected files are at the destination: by `MoveDelivers` when it returns, and
  after it because nobody but the torrent's own change or an app writes there.
- `NeverBack`, `Whole`, `Follow`, `Explained`, `TypeCorrect` (ApiProofs): the invariants of the runs `api` and `api_files` as far as they are about Api, for any number of clients,
  and files of any size, any bound of the timeline. `WorldInv` is about the poll loop, the job and its files:
  `CopyTells` (what is shown of a file is behind what its monitor has read, that behind what is copied),
  `NothingHalfDone` (what no goroutine works on is done or not begun, unless a file has failed; so a file shown in part
  is never taken for a new one), `SettledIsShown` (from "synced" on, and when the job is complete, no run is left
  and all is shown), `EventsBehind` (no event is ahead of the state), `BoxInv`
  (what the list of files says is at the seedbox is at most the whole). `ClientInv` says of each request what its
  handler has read and what that still implies: `Due` is what it may still have to read, `CountsAll`, `Explains` and `StageTells`
  are the three promises for an answer half put together. Between two steps of a handler anything may
  happen; `Onward` is what none of it takes back (a job is not un-made, bytes shown do not shrink, an error and a
  completion stay, a job does not become complete while a reader is inside), and is all that the handlers'
  proofs know of the others. The bytes of an answer are a sum over files, each read at its own time. `Counted`
  and `ShownBefore` speak of it without recursion: there are partial sums, file by file, that end with the
  bytes told and of which none grows by more than is shown now. What the theorems do not speak of are answers without a
  job: those of `GET /jobs/:id` have the seedbox's bytes, those of `GET /jobs` are `ListedIsWhole`'s.
- `UsesTimeline` (ApiProofs): each step of Api is one event recorded, or nothing, to Timeline: `Spec => TimelineSpec`. So
  `TimelineServes`: what is proved of the list alone holds of it in its place.
- `TimelineOrdered`, `TimelineKeeps` (TimelineProofs): `NewestFirst` and `OldestGoFirst` for any bound and any
  events. `NewestFirst` is inductive with the types; what is kept after `Record` is the new event and the first
  ones of the old list, so that whatever is gone is older than all of them, and `Clear` keeps the order.
- `ExitsClean`, `SessionOutlives`, `ConnectsOnce`, `PollsAreReady` (ServerProofs), with `TypeCorrect`: `CleanExit`,
  `SessionOutlivesTransfers`, `OneConnection` and `PollsReady`, for any configurations and any number of
  transfers and requests. `LifeInv` says what each stage of the main goroutine has behind it, on the way up
  (`BuiltInOrder`) and on the way down (`StoppedInOrder`), that only runs transfer, and that one call at
  most is making the session (`OneDialer`). The argument of `CleanExit`: `Close` does not see a session that is still being
  made, but who makes it is a transfer, transfers belong to runs, and unless its time was up `Stop` has seen the
  poll loop, which alone starts runs, and the runs end.

Only model-checked: all liveness (`EventuallyComplete`, `StopEnds`, `RunsEnd`, `RequestsAnswered`, `ShutdownEnds`), which is out of
the prover's reach, and the findings, which are counterexamples. Every invariant and every action property
of a passing run is a theorem. The strengthenings were checked with TLC on small instances before they were
proved.

## Not modelled, and the plan

Not modelled: the web UI, which shows what the API answers; of the API, the speed history, health and the
lists of what is configured, which read one value or none that changes; the search for configuration files
and the binding of environment variables; HTTP, cookies and the decoding of answers in the clients; rclone
itself, whose part is a copy that ends well or does not; the wording of logs and events; the test helpers.

What could still be added, in this order:

1. The states of a torrent as the qBittorrent client maps them (qbittorrent.go:296), and the expiry of its
   session, in Orchestrator's outages.
2. Changes of category in Api, the answers between the change and the new path; and a torrent forgotten and found again.
3. Orchestrator with several apps per category (an import that fails at one of them), a property for
   the daily expiry, and instances with a torrent at two downloaders.
4. An abstract `Pipeline` (offered, delivered, imported, gone) that Orchestrator implements where calls
   do not fail.

To be proved next: `ImportSeesFiles` for several apps, as far as no change of category is noticed between the move and the
import, in place of `OneApp`; that an orchestrator whose calls do not fail implements `Pipeline`, once it is
written; and with any change of category in Api, that `ClientInv` holds of it too.
