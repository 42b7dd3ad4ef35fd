------------------------------ MODULE ApiProofs ------------------------------
(***************************************************************************)
(* Proofs about Api, for any numbers of clients and files, of files of any *)
(* size, and for any bound of the timeline.                                *)
(***************************************************************************)
EXTENDS Api, TimelineProofs

(***************************************************************************)
(* What is known between any two steps.  First of the poll loop, the job   *)
(* and its files, then of a request that is being answered.                *)
(***************************************************************************)
Settled == {"synced", "moving", "importing", "complete"}

\* A state says whether there is a job, and where the poll loop is says what the state is.
StateTells ==
  /\ td.err <=> td.state = "error"
  /\ td.done <=> td.state = "complete"
  /\ td.state \in {"syncing", "synced", "moving", "importing"} => td.job
  /\ td.state \in {"untracked", "discovered"} => ~ td.job
  /\ inJobs => td.job
  /\ td.job <=> jobStatus # "absent"
  /\ jobStatus = "absent" => runPc = "none"

PcTells ==
  /\ pollPc \in {"boot", "discover"} => td.state = "untracked"
  /\ pollPc = "starting" => td.state = "discovered"
  /\ pollPc \in {"created", "launch"} =>
       td.state = "syncing" /\ jobStatus = "pending" /\ runPc = "none"
  /\ pollPc = "continuing" => td.state = "syncing"
  /\ pollPc = "synced" => td.state = "synced"
  /\ pollPc = "moving" => td.state = "moving"
  /\ pollPc \in {"moved", "importing", "imported"} => td.state = "importing"
  /\ pollPc = "completed" => td.state = "complete"

\* The state is set before its event is recorded.
EventsBehind ==
  \A i \in DOMAIN events : events[i].type # "error" => Stage(events[i].type) <= Stage(td.state)

\* A file's goroutine and its monitor: what is shown is behind what is copied.
CopyTells ==
  \A f \in Files :
    /\ filePc[f] # "none" => runPc = "wait"
    /\ Done(f) => filePc[f] = "none" /\ shown[f] = FileSize
    /\ filePc[f] \notin {"copy", "copied", "failed"} => monitor[f].at = "off"
    /\ filePc[f] = "start" => shown[f] = 0
    /\ filePc[f] \in {"copy", "copied", "failed"} => shown[f] <= copied[f]
    /\ monitor[f].at = "read" => shown[f] <= monitor[f].bytes /\ monitor[f].bytes <= copied[f]

\* Unless a file has failed, what is not done and not being copied is not begun.
CleanRun ==
  \/ runPc \in {"begin", "mark", "list"}
  \/ runPc \in {"wait", "finish"} /\ ~ runErr
  \/ runPc = "none" /\ jobStatus \in {"absent", "pending"}
NothingHalfDone == CleanRun => \A f \in Files : filePc[f] = "none" => Done(f) \/ shown[f] = 0

\* From when the job is complete, its files are, and no run begins.
JobShown == jobStatus \in {"complete", "error"} /\ runPc = "none" /\ \A f \in Files : Done(f)
AllShown == td.state \notin {"untracked", "discovered"} /\ (td.job => JobShown)
SettledIsShown == td.state \in Settled \/ jobStatus = "complete" => AllShown

WorldType ==
  /\ ProgressTypeOK /\ TimelineTypeOK
  /\ tracked \in BOOLEAN /\ td \in TrackedDownload /\ inJobs \in BOOLEAN

WorldInv ==
  /\ WorldType /\ StateTells /\ PcTells /\ EventsBehind
  /\ CopyTells /\ NothingHalfDone /\ SettledIsShown

-----------------------------------------------------------------------------
Answer ==
  [found : BOOLEAN, state : State, err : BOOLEAN, done : BOOLEAN, job : BOOLEAN,
   status : FileStatus \cup {"absent"}, bytes : Nat, stage : 0..7]
Item == {"find", "state", "error", "times", "job", "snapshot", "lookup", "rlock", "td",
         "runlock", "events", "download"}
Requests ==
  [handler : {"none"} \cup DOMAIN Reads, todo : Seq(Item), at : 0..NFiles + 1, got : Answer]

\* What a handler may have still to read, and the next of it.
Due(handler, todo) ==
  \/ todo = <<>>
  \/ /\ handler = "downloads"
     /\ todo \in {<<"find", "state", "error", "times", "job", "snapshot">>,
                  <<"state", "error", "times", "job", "snapshot">>,
                  <<"error", "times", "job", "snapshot">>,
                  <<"times", "job", "snapshot">>, <<"job", "snapshot">>, <<"snapshot">>}
  \/ /\ handler = "download"
     /\ todo \in {<<"find", "state", "job", "snapshot">>, <<"state", "job", "snapshot">>,
                  <<"job", "snapshot">>, <<"snapshot">>}
  \/ /\ handler = "jobs"
     /\ todo \in {<<"find", "job", "state", "snapshot">>, <<"job", "state", "snapshot">>,
                  <<"state", "snapshot">>, <<"snapshot">>}
  \/ /\ handler = "syncJob"
     /\ todo \in {<<"lookup", "snapshot", "find", "download", "state">>, <<"snapshot">>,
                  <<"find", "download", "state">>, <<"download", "state">>, <<"state">>}
  \/ /\ handler = "stats"
     /\ todo \in {<<"rlock", "td", "snapshot", "runlock">>, <<"td", "snapshot", "runlock">>,
                  <<"snapshot", "runlock">>, <<"runlock">>}
  \/ handler = "timeline" /\ todo = <<"events">>
Upcoming(todo) == IF todo = <<>> THEN "end" ELSE Head(todo)

\* The order in which each handler reads, as pairs of neighbours.
Follows(h, x, y) ==
  \/ h = "downloads" /\ \/ x = "find" /\ y = "state"
                        \/ x = "state" /\ y = "error"
                        \/ x = "error" /\ y = "times"
                        \/ x = "times" /\ y = "job"
                        \/ x = "job" /\ y = "snapshot"
                        \/ x = "snapshot" /\ y = "end"
  \/ h = "download" /\ \/ x = "find" /\ y = "state"
                       \/ x = "state" /\ y = "job"
                       \/ x = "job" /\ y = "snapshot"
                       \/ x = "snapshot" /\ y = "end"
  \/ h = "jobs" /\ \/ x = "find" /\ y = "job"
                   \/ x = "job" /\ y = "state"
                   \/ x = "state" /\ y = "snapshot"
                   \/ x = "snapshot" /\ y = "end"
  \/ h = "syncJob" /\ \/ x = "find" /\ y = "download"
                      \/ x = "download" /\ y = "state"
                      \/ x = "state" /\ y = "end"
                      \/ x = "snapshot" /\ y = "end"
                      \/ x = "lookup" /\ y = "snapshot"
  \/ h = "stats" /\ \/ x = "rlock" /\ y = "td"
                    \/ x = "td" /\ y = "snapshot"
                    \/ x = "snapshot" /\ y = "runlock"
                    \/ x = "runlock" /\ y = "end"
  \/ h = "timeline" /\ x = "events" /\ y = "end"

ClientType ==
  /\ req \in [Clients -> Requests]
  /\ seen \in [Clients -> [stage : 0..7, bytes : Nat]]
  /\ \A c \in Clients : Due(req[c].handler, req[c].todo)

\* What is not read yet is not known.
Unread(c) ==
  LET r == req[c]  next == Upcoming(r.todo)
  IN  /\ r.handler = "none" => next = "end" /\ r.at = 0 /\ r.got = Nothing
      /\ next \in {"find", "lookup"} => r.got.state = "untracked"
      /\ next \in {"find", "lookup", "rlock", "td", "events"} => ~ r.got.job
      /\ next = "download" \/ (next = "state" /\ r.handler = "syncJob") => ~ r.got.job
      /\ next \notin {"end", "runlock"} => r.got.status = "absent"
      /\ next \notin {"end", "runlock"} /\ r.at = 0 =>
           r.got.bytes = 0 \/ (next = "state" /\ r.handler = "syncJob")

\* A job is read under its lock.
Reading(c) ==
  LET r == req[c]
  IN  r.at # 0 => /\ Upcoming(r.todo) = "snapshot" /\ r.got.job
                  /\ c \in locks["job"].readers

\* The job that has been read is there, and stays.
JobKnown(c) ==
  LET r == req[c]
  IN  /\ r.got.job => td.job
      /\ r.got.status # "absent" => r.got.job
      /\ r.handler = "stats" /\ r.got.job /\ Upcoming(r.todo) # "end" => r.got.state = "syncing"

\* A state from which on the files are whole has them counted in full.
CountsAll(c) ==
  LET r == req[c]  next == Upcoming(r.todo)
  IN  /\ r.got.state \in Settled \/ r.got.status = "complete" => AllShown
      /\ r.at # 0 /\ (r.got.state \in Settled \/ jobStatus = "complete") =>
           r.got.bytes = (r.at - 1) * FileSize
      /\ /\ next \in {"end", "runlock"} /\ r.got.job
         /\ r.got.state \in Settled \/ r.got.status = "complete"
         => r.got.bytes = TotalSize
      /\ next = "end" /\ r.handler = "jobs" /\ r.got.state = "complete" /\ ~ r.got.job =>
           r.got.bytes = TotalSize
      /\ r.at # 0 => r.got.bytes <= (r.at - 1) * FileSize
      /\ r.got.bytes <= TotalSize
      /\ seen[c].bytes <= TotalSize

\* An error and a completion are for ever.
Explains(c) ==
  LET r == req[c]  next == Upcoming(r.todo)
  IN  r.handler = "downloads" =>
        /\ r.got.state = "error" => td.state = "error"
        /\ r.got.state = "complete" => td.state = "complete"
        /\ r.got.state = "error" /\ next \notin {"find", "state", "error"} => r.got.err
        /\ r.got.state = "complete" /\ next \notin {"find", "state", "error", "times"} =>
             r.got.done

\* The torrent is at least as far as any event that was seen.
StageTells(c) ==
  LET r == req[c]
  IN  /\ seen[c].stage <= Stage(td.state) /\ r.got.stage <= Stage(td.state)
      /\ r.got.state # "untracked" => seen[c].stage <= Stage(r.got.state)

\* bytes may have been read of the files before the k-th: there are sums, file
\* by file, that end with it and of which none grows by more than is shown now.
Counted(bytes, k) ==
  \E sum \in [1..NFiles + 1 -> Nat] :
     /\ sum[1] = 0 /\ sum[k] = bytes
     /\ \A f \in 1..(k - 1) : sum[f + 1] <= sum[f] + shown[f]

\* What c was shown, it may be shown again; what it has counted so far is no less.
ShownBefore(c) ==
  LET r == req[c]
  IN  \E sum \in [1..NFiles + 1 -> Nat] :
         /\ sum[1] = 0 /\ sum[NFiles + 1] = seen[c].bytes
         /\ \A f \in Files : sum[f + 1] <= sum[f] + shown[f]
         /\ r.at # 0 => sum[r.at] <= r.got.bytes
CountsUp(c) ==
  LET r == req[c]  next == Upcoming(r.todo)
  IN  /\ ShownBefore(c)
      /\ seen[c].bytes # 0 => td.job
      /\ r.at # 0 => Counted(r.got.bytes, r.at)
      /\ next \in {"end", "runlock"} /\ r.got.job =>
           Counted(r.got.bytes, NFiles + 1) /\ seen[c].bytes <= r.got.bytes

Informed(c) ==
  /\ Unread(c) /\ Reading(c) /\ JobKnown(c) /\ CountsAll(c) /\ Explains(c)
  /\ StageTells(c) /\ CountsUp(c)
ClientInv == ClientType /\ \A c \in Clients : Informed(c)

\* The list of files does not say that more is at the downloader than there is.
BoxInv == atBox \in 0..TotalSize

ApiInv == WorldInv /\ ClientInv /\ BoxInv

-----------------------------------------------------------------------------
(***************************************************************************)
(* Types                                                                   *)
(***************************************************************************)
ReadersStay == \A l \in Locks : locks'[l].readers = locks[l].readers

\* Each operation of a lock keeps its type.
LEMMA LocksKeepType ==
  ASSUME RWMutexTypeOK, NEW t \in Threads, NEW l \in Locks,
         \/ RLock(t, l) \/ RUnlock(t, l) \/ Await(t, l) \/ Lock(t, l) \/ Unlock(l)
         \/ WriteAtOnce(t, l) \/ UNCHANGED locks
  PROVE  RWMutexTypeOK'
  <1> USE DEF RWMutexTypeOK
  <1>1. CASE RLock(t, l)
    BY <1>1 DEF RLock
  <1>2. CASE RUnlock(t, l)
    BY <1>2 DEF RUnlock
  <1>3. CASE Await(t, l)
    BY <1>3 DEF Await
  <1>4. CASE Lock(t, l)
    BY <1>4 DEF Lock
  <1>5. CASE Unlock(l)
    BY <1>5 DEF Unlock
  <1>6. CASE WriteAtOnce(t, l)
    BY <1>6 DEF WriteAtOnce
  <1>7. CASE UNCHANGED locks
    BY <1>7
  <1> QED
    BY <1>1, <1>2, <1>3, <1>4, <1>5, <1>6, <1>7

\* A writer that comes, waits or goes leaves the readers.
LEMMA WritersLeaveReaders ==
  ASSUME RWMutexTypeOK, NEW t \in Threads, NEW l \in Locks,
         Await(t, l) \/ Lock(t, l) \/ Unlock(l) \/ WriteAtOnce(t, l) \/ UNCHANGED locks
  PROVE  ReadersStay
  <1> USE DEF RWMutexTypeOK, ReadersStay
  <1>1. CASE Await(t, l)
    BY <1>1 DEF Await
  <1>2. CASE Lock(t, l)
    BY <1>2 DEF Lock
  <1>3. CASE Unlock(l)
    BY <1>3 DEF Unlock
  <1>4. CASE WriteAtOnce(t, l)
    BY <1>4 DEF WriteAtOnce
  <1>5. CASE UNCHANGED locks
    BY <1>5
  <1> QED
    BY <1>1, <1>2, <1>3, <1>4, <1>5

LEMMA ThreadsAndLocks ==
  /\ "poll" \in Threads /\ "run" \in Threads /\ Clients \subseteq Threads
  /\ "tracked" \in Locks /\ "td" \in Locks /\ "job" \in Locks
  BY ApiAssumption

LEMMA Sizes ==
  /\ NFiles \in Nat /\ NFiles >= 1 /\ FileSize \in Nat /\ FileSize >= 1
  /\ TotalSize \in Nat /\ TotalSize = NFiles * FileSize
  BY ProgressAssumption DEF TotalSize

\* How far along a state is.
LEMMA StageIsSmall == \A x : Stage(x) \in 0..7
  BY DEF Stage

LEMMA StageOf ==
  /\ Stage("untracked") = 0 /\ Stage("discovered") = 1
  /\ Stage("syncing") = 2 /\ Stage("synced") = 3 /\ Stage("moving") = 4
  /\ Stage("importing") = 5 /\ Stage("complete") = 6 /\ Stage("error") = 7
  /\ Stage("system_started") = 0 /\ Stage("removed") = 0
  /\ Stage("sync_started") = 2 /\ Stage("sync_complete") = 3 /\ Stage("move_complete") = 5
  /\ Stage("import_started") = 5 /\ Stage("import_complete") = 5
  /\ Stage("import_failed") = 5
  BY DEF Stage

LEMMA StageBegins ==
  Stage("untracked") <= Stage("discovered") /\ Stage("discovered") <= Stage("syncing")
  BY StageOf

LEMMA StageStays == ASSUME NEW x PROVE Stage(x) <= Stage(x)
  <1>1. Stage(x) \in 0..7
    BY StageIsSmall
  <1> QED
    BY <1>1

LEMMA StageGoesOn ==
  ASSUME NEW x, NEW y, NEW z, Stage(x) <= Stage(y), Stage(y) <= Stage(z)
  PROVE  Stage(x) <= Stage(z)
  <1>1. Stage(x) \in Nat /\ Stage(y) \in Nat /\ Stage(z) \in Nat
    BY StageIsSmall
  <1> QED
    BY <1>1

\* Every event that the poll loop records is one.
LEMMA LogRecords ==
  ASSUME TimelineTypeOK, EventsBehind, NEW type, NEW app, NEW download, Log(type, download, app),
         type \in {"system_started", "discovered", "sync_started", "sync_complete",
                   "move_complete", "import_started", "import_complete", "import_failed",
                   "removed", "error", "complete"},
         download \in {"", "torrent"}, app \in {"", "app"},
         td \in TrackedDownload, td' \in TrackedDownload,
         Stage(td.state) <= Stage(td'.state),
         type = "error" \/ Stage(type) <= Stage(td'.state)
  PROVE  TimelineTypeOK' /\ EventsBehind'
  <1> DEFINE e == [type |-> type, download |-> download, app |-> app,
                   downloader |-> IF download = "" THEN "" ELSE "box"]
  <1>1. e \in NewEvent
    BY ApiAssumption DEF NewEvent
  <1>2. Record(e)
    BY DEF Log
  <1>3. WithID(e).type = type
    BY DEF WithID
  <1> HIDE DEF e
  <1>4. TimelineTypeOK'
    BY <1>1, <1>2, RecordShifts DEF TimelineTypeOK
  <1>5. ASSUME NEW i \in DOMAIN events', events'[i].type # "error"
        PROVE  Stage(events'[i].type) <= Stage(td'.state)
    <2>1. CASE i = 1
      <3>1. events'[i] = WithID(e)
        BY <1>1, <1>2, <1>5, <2>1, RecordShifts
      <3>2. events'[i].type = type
        BY <3>1, <1>3
      <3> QED
        BY <3>2, <1>5
    <2>2. CASE i # 1
      <3>1. events'[i] = events[i - 1] /\ i - 1 \in DOMAIN events
        BY <1>1, <1>2, <1>5, <2>2, RecordShifts
      <3>2. Stage(events[i - 1].type) <= Stage(td.state)
        BY <3>1, <1>5 DEF EventsBehind
      <3>3. Stage(events[i - 1].type) <= Stage(td'.state)
        BY <3>2, StageGoesOn, Zenon
      <3> QED
        BY <3>1, <3>3
    <2> QED
      BY <2>1, <2>2
  <1> QED
    BY <1>4, <1>5 DEF EventsBehind

-----------------------------------------------------------------------------
(***************************************************************************)
(* The poll loop                                                           *)
(***************************************************************************)
\* What no step of the poll loop or of a run takes back, whoever is reading.
Onward ==
  /\ Stage(td.state) <= Stage(td'.state)
  /\ td.state \in {"error", "complete"} => td'.state = td.state
  /\ td.job => td'.job
  /\ td.job => \A f \in Files : shown[f] <= shown'[f]
  /\ AllShown => AllShown'
  /\ jobStatus' = "complete" => jobStatus = "complete" \/ locks["job"].readers = {}
  /\ ReadersStay

LEMMA StaysAsShown ==
  ASSUME ProgressTypeOK, UNCHANGED shown
  PROVE  \A f \in Files : shown[f] <= shown'[f]
  BY DEF ProgressTypeOK

\* A step that changes neither the state nor the job.
LEMMA SameWorld ==
  ASSUME WorldInv, UNCHANGED <<td, progressVars>>, tracked' \in BOOLEAN, inJobs' \in BOOLEAN,
         inJobs' => inJobs, RWMutexTypeOK', ReadersStay, TimelineTypeOK', EventsBehind', PcTells'
  PROVE  WorldInv' /\ Onward
  <1> USE DEF WorldInv, progressVars, jobVars, fileVars
  <1>1. WorldType'
    BY DEF WorldType, ProgressTypeOK
  <1>2. StateTells'
    BY DEF StateTells
  <1>3. CopyTells'
    BY DEF CopyTells, Done
  <1>4. NothingHalfDone'
    BY DEF NothingHalfDone, CleanRun, Done
  <1>5. AllShown' <=> AllShown
    BY DEF AllShown, JobShown, Done
  <1>6. SettledIsShown'
    BY <1>5 DEF SettledIsShown
  <1>7. Stage(td.state) <= Stage(td'.state)
    BY StageStays, Zenon
  <1>8. \A f \in Files : shown[f] <= shown'[f]
    BY StaysAsShown DEF WorldType
  <1> QED
    BY <1>1, <1>2, <1>3, <1>4, <1>5, <1>6, <1>7, <1>8 DEF Onward

\* Such a step of the poll loop that only takes, keeps or gives back a lock.
LEMMA LockingKeeps ==
  ASSUME WorldInv, UNCHANGED <<progressVars, timelineVars, tracked, td, inJobs>>, PcTells',
         NEW l \in Locks, Await("poll", l) \/ Lock("poll", l) \/ Unlock(l) \/ UNCHANGED locks
  PROVE  WorldInv' /\ Onward
  <1> USE DEF WorldInv, WorldType, ProgressTypeOK, timelineVars
  <1>1. RWMutexTypeOK' /\ ReadersStay
    BY LocksKeepType, WritersLeaveReaders, ThreadsAndLocks
  <1>2. TimelineTypeOK'
    BY DEF TimelineTypeOK
  <1>3. EventsBehind'
    BY DEF EventsBehind
  <1> QED
    BY <1>1, <1>2, <1>3, SameWorld

\* And one that only records an event.
LEMMA LoggingKeeps ==
  ASSUME WorldInv, UNCHANGED <<locks, progressVars, tracked, td, inJobs>>, PcTells',
         NEW type, NEW download, NEW app, Log(type, download, app),
         type \in {"system_started", "discovered", "sync_started", "sync_complete",
                   "move_complete", "import_started", "import_complete", "import_failed",
                   "removed", "error", "complete"},
         download \in {"", "torrent"}, app \in {"", "app"},
         type = "error" \/ Stage(type) <= Stage(td.state)
  PROVE  WorldInv' /\ Onward
  <1> USE DEF WorldInv, WorldType, ProgressTypeOK
  <1>1. RWMutexTypeOK' /\ ReadersStay
    BY LocksKeepType, WritersLeaveReaders, ThreadsAndLocks
  <1>2. Stage(td.state) <= Stage(td'.state)
    BY StageStays, Zenon
  <1>3. type = "error" \/ Stage(type) <= Stage(td'.state)
    BY Zenon
  <1>4. TimelineTypeOK' /\ EventsBehind'
    BY <1>2, <1>3, LogRecords
  <1> QED
    BY <1>1, <1>4, SameWorld

LEMMA LockStepsKeep ==
  ASSUME WorldInv,
         \/ Discover \/ DiscoverEnds \/ Listed \/ Refresh \/ StartSyncing \/ NothingReady
         \/ ContinueSyncing \/ SeesSyncing \/ SeesPending \/ UnlockTracked \/ Rest \/ Expire
         \/ PollAwaits
  PROVE  WorldInv' /\ Onward
  <1> USE DEF WorldInv, LockStep, Go
  <1>1. CASE Discover
    BY <1>1, LockingKeeps, ThreadsAndLocks DEF Discover, PcTells, progressVars, jobVars
  <1>2. CASE DiscoverEnds
    BY <1>2, LockingKeeps, ThreadsAndLocks DEF DiscoverEnds, PcTells
  <1>3. CASE Listed
    BY <1>3, LockingKeeps, ThreadsAndLocks DEF Listed, PcTells
  <1>4. CASE Refresh
    <2>1. PcTells'
      BY <1>4 DEF Refresh, PcTells
    <2> QED
      BY <1>4, <2>1, LockingKeeps, ThreadsAndLocks DEF Refresh
  <1>5. CASE StartSyncing
    BY <1>5, LockingKeeps, ThreadsAndLocks DEF StartSyncing, PcTells
  <1>6. CASE NothingReady
    BY <1>6, LockingKeeps, ThreadsAndLocks DEF NothingReady, PcTells
  <1>7. CASE ContinueSyncing
    BY <1>7, LockingKeeps, ThreadsAndLocks DEF ContinueSyncing, PcTells
  <1>8. CASE SeesSyncing
    BY <1>8, LockingKeeps, ThreadsAndLocks DEF SeesSyncing, PcTells
  <1>9. CASE SeesPending
    <2>1. PcTells'
      BY <1>9 DEF SeesPending, PcTells, progressVars, jobVars
    <2> QED
      BY <1>9, <2>1, LockingKeeps, ThreadsAndLocks DEF SeesPending
  <1>10. CASE UnlockTracked
    BY <1>10, LockingKeeps, ThreadsAndLocks DEF UnlockTracked, PcTells
  <1>11. CASE Rest
    BY <1>11, LockingKeeps, ThreadsAndLocks DEF Rest, PcTells
  <1>12. CASE Expire
    BY <1>12, LockingKeeps, ThreadsAndLocks DEF Expire, PcTells
  <1>13. CASE PollAwaits
    <2>1. PcTells'
      BY <1>13 DEF PollAwaits, PcTells, progressVars, jobVars, pollVars
    <2> QED
      BY <1>13, <2>1, LockingKeeps, ThreadsAndLocks DEF PollAwaits, pollVars
  <1> QED
    BY <1>1, <1>2, <1>3, <1>4, <1>5, <1>6, <1>7, <1>8, <1>9, <1>10, <1>11, <1>12, <1>13

LEMMA LogStepsKeep ==
  ASSUME WorldInv,
         \/ SystemStarts \/ LogSyncStarted \/ LogSync \/ LogMove \/ StartImport \/ ImportReturns
         \/ LogComplete \/ Removed
  PROVE  WorldInv' /\ Onward
  <1> USE DEF WorldInv, LogStep, Go
  <1>1. CASE SystemStarts
    <2>0. td.state = "untracked"
      BY <1>1 DEF SystemStarts, PcTells
    <2>1. Stage("system_started") <= Stage(td.state)
      BY <2>0, StageOf
    <2> QED
      BY <1>1, <2>1, LoggingKeeps DEF SystemStarts, PcTells
  <1>2. CASE LogSyncStarted
    <2>0. td.state = "syncing"
      BY <1>2 DEF LogSyncStarted, PcTells
    <2>1. Stage("sync_started") <= Stage(td.state)
      BY <2>0, StageOf
    <2>2. PcTells'
      BY <1>2 DEF LogSyncStarted, PcTells, progressVars, jobVars
    <2> QED
      BY <1>2, <2>1, <2>2, LoggingKeeps DEF LogSyncStarted
  <1>3. CASE LogSync
    <2>1. CASE LogStep("synced", "unlock", "sync_complete", "")
      <3>0. td.state = "synced"
        BY <2>1 DEF PcTells
      <3>1. Stage("sync_complete") <= Stage(td.state)
        BY <3>0, StageOf
      <3> QED
        BY <2>1, <3>1, LoggingKeeps DEF PcTells
    <2>2. CASE LogStep("failed", "unlock", "error", "")
      BY <2>2, LoggingKeeps DEF PcTells
    <2> QED
      BY <1>3, <2>1, <2>2 DEF LogSync
  <1>4. CASE LogMove
    <2>0. td.state = "importing"
      BY <1>4 DEF LogMove, PcTells
    <2>1. Stage("move_complete") <= Stage(td.state)
      BY <2>0, StageOf
    <2> QED
      BY <1>4, <2>1, LoggingKeeps DEF LogMove, PcTells
  <1>5. CASE StartImport
    <2>1. Stage("import_started") <= Stage(td.state)
      BY <1>5, StageOf DEF StartImport, PcTells
    <2> QED
      BY <1>5, <2>1, LoggingKeeps DEF StartImport, PcTells
  <1>6. CASE ImportReturns
    <2>1. /\ Stage("import_complete") <= Stage(td.state)
          /\ Stage("import_failed") <= Stage(td.state)
      BY <1>6 DEF ImportReturns, PcTells, Stage
    <2>2. PcTells'
      BY <1>6 DEF ImportReturns, PcTells
    <2>3. CASE LogStep("importing", "imported", "import_complete", "app")
      BY <2>1, <2>2, <2>3, LoggingKeeps
    <2>4. CASE LogStep("importing", "imported", "import_failed", "app")
      BY <2>1, <2>2, <2>4, LoggingKeeps
    <2> QED
      BY <1>6, <2>3, <2>4 DEF ImportReturns
  <1>7. CASE LogComplete
    <2>0. td.state = "complete"
      BY <1>7 DEF LogComplete, PcTells
    <2>1. Stage("complete") <= Stage(td.state)
      BY <2>0, StageOf
    <2> QED
      BY <1>7, <2>1, LoggingKeeps DEF LogComplete, PcTells
  <1>8. CASE Removed
    <2>1. Stage("removed") <= Stage(td.state)
      BY StageIsSmall, StageOf
    <2> QED
      BY <1>8, <2>1, LoggingKeeps DEF Removed, PcTells
  <1> QED
    BY <1>1, <1>2, <1>3, <1>4, <1>5, <1>6, <1>7, <1>8

\* A step that changes the state, and says so in the rest of the torrent.
LEMMA StateChanges ==
  ASSUME WorldInv, UNCHANGED <<progressVars, inJobs>>, tracked' \in BOOLEAN,
         RWMutexTypeOK', ReadersStay, PcTells', TimelineTypeOK', EventsBehind',
         NEW s \in State, td' \in TrackedDownload, td'.state = s, td'.job = td.job,
         td'.err <=> s = "error", td'.done <=> s = "complete",
         Stage(td.state) <= Stage(s), td.state \notin {"error", "complete"},
         s \in {"syncing", "synced", "moving", "importing"} => td.job,
         s \in {"untracked", "discovered"} => td.state = "untracked",
         s \in Settled => (td.job => JobShown)
  PROVE  WorldInv' /\ Onward
  <1> USE DEF WorldInv, progressVars, jobVars, fileVars
  <1>1. WorldType'
    BY DEF WorldType, ProgressTypeOK
  <1>2. StateTells'
    BY DEF StateTells
  <1>3. CopyTells'
    BY DEF CopyTells, Done
  <1>4. NothingHalfDone'
    BY DEF NothingHalfDone, CleanRun, Done
  <1>5. JobShown' <=> JobShown
    BY DEF JobShown, Done
  <1>6. AllShown => AllShown'
    BY <1>5 DEF AllShown
  <1>7. SettledIsShown'
    BY <1>5, <1>6 DEF SettledIsShown, AllShown, Settled
  <1>8. \A f \in Files : shown[f] <= shown'[f]
    BY StaysAsShown DEF WorldType
  <1>9. Stage(td.state) <= Stage(td'.state)
    BY Zenon
  <1> QED
    BY <1>1, <1>2, <1>3, <1>4, <1>6, <1>7, <1>8, <1>9 DEF Onward

\* What such a step finds, for each place of the poll loop.
LEMMA SetStepsKeep ==
  ASSUME WorldInv,
         SkipSync \/ SeesComplete \/ SeesError \/ StartMove \/ MoveFails \/ MoveReturns \/ Complete
  PROVE  WorldInv' /\ Onward
  <1> USE DEF WorldInv, WorldType, Go, SetStep, timelineVars
  <1>1. td \in TrackedDownload /\ td.state \in State /\ (td.err <=> td.state = "error")
        /\ (td.done <=> td.state = "complete")
    BY DEF StateTells, TrackedDownload
  <1>2. UNCHANGED <<progressVars, timelineVars, tracked, inJobs>>
    BY DEF SkipSync, SeesComplete, SeesError, StartMove, MoveFails, MoveReturns, Complete
  <1>3. UNCHANGED locks \/ WriteAtOnce("poll", "td")
    BY DEF SkipSync, SeesComplete, SeesError, StartMove, MoveFails, MoveReturns, Complete
  <1>4. RWMutexTypeOK' /\ ReadersStay
    BY <1>3, LocksKeepType, WritersLeaveReaders, ThreadsAndLocks DEF ProgressTypeOK
  <1>5. TimelineTypeOK'
    BY <1>2 DEF TimelineTypeOK
  <1>6. ASSUME Stage(td.state) <= Stage(td'.state) PROVE EventsBehind'
    <2>1. ASSUME NEW i \in DOMAIN events, events[i].type # "error"
          PROVE  Stage(events[i].type) <= Stage(td'.state)
      <3>1. Stage(events[i].type) <= Stage(td.state)
        BY <2>1 DEF EventsBehind
      <3> QED
        BY <3>1, <1>6, StageGoesOn, Zenon
    <2> QED
      BY <1>2, <2>1 DEF EventsBehind
  <1>7. td.job => (td.state \in Settled \/ jobStatus = "complete" => JobShown)
    BY DEF SettledIsShown, AllShown
  <1>a. CASE SkipSync
    <2>1. td.state = "discovered" /\ ~ td.job
      BY <1>a DEF SkipSync, PcTells, StateTells
    <2>2. /\ td' \in TrackedDownload /\ td'.state = "complete" /\ td'.job = td.job
          /\ td'.err = FALSE /\ td'.done = TRUE
      BY <1>1, <1>a, <2>1 DEF SkipSync, SetComplete, TrackedDownload, State
    <2>3. Stage(td.state) <= Stage(td'.state)
      BY <2>1, <2>2, StageOf
    <2>4. PcTells'
      BY <1>a DEF SkipSync, PcTells
    <2> QED
      BY <1>2, <1>4, <1>5, <1>6, <2>1, <2>2, <2>3, <2>4, StateChanges DEF State
  <1>b. CASE SeesComplete
    <2>1. td.state = "syncing" /\ td.job /\ JobShown
      BY <1>7, <1>b DEF SeesComplete, PcTells, StateTells
    <2>2. /\ td' \in TrackedDownload /\ td'.state = "synced" /\ td'.job = td.job
          /\ td'.err = FALSE /\ td'.done = FALSE
      BY <1>1, <1>b, <2>1 DEF SeesComplete, SetState, TrackedDownload, State
    <2>3. Stage(td.state) <= Stage(td'.state)
      BY <2>1, <2>2, StageOf
    <2>4. PcTells'
      BY <1>b, <2>2 DEF SeesComplete, PcTells
    <2> QED
      BY <1>2, <1>4, <1>5, <1>6, <2>1, <2>2, <2>3, <2>4, StateChanges DEF State
  <1>c. CASE SeesError
    <2>1. td.state = "syncing" /\ td.job
      BY <1>c DEF SeesError, PcTells, StateTells
    <2>2. /\ td' \in TrackedDownload /\ td'.state = "error" /\ td'.job = td.job
          /\ td'.err = TRUE /\ td'.done = FALSE
      BY <1>1, <1>c, <2>1 DEF SeesError, SetError, TrackedDownload, State
    <2>3. Stage(td.state) <= Stage(td'.state)
      BY <2>1, <2>2, StageOf
    <2>4. PcTells'
      BY <1>c DEF SeesError, PcTells
    <2> QED
      BY <1>2, <1>4, <1>5, <1>6, <2>1, <2>2, <2>3, <2>4, StateChanges DEF State, Settled
  <1>d. CASE StartMove
    <2>1. td.state = "synced" /\ td.job /\ JobShown
      BY <1>7, <1>d DEF StartMove, Settled, StateTells
    <2>2. /\ td' \in TrackedDownload /\ td'.state = "moving" /\ td'.job = td.job
          /\ td'.err = FALSE /\ td'.done = FALSE
      BY <1>1, <1>d, <2>1 DEF StartMove, SetState, TrackedDownload, State
    <2>3. Stage(td.state) <= Stage(td'.state)
      BY <2>1, <2>2, StageOf
    <2>4. PcTells'
      BY <1>d, <2>2 DEF StartMove, PcTells
    <2> QED
      BY <1>2, <1>4, <1>5, <1>6, <2>1, <2>2, <2>3, <2>4, StateChanges DEF State
  <1>e. CASE MoveFails
    <2>1. td.state = "moving" /\ td.job
      BY <1>e DEF MoveFails, PcTells, StateTells
    <2>2. /\ td' \in TrackedDownload /\ td'.state = "error" /\ td'.job = td.job
          /\ td'.err = TRUE /\ td'.done = FALSE
      BY <1>1, <1>e, <2>1 DEF MoveFails, SetError, TrackedDownload, State
    <2>3. Stage(td.state) <= Stage(td'.state)
      BY <2>1, <2>2, StageOf
    <2>4. PcTells'
      BY <1>e DEF MoveFails, PcTells
    <2> QED
      BY <1>2, <1>4, <1>5, <1>6, <2>1, <2>2, <2>3, <2>4, StateChanges DEF State, Settled
  <1>f. CASE MoveReturns
    <2>1. td.state = "moving" /\ td.job /\ JobShown
      BY <1>7, <1>f DEF MoveReturns, PcTells, StateTells, Settled
    <2>2. /\ td' \in TrackedDownload /\ td'.state = "importing" /\ td'.job = td.job
          /\ td'.err = FALSE /\ td'.done = FALSE
      BY <1>1, <1>f, <2>1 DEF MoveReturns, SetState, TrackedDownload, State
    <2>3. Stage(td.state) <= Stage(td'.state)
      BY <2>1, <2>2, StageOf
    <2>4. PcTells'
      BY <1>f, <2>2 DEF MoveReturns, PcTells
    <2> QED
      BY <1>2, <1>4, <1>5, <1>6, <2>1, <2>2, <2>3, <2>4, StateChanges DEF State
  <1>g. CASE Complete
    <2>1. td.state = "importing" /\ td.job /\ JobShown
      BY <1>7, <1>g DEF Complete, PcTells, StateTells, Settled
    <2>2. /\ td' \in TrackedDownload /\ td'.state = "complete" /\ td'.job = td.job
          /\ td'.err = FALSE /\ td'.done = TRUE
      BY <1>1, <1>g, <2>1 DEF Complete, SetComplete, TrackedDownload, State
    <2>3. Stage(td.state) <= Stage(td'.state)
      BY <2>1, <2>2, StageOf
    <2>4. PcTells'
      BY <1>g, <2>2 DEF Complete, PcTells
    <2> QED
      BY <1>2, <1>4, <1>5, <1>6, <2>1, <2>2, <2>3, <2>4, StateChanges DEF State
  <1> QED
    BY <1>a, <1>b, <1>c, <1>d, <1>e, <1>f, <1>g

LEMMA DiscoveredKeeps ==
  ASSUME WorldInv, Discovered
  PROVE  WorldInv' /\ Onward
  <1> USE DEF WorldInv, WorldType, Go, Discovered
  <1>1. td \in TrackedDownload /\ td.state = "untracked" /\ ~ td.job /\ ~ td.err /\ ~ td.done
    BY DEF PcTells, StateTells
  <1>2. /\ td' \in TrackedDownload /\ td'.state = "discovered" /\ td'.job = td.job
        /\ td'.err = FALSE /\ td'.done = FALSE
    BY <1>1 DEF SetState, TrackedDownload, State
  <1>3. Stage(td.state) <= Stage(td'.state) /\ Stage("discovered") <= Stage(td'.state)
    BY <1>1, <1>2, StageBegins, StageStays, Zenon
  <1>4. TimelineTypeOK' /\ EventsBehind'
    BY <1>1, <1>2, <1>3, LogRecords
  <1>5. RWMutexTypeOK' /\ ReadersStay
    BY LocksKeepType, WritersLeaveReaders, ThreadsAndLocks DEF ProgressTypeOK
  <1>6. PcTells'
    BY DEF PcTells
  <1> QED
    BY <1>1, <1>2, <1>3, <1>4, <1>5, <1>6, StateChanges DEF State, Settled

LEMMA UntrackingKeeps ==
  ASSUME WorldInv, Untrack \/ ForgetJob
  PROVE  WorldInv' /\ Onward
  <1> USE DEF WorldInv, WorldType, Go, timelineVars
  <1>1. UNCHANGED locks \/ WriteAtOnce("poll", "tracked")
    BY DEF Untrack, ForgetJob
  <1>2. RWMutexTypeOK' /\ ReadersStay
    BY <1>1, LocksKeepType, WritersLeaveReaders, ThreadsAndLocks DEF ProgressTypeOK
  <1>3. TimelineTypeOK' /\ EventsBehind'
    BY DEF TimelineTypeOK, EventsBehind, Untrack, ForgetJob
  <1>4. PcTells'
    BY DEF PcTells, Untrack, ForgetJob
  <1>5. UNCHANGED <<td, progressVars>>
    BY DEF Untrack, ForgetJob
  <1>6. tracked' \in BOOLEAN /\ inJobs' \in BOOLEAN /\ (inJobs' => inJobs)
    <2>1. CASE Untrack
      <3>1. tracked' = FALSE /\ inJobs' = inJobs
        BY <2>1 DEF Untrack
      <3> QED
        BY <3>1, Zenon
    <2>2. CASE ForgetJob
      <3>1. tracked' = tracked /\ inJobs' = FALSE
        BY <2>2 DEF ForgetJob
      <3> QED
        BY <3>1, Zenon
    <2> QED
      BY <2>1, <2>2
  <1> QED
    BY <1>2, <1>3, <1>4, <1>5, <1>6, SameWorld

\* The job is made of files that are there or not begun.
LEMMA CreatingKeeps ==
  ASSUME WorldInv, NEW atFinal \in SUBSET Files, CreateSyncJob(atFinal)
  PROVE  WorldInv' /\ Onward
  <1> USE DEF WorldInv
  <1>1. td \in TrackedDownload /\ td.state = "discovered" /\ ~ td.job /\ ~ td.err /\ ~ td.done
    BY DEF WorldType, CreateSyncJob, Go, PcTells, StateTells
  <1>2. /\ td' \in TrackedDownload /\ td'.state = "syncing" /\ td'.job = TRUE
        /\ td'.err = FALSE /\ td'.done = FALSE
    BY <1>1 DEF CreateSyncJob, TrackedDownload, State
  <1>3. /\ jobStatus = "absent" /\ runPc = "none" /\ inJobs' = TRUE
        /\ UNCHANGED <<locks, timelineVars, tracked, runPc, filePc, monitor, runErr, copied, cancelled>>
        /\ pollPc' = "created" /\ jobStatus' = "pending"
        /\ fileStatus' = [f \in Files |-> IF f \in atFinal THEN "skipped" ELSE "pending"]
        /\ shown' = [f \in Files |-> IF f \in atFinal THEN FileSize ELSE 0]
    BY <1>1 DEF CreateSyncJob, Go, CreateJob, StateTells
  <1>4. \A f \in Files : filePc[f] = "none" /\ monitor[f].at = "off"
    BY <1>3 DEF CopyTells
  <1>5. WorldType'
    <2>1. 0 \in 0..FileSize /\ FileSize \in 0..FileSize
      BY Sizes
    <2>2. fileStatus' \in [Files -> FileStatus]
      BY <1>3 DEF FileStatus
    <2>3. shown' \in [Files -> 0..FileSize]
      BY <1>3, <2>1
    <2>4. jobStatus' \in FileStatus \cup {"absent"}
      BY <1>3 DEF FileStatus
    <2> QED
      BY <1>2, <1>3, <2>2, <2>3, <2>4
         DEF WorldType, ProgressTypeOK, RWMutexTypeOK, TimelineTypeOK, timelineVars
  <1>6. StateTells' /\ PcTells'
    BY <1>2, <1>3 DEF StateTells, PcTells
  <1>7. Stage(td.state) <= Stage(td'.state)
    BY <1>1, <1>2, StageBegins, Zenon
  <1>8. EventsBehind'
    <2>1. ASSUME NEW i \in DOMAIN events, events[i].type # "error"
          PROVE  Stage(events[i].type) <= Stage(td'.state)
      <3>1. Stage(events[i].type) <= Stage(td.state)
        BY <2>1 DEF EventsBehind
      <3> QED
        BY <3>1, <1>7, StageGoesOn, Zenon
    <2> QED
      BY <1>3, <2>1 DEF EventsBehind, timelineVars
  <1>9. CopyTells'
    BY <1>3, <1>4 DEF CopyTells, Done
  <1>10. NothingHalfDone'
    BY <1>3 DEF NothingHalfDone, Done
  <1>11. SettledIsShown'
    BY <1>2, <1>3 DEF SettledIsShown, Settled
  <1>12. ~ AllShown
    BY <1>1 DEF AllShown
  <1>13. ReadersStay
    BY <1>3 DEF ReadersStay
  <1>14. jobStatus' # "complete" /\ td.state \notin {"error", "complete"} /\ ~ td.job
    BY <1>1, <1>3
  <1> QED
    BY <1>5, <1>6, <1>7, <1>8, <1>9, <1>10, <1>11, <1>12, <1>13, <1>14 DEF Onward

LEMMA LaunchKeeps ==
  ASSUME WorldInv, Launch
  PROVE  WorldInv' /\ Onward
  <1> USE DEF WorldInv
  <1>1. /\ td.state = "syncing" /\ jobStatus = "pending" /\ runPc = "none" /\ td.job
        /\ UNCHANGED <<timelineVars, tracked, td, inJobs, jobVars, fileVars>>
        /\ runPc' = "begin" /\ runErr' = FALSE /\ pollPc' = "idle" /\ Unlock("td")
    BY DEF Launch, Go, StartRun, PcTells, StateTells
  <1> USE DEF jobVars, fileVars
  <1>2. RWMutexTypeOK' /\ ReadersStay
    BY <1>1, LocksKeepType, WritersLeaveReaders, ThreadsAndLocks DEF WorldType, ProgressTypeOK
  <1>3. WorldType'
    BY <1>1, <1>2 DEF WorldType, ProgressTypeOK, TimelineTypeOK, timelineVars
  <1>4. StateTells' /\ PcTells' /\ EventsBehind'
    BY <1>1 DEF StateTells, PcTells, EventsBehind, timelineVars
  <1>5. CopyTells'
    BY <1>1 DEF CopyTells, Done
  <1>6. NothingHalfDone'
    BY <1>1 DEF NothingHalfDone, CleanRun, Done
  <1>7. SettledIsShown'
    BY <1>1 DEF SettledIsShown, Settled
  <1>8. ~ AllShown
    BY <1>1 DEF AllShown, JobShown
  <1>9. \A f \in Files : shown[f] <= shown'[f]
    BY <1>1, StaysAsShown DEF WorldType
  <1>10. Stage(td.state) <= Stage(td'.state)
    BY <1>1, StageStays, Zenon
  <1> QED
    BY <1>1, <1>2, <1>3, <1>4, <1>5, <1>6, <1>7, <1>8, <1>9, <1>10 DEF Onward

LEMMA CancellingKeeps ==
  ASSUME WorldInv, CancelSync
  PROVE  WorldInv' /\ Onward
  <1> USE DEF WorldInv
  <1>1. CASE UNCHANGED <<locks, progressVars>>
    <2>1. RWMutexTypeOK' /\ ReadersStay
      BY <1>1, LocksKeepType, WritersLeaveReaders, ThreadsAndLocks DEF WorldType, ProgressTypeOK
    <2>2. TimelineTypeOK' /\ EventsBehind'
      BY DEF CancelSync, WorldType, TimelineTypeOK, EventsBehind, timelineVars
    <2>3. PcTells'
      BY DEF CancelSync, Go, PcTells
    <2> QED
      BY <1>1, <2>1, <2>2, <2>3, SameWorld DEF CancelSync, WorldType
  <1>2. CASE td.job /\ Cancel("poll")
    <2>1. /\ UNCHANGED <<timelineVars, tracked, td, inJobs, fileVars, runPc, runErr>>
          /\ jobStatus' = "error" /\ cancelled' = TRUE /\ pollPc' = "untrack"
          /\ WriteAtOnce("poll", "job") /\ td.job
      BY <1>2 DEF Cancel, CancelSync, Go
    <2> USE DEF fileVars
    <2>2. RWMutexTypeOK' /\ ReadersStay
      BY <2>1, LocksKeepType, WritersLeaveReaders, ThreadsAndLocks DEF WorldType, ProgressTypeOK
    <2>3. WorldType'
      BY <2>1, <2>2 DEF WorldType, ProgressTypeOK, TimelineTypeOK, timelineVars, FileStatus
    <2>4. StateTells' /\ PcTells' /\ EventsBehind'
      BY <2>1 DEF StateTells, PcTells, EventsBehind, timelineVars
    <2>5. CopyTells'
      BY <2>1 DEF CopyTells, Done
    <2>6. NothingHalfDone'
      BY <2>1 DEF NothingHalfDone, CleanRun, Done
    <2>7. AllShown => AllShown'
      BY <2>1 DEF AllShown, JobShown, Done
    <2>8. SettledIsShown'
      BY <2>1, <2>7 DEF SettledIsShown
    <2>9. \A f \in Files : shown[f] <= shown'[f]
      BY <2>1, StaysAsShown DEF WorldType
    <2>10. Stage(td.state) <= Stage(td'.state)
      BY <2>1, StageStays, Zenon
    <2> QED
      BY <2>1, <2>2, <2>3, <2>4, <2>5, <2>6, <2>7, <2>8, <2>9, <2>10 DEF Onward
  <1> QED
    BY <1>1, <1>2 DEF CancelSync

LEMMA PollKeeps ==
  ASSUME WorldInv, PollStep
  PROVE  WorldInv' /\ Onward
  BY LockStepsKeep, LogStepsKeep, SetStepsKeep, DiscoveredKeeps, UntrackingKeeps, CreatingKeeps,
     LaunchKeeps, CancellingKeeps DEF PollStep

-----------------------------------------------------------------------------
(***************************************************************************)
(* The run, the copies and their monitors                                  *)
(***************************************************************************)
\* A step that leaves the torrent alone, from what it does to the job.
LEMMA WorkKeeps ==
  ASSUME WorldInv, UNCHANGED <<timelineVars, pollVars>>, ProgressTypeOK', ReadersStay,
         jobStatus = "absent" => jobStatus' = "absent",
         jobStatus # "absent" => jobStatus' # "absent",
         runPc = "none" => UNCHANGED <<jobStatus, runPc>>,
         \A f \in Files : Done(f) => Done(f)',
         CopyTells', NothingHalfDone', \A f \in Files : shown[f] <= shown'[f],
         jobStatus' = "complete" => /\ jobStatus = "complete" \/ locks["job"].readers = {}
                                    /\ JobShown'
  PROVE  WorldInv' /\ Onward
  <1> USE DEF WorldInv, timelineVars, pollVars
  <1>1. WorldType'
    BY DEF WorldType, TimelineTypeOK
  <1>2. StateTells' /\ PcTells' /\ EventsBehind'
    BY DEF StateTells, PcTells, EventsBehind
  <1>3. AllShown => AllShown'
    BY DEF AllShown, JobShown
  <1>4. SettledIsShown'
    <2>1. CASE jobStatus' = "complete"
      <3>1. JobShown' /\ jobStatus # "absent"
        BY <2>1
      <3>2. td.job /\ td.state \notin {"untracked", "discovered"}
        BY <3>1 DEF StateTells
      <3> QED
        BY <3>1, <3>2 DEF SettledIsShown, AllShown
    <2>2. CASE jobStatus' # "complete"
      BY <2>2, <1>3 DEF SettledIsShown
    <2> QED
      BY <2>1, <2>2
  <1>5. Stage(td.state) <= Stage(td'.state)
    BY StageStays, Zenon
  <1> QED
    BY <1>1, <1>2, <1>3, <1>4, <1>5 DEF Onward

\* A step of the run.
LEMMA RunStepsKeep ==
  ASSUME WorldInv, RunStep, UNCHANGED <<timelineVars, pollVars>>
  PROVE  WorldInv' /\ Onward
  <1> USE DEF WorldInv, jobVars, fileVars, progressVars
  <1>0. /\ ProgressTypeOK /\ UNCHANGED <<fileStatus, shown, copied, monitor, runErr, cancelled>>
    BY DEF WorldType, RunStep, BeginRun, MarkSyncing, ListFails, WaitForFiles, FinishRun,
           RunAwaits, FanOut
  <1>1. RWMutexTypeOK' /\ ReadersStay
    <2>1. UNCHANGED locks \/ WriteAtOnce("run", "job") \/ Await("run", "job")
      BY DEF RunStep, BeginRun, MarkSyncing, ListFails, WaitForFiles, FinishRun, RunAwaits, FanOut
    <2> QED
      BY <1>0, <2>1, LocksKeepType, WritersLeaveReaders, ThreadsAndLocks DEF ProgressTypeOK
  <1>2. runPc # "none" /\ jobStatus # "absent"
    BY DEF RunStep, BeginRun, MarkSyncing, ListFails, WaitForFiles, FinishRun, RunAwaits, FanOut,
           StateTells
  <1>3. /\ \A f \in Files : Done(f)' <=> Done(f)
        /\ \A f \in Files : shown[f] <= shown'[f]
    BY <1>0, StaysAsShown DEF Done
  <1>4. ASSUME UNCHANGED filePc, runPc # "wait", runPc' \in {"none", "mark", "list", "finish"},
               jobStatus' \in FileStatus,
               CleanRun' => CleanRun,
               jobStatus' = "complete" =>
                 /\ jobStatus = "complete" \/ locks["job"].readers = {}
                 /\ runPc' = "none" /\ \A f \in Files : Done(f)
        PROVE  WorldInv' /\ Onward
    <2>1. ProgressTypeOK'
      BY <1>0, <1>1, <1>4 DEF ProgressTypeOK
    <2>2. CopyTells'
      BY <1>0, <1>3, <1>4 DEF CopyTells
    <2>3. NothingHalfDone'
      BY <1>0, <1>3, <1>4 DEF NothingHalfDone
    <2>4. jobStatus' # "absent"
      BY <1>4 DEF FileStatus
    <2>5. jobStatus' = "complete" => JobShown'
      BY <1>3, <1>4 DEF JobShown
    <2> QED
      BY <1>1, <1>2, <1>3, <1>4, <2>1, <2>2, <2>3, <2>4, <2>5, WorkKeeps
  <1>5. ~ (jobStatus = "complete")
    BY <1>2 DEF SettledIsShown, AllShown, JobShown, StateTells
  <1>6. jobStatus \in FileStatus
    BY <1>0, <1>2 DEF ProgressTypeOK
  <1>a. CASE BeginRun
    <2>1. /\ runPc = "begin" /\ UNCHANGED <<filePc, jobStatus>>
          /\ runPc' \in {"none", "mark"} /\ CleanRun
      BY <1>a DEF BeginRun, CleanRun
    <2> QED
      BY <1>4, <1>5, <1>6, <2>1
  <1>b. CASE MarkSyncing
    <2>1. /\ runPc = "mark" /\ UNCHANGED filePc /\ jobStatus' = "syncing" /\ runPc' = "list"
          /\ CleanRun
      BY <1>b DEF MarkSyncing, CleanRun
    <2> QED
      BY <1>4, <2>1 DEF FileStatus
  <1>c. CASE ListFails
    <2>1. runPc = "list" /\ UNCHANGED <<filePc, jobStatus>> /\ runPc' = "none" /\ CleanRun
      BY <1>c DEF ListFails, CleanRun
    <2> QED
      BY <1>4, <1>5, <1>6, <2>1
  <1>d. CASE WaitForFiles
    <2>1. /\ runPc = "wait" /\ UNCHANGED <<filePc, jobStatus>> /\ runPc' = "finish"
          /\ \A f \in Files : filePc[f] = "none"
      BY <1>d DEF WaitForFiles
    <2>2. ProgressTypeOK'
      BY <1>0, <1>1, <2>1 DEF ProgressTypeOK
    <2>3. CopyTells'
      BY <1>0, <1>3, <2>1 DEF CopyTells
    <2>4. NothingHalfDone'
      BY <1>0, <1>3, <2>1 DEF NothingHalfDone, CleanRun
    <2> QED
      BY <1>1, <1>2, <1>3, <1>5, <2>1, <2>2, <2>3, <2>4, WorkKeeps
  <1>e. CASE FinishRun
    <2>1. /\ runPc = "finish" /\ UNCHANGED filePc /\ runPc' = "none"
          /\ locks["job"].readers = {}
          /\ jobStatus' \in {"error", "complete", "pending"}
          /\ jobStatus' = "complete" => \A f \in Files : Done(f)
          /\ jobStatus' = "pending" => ~ runErr
      BY <1>e DEF FinishRun, WriteAtOnce, MayWrite
    <2>2. CleanRun' => CleanRun
      BY <1>0, <2>1 DEF CleanRun
    <2> QED
      BY <1>4, <2>1, <2>2 DEF FileStatus
  <1>f. CASE RunAwaits
    <2>1. UNCHANGED <<jobStatus, runPc, filePc, runErr>> /\ runPc \in {"mark", "finish"}
      BY <1>f DEF RunAwaits
    <2>2. CleanRun' <=> CleanRun
      BY <2>1 DEF CleanRun
    <2>3. ProgressTypeOK'
      BY <1>0, <1>1, <2>1 DEF ProgressTypeOK
    <2>4. CopyTells'
      BY <1>0, <1>3, <2>1 DEF CopyTells
    <2>5. NothingHalfDone'
      BY <1>0, <1>3, <2>1, <2>2 DEF NothingHalfDone
    <2> QED
      BY <1>1, <1>2, <1>3, <1>5, <2>1, <2>3, <2>4, <2>5, WorkKeeps
  <1>g. ASSUME NEW ready \in SUBSET Files, FanOut(ready)
        PROVE  WorldInv' /\ Onward
    <2>1. /\ runPc = "list" /\ runPc' = "wait" /\ UNCHANGED jobStatus
          /\ filePc' = [f \in Files |-> IF f \in ready /\ ~ Done(f) THEN "start" ELSE "none"]
      BY <1>g DEF FanOut
    <2>2. \A f \in Files : filePc[f] = "none" /\ monitor[f].at = "off"
      BY <2>1 DEF CopyTells
    <2>3. \A f \in Files : Done(f) \/ shown[f] = 0
      BY <2>1, <2>2 DEF NothingHalfDone, CleanRun
    <2>4. filePc' \in [Files -> FilePc]
      BY <2>1 DEF FilePc
    <2>5. ProgressTypeOK'
      BY <1>0, <1>1, <2>1, <2>4 DEF ProgressTypeOK
    <2>6. CopyTells'
      <3>1. ASSUME NEW f \in Files
            PROVE  /\ filePc'[f] \in {"none", "start"} /\ (Done(f) => filePc'[f] = "none")
                   /\ monitor'[f].at = "off" /\ (Done(f) => shown'[f] = FileSize)
                   /\ (~ Done(f) => shown'[f] = 0)
        BY <1>0, <2>1, <2>2, <2>3 DEF CopyTells
      <3> QED
        BY <1>3, <2>1, <3>1 DEF CopyTells
    <2>7. NothingHalfDone'
      BY <1>0, <1>3, <2>3 DEF NothingHalfDone
    <2> QED
      BY <1>1, <1>2, <1>3, <1>5, <2>1, <2>5, <2>6, <2>7, WorkKeeps
  <1> QED
    BY <1>a, <1>b, <1>c, <1>d, <1>e, <1>f, <1>g DEF RunStep

\* A step of one file's goroutine or monitor, from what it does to that file.
LEMMA FileKeeps ==
  ASSUME WorldInv, NEW g \in Files,
         UNCHANGED <<timelineVars, pollVars, locks, jobVars, runPc>>,
         runErr' \in BOOLEAN, runErr => runErr',
         fileStatus' \in [Files -> FileStatus], shown' \in [Files -> 0..FileSize],
         filePc' \in [Files -> FilePc], copied' \in [Files -> 0..FileSize],
         monitor' \in [Files -> Monitor],
         \A f \in Files \ {g} : /\ fileStatus'[f] = fileStatus[f] /\ shown'[f] = shown[f]
                                /\ filePc'[f] = filePc[f] /\ copied'[f] = copied[f]
                                /\ monitor'[f] = monitor[f],
         shown[g] <= shown'[g],
         filePc[g] # "none",
         Done(g)' => filePc'[g] = "none" /\ shown'[g] = FileSize,
         filePc'[g] \notin {"copy", "copied", "failed"} => monitor'[g].at = "off",
         filePc'[g] = "start" => shown'[g] = 0,
         filePc'[g] \in {"copy", "copied", "failed"} => shown'[g] <= copied'[g],
         monitor'[g].at = "read" =>
           shown'[g] <= monitor'[g].bytes /\ monitor'[g].bytes <= copied'[g],
         filePc'[g] = "none" => Done(g)' \/ shown'[g] = 0 \/ runErr'
  PROVE  WorldInv' /\ Onward
  <1> USE DEF WorldInv, jobVars
  <1>1. runPc = "wait" /\ ~ Done(g) /\ jobStatus # "absent"
    BY DEF CopyTells, StateTells
  <1>2. ProgressTypeOK'
    BY DEF WorldType, ProgressTypeOK, RWMutexTypeOK
  <1>3. \A f \in Files \ {g} : Done(f)' <=> Done(f)
    BY DEF Done
  <1>4. CopyTells'
    <2>1. ASSUME NEW f \in Files \ {g}
          PROVE  /\ filePc'[f] # "none" => runPc' = "wait"
                 /\ Done(f)' => filePc'[f] = "none" /\ shown'[f] = FileSize
                 /\ filePc'[f] \notin {"copy", "copied", "failed"} => monitor'[f].at = "off"
                 /\ filePc'[f] = "start" => shown'[f] = 0
                 /\ filePc'[f] \in {"copy", "copied", "failed"} => shown'[f] <= copied'[f]
                 /\ monitor'[f].at = "read" =>
                      shown'[f] <= monitor'[f].bytes /\ monitor'[f].bytes <= copied'[f]
      BY <1>3 DEF CopyTells
    <2>2. filePc'[g] # "none" => runPc' = "wait"
      BY <1>1
    <2> QED
      BY <2>1, <2>2 DEF CopyTells
  <1>5. NothingHalfDone'
    BY <1>1, <1>3 DEF NothingHalfDone, CleanRun
  <1>6. \A f \in Files : shown[f] <= shown'[f]
    BY DEF WorldType, ProgressTypeOK
  <1>7. jobStatus # "complete"
    BY <1>1 DEF SettledIsShown, AllShown, JobShown, StateTells
  <1>8. ReadersStay
    BY DEF ReadersStay
  <1>9. \A f \in Files : Done(f) => Done(f)'
    BY <1>1, <1>3
  <1> QED
    BY <1>1, <1>2, <1>4, <1>5, <1>6, <1>7, <1>8, <1>9, WorkKeeps

LEMMA FileStepsKeep ==
  ASSUME WorldInv, NEW g \in Files, FileStep(g) \/ MonitorStep(g),
         UNCHANGED <<timelineVars, pollVars>>
  PROVE  WorldInv' /\ Onward
  <1> USE DEF WorldInv
  <1>0. /\ UNCHANGED <<locks, jobVars, runPc>>
        /\ runErr \in BOOLEAN /\ fileStatus \in [Files -> FileStatus]
        /\ shown \in [Files -> 0..FileSize] /\ filePc \in [Files -> FilePc]
        /\ copied \in [Files -> 0..FileSize] /\ monitor \in [Files -> Monitor]
    BY DEF WorldType, ProgressTypeOK, FileStep, MonitorStep, StartFile, FileFailsEarly, Copy,
           CopyEnds, TransferReturns, TransferFails, Verify, Sample, Publish, MonitorEnds
  <1>1. 0 \in 0..FileSize /\ FileSize \in 0..FileSize /\ FileSize \in Nat
    BY Sizes
  <1>2. monitor[g].at \in {"off", "on", "read"} /\ monitor[g].bytes \in 0..FileSize
        /\ shown[g] \in 0..FileSize /\ copied[g] \in 0..FileSize
    BY <1>0 DEF Monitor
  <1>3. MonitorOn \in Monitor /\ MonitorOff \in Monitor
        /\ MonitorOn.at = "on" /\ MonitorOff.at = "off"
    BY <1>1 DEF Monitor, MonitorOn, MonitorOff
  <1>4. /\ filePc[g] \notin {"copy", "copied", "failed"} => monitor[g].at = "off"
        /\ filePc[g] = "start" => shown[g] = 0
        /\ filePc[g] \in {"copy", "copied", "failed"} => shown[g] <= copied[g]
        /\ monitor[g].at = "read" => shown[g] <= monitor[g].bytes /\ monitor[g].bytes <= copied[g]
        /\ filePc[g] # "none" => fileStatus[g] \notin {"complete", "skipped"}
    BY DEF CopyTells, Done
  <1>a. CASE StartFile(g)
    <2>1. filePc[g] = "start" /\ UNCHANGED runErr
      BY <1>a DEF StartFile
    <2>2. CASE /\ fileStatus' = [fileStatus EXCEPT ![g] = "skipped"]
               /\ shown' = [shown EXCEPT ![g] = FileSize]
               /\ filePc' = [filePc EXCEPT ![g] = "none"]
               /\ UNCHANGED <<copied, monitor>>
      <3>1. /\ fileStatus' \in [Files -> FileStatus] /\ shown' \in [Files -> 0..FileSize]
            /\ filePc' \in [Files -> FilePc]
        BY <1>0, <1>1, <2>2 DEF FileStatus, FilePc
      <3> QED
        BY <1>0, <1>1, <1>2, <1>4, <2>1, <2>2, <3>1, FileKeeps DEF Done
    <2>3. CASE /\ fileStatus' = [fileStatus EXCEPT ![g] = "syncing"]
               /\ filePc' = [filePc EXCEPT ![g] = "copy"]
               /\ copied' = [copied EXCEPT ![g] = 0]
               /\ monitor' = [monitor EXCEPT ![g] = MonitorOn]
               /\ UNCHANGED shown
      <3>1. /\ fileStatus' \in [Files -> FileStatus] /\ filePc' \in [Files -> FilePc]
            /\ copied' \in [Files -> 0..FileSize] /\ monitor' \in [Files -> Monitor]
        BY <1>0, <1>1, <1>3, <2>3 DEF FileStatus, FilePc
      <3>2. /\ fileStatus'[g] = "syncing" /\ filePc'[g] = "copy" /\ copied'[g] = 0
            /\ monitor'[g].at = "on" /\ shown'[g] = 0
        BY <1>0, <1>3, <1>4, <2>1, <2>3
      <3> QED
        BY <1>0, <1>2, <2>1, <2>3, <3>1, <3>2, FileKeeps DEF Done
    <2> QED
      BY <1>a, <2>2, <2>3 DEF StartFile
  <1>b. CASE FileFailsEarly(g)
    <2>1. /\ filePc[g] = "start" /\ filePc' = [filePc EXCEPT ![g] = "none"] /\ runErr' = TRUE
          /\ fileStatus' \in {fileStatus, [fileStatus EXCEPT ![g] = "error"]}
          /\ UNCHANGED <<shown, copied, monitor>>
      BY <1>b DEF FileFailsEarly
    <2>2. fileStatus' \in [Files -> FileStatus] /\ filePc' \in [Files -> FilePc]
      BY <1>0, <2>1 DEF FileStatus, FilePc
    <2>3. ~ Done(g)' /\ \A f \in Files \ {g} : fileStatus'[f] = fileStatus[f]
      BY <1>0, <1>4, <2>1 DEF Done
    <2> QED
      BY <1>0, <1>2, <1>4, <2>1, <2>2, <2>3, FileKeeps
  <1>c. CASE Copy(g)
    <2>1. /\ filePc[g] = "copy" /\ copied[g] < FileSize
          /\ copied' = [copied EXCEPT ![g] = @ + 1]
          /\ UNCHANGED <<fileStatus, shown, filePc, monitor, runErr>>
      BY <1>c DEF Copy
    <2>2. copied' \in [Files -> 0..FileSize] /\ copied'[g] = copied[g] + 1
      BY <1>0, <1>1, <2>1
    <2> QED
      BY <1>0, <1>2, <1>4, <2>1, <2>2, FileKeeps DEF Done
  <1>d. CASE CopyEnds(g)
    <2>1. /\ filePc[g] = "copy"
          /\ \/ filePc' = [filePc EXCEPT ![g] = "copied"]
             \/ filePc' = [filePc EXCEPT ![g] = "failed"]
          /\ UNCHANGED <<fileStatus, shown, copied, monitor, runErr>>
      BY <1>d DEF CopyEnds
    <2>2. filePc' \in [Files -> FilePc] /\ filePc'[g] \in {"copied", "failed"}
      BY <1>0, <2>1 DEF FilePc
    <2> QED
      BY <1>0, <1>2, <1>4, <2>1, <2>2, FileKeeps DEF Done
  <1>e. CASE TransferReturns(g)
    <2>1. /\ filePc[g] = "copied" /\ monitor[g].at = "off"
          /\ shown' = [shown EXCEPT ![g] = FileSize]
          /\ filePc' = [filePc EXCEPT ![g] = "verify"]
          /\ UNCHANGED <<fileStatus, copied, monitor, runErr>>
      BY <1>e DEF TransferReturns
    <2>2. filePc' \in [Files -> FilePc] /\ shown' \in [Files -> 0..FileSize]
      BY <1>0, <1>1, <2>1 DEF FilePc
    <2> QED
      BY <1>0, <1>1, <1>2, <1>4, <2>1, <2>2, FileKeeps DEF Done
  <1>f. CASE TransferFails(g)
    <2>1. /\ filePc[g] = "failed" /\ monitor[g].at = "off" /\ runErr' = TRUE
          /\ fileStatus' = [fileStatus EXCEPT ![g] = "error"]
          /\ filePc' = [filePc EXCEPT ![g] = "none"]
          /\ UNCHANGED <<shown, copied, monitor>>
      BY <1>f DEF TransferFails
    <2>2. fileStatus' \in [Files -> FileStatus] /\ filePc' \in [Files -> FilePc]
      BY <1>0, <2>1 DEF FilePc, FileStatus
    <2> QED
      BY <1>0, <1>2, <1>4, <2>1, <2>2, FileKeeps DEF Done
  <1>g. CASE Verify(g)
    <2>1. /\ filePc[g] = "verify" /\ filePc' = [filePc EXCEPT ![g] = "none"]
          /\ UNCHANGED <<copied, monitor>> /\ monitor[g].at = "off"
      BY <1>4, <1>g DEF Verify
    <2>2. filePc' \in [Files -> FilePc] /\ filePc'[g] = "none"
      BY <1>0, <2>1 DEF FilePc
    <2>3. CASE /\ fileStatus' = [fileStatus EXCEPT ![g] = "complete"]
               /\ shown' = [shown EXCEPT ![g] = FileSize] /\ UNCHANGED runErr
      <3>1. fileStatus' \in [Files -> FileStatus] /\ shown' \in [Files -> 0..FileSize]
        BY <1>0, <1>1, <2>3 DEF FileStatus
      <3> QED
        BY <1>0, <1>1, <1>2, <2>1, <2>2, <2>3, <3>1, FileKeeps DEF Done
    <2>4. CASE /\ fileStatus' = [fileStatus EXCEPT ![g] = "error"]
               /\ runErr' = TRUE /\ UNCHANGED shown
      <3>1. fileStatus' \in [Files -> FileStatus]
        BY <1>0, <2>4 DEF FileStatus
      <3> QED
        BY <1>0, <1>1, <1>2, <2>1, <2>2, <2>4, <3>1, FileKeeps DEF Done
    <2> QED
      BY <1>g, <2>3, <2>4 DEF Verify
  <1>h. CASE Sample(g)
    <2>1. /\ monitor[g].at = "on"
          /\ monitor' = [monitor EXCEPT ![g] = [at |-> "read", bytes |-> copied[g]]]
          /\ UNCHANGED <<fileStatus, shown, filePc, copied, runErr>>
      BY <1>h DEF Sample
    <2>2. [at |-> "read", bytes |-> copied[g]] \in Monitor
      BY <1>2 DEF Monitor
    <2>3. /\ monitor' \in [Files -> Monitor] /\ monitor'[g].at = "read"
          /\ monitor'[g].bytes = copied[g]
      BY <1>0, <2>1, <2>2
    <2>4. filePc[g] \in {"copy", "copied", "failed"}
      BY <1>4, <2>1
    <2> QED
      BY <1>0, <1>2, <1>4, <2>1, <2>3, <2>4, FileKeeps DEF Done
  <1>i. CASE Publish(g)
    <2>1. /\ monitor[g].at = "read"
          /\ shown' = [shown EXCEPT ![g] = monitor[g].bytes]
          /\ monitor' = [monitor EXCEPT ![g] = MonitorOn]
          /\ UNCHANGED <<fileStatus, filePc, copied, runErr>>
      BY <1>i DEF Publish
    <2>2. monitor' \in [Files -> Monitor] /\ monitor'[g].at = "on"
      BY <1>0, <1>3, <2>1
    <2>3. shown' \in [Files -> 0..FileSize] /\ shown'[g] = monitor[g].bytes
      BY <1>0, <1>2, <2>1
    <2>4. filePc[g] \in {"copy", "copied", "failed"}
      BY <1>4, <2>1
    <2> QED
      BY <1>0, <1>2, <1>4, <2>1, <2>2, <2>3, <2>4, FileKeeps DEF Done
  <1>j. CASE MonitorEnds(g)
    <2>1. /\ filePc[g] \in {"copied", "failed"}
          /\ monitor' = [monitor EXCEPT ![g] = MonitorOff]
          /\ UNCHANGED <<fileStatus, shown, filePc, copied, runErr>>
      BY <1>j DEF MonitorEnds
    <2>2. monitor' \in [Files -> Monitor] /\ monitor'[g].at = "off"
      BY <1>0, <1>3, <2>1
    <2> QED
      BY <1>0, <1>2, <1>4, <2>1, <2>2, FileKeeps DEF Done
  <1> QED
    BY <1>a, <1>b, <1>c, <1>d, <1>e, <1>f, <1>g, <1>h, <1>i, <1>j DEF FileStep, MonitorStep

LEMMA WorkStepKeeps ==
  ASSUME WorldInv, WorkStep
  PROVE  WorldInv' /\ Onward
  BY RunStepsKeep, FileStepsKeep DEF WorkStep, ProgressStep

-----------------------------------------------------------------------------
(***************************************************************************)
(* What the handlers have still to read                                    *)
(***************************************************************************)
\* A handler that reads the next thing has the rest still to read.  Lookup says
\* itself what the rest is.
LEMMA DueGoesOn ==
  ASSUME NEW h, NEW t, Due(h, t), t # <<>>, Head(t) # "lookup"
  PROVE  Due(h, Tail(t)) /\ Follows(h, Head(t), Upcoming(Tail(t)))
  <1>1. CASE h = "downloads"
    <2>1. CASE t = <<"find", "state", "error", "times", "job", "snapshot">>
      BY <1>1, <2>1 DEF Due, Follows, Upcoming
    <2>2. CASE t = <<"state", "error", "times", "job", "snapshot">>
      BY <1>1, <2>2 DEF Due, Follows, Upcoming
    <2>3. CASE t = <<"error", "times", "job", "snapshot">>
      BY <1>1, <2>3 DEF Due, Follows, Upcoming
    <2>4. CASE t = <<"times", "job", "snapshot">>
      BY <1>1, <2>4 DEF Due, Follows, Upcoming
    <2>5. CASE t = <<"job", "snapshot">>
      BY <1>1, <2>5 DEF Due, Follows, Upcoming
    <2>6. CASE t = <<"snapshot">>
      BY <1>1, <2>6 DEF Due, Follows, Upcoming
    <2> QED
      BY <1>1, <2>1, <2>2, <2>3, <2>4, <2>5, <2>6 DEF Due
  <1>2. CASE h = "download"
    <2>1. CASE t = <<"find", "state", "job", "snapshot">>
      BY <1>2, <2>1 DEF Due, Follows, Upcoming
    <2>2. CASE t = <<"state", "job", "snapshot">>
      BY <1>2, <2>2 DEF Due, Follows, Upcoming
    <2>3. CASE t = <<"job", "snapshot">>
      BY <1>2, <2>3 DEF Due, Follows, Upcoming
    <2>4. CASE t = <<"snapshot">>
      BY <1>2, <2>4 DEF Due, Follows, Upcoming
    <2> QED
      BY <1>2, <2>1, <2>2, <2>3, <2>4 DEF Due
  <1>3. CASE h = "jobs"
    <2>1. CASE t = <<"find", "job", "state", "snapshot">>
      BY <1>3, <2>1 DEF Due, Follows, Upcoming
    <2>2. CASE t = <<"job", "state", "snapshot">>
      BY <1>3, <2>2 DEF Due, Follows, Upcoming
    <2>3. CASE t = <<"state", "snapshot">>
      BY <1>3, <2>3 DEF Due, Follows, Upcoming
    <2>4. CASE t = <<"snapshot">>
      BY <1>3, <2>4 DEF Due, Follows, Upcoming
    <2> QED
      BY <1>3, <2>1, <2>2, <2>3, <2>4 DEF Due
  <1>4. CASE h = "syncJob"
    <2>1. CASE t = <<"snapshot">>
      BY <1>4, <2>1 DEF Due, Follows, Upcoming
    <2>2. CASE t = <<"find", "download", "state">>
      BY <1>4, <2>2 DEF Due, Follows, Upcoming
    <2>3. CASE t = <<"download", "state">>
      BY <1>4, <2>3 DEF Due, Follows, Upcoming
    <2>4. CASE t = <<"state">>
      BY <1>4, <2>4 DEF Due, Follows, Upcoming
    <2>5. t # <<"lookup", "snapshot", "find", "download", "state">>
      OBVIOUS
    <2> QED
      BY <1>4, <2>1, <2>2, <2>3, <2>4, <2>5 DEF Due
  <1>5. CASE h = "stats"
    <2>1. CASE t = <<"rlock", "td", "snapshot", "runlock">>
      BY <1>5, <2>1 DEF Due, Follows, Upcoming
    <2>2. CASE t = <<"td", "snapshot", "runlock">>
      BY <1>5, <2>2 DEF Due, Follows, Upcoming
    <2>3. CASE t = <<"snapshot", "runlock">>
      BY <1>5, <2>3 DEF Due, Follows, Upcoming
    <2>4. CASE t = <<"runlock">>
      BY <1>5, <2>4 DEF Due, Follows, Upcoming
    <2> QED
      BY <1>5, <2>1, <2>2, <2>3, <2>4 DEF Due
  <1>6. CASE h = "timeline"
    <2>1. CASE t = <<"events">>
      BY <1>6, <2>1 DEF Due, Follows, Upcoming
    <2> QED
      BY <1>6, <2>1 DEF Due
  <1> QED
    BY <1>1, <1>2, <1>3, <1>4, <1>5, <1>6 DEF Due

-----------------------------------------------------------------------------
(***************************************************************************)
(* What the others do                                                      *)
(***************************************************************************)
\* What may have been read may have been read when more is shown.
LEMMA CountedStays ==
  ASSUME ProgressTypeOK, ProgressTypeOK', NEW k \in 1..NFiles + 1, NEW bytes, Counted(bytes, k),
         \A f \in Files : shown[f] <= shown'[f]
  PROVE  Counted(bytes, k)'
  <1>1. PICK sum \in [1..NFiles + 1 -> Nat] :
          /\ sum[1] = 0 /\ sum[k] = bytes
          /\ \A f \in 1..(k - 1) : sum[f + 1] <= sum[f] + shown[f]
    BY DEF Counted
  <1>2. ASSUME NEW f \in 1..(k - 1) PROVE sum[f + 1] <= sum[f] + shown'[f]
    <2>1. f \in Files /\ f \in 1..NFiles + 1 /\ f + 1 \in 1..NFiles + 1
      BY Sizes DEF Files
    <2>2. shown[f] \in 0..FileSize /\ shown'[f] \in 0..FileSize
      BY <2>1 DEF ProgressTypeOK
    <2>3. sum[f] \in Nat /\ sum[f + 1] \in Nat
      BY <2>1
    <2>4. sum[f + 1] <= sum[f] + shown[f] /\ shown[f] <= shown'[f]
      BY <1>1, <2>1
    <2> QED
      BY <2>2, <2>3, <2>4, Sizes
  <1> QED
    BY <1>1, <1>2 DEF Counted

LEMMA ShownBeforeStays ==
  ASSUME ProgressTypeOK, ProgressTypeOK', NEW c \in Clients, ShownBefore(c),
         UNCHANGED clientVars, \A f \in Files : shown[f] <= shown'[f]
  PROVE  ShownBefore(c)'
  <1>1. PICK sum \in [1..NFiles + 1 -> Nat] :
          /\ sum[1] = 0 /\ sum[NFiles + 1] = seen[c].bytes
          /\ \A f \in Files : sum[f + 1] <= sum[f] + shown[f]
          /\ req[c].at # 0 => sum[req[c].at] <= req[c].got.bytes
    BY DEF ShownBefore
  <1>2. ASSUME NEW f \in Files PROVE sum[f + 1] <= sum[f] + shown'[f]
    <2>1. f \in 1..NFiles + 1 /\ f + 1 \in 1..NFiles + 1
      BY Sizes DEF Files
    <2>2. shown[f] \in 0..FileSize /\ shown'[f] \in 0..FileSize
      BY DEF ProgressTypeOK
    <2>3. sum[f] \in Nat /\ sum[f + 1] \in Nat
      BY <2>1
    <2>4. sum[f + 1] <= sum[f] + shown[f] /\ shown[f] <= shown'[f]
      BY <1>1
    <2> QED
      BY <2>2, <2>3, <2>4, Sizes
  <1> QED
    BY <1>1, <1>2 DEF ShownBefore, clientVars

\* Nothing may always have been read.
LEMMA NothingRead ==
  ASSUME NEW now \in [Files -> 0..FileSize]
  PROVE  \E sum \in [1..NFiles + 1 -> Nat] :
            /\ sum[1] = 0 /\ sum[NFiles + 1] = 0
            /\ \A f \in Files : sum[f + 1] <= sum[f] + now[f]
  <1> DEFINE zero == [i \in 1..NFiles + 1 |-> 0]
  <1>1. zero \in [1..NFiles + 1 -> Nat] /\ zero[1] = 0 /\ zero[NFiles + 1] = 0
    BY Sizes
  <1>2. ASSUME NEW f \in Files PROVE zero[f + 1] <= zero[f] + now[f]
    <2>1. f \in 1..NFiles + 1 /\ f + 1 \in 1..NFiles + 1 /\ now[f] \in 0..FileSize
      BY Sizes DEF Files
    <2> QED
      BY <2>1, Sizes
  <1> HIDE DEF zero
  <1> QED
    BY <1>1, <1>2

\* Whatever goes on between two steps of a handler, what it has read keeps.
LEMMA OnwardInforms ==
  ASSUME WorldInv, ClientInv, WorldInv', Onward, UNCHANGED clientVars
  PROVE  ClientInv'
  <1>1. ClientType'
    BY DEF ClientInv, ClientType, clientVars
  <1>2. ASSUME NEW c \in Clients PROVE Informed(c)'
    <2> DEFINE r == req[c]
    <2>0. /\ req' = req /\ seen' = seen
          /\ r \in Requests /\ seen[c] \in [stage : 0..7, bytes : Nat] /\ Informed(c)
      BY DEF ClientInv, ClientType, clientVars
    <2> USE DEF Informed
    <2>1. Unread(c)'
      BY <2>0 DEF Unread
    <2>2. Reading(c)'
      <3>1. locks'["job"].readers = locks["job"].readers
        BY ThreadsAndLocks DEF Onward, ReadersStay
      <3> QED
        BY <2>0, <3>1 DEF Reading
    <2>3. JobKnown(c)'
      BY <2>0 DEF JobKnown, Onward
    <2>4. CountsAll(c)'
      <3>1. jobStatus' = "complete" /\ r.at # 0 => jobStatus = "complete"
        BY <2>0 DEF Reading, Onward
      <3>2. AllShown => AllShown'
        BY DEF Onward
      <3> QED
        BY <2>0, <3>1, <3>2 DEF CountsAll
    <2>5. Explains(c)'
      BY <2>0 DEF Explains, Onward
    <2>6. StageTells(c)'
      <3>1. Stage(td.state) <= Stage(td'.state)
        BY DEF Onward
      <3>2. \A n \in 0..7 : n <= Stage(td.state) => n <= Stage(td'.state)
        <4>1. Stage(td.state) \in 0..7 /\ Stage(td'.state) \in 0..7
          BY StageIsSmall, Zenon
        <4> QED
          BY <3>1, <4>1
      <3>3. seen[c].stage \in 0..7 /\ r.got.stage \in 0..7
        BY <2>0 DEF Requests, Answer
      <3> QED
        BY <2>0, <3>2, <3>3 DEF StageTells
    <2>7. CountsUp(c)'
      <3>0. ProgressTypeOK /\ ProgressTypeOK' /\ r.at \in 0..NFiles + 1 /\ NFiles + 1 \in 1..NFiles + 1
        BY <2>0, Sizes DEF WorldInv, WorldType, Requests
      <3>1. CASE td.job
        <4>1. td'.job /\ \A f \in Files : shown[f] <= shown'[f]
          BY <3>1 DEF Onward
        <4>2. ShownBefore(c)'
          BY <2>0, <3>0, <4>1, ShownBeforeStays DEF CountsUp
        <4>3. r.at # 0 => Counted(r.got.bytes, r.at)'
          BY <2>0, <3>0, <4>1, CountedStays DEF CountsUp
        <4>4. Upcoming(r.todo) \in {"end", "runlock"} /\ r.got.job =>
                Counted(r.got.bytes, NFiles + 1)'
          BY <2>0, <3>0, <4>1, CountedStays DEF CountsUp
        <4> QED
          BY <2>0, <4>1, <4>2, <4>3, <4>4 DEF CountsUp
      <3>2. CASE ~ td.job
        <4>1. seen[c].bytes = 0 /\ ~ r.got.job /\ r.at = 0
          BY <2>0, <3>2 DEF CountsUp, JobKnown, Reading
        <4>2. \E sum \in [1..NFiles + 1 -> Nat] :
                 /\ sum[1] = 0 /\ sum[NFiles + 1] = 0
                 /\ \A f \in Files : sum[f + 1] <= sum[f] + shown'[f]
          BY <3>0, NothingRead DEF ProgressTypeOK
        <4>3. ShownBefore(c)'
          BY <2>0, <4>1, <4>2 DEF ShownBefore
        <4> QED
          BY <2>0, <4>1, <4>3 DEF CountsUp
      <3> QED
        BY <3>1, <3>2
    <2> QED
      BY <2>1, <2>2, <2>3, <2>4, <2>5, <2>6, <2>7
  <1> QED
    BY <1>1, <1>2 DEF ClientInv

-----------------------------------------------------------------------------
(***************************************************************************)
(* The handlers                                                            *)
(***************************************************************************)
LEMMA HandlersLeaveWorld ==
  ASSUME WorldInv, UNCHANGED <<progressVars, timelineVars, pollVars>>, RWMutexTypeOK'
  PROVE  WorldInv'
  <1> USE DEF WorldInv, progressVars, jobVars, fileVars, timelineVars, pollVars
  <1>1. WorldType'
    BY DEF WorldType, ProgressTypeOK, TimelineTypeOK
  <1>2. StateTells' /\ PcTells' /\ EventsBehind'
    BY DEF StateTells, PcTells, EventsBehind
  <1>3. CopyTells' /\ NothingHalfDone'
    BY DEF CopyTells, NothingHalfDone, CleanRun, Done
  <1>4. SettledIsShown'
    BY DEF SettledIsShown, AllShown, JobShown, Done
  <1> QED
    BY <1>1, <1>2, <1>3, <1>4

LEMMA ReadersOfOthers ==
  ASSUME RWMutexTypeOK, NEW c \in Clients, NEW l \in Locks,
         RLock(c, l) \/ RUnlock(c, l) \/ UNCHANGED locks
  PROVE  /\ RWMutexTypeOK'
         /\ \A k \in Locks : \A d \in Clients :
              (d # c \/ k # l) /\ d \in locks[k].readers => d \in locks'[k].readers
  <1>1. RWMutexTypeOK'
    BY LocksKeepType, ThreadsAndLocks
  <1> USE DEF RWMutexTypeOK
  <1>2. CASE RLock(c, l)
    BY <1>1, <1>2 DEF RLock
  <1>3. CASE RUnlock(c, l)
    BY <1>1, <1>3 DEF RUnlock
  <1>4. CASE UNCHANGED locks
    BY <1>1, <1>4
  <1> QED
    BY <1>2, <1>3, <1>4

\* A client is not concerned by what another does.
LEMMA OthersKeep ==
  ASSUME ClientInv, NEW d \in Clients, UNCHANGED <<progressVars, timelineVars, pollVars>>,
         req'[d] = req[d], seen'[d] = seen[d],
         d \in locks["job"].readers => d \in locks'["job"].readers
  PROVE  Informed(d)'
  <1> USE DEF progressVars, jobVars, fileVars, timelineVars, pollVars, Informed
  <1>0. Informed(d)
    BY DEF ClientInv
  <1>1. AllShown' <=> AllShown
    BY DEF AllShown, JobShown, Done
  <1>2. Unread(d)' /\ JobKnown(d)' /\ Explains(d)'
    BY <1>0 DEF Unread, JobKnown, Explains
  <1>3. Reading(d)'
    BY <1>0 DEF Reading
  <1>4. CountsAll(d)'
    BY <1>0, <1>1 DEF CountsAll
  <1>5. StageTells(d)'
    BY <1>0, Zenon DEF StageTells
  <1>6. CountsUp(d)'
    <2>1. ShownBefore(d)'
      BY <1>0 DEF CountsUp, ShownBefore
    <2>2. \A k, b : Counted(b, k) => Counted(b, k)'
      BY DEF Counted
    <2> QED
      BY <1>0, <2>1, <2>2 DEF CountsUp
  <1> QED
    BY <1>2, <1>3, <1>4, <1>5, <1>6

\* So what a step of one handler keeps is what it says of its own client.
LEMMA OwnStepKeeps ==
  ASSUME WorldInv, ClientInv, NEW c \in Clients, UNCHANGED <<progressVars, timelineVars, pollVars>>,
         NEW l \in Locks, RLock(c, l) \/ RUnlock(c, l) \/ UNCHANGED locks,
         ClientType', Informed(c)',
         \A d \in Clients \ {c} : req'[d] = req[d] /\ seen'[d] = seen[d]
  PROVE  WorldInv' /\ ClientInv'
  <1>1. RWMutexTypeOK
    BY DEF WorldInv, WorldType, ProgressTypeOK
  <1>2. WorldInv'
    BY <1>1, ReadersOfOthers, HandlersLeaveWorld
  <1>3. ASSUME NEW d \in Clients \ {c} PROVE Informed(d)'
    <2>1. d \in locks["job"].readers => d \in locks'["job"].readers
      BY <1>1, ReadersOfOthers, ThreadsAndLocks
    <2> QED
      BY <2>1, OthersKeep
  <1> QED
    BY <1>2, <1>3 DEF ClientInv

\* What a step that reads does to the request.
LEMMA StepReads ==
  ASSUME ClientType, NEW c \in Clients, NEW x, NEW got \in Answer, NEW rest,
         Step(c, x, got, rest), rest \in Seq(Item), Due(req[c].handler, rest)
  PROVE  /\ ClientType' /\ Upcoming(req[c].todo) = x /\ req[c].todo # <<>>
         /\ req'[c].handler = req[c].handler /\ req'[c].at = req[c].at
         /\ req'[c].got = got /\ req'[c].todo = rest
         /\ \A d \in Clients \ {c} : req'[d] = req[d]
         /\ UNCHANGED <<progressVars, timelineVars, pollVars, seen>>
  <1>1. req[c] \in Requests /\ req \in [Clients -> Requests]
    BY DEF ClientType
  <1>2. req' = [req EXCEPT ![c].todo = rest, ![c].got = got]
    BY DEF Step
  <1>3. req' = [req EXCEPT ![c] = [req[c] EXCEPT !.todo = rest, !.got = got]]
    BY <1>1, <1>2
  <1>4. [req[c] EXCEPT !.todo = rest, !.got = got] \in Requests
    BY <1>1 DEF Requests
  <1>5. /\ req' \in [Clients -> Requests]
        /\ req'[c] = [req[c] EXCEPT !.todo = rest, !.got = got]
        /\ \A d \in Clients \ {c} : req'[d] = req[d]
    BY <1>1, <1>3, <1>4
  <1>6. /\ req'[c].handler = req[c].handler /\ req'[c].at = req[c].at
        /\ req'[c].got = got /\ req'[c].todo = rest
    BY <1>1, <1>5 DEF Requests
  <1>7. seen' = seen
    BY DEF Step
  <1>8. ClientType'
    <2>1. \A d \in Clients : Due(req'[d].handler, req'[d].todo)
      BY <1>5, <1>6 DEF ClientType
    <2> QED
      BY <1>5, <1>7, <2>1 DEF ClientType
  <1> QED
    BY <1>5, <1>6, <1>8 DEF Step, Upcoming

LEMMA StepEnds ==
  ASSUME ClientType, NEW c \in Clients, NEW x, NEW got \in Answer, Step(c, x, got, <<>>)
  PROVE  /\ ClientType' /\ Upcoming(req[c].todo) = x
         /\ req'[c].handler = req[c].handler /\ req'[c].at = req[c].at
         /\ req'[c].got = got /\ Upcoming(req'[c].todo) = "end"
         /\ \A d \in Clients \ {c} : req'[d] = req[d]
         /\ UNCHANGED <<progressVars, timelineVars, pollVars, seen>>
  <1>1. PICK rest : rest = <<>>
    OBVIOUS
  <1>2. rest \in Seq(Item)
    BY <1>1
  <1>3. Due(req[c].handler, rest)
    BY <1>1 DEF Due
  <1>4. Step(c, x, got, rest)
    BY <1>1
  <1>5. Upcoming(rest) = "end"
    BY <1>1 DEF Upcoming
  <1> QED
    BY <1>2, <1>3, <1>4, <1>5, StepReads

LEMMA TailIsSeq ==
  ASSUME NEW S, NEW s \in Seq(S), s # <<>>
  PROVE  Tail(s) \in Seq(S)
  OBVIOUS

LEMMA ReadReads ==
  ASSUME ClientType, NEW c \in Clients, NEW x, x # "lookup", NEW got \in Answer,
         Step(c, x, got, Tail(req[c].todo))
  PROVE  /\ ClientType' /\ Upcoming(req[c].todo) = x
         /\ req'[c].handler = req[c].handler /\ req'[c].at = req[c].at
         /\ req'[c].got = got
         /\ Follows(req[c].handler, x, Upcoming(req'[c].todo))
         /\ \A d \in Clients \ {c} : req'[d] = req[d]
         /\ UNCHANGED <<progressVars, timelineVars, pollVars, seen>>
  <1>1. req[c].todo \in Seq(Item) /\ req[c].todo # <<>> /\ Head(req[c].todo) = x
        /\ Due(req[c].handler, req[c].todo)
    BY DEF ClientType, Requests, Step
  <1>2. Tail(req[c].todo) \in Seq(Item)
    BY <1>1, TailIsSeq
  <1>3. /\ Due(req[c].handler, Tail(req[c].todo))
        /\ Follows(req[c].handler, x, Upcoming(Tail(req[c].todo)))
    BY <1>1, DueGoesOn
  <1>4. /\ ClientType' /\ Upcoming(req[c].todo) = x
        /\ req'[c].handler = req[c].handler /\ req'[c].at = req[c].at
        /\ req'[c].got = got /\ req'[c].todo = Tail(req[c].todo)
        /\ \A d \in Clients \ {c} : req'[d] = req[d]
        /\ UNCHANGED <<progressVars, timelineVars, pollVars, seen>>
    BY <1>2, <1>3, StepReads, Zenon
  <1> QED
    BY <1>3, <1>4, Zenon

\* A step of a handler that is not counting the bytes of a job keeps what it must
\* if what it adds is right.
LEMMA AnswerKeeps ==
  ASSUME ClientInv, NEW c \in Clients, UNCHANGED <<progressVars, timelineVars, pollVars, seen>>,
         ClientType', req[c].at = 0, req'[c].at = 0, req'[c].handler = req[c].handler,
         NEW x, x = Upcoming(req[c].todo), NEW y, y = Upcoming(req'[c].todo),
         NEW g, g = req[c].got, NEW n, n = req'[c].got,
         Unread(c)', JobKnown(c)', Explains(c)',
         n.state \in Settled \/ n.status = "complete" => AllShown,
         y \in {"end", "runlock"} /\ n.job =>
           /\ x = "runlock" /\ g.job /\ n.bytes = g.bytes
           /\ n.state \in Settled \/ n.status = "complete" =>
                g.state \in Settled \/ g.status = "complete",
         y = "end" /\ req[c].handler = "jobs" /\ n.state = "complete" /\ ~ n.job =>
           n.bytes = TotalSize,
         n.bytes <= TotalSize,
         n.stage <= Stage(td.state),
         n.state # "untracked" => seen[c].stage <= Stage(n.state)
  PROVE  Informed(c)'
  <1> USE DEF progressVars, jobVars, fileVars, timelineVars, pollVars
  <1>0. Informed(c)
    BY DEF ClientInv
  <1> USE DEF Informed
  <1>1. AllShown' <=> AllShown
    BY DEF AllShown, JobShown, Done
  <1>2. Reading(c)'
    BY DEF Reading
  <1>3. CountsAll(c)'
    BY <1>0, <1>1 DEF CountsAll
  <1>4. StageTells(c)'
    <2>1. seen'[c].stage <= Stage(td'.state) /\ n.stage <= Stage(td'.state)
      BY <1>0, Zenon DEF StageTells
    <2> QED
      BY <2>1, Zenon DEF StageTells
  <1>5. CountsUp(c)'
    <2>1. ShownBefore(c)'
      BY <1>0 DEF CountsUp, ShownBefore
    <2>2. y \in {"end", "runlock"} /\ n.job =>
            Counted(n.bytes, NFiles + 1)' /\ seen'[c].bytes <= n.bytes
      BY <1>0 DEF CountsUp, Counted
    <2> QED
      BY <1>0, <2>1, <2>2 DEF CountsUp
  <1> QED
    BY <1>2, <1>3, <1>4, <1>5

\* What has been read when the next is not a job's files.
LEMMA IdleKnows ==
  ASSUME WorldInv, ClientInv, NEW c \in Clients, Upcoming(req[c].todo) # "snapshot"
  PROVE  /\ req[c].at = 0 /\ req[c].got \in Answer /\ ClientType
         /\ td \in TrackedDownload /\ StateTells
         /\ Unread(c) /\ JobKnown(c) /\ CountsAll(c) /\ Explains(c) /\ StageTells(c)
  BY DEF WorldInv, WorldType, ClientInv, ClientType, Informed, Reading, Requests

LEMMA FindKeeps ==
  ASSUME WorldInv, ClientInv, NEW c \in Clients, Find(c)
  PROVE  WorldInv' /\ ClientInv'
  <1> DEFINE g == req[c].got
             n == [g EXCEPT !.found = tracked]
             y == Upcoming(req'[c].todo)
  <1>1. Upcoming(req[c].todo) = "find"
    BY DEF Find, Step, Upcoming
  <1>2. /\ req[c].at = 0 /\ g \in Answer /\ ClientType
        /\ Unread(c) /\ JobKnown(c) /\ CountsAll(c) /\ Explains(c) /\ StageTells(c)
    BY <1>1, IdleKnows
  <1>3. /\ n \in Answer /\ n.state = g.state /\ n.err = g.err /\ n.done = g.done
        /\ n.job = g.job /\ n.status = g.status /\ n.bytes = g.bytes /\ n.stage = g.stage
    BY <1>2 DEF Answer, WorldInv, WorldType
  <1> HIDE DEF n
  <1>4. /\ ClientType' /\ req'[c].handler = req[c].handler /\ req'[c].at = req[c].at
        /\ req'[c].got = n
        /\ y = "end" \/ Follows(req[c].handler, "find", y)
        /\ \A d \in Clients \ {c} : req'[d] = req[d]
        /\ UNCHANGED <<progressVars, timelineVars, pollVars, seen>>
    <2>1. CASE tracked
      <3>1. Step(c, "find", n, Tail(req[c].todo))
        BY <2>1 DEF Find, n
      <3> QED
        BY <1>2, <1>3, <3>1, ReadReads, Zenon
    <2>2. CASE ~ tracked
      <3>1. Step(c, "find", n, <<>>)
        BY <2>2 DEF Find, n
      <3> QED
        BY <1>2, <1>3, <3>1, StepEnds, Zenon
    <2> QED
      BY <2>1, <2>2
  <1> HIDE DEF y
  <1> USE DEF pollVars, timelineVars, progressVars, jobVars, fileVars
  <1>5. Unread(c)'
    BY <1>1, <1>2, <1>3, <1>4 DEF Unread, Follows, y
  <1>6. JobKnown(c)'
    BY <1>1, <1>2, <1>3, <1>4 DEF JobKnown, Follows, y, Unread
  <1>7. Explains(c)'
    BY <1>1, <1>2, <1>3, <1>4 DEF Explains, Unread
  <1>8. ~ g.job /\ g.state = "untracked" /\ g.status = "absent"
    BY <1>1, <1>2 DEF Unread
  <1>9. Informed(c)'
    <2>1. n.bytes <= TotalSize /\ n.stage <= Stage(td.state)
      BY <1>2, <1>3 DEF CountsAll, StageTells
    <2>2. UNCHANGED <<progressVars, timelineVars, pollVars, seen>>
      BY <1>4
    <2> QED
      BY <1>1, <1>2, <1>3, <1>4, <1>5, <1>6, <1>7, <1>8, <2>1, <2>2, AnswerKeeps DEF Settled
  <1>10. locks' = locks
    BY DEF Find
  <1> QED
    BY <1>4, <1>9, <1>10, OwnStepKeeps, ThreadsAndLocks

LEMMA GetStateKeeps ==
  ASSUME WorldInv, ClientInv, NEW c \in Clients, GetState(c)
  PROVE  WorldInv' /\ ClientInv'
  <1> DEFINE g == req[c].got
             n == [g EXCEPT !.state = td.state]
             y == Upcoming(req'[c].todo)
  <1>1. Upcoming(req[c].todo) = "state"
    BY DEF GetState, Read, Step, Upcoming
  <1>2. /\ req[c].at = 0 /\ g \in Answer /\ ClientType
        /\ td \in TrackedDownload /\ StateTells
        /\ Unread(c) /\ JobKnown(c) /\ CountsAll(c) /\ Explains(c) /\ StageTells(c)
    BY <1>1, IdleKnows
  <1>3. /\ n \in Answer /\ n.state = td.state /\ n.err = g.err
        /\ n.done = g.done /\ n.job = g.job /\ n.status = g.status /\ n.bytes = g.bytes /\ n.stage = g.stage
    BY <1>2 DEF Answer, TrackedDownload
  <1> HIDE DEF n
  <1>4. /\ ClientType' /\ req'[c].handler = req[c].handler /\ req'[c].at = req[c].at
        /\ req'[c].got = n /\ Follows(req[c].handler, "state", y)
        /\ \A d \in Clients \ {c} : req'[d] = req[d]
        /\ UNCHANGED <<progressVars, timelineVars, pollVars, seen>>
    <2>1. Step(c, "state", n, Tail(req[c].todo))
      BY DEF GetState, Read, n
    <2> QED
      BY <1>2, <1>3, <2>1, ReadReads, Zenon
  <1> HIDE DEF y
  <1>5. Unread(c)'
    BY <1>1, <1>2, <1>3, <1>4 DEF Unread, Follows, y
  <1>6. JobKnown(c)'
    BY <1>1, <1>2, <1>3, <1>4 DEF JobKnown, Follows, y, pollVars
  <1>7. Explains(c)'
    BY <1>1, <1>2, <1>3, <1>4 DEF Explains, Follows, y, pollVars
  <1>8. /\ n.state \in Settled \/ n.status = "complete" => AllShown
        /\ y \in {"end", "runlock"} /\ n.job =>
             /\ "state" = "runlock" /\ g.job /\ n.bytes = g.bytes
             /\ n.state \in Settled \/ n.status = "complete" =>
                  g.state \in Settled \/ g.status = "complete"
        /\ y = "end" /\ req[c].handler = "jobs" /\ n.state = "complete" /\ ~ n.job =>
             n.bytes = TotalSize
        /\ n.state # "untracked" => seen[c].stage <= Stage(n.state)
    <2>1. n.state \in Settled \/ n.status = "complete" => AllShown
      BY <1>2, <1>3, <1>1 DEF CountsAll, Unread, WorldInv, SettledIsShown
    <2>2. y \in {"end", "runlock"} /\ n.job =>
            /\ "state" = "runlock" /\ g.job /\ n.bytes = g.bytes
            /\ n.state \in Settled \/ n.status = "complete" =>
                 g.state \in Settled \/ g.status = "complete"
      BY <1>1, <1>2, <1>3, <1>4 DEF Follows, Unread
    <2>3. y = "end" /\ req[c].handler = "jobs" /\ n.state = "complete" /\ ~ n.job =>
            n.bytes = TotalSize
      BY <1>4 DEF Follows
    <2>4. n.state # "untracked" => seen[c].stage <= Stage(n.state)
      BY <1>2, <1>3, Zenon DEF StageTells
    <2> QED
      BY <2>1, <2>2, <2>3, <2>4
  <1>9. Informed(c)'
    <2>1. n.bytes <= TotalSize /\ n.stage <= Stage(td.state)
      BY <1>2, <1>3, Zenon DEF CountsAll, StageTells
    <2> QED
      BY <1>1, <1>2, <1>3, <1>4, <1>5, <1>6, <1>7, <1>8, <2>1, AnswerKeeps DEF y
  <1>10. UNCHANGED locks
    BY DEF GetState, Read
  <1> QED
    BY <1>4, <1>9, <1>10, OwnStepKeeps, ThreadsAndLocks

LEMMA GetErrorKeeps ==
  ASSUME WorldInv, ClientInv, NEW c \in Clients, GetError(c)
  PROVE  WorldInv' /\ ClientInv'
  <1> DEFINE g == req[c].got
             n == [g EXCEPT !.err = td.err]
             y == Upcoming(req'[c].todo)
  <1>1. Upcoming(req[c].todo) = "error"
    BY DEF GetError, Read, Step, Upcoming
  <1>2. /\ req[c].at = 0 /\ g \in Answer /\ ClientType
        /\ td \in TrackedDownload /\ StateTells
        /\ Unread(c) /\ JobKnown(c) /\ CountsAll(c) /\ Explains(c) /\ StageTells(c)
    BY <1>1, IdleKnows
  <1>3. /\ n \in Answer /\ n.state = g.state /\ n.err = td.err
        /\ n.done = g.done /\ n.job = g.job /\ n.status = g.status /\ n.bytes = g.bytes /\ n.stage = g.stage
    BY <1>2 DEF Answer, TrackedDownload
  <1> HIDE DEF n
  <1>4. /\ ClientType' /\ req'[c].handler = req[c].handler /\ req'[c].at = req[c].at
        /\ req'[c].got = n /\ Follows(req[c].handler, "error", y)
        /\ \A d \in Clients \ {c} : req'[d] = req[d]
        /\ UNCHANGED <<progressVars, timelineVars, pollVars, seen>>
    <2>1. Step(c, "error", n, Tail(req[c].todo))
      BY DEF GetError, Read, n
    <2> QED
      BY <1>2, <1>3, <2>1, ReadReads, Zenon
  <1> HIDE DEF y
  <1>5. Unread(c)'
    BY <1>1, <1>2, <1>3, <1>4 DEF Unread, Follows, y
  <1>6. JobKnown(c)'
    BY <1>1, <1>2, <1>3, <1>4 DEF JobKnown, Follows, y, pollVars
  <1>7. Explains(c)'
    BY <1>1, <1>2, <1>3, <1>4 DEF Explains, Follows, y, pollVars, StateTells
  <1>8. /\ n.state \in Settled \/ n.status = "complete" => AllShown
        /\ y \in {"end", "runlock"} /\ n.job =>
             /\ "error" = "runlock" /\ g.job /\ n.bytes = g.bytes
             /\ n.state \in Settled \/ n.status = "complete" =>
                  g.state \in Settled \/ g.status = "complete"
        /\ y = "end" /\ req[c].handler = "jobs" /\ n.state = "complete" /\ ~ n.job =>
             n.bytes = TotalSize
        /\ n.state # "untracked" => seen[c].stage <= Stage(n.state)
    <2>1. n.state \in Settled \/ n.status = "complete" => AllShown
      BY <1>2, <1>3 DEF CountsAll
    <2>2. y \in {"end", "runlock"} /\ n.job =>
            /\ "error" = "runlock" /\ g.job /\ n.bytes = g.bytes
            /\ n.state \in Settled \/ n.status = "complete" =>
                 g.state \in Settled \/ g.status = "complete"
      BY <1>4 DEF Follows
    <2>3. y = "end" /\ req[c].handler = "jobs" /\ n.state = "complete" /\ ~ n.job =>
            n.bytes = TotalSize
      BY <1>4 DEF Follows
    <2>4. n.state # "untracked" => seen[c].stage <= Stage(n.state)
      BY <1>2, <1>3, Zenon DEF StageTells
    <2> QED
      BY <2>1, <2>2, <2>3, <2>4
  <1>9. Informed(c)'
    <2>1. n.bytes <= TotalSize /\ n.stage <= Stage(td.state)
      BY <1>2, <1>3, Zenon DEF CountsAll, StageTells
    <2> QED
      BY <1>1, <1>2, <1>3, <1>4, <1>5, <1>6, <1>7, <1>8, <2>1, AnswerKeeps DEF y
  <1>10. UNCHANGED locks
    BY DEF GetError, Read
  <1> QED
    BY <1>4, <1>9, <1>10, OwnStepKeeps, ThreadsAndLocks

LEMMA GetDownloadKeeps ==
  ASSUME WorldInv, ClientInv, BoxInv, NEW c \in Clients, GetDownload(c)
  PROVE  WorldInv' /\ ClientInv'
  <1> DEFINE g == req[c].got
             n == [g EXCEPT !.bytes = atBox]
             y == Upcoming(req'[c].todo)
  <1>1. Upcoming(req[c].todo) = "download"
    BY DEF GetDownload, Read, Step, Upcoming
  <1>2. /\ req[c].at = 0 /\ g \in Answer /\ ClientType
        /\ td \in TrackedDownload /\ StateTells
        /\ Unread(c) /\ JobKnown(c) /\ CountsAll(c) /\ Explains(c) /\ StageTells(c)
    BY <1>1, IdleKnows
  <1>3. /\ n \in Answer /\ n.state = g.state /\ n.err = g.err
        /\ n.done = g.done /\ n.job = g.job /\ n.status = g.status /\ n.bytes = atBox /\ n.stage = g.stage
    BY <1>2, Sizes DEF Answer, BoxInv
  <1> HIDE DEF n
  <1>4. /\ ClientType' /\ req'[c].handler = req[c].handler /\ req'[c].at = req[c].at
        /\ req'[c].got = n /\ Follows(req[c].handler, "download", y)
        /\ \A d \in Clients \ {c} : req'[d] = req[d]
        /\ UNCHANGED <<progressVars, timelineVars, pollVars, seen>>
    <2>1. Step(c, "download", n, Tail(req[c].todo))
      BY DEF GetDownload, Read, n
    <2> QED
      BY <1>2, <1>3, <2>1, ReadReads, Zenon
  <1> HIDE DEF y
  <1>5. Unread(c)'
    BY <1>1, <1>2, <1>3, <1>4 DEF Unread, Follows, y
  <1>6. JobKnown(c)'
    BY <1>1, <1>2, <1>3, <1>4 DEF JobKnown, Follows, y, pollVars
  <1>7. Explains(c)'
    BY <1>1, <1>2, <1>3, <1>4 DEF Explains, Follows, y, pollVars, StateTells
  <1>8. /\ n.state \in Settled \/ n.status = "complete" => AllShown
        /\ y \in {"end", "runlock"} /\ n.job =>
             /\ "download" = "runlock" /\ g.job /\ n.bytes = g.bytes
             /\ n.state \in Settled \/ n.status = "complete" =>
                  g.state \in Settled \/ g.status = "complete"
        /\ y = "end" /\ req[c].handler = "jobs" /\ n.state = "complete" /\ ~ n.job =>
             n.bytes = TotalSize
        /\ n.state # "untracked" => seen[c].stage <= Stage(n.state)
    <2>1. n.state \in Settled \/ n.status = "complete" => AllShown
      BY <1>2, <1>3 DEF CountsAll
    <2>2. y \in {"end", "runlock"} /\ n.job =>
            /\ "download" = "runlock" /\ g.job /\ n.bytes = g.bytes
            /\ n.state \in Settled \/ n.status = "complete" =>
                 g.state \in Settled \/ g.status = "complete"
      BY <1>4 DEF Follows
    <2>3. y = "end" /\ req[c].handler = "jobs" /\ n.state = "complete" /\ ~ n.job =>
            n.bytes = TotalSize
      BY <1>4 DEF Follows
    <2>4. n.state # "untracked" => seen[c].stage <= Stage(n.state)
      BY <1>2, <1>3, Zenon DEF StageTells
    <2> QED
      BY <2>1, <2>2, <2>3, <2>4
  <1>9. Informed(c)'
    <2>1. n.bytes <= TotalSize /\ n.stage <= Stage(td.state)
      <3>1. n.bytes <= TotalSize
        BY <1>3, Sizes DEF BoxInv
      <3> QED
        BY <1>2, <1>3, <3>1, Zenon DEF StageTells
    <2> QED
      BY <1>1, <1>2, <1>3, <1>4, <1>5, <1>6, <1>7, <1>8, <2>1, AnswerKeeps DEF y
  <1>10. UNCHANGED locks
    BY DEF GetDownload, Read
  <1> QED
    BY <1>4, <1>9, <1>10, OwnStepKeeps, ThreadsAndLocks

LEMMA GetTimesKeeps ==
  ASSUME WorldInv, ClientInv, NEW c \in Clients, GetTimes(c)
  PROVE  WorldInv' /\ ClientInv'
  <1> DEFINE g == req[c].got
             n == [g EXCEPT !.done = td.done]
             y == Upcoming(req'[c].todo)
  <1>1. Upcoming(req[c].todo) = "times"
    BY DEF GetTimes, Read, Step, Upcoming
  <1>2. /\ req[c].at = 0 /\ g \in Answer /\ ClientType
        /\ td \in TrackedDownload /\ StateTells
        /\ Unread(c) /\ JobKnown(c) /\ CountsAll(c) /\ Explains(c) /\ StageTells(c)
    BY <1>1, IdleKnows
  <1>3. /\ n \in Answer /\ n.state = g.state /\ n.err = g.err
        /\ n.done = td.done /\ n.job = g.job /\ n.status = g.status /\ n.bytes = g.bytes /\ n.stage = g.stage
    BY <1>2 DEF Answer, TrackedDownload
  <1> HIDE DEF n
  <1>4. /\ ClientType' /\ req'[c].handler = req[c].handler /\ req'[c].at = req[c].at
        /\ req'[c].got = n /\ Follows(req[c].handler, "times", y)
        /\ \A d \in Clients \ {c} : req'[d] = req[d]
        /\ UNCHANGED <<progressVars, timelineVars, pollVars, seen>>
    <2>1. Step(c, "times", n, Tail(req[c].todo))
      BY DEF GetTimes, Read, n
    <2> QED
      BY <1>2, <1>3, <2>1, ReadReads, Zenon
  <1> HIDE DEF y
  <1>5. Unread(c)'
    BY <1>1, <1>2, <1>3, <1>4 DEF Unread, Follows, y
  <1>6. JobKnown(c)'
    BY <1>1, <1>2, <1>3, <1>4 DEF JobKnown, Follows, y, pollVars
  <1>7. Explains(c)'
    BY <1>1, <1>2, <1>3, <1>4 DEF Explains, Follows, y, pollVars, StateTells
  <1>8. /\ n.state \in Settled \/ n.status = "complete" => AllShown
        /\ y \in {"end", "runlock"} /\ n.job =>
             /\ "times" = "runlock" /\ g.job /\ n.bytes = g.bytes
             /\ n.state \in Settled \/ n.status = "complete" =>
                  g.state \in Settled \/ g.status = "complete"
        /\ y = "end" /\ req[c].handler = "jobs" /\ n.state = "complete" /\ ~ n.job =>
             n.bytes = TotalSize
        /\ n.state # "untracked" => seen[c].stage <= Stage(n.state)
    <2>1. n.state \in Settled \/ n.status = "complete" => AllShown
      BY <1>2, <1>3 DEF CountsAll
    <2>2. y \in {"end", "runlock"} /\ n.job =>
            /\ "times" = "runlock" /\ g.job /\ n.bytes = g.bytes
            /\ n.state \in Settled \/ n.status = "complete" =>
                 g.state \in Settled \/ g.status = "complete"
      BY <1>4 DEF Follows
    <2>3. y = "end" /\ req[c].handler = "jobs" /\ n.state = "complete" /\ ~ n.job =>
            n.bytes = TotalSize
      BY <1>4 DEF Follows
    <2>4. n.state # "untracked" => seen[c].stage <= Stage(n.state)
      BY <1>2, <1>3, Zenon DEF StageTells
    <2> QED
      BY <2>1, <2>2, <2>3, <2>4
  <1>9. Informed(c)'
    <2>1. n.bytes <= TotalSize /\ n.stage <= Stage(td.state)
      BY <1>2, <1>3, Zenon DEF CountsAll, StageTells
    <2> QED
      BY <1>1, <1>2, <1>3, <1>4, <1>5, <1>6, <1>7, <1>8, <2>1, AnswerKeeps DEF y
  <1>10. UNCHANGED locks
    BY DEF GetTimes, Read
  <1> QED
    BY <1>4, <1>9, <1>10, OwnStepKeeps, ThreadsAndLocks

LEMMA GetSyncJobKeeps ==
  ASSUME WorldInv, ClientInv, NEW c \in Clients, GetSyncJob(c)
  PROVE  WorldInv' /\ ClientInv'
  <1> DEFINE g == req[c].got
             n == [g EXCEPT !.job = td.job]
             y == Upcoming(req'[c].todo)
  <1>1. Upcoming(req[c].todo) = "job"
    BY DEF GetSyncJob, Read, Step, Upcoming
  <1>2. /\ req[c].at = 0 /\ g \in Answer /\ ClientType
        /\ td \in TrackedDownload /\ StateTells
        /\ Unread(c) /\ JobKnown(c) /\ CountsAll(c) /\ Explains(c) /\ StageTells(c)
    BY <1>1, IdleKnows
  <1>3. /\ n \in Answer /\ n.state = g.state /\ n.err = g.err
        /\ n.done = g.done /\ n.job = td.job /\ n.status = g.status /\ n.bytes = g.bytes /\ n.stage = g.stage
    BY <1>2 DEF Answer, TrackedDownload
  <1> HIDE DEF n
  <1>4. /\ ClientType' /\ req'[c].handler = req[c].handler /\ req'[c].at = req[c].at
        /\ req'[c].got = n /\ Follows(req[c].handler, "job", y)
        /\ \A d \in Clients \ {c} : req'[d] = req[d]
        /\ UNCHANGED <<progressVars, timelineVars, pollVars, seen>>
    <2>1. Step(c, "job", n, Tail(req[c].todo))
      BY DEF GetSyncJob, Read, n
    <2> QED
      BY <1>2, <1>3, <2>1, ReadReads, Zenon
  <1> HIDE DEF y
  <1>5. Unread(c)'
    BY <1>1, <1>2, <1>3, <1>4 DEF Unread, Follows, y
  <1>6. JobKnown(c)'
    BY <1>1, <1>2, <1>3, <1>4 DEF JobKnown, Follows, y, pollVars
  <1>7. Explains(c)'
    BY <1>1, <1>2, <1>3, <1>4 DEF Explains, Follows, y, pollVars, StateTells
  <1>8. /\ n.state \in Settled \/ n.status = "complete" => AllShown
        /\ y \in {"end", "runlock"} /\ n.job =>
             /\ "job" = "runlock" /\ g.job /\ n.bytes = g.bytes
             /\ n.state \in Settled \/ n.status = "complete" =>
                  g.state \in Settled \/ g.status = "complete"
        /\ y = "end" /\ req[c].handler = "jobs" /\ n.state = "complete" /\ ~ n.job =>
             n.bytes = TotalSize
        /\ n.state # "untracked" => seen[c].stage <= Stage(n.state)
    <2>1. n.state \in Settled \/ n.status = "complete" => AllShown
      BY <1>2, <1>3 DEF CountsAll
    <2>2. y \in {"end", "runlock"} /\ n.job =>
            /\ "job" = "runlock" /\ g.job /\ n.bytes = g.bytes
            /\ n.state \in Settled \/ n.status = "complete" =>
                 g.state \in Settled \/ g.status = "complete"
      BY <1>4 DEF Follows
    <2>3. y = "end" /\ req[c].handler = "jobs" /\ n.state = "complete" /\ ~ n.job =>
            n.bytes = TotalSize
      BY <1>4 DEF Follows
    <2>4. n.state # "untracked" => seen[c].stage <= Stage(n.state)
      BY <1>2, <1>3, Zenon DEF StageTells
    <2> QED
      BY <2>1, <2>2, <2>3, <2>4
  <1>9. Informed(c)'
    <2>1. n.bytes <= TotalSize /\ n.stage <= Stage(td.state)
      BY <1>2, <1>3, Zenon DEF CountsAll, StageTells
    <2> QED
      BY <1>1, <1>2, <1>3, <1>4, <1>5, <1>6, <1>7, <1>8, <2>1, AnswerKeeps DEF y
  <1>10. UNCHANGED locks
    BY DEF GetSyncJob, Read
  <1> QED
    BY <1>4, <1>9, <1>10, OwnStepKeeps, ThreadsAndLocks

LEMMA StatsTrackedKeeps ==
  ASSUME WorldInv, ClientInv, NEW c \in Clients, StatsTracked(c)
  PROVE  WorldInv' /\ ClientInv'
  <1> DEFINE g == req[c].got
             n == [g EXCEPT !.state = td.state,
                          !.job = td.job /\ td.state = "syncing"]
             y == Upcoming(req'[c].todo)
  <1>1. Upcoming(req[c].todo) = "td"
    BY DEF StatsTracked, Read, Step, Upcoming
  <1>2. /\ req[c].at = 0 /\ g \in Answer /\ ClientType
        /\ td \in TrackedDownload /\ StateTells
        /\ Unread(c) /\ JobKnown(c) /\ CountsAll(c) /\ Explains(c) /\ StageTells(c)
    BY <1>1, IdleKnows
  <1>3. /\ n \in Answer /\ n.state = td.state /\ n.err = g.err
        /\ n.done = g.done /\ n.job = (td.job /\ td.state = "syncing") /\ n.status = g.status /\ n.bytes = g.bytes /\ n.stage = g.stage
    BY <1>2 DEF Answer, TrackedDownload
  <1> HIDE DEF n
  <1>4. /\ ClientType' /\ req'[c].handler = req[c].handler /\ req'[c].at = req[c].at
        /\ req'[c].got = n /\ Follows(req[c].handler, "td", y)
        /\ \A d \in Clients \ {c} : req'[d] = req[d]
        /\ UNCHANGED <<progressVars, timelineVars, pollVars, seen>>
    <2>1. Step(c, "td", n, Tail(req[c].todo))
      BY DEF StatsTracked, Read, n
    <2> QED
      BY <1>2, <1>3, <2>1, ReadReads, Zenon
  <1> HIDE DEF y
  <1>5. Unread(c)'
    BY <1>1, <1>2, <1>3, <1>4 DEF Unread, Follows, y
  <1>6. JobKnown(c)'
    <2>1. n.job => td.job /\ n.state = "syncing"
      BY <1>3, Zenon
    <2>2. n.status = "absent"
      BY <1>1, <1>2, <1>3 DEF Unread
    <2> QED
      BY <1>4, <2>1, <2>2 DEF JobKnown, pollVars
  <1>7. Explains(c)'
    BY <1>1, <1>2, <1>3, <1>4 DEF Explains, Follows, y, pollVars, StateTells
  <1>8. /\ n.state \in Settled \/ n.status = "complete" => AllShown
        /\ y \in {"end", "runlock"} /\ n.job =>
             /\ "td" = "runlock" /\ g.job /\ n.bytes = g.bytes
             /\ n.state \in Settled \/ n.status = "complete" =>
                  g.state \in Settled \/ g.status = "complete"
        /\ y = "end" /\ req[c].handler = "jobs" /\ n.state = "complete" /\ ~ n.job =>
             n.bytes = TotalSize
        /\ n.state # "untracked" => seen[c].stage <= Stage(n.state)
    <2>1. n.state \in Settled \/ n.status = "complete" => AllShown
      BY <1>1, <1>2, <1>3 DEF CountsAll, Unread, WorldInv, SettledIsShown
    <2>2. y \in {"end", "runlock"} /\ n.job =>
            /\ "td" = "runlock" /\ g.job /\ n.bytes = g.bytes
            /\ n.state \in Settled \/ n.status = "complete" =>
                 g.state \in Settled \/ g.status = "complete"
      BY <1>4 DEF Follows
    <2>3. y = "end" /\ req[c].handler = "jobs" /\ n.state = "complete" /\ ~ n.job =>
            n.bytes = TotalSize
      BY <1>4 DEF Follows
    <2>4. n.state # "untracked" => seen[c].stage <= Stage(n.state)
      BY <1>2, <1>3, Zenon DEF StageTells
    <2> QED
      BY <2>1, <2>2, <2>3, <2>4
  <1>9. Informed(c)'
    <2>1. n.bytes <= TotalSize /\ n.stage <= Stage(td.state)
      BY <1>2, <1>3, Zenon DEF CountsAll, StageTells
    <2> QED
      BY <1>1, <1>2, <1>3, <1>4, <1>5, <1>6, <1>7, <1>8, <2>1, AnswerKeeps DEF y
  <1>10. UNCHANGED locks
    BY DEF StatsTracked, Read
  <1> QED
    BY <1>4, <1>9, <1>10, OwnStepKeeps, ThreadsAndLocks

LEMMA UnlockStatsKeeps ==
  ASSUME WorldInv, ClientInv, NEW c \in Clients, UnlockStats(c)
  PROVE  WorldInv' /\ ClientInv'
  <1> DEFINE g == req[c].got
             n == [g EXCEPT !.state = CASE g.status = "error" -> "error"
                                          [] g.status = "complete" -> "synced"
                                          [] OTHER -> @]
             y == Upcoming(req'[c].todo)
  <1>1. Upcoming(req[c].todo) = "runlock"
    BY DEF UnlockStats, Read, Step, Upcoming
  <1>2. /\ req[c].at = 0 /\ g \in Answer /\ ClientType
        /\ td \in TrackedDownload /\ StateTells
        /\ Unread(c) /\ JobKnown(c) /\ CountsAll(c) /\ Explains(c) /\ StageTells(c)
    BY <1>1, IdleKnows
  <1>3. /\ n \in Answer /\ n.state = (CASE g.status = "error" -> "error"
                                          [] g.status = "complete" -> "synced"
                                          [] OTHER -> g.state) /\ n.err = g.err
        /\ n.done = g.done /\ n.job = g.job /\ n.status = g.status /\ n.bytes = g.bytes /\ n.stage = g.stage
    BY <1>2 DEF Answer, State
  <1> HIDE DEF n
  <1>4. /\ ClientType' /\ req'[c].handler = req[c].handler /\ req'[c].at = req[c].at
        /\ req'[c].got = n /\ Follows(req[c].handler, "runlock", y)
        /\ \A d \in Clients \ {c} : req'[d] = req[d]
        /\ UNCHANGED <<progressVars, timelineVars, pollVars, seen>>
    <2>1. Step(c, "runlock", n, Tail(req[c].todo))
      BY DEF UnlockStats, Read, n
    <2> QED
      BY <1>2, <1>3, <2>1, ReadReads, Zenon
  <1> HIDE DEF y
  <1>5. Unread(c)'
    BY <1>1, <1>2, <1>3, <1>4 DEF Unread, Follows, y
  <1>6. JobKnown(c)'
    BY <1>1, <1>2, <1>3, <1>4 DEF JobKnown, Follows, y, pollVars
  <1>7. Explains(c)'
    BY <1>1, <1>2, <1>3, <1>4 DEF Explains, Follows, y, pollVars
  <1>8. /\ n.state \in Settled \/ n.status = "complete" => AllShown
        /\ y \in {"end", "runlock"} /\ n.job =>
             /\ "runlock" = "runlock" /\ g.job /\ n.bytes = g.bytes
             /\ n.state \in Settled \/ n.status = "complete" =>
                  g.state \in Settled \/ g.status = "complete"
        /\ y = "end" /\ req[c].handler = "jobs" /\ n.state = "complete" /\ ~ n.job =>
             n.bytes = TotalSize
        /\ n.state # "untracked" => seen[c].stage <= Stage(n.state)
    <2>1. n.state \in Settled \/ n.status = "complete" => AllShown
      BY <1>1, <1>2, <1>3 DEF CountsAll, Settled
    <2>2. y \in {"end", "runlock"} /\ n.job =>
            /\ "runlock" = "runlock" /\ g.job /\ n.bytes = g.bytes
            /\ n.state \in Settled \/ n.status = "complete" =>
                 g.state \in Settled \/ g.status = "complete"
      BY <1>2, <1>3, <1>1 DEF Settled
    <2>3. y = "end" /\ req[c].handler = "jobs" /\ n.state = "complete" /\ ~ n.job =>
            n.bytes = TotalSize
      BY <1>4 DEF Follows
    <2>4. n.state # "untracked" => seen[c].stage <= Stage(n.state)
      <3>1. seen[c].stage \in 0..7 /\ Stage("error") = 7
        BY <1>2, StageOf DEF ClientType
      <3>2. CASE g.status = "error"
        <4>1. n.state = "error"
          BY <1>3, <3>2
        <4> QED
          BY <3>1, <4>1
      <3>3. CASE g.status = "complete"
        <4>1. req[c].handler = "stats" /\ g.job
          BY <1>2, <1>4, <3>3 DEF JobKnown, Follows
        <4>2. g.state = "syncing" /\ n.state = "synced"
          BY <1>1, <1>2, <1>3, <3>3, <4>1 DEF JobKnown
        <4>3. seen[c].stage <= Stage("syncing")
          BY <1>2, <4>2 DEF StageTells
        <4>4. Stage("syncing") = 2 /\ Stage("synced") = 3
          BY StageOf
        <4>5. seen[c].stage <= Stage("synced")
          BY <3>1, <4>3, <4>4
        <4> QED
          BY <4>2, <4>5, Zenon
      <3>4. CASE g.status \notin {"error", "complete"}
        <4>1. n.state = g.state
          BY <1>3, <3>4
        <4> QED
          BY <1>2, <4>1, Zenon DEF StageTells
      <3> QED
        BY <3>2, <3>3, <3>4
    <2> QED
      BY <2>1, <2>2, <2>3, <2>4
  <1>9. Informed(c)'
    <2>1. n.bytes <= TotalSize /\ n.stage <= Stage(td.state)
      BY <1>2, <1>3, Zenon DEF CountsAll, StageTells
    <2> QED
      BY <1>1, <1>2, <1>3, <1>4, <1>5, <1>6, <1>7, <1>8, <2>1, AnswerKeeps DEF y
  <1>10. RUnlock(c, "tracked")
    BY DEF UnlockStats
  <1> QED
    BY <1>4, <1>9, <1>10, OwnStepKeeps, ThreadsAndLocks

LEMMA NoSnapshotKeeps ==
  ASSUME WorldInv, ClientInv, NEW c \in Clients, NoSnapshot(c)
  PROVE  WorldInv' /\ ClientInv'
  <1> DEFINE g == req[c].got
             n == IF req[c].handler = "jobs" /\ g.state = "complete"
                  THEN [g EXCEPT !.bytes = TotalSize] ELSE g
             y == Upcoming(req'[c].todo)
  <1>1. Upcoming(req[c].todo) = "snapshot" /\ ~ g.job
    BY DEF NoSnapshot, Read, Step, Upcoming
  <1>2. /\ req[c].at = 0 /\ g \in Answer /\ ClientType
        /\ Unread(c) /\ JobKnown(c) /\ CountsAll(c) /\ Explains(c) /\ StageTells(c)
    BY <1>1 DEF ClientInv, ClientType, Informed, Reading, Requests
  <1>3. /\ n \in Answer /\ n.state = g.state /\ n.err = g.err /\ n.done = g.done
        /\ n.job = g.job /\ n.status = g.status /\ n.stage = g.stage
        /\ n.bytes = g.bytes \/ n.bytes = TotalSize
        /\ req[c].handler = "jobs" /\ g.state = "complete" => n.bytes = TotalSize
    BY <1>2, Sizes DEF Answer
  <1> HIDE DEF n
  <1>4. /\ ClientType' /\ req'[c].handler = req[c].handler /\ req'[c].at = req[c].at
        /\ req'[c].got = n /\ Follows(req[c].handler, "snapshot", y)
        /\ \A d \in Clients \ {c} : req'[d] = req[d]
        /\ UNCHANGED <<progressVars, timelineVars, pollVars, seen>>
    <2>1. Step(c, "snapshot", n, Tail(req[c].todo))
      BY DEF NoSnapshot, Read, n
    <2> QED
      BY <1>2, <1>3, <2>1, ReadReads, Zenon
  <1> HIDE DEF y
  <1>5. Unread(c)'
    BY <1>1, <1>2, <1>3, <1>4 DEF Unread, Follows, y
  <1>6. JobKnown(c)'
    BY <1>1, <1>2, <1>3, <1>4 DEF JobKnown, Follows, y, pollVars
  <1>7. Explains(c)'
    BY <1>1, <1>2, <1>3, <1>4 DEF Explains, Follows, y, pollVars
  <1>8. Informed(c)'
    <2>1. n.bytes <= TotalSize
      BY <1>2, <1>3, Sizes DEF CountsAll
    <2>2. n.stage <= Stage(td.state) /\ (n.state # "untracked" => seen[c].stage <= Stage(n.state))
      BY <1>2, <1>3, Zenon DEF StageTells
    <2>3. n.state \in Settled \/ n.status = "complete" => AllShown
      BY <1>2, <1>3 DEF CountsAll
    <2> QED
      BY <1>1, <1>2, <1>3, <1>4, <1>5, <1>6, <1>7, <2>1, <2>2, <2>3, AnswerKeeps DEF y
  <1>9. UNCHANGED locks
    BY DEF NoSnapshot, Read
  <1> QED
    BY <1>4, <1>8, <1>9, OwnStepKeeps, ThreadsAndLocks

\* The furthest of some stages is one of them.
LEMMA FurthestStage ==
  ASSUME NEW S \in SUBSET (0..7), 0 \in S
  PROVE  (CHOOSE s \in S : \A t \in S : t <= s) \in S
  <1> SUFFICES \E s \in S : \A t \in S : t <= s
    BY Zenon
  <1>1. CASE 7 \in S
    BY <1>1
  <1>2. CASE 7 \notin S /\ 6 \in S
    BY <1>2
  <1>3. CASE 7 \notin S /\ 6 \notin S /\ 5 \in S
    BY <1>3
  <1>4. CASE 7 \notin S /\ 6 \notin S /\ 5 \notin S /\ 4 \in S
    BY <1>4
  <1>5. CASE S \subseteq 0..3 /\ 3 \in S
    BY <1>5
  <1>6. CASE S \subseteq 0..2 /\ 2 \in S
    BY <1>6
  <1>7. CASE S \subseteq 0..1
    BY <1>7
  <1> QED
    BY <1>1, <1>2, <1>3, <1>4, <1>5, <1>6, <1>7

LEMMA GetTimelineKeeps ==
  ASSUME WorldInv, ClientInv, NEW c \in Clients, GetTimeline(c)
  PROVE  WorldInv' /\ ClientInv'
  <1> DEFINE g == req[c].got
             Stages(answer) == {0} \cup {Stage(e.type) : e \in {f \in answer : f.type # "error"}}
             y == Upcoming(req'[c].todo)
  <1>0. PICK answer \in {GetAll, GetByDownload("torrent"), GetByApp("app"), GetByDownloader("box")} :
          Read(c, "events", [g EXCEPT !.stage =
                  CHOOSE s \in Stages(answer) : \A t \in Stages(answer) : t <= s])
    BY DEF GetTimeline
  <1> DEFINE stage == CHOOSE s \in Stages(answer) : \A t \in Stages(answer) : t <= s
             n == [g EXCEPT !.stage = stage]
  <1>1. Upcoming(req[c].todo) = "events"
    BY <1>0 DEF Read, Step, Upcoming
  <1>2. /\ req[c].at = 0 /\ g \in Answer /\ ClientType
        /\ Unread(c) /\ JobKnown(c) /\ CountsAll(c) /\ Explains(c) /\ StageTells(c)
    BY <1>1, IdleKnows
  <1>a. stage \in 0..7 /\ stage <= Stage(td.state)
    <2>1. Stages(answer) \in SUBSET (0..7) /\ 0 \in Stages(answer)
      BY StageIsSmall
    <2>2. answer \subseteq Kept
      BY <1>0 DEF GetAll, GetByDownload, GetByApp, GetByDownloader
    <2>3. ASSUME NEW e \in answer, e.type # "error" PROVE Stage(e.type) <= Stage(td.state)
      <3>1. PICK i \in DOMAIN events : e = events[i]
        BY <2>2 DEF Kept
      <3>2. events[i].type # "error"
        BY <2>3, <3>1
      <3>3. Stage(events[i].type) <= Stage(td.state)
        BY <3>2 DEF WorldInv, EventsBehind
      <3> QED
        BY <3>1, <3>3, Zenon
    <2>4. 0 <= Stage(td.state)
      <3>1. Stage(td.state) \in 0..7
        BY StageIsSmall
      <3> QED
        BY <3>1
    <2>5. \A s \in Stages(answer) : s <= Stage(td.state)
      BY <2>3, <2>4, Zenon
    <2>6. stage \in Stages(answer)
      <3> HIDE DEF Stages
      <3> QED
        BY <2>1, FurthestStage
    <2> HIDE DEF Stages, stage
    <2> QED
      BY <2>1, <2>5, <2>6
  <1> HIDE DEF stage
  <1>3. /\ n \in Answer /\ n.state = g.state /\ n.err = g.err /\ n.done = g.done
        /\ n.job = g.job /\ n.status = g.status /\ n.bytes = g.bytes /\ n.stage = stage
    BY <1>2, <1>a DEF Answer
  <1>4. /\ ClientType' /\ req'[c].handler = req[c].handler /\ req'[c].at = req[c].at
        /\ req'[c].got = n /\ Follows(req[c].handler, "events", y)
        /\ \A d \in Clients \ {c} : req'[d] = req[d]
        /\ UNCHANGED <<progressVars, timelineVars, pollVars, seen>>
    <2>1. Step(c, "events", n, Tail(req[c].todo))
      BY <1>0 DEF Read, stage
    <2> HIDE DEF n
    <2> QED
      BY <1>2, <1>3, <2>1, ReadReads, Zenon
  <1> HIDE DEF n, y
  <1>5. Unread(c)'
    BY <1>1, <1>2, <1>3, <1>4 DEF Unread, Follows, y
  <1>6. JobKnown(c)'
    BY <1>1, <1>2, <1>3, <1>4 DEF JobKnown, Follows, y, pollVars
  <1>7. Explains(c)'
    BY <1>1, <1>2, <1>3, <1>4 DEF Explains, Follows, y, pollVars
  <1>8. Informed(c)'
    <2>1. n.bytes <= TotalSize
      BY <1>2, <1>3 DEF CountsAll
    <2>2. n.stage <= Stage(td.state) /\ (n.state # "untracked" => seen[c].stage <= Stage(n.state))
      BY <1>2, <1>3, <1>a, Zenon DEF StageTells
    <2>3. n.state \in Settled \/ n.status = "complete" => AllShown
      BY <1>2, <1>3 DEF CountsAll
    <2>4. ~ n.job /\ req[c].handler # "jobs"
      BY <1>1, <1>2, <1>3, <1>4 DEF Unread, Follows
    <2> QED
      BY <1>1, <1>2, <1>3, <1>4, <1>5, <1>6, <1>7, <2>1, <2>2, <2>3, <2>4, AnswerKeeps DEF y
  <1>9. UNCHANGED locks
    BY <1>0 DEF Read
  <1> QED
    BY <1>4, <1>8, <1>9, OwnStepKeeps, ThreadsAndLocks

\* The two steps that say themselves what is left to read.
LEMMA OtherRests ==
  ASSUME NEW h, NEW t, Due(h, t), t # <<>>
  PROVE  /\ Head(t) = "lookup" =>
              /\ h = "syncJob" /\ Due(h, <<"snapshot">>) /\ Due(h, <<"find", "download", "state">>)
         /\ Head(t) = "rlock" => h = "stats" /\ Due(h, <<"runlock">>)
         /\ Upcoming(<<"snapshot">>) = "snapshot" /\ Upcoming(<<"find", "download", "state">>) = "find"
         /\ Upcoming(<<"runlock">>) = "runlock"
         /\ <<"snapshot">> \in Seq(Item) /\ <<"find", "download", "state">> \in Seq(Item)
         /\ <<"runlock">> \in Seq(Item)
  <1>1. Head(t) = "lookup" => h = "syncJob"
    BY DEF Due
  <1>2. Head(t) = "rlock" => h = "stats"
    BY DEF Due
  <1>3. /\ Due("syncJob", <<"snapshot">>) /\ Due("syncJob", <<"find", "download", "state">>)
        /\ Due("stats", <<"runlock">>)
    BY DEF Due
  <1>4. /\ Upcoming(<<"snapshot">>) = "snapshot" /\ Upcoming(<<"find", "download", "state">>) = "find"
        /\ Upcoming(<<"runlock">>) = "runlock"
    BY DEF Upcoming
  <1>5. /\ "snapshot" \in Item /\ "find" \in Item /\ "state" \in Item /\ "runlock" \in Item
        /\ "download" \in Item
    BY DEF Item
  <1>6. \A x, y, z \in Item : <<x>> \in Seq(Item) /\ <<x, y, z>> \in Seq(Item)
    OBVIOUS
  <1>7. /\ <<"snapshot">> \in Seq(Item) /\ <<"find", "download", "state">> \in Seq(Item)
        /\ <<"runlock">> \in Seq(Item)
    BY <1>5, <1>6, Zenon
  <1> QED
    BY <1>1, <1>2, <1>3, <1>4, <1>7, Zenon

LEMMA LookupKeeps ==
  ASSUME WorldInv, ClientInv, NEW c \in Clients, Lookup(c)
  PROVE  WorldInv' /\ ClientInv'
  <1> DEFINE g == req[c].got
             n == [g EXCEPT !.job = inJobs]
             y == Upcoming(req'[c].todo)
  <1>1. Upcoming(req[c].todo) = "lookup" /\ req[c].todo # <<>> /\ Head(req[c].todo) = "lookup"
    BY DEF Lookup, Step, Upcoming
  <1>2. /\ req[c].at = 0 /\ g \in Answer /\ ClientType /\ StateTells
        /\ Unread(c) /\ JobKnown(c) /\ CountsAll(c) /\ Explains(c) /\ StageTells(c)
    BY <1>1, IdleKnows
  <1>3. /\ n \in Answer /\ n.state = g.state /\ n.err = g.err /\ n.done = g.done
        /\ n.job = inJobs /\ n.status = g.status /\ n.bytes = g.bytes /\ n.stage = g.stage
    BY <1>2 DEF Answer, WorldInv, WorldType
  <1> HIDE DEF n
  <1>a. PICK rest : rest = IF inJobs THEN <<"snapshot">> ELSE <<"find", "download", "state">>
    OBVIOUS
  <1>b. /\ req[c].handler = "syncJob" /\ Due(req[c].handler, rest) /\ rest \in Seq(Item)
        /\ inJobs => Upcoming(rest) = "snapshot"
        /\ ~ inJobs => Upcoming(rest) = "find"
    <2>1. Due(req[c].handler, req[c].todo)
      BY <1>2 DEF ClientType
    <2>2. /\ req[c].handler = "syncJob" /\ Due(req[c].handler, <<"snapshot">>)
          /\ Due(req[c].handler, <<"find", "download", "state">>)
          /\ Upcoming(<<"snapshot">>) = "snapshot" /\ Upcoming(<<"find", "download", "state">>) = "find"
          /\ <<"snapshot">> \in Seq(Item) /\ <<"find", "download", "state">> \in Seq(Item)
      BY <1>1, <2>1, OtherRests, Zenon
    <2> QED
      BY <1>a, <2>2, Zenon
  <1>4. /\ ClientType' /\ req'[c].handler = "syncJob" /\ req'[c].at = req[c].at
        /\ req'[c].got = n /\ y = Upcoming(rest)
        /\ \A d \in Clients \ {c} : req'[d] = req[d]
        /\ UNCHANGED <<progressVars, timelineVars, pollVars, seen>>
    <2>1. Step(c, "lookup", n, rest)
      BY <1>a DEF Lookup, n
    <2>2. /\ ClientType' /\ req'[c].handler = req[c].handler /\ req'[c].at = req[c].at
          /\ req'[c].got = n /\ req'[c].todo = rest
          /\ \A d \in Clients \ {c} : req'[d] = req[d]
          /\ UNCHANGED <<progressVars, timelineVars, pollVars, seen>>
      <3>1. ClientType /\ n \in Answer /\ rest \in Seq(Item) /\ Due(req[c].handler, rest)
        BY <1>2, <1>3, <1>b
      <3> HIDE DEF y
      <3> QED
        BY <2>1, <3>1, StepReads
    <2> QED
      BY <1>b, <2>2, Zenon
  <1> HIDE DEF y
  <1>5. Unread(c)'
    BY <1>1, <1>2, <1>3, <1>4, <1>b DEF Unread, y
  <1>6. JobKnown(c)'
    BY <1>1, <1>2, <1>3, <1>4, <1>b DEF JobKnown, Unread, y, pollVars, StateTells
  <1>7. Explains(c)'
    BY <1>1, <1>2, <1>3, <1>4, <1>b DEF Explains, y, pollVars
  <1>8. Informed(c)'
    <2>1. n.bytes <= TotalSize
      BY <1>2, <1>3 DEF CountsAll
    <2>2. n.stage <= Stage(td.state) /\ (n.state # "untracked" => seen[c].stage <= Stage(n.state))
      BY <1>2, <1>3, Zenon DEF StageTells
    <2>3. n.state \in Settled \/ n.status = "complete" => AllShown
      BY <1>2, <1>3 DEF CountsAll
    <2>4. y \notin {"end", "runlock"}
      BY <1>4, <1>b
    <2> QED
      BY <1>1, <1>2, <1>3, <1>4, <1>5, <1>6, <1>7, <1>b, <2>1, <2>2, <2>3, <2>4, AnswerKeeps DEF y
  <1>9. UNCHANGED locks
    BY DEF Lookup
  <1> QED
    BY <1>4, <1>8, <1>9, OwnStepKeeps, ThreadsAndLocks

LEMMA LockStatsKeeps ==
  ASSUME WorldInv, ClientInv, NEW c \in Clients, LockStats(c)
  PROVE  WorldInv' /\ ClientInv'
  <1> DEFINE g == req[c].got
             n == [g EXCEPT !.found = tracked]
             y == Upcoming(req'[c].todo)
  <1>1. Upcoming(req[c].todo) = "rlock" /\ req[c].todo # <<>> /\ Head(req[c].todo) = "rlock"
    BY DEF LockStats, Step, Upcoming
  <1>2. /\ req[c].at = 0 /\ g \in Answer /\ ClientType
        /\ Unread(c) /\ JobKnown(c) /\ CountsAll(c) /\ Explains(c) /\ StageTells(c)
    BY <1>1, IdleKnows
  <1>3. /\ n \in Answer /\ n.state = g.state /\ n.err = g.err /\ n.done = g.done
        /\ n.job = g.job /\ n.status = g.status /\ n.bytes = g.bytes /\ n.stage = g.stage
    BY <1>2 DEF Answer, WorldInv, WorldType
  <1> HIDE DEF n
  <1>b. /\ req[c].handler = "stats" /\ Due(req[c].handler, <<"runlock">>)
        /\ Upcoming(<<"runlock">>) = "runlock" /\ <<"runlock">> \in Seq(Item)
    <2>1. Due(req[c].handler, req[c].todo)
      BY <1>2 DEF ClientType
    <2> QED
      BY <1>1, <2>1, OtherRests, Zenon
  <1>4. /\ ClientType' /\ req'[c].handler = "stats" /\ req'[c].at = req[c].at
        /\ req'[c].got = n /\ y \in {"td", "runlock"}
        /\ \A d \in Clients \ {c} : req'[d] = req[d]
        /\ UNCHANGED <<progressVars, timelineVars, pollVars, seen>>
    <2>1. CASE tracked
      <3>1. Step(c, "rlock", n, Tail(req[c].todo))
        BY <2>1 DEF LockStats, n
      <3>2. /\ ClientType' /\ req'[c].handler = req[c].handler /\ req'[c].at = req[c].at
            /\ req'[c].got = n /\ Follows(req[c].handler, "rlock", y)
            /\ \A d \in Clients \ {c} : req'[d] = req[d]
            /\ UNCHANGED <<progressVars, timelineVars, pollVars, seen>>
        BY <1>2, <1>3, <3>1, ReadReads, Zenon
      <3> QED
        BY <1>b, <3>2 DEF Follows
    <2>2. CASE ~ tracked
      <3>1. Step(c, "rlock", n, <<"runlock">>)
        BY <2>2 DEF LockStats, n
      <3>2. PICK rest : rest = <<"runlock">>
        OBVIOUS
      <3>3. /\ Step(c, "rlock", n, rest) /\ rest \in Seq(Item) /\ Due(req[c].handler, rest)
            /\ Upcoming(rest) = "runlock"
        BY <1>b, <3>1, <3>2, Zenon
      <3>4. /\ ClientType' /\ req'[c].handler = req[c].handler /\ req'[c].at = req[c].at
            /\ req'[c].got = n /\ req'[c].todo = rest
            /\ \A d \in Clients \ {c} : req'[d] = req[d]
            /\ UNCHANGED <<progressVars, timelineVars, pollVars, seen>>
        <4>1. ClientType /\ n \in Answer
          BY <1>2, <1>3
        <4> HIDE DEF y
        <4> QED
          BY <3>3, <4>1, StepReads
      <3> QED
        BY <1>b, <3>3, <3>4
    <2> QED
      BY <2>1, <2>2
  <1> HIDE DEF y
  <1>8. ~ g.job /\ g.status = "absent"
    BY <1>1, <1>2 DEF Unread
  <1>5. Unread(c)'
    BY <1>1, <1>2, <1>3, <1>4 DEF Unread, y
  <1>6. JobKnown(c)'
    BY <1>1, <1>2, <1>3, <1>4, <1>8 DEF JobKnown, y, pollVars
  <1>7. Explains(c)'
    BY <1>1, <1>2, <1>3, <1>4 DEF Explains, y, pollVars
  <1>9. Informed(c)'
    <2>1. n.bytes <= TotalSize
      BY <1>2, <1>3 DEF CountsAll
    <2>2. n.stage <= Stage(td.state) /\ (n.state # "untracked" => seen[c].stage <= Stage(n.state))
      BY <1>2, <1>3, Zenon DEF StageTells
    <2>3. n.state \in Settled \/ n.status = "complete" => AllShown
      BY <1>2, <1>3 DEF CountsAll
    <2> QED
      BY <1>1, <1>2, <1>3, <1>4, <1>5, <1>6, <1>7, <1>8, <1>b, <2>1, <2>2, <2>3, AnswerKeeps DEF y
  <1>10. RLock(c, "tracked")
    BY DEF LockStats
  <1> QED
    BY <1>4, <1>9, <1>10, OwnStepKeeps, ThreadsAndLocks

-----------------------------------------------------------------------------
(***************************************************************************)
(* The files of a job, counted under its lock                              *)
(***************************************************************************)
LEMMA SizesAddUp ==
  ASSUME NEW k \in Files
  PROVE  /\ (k - 1) * FileSize \in Nat /\ (k - 1) * FileSize + FileSize = k * FileSize
         /\ k * FileSize <= TotalSize
  <1>1. k \in Nat /\ 1 <= k /\ k <= NFiles
    BY Sizes DEF Files
  <1>2. (k - 1) * FileSize \in Nat /\ (k - 1) * FileSize + FileSize = k * FileSize
    BY <1>1, Sizes
  <1>3. k * FileSize <= TotalSize
    <2>1. PICK m \in Nat : NFiles = k + m
      <3>1. NFiles - k \in Nat /\ NFiles = k + (NFiles - k)
        BY <1>1, Sizes
      <3> QED
        BY <3>1
    <2>2. (k + m) * FileSize = k * FileSize + m * FileSize
      BY <1>1, <2>1, Sizes
    <2>3. k * FileSize \in Nat /\ m * FileSize \in Nat
      BY <1>1, <2>1, Sizes
    <2> QED
      BY <2>1, <2>2, <2>3, Sizes
  <1> QED
    BY <1>2, <1>3

\* One more file is read.
LEMMA CountedOn ==
  ASSUME ProgressTypeOK, NEW k \in Files, NEW bytes \in Nat, Counted(bytes, k)
  PROVE  Counted(bytes + shown[k], k + 1)
  <1>1. PICK sum \in [1..NFiles + 1 -> Nat] :
          /\ sum[1] = 0 /\ sum[k] = bytes
          /\ \A f \in 1..(k - 1) : sum[f + 1] <= sum[f] + shown[f]
    BY DEF Counted
  <1> DEFINE new == [sum EXCEPT ![k + 1] = bytes + shown[k]]
  <1>2. k \in Nat /\ 1 <= k /\ k <= NFiles /\ k + 1 \in 1..NFiles + 1 /\ NFiles \in Nat
    BY Sizes DEF Files
  <1>3. shown[k] \in Nat
    BY Sizes DEF ProgressTypeOK
  <1>4. new \in [1..NFiles + 1 -> Nat] /\ new[1] = 0 /\ new[k + 1] = bytes + shown[k]
    BY <1>1, <1>2, <1>3
  <1>5. ASSUME NEW f \in 1..k PROVE new[f + 1] <= new[f] + shown[f]
    <2>1. CASE f = k
      <3>1. new[f] = bytes /\ new[f + 1] = bytes + shown[k]
        BY <1>1, <1>2, <2>1
      <3> QED
        BY <1>3, <2>1, <3>1
    <2>2. CASE f # k
      <3>1. f \in 1..(k - 1)
        BY <1>2, <2>2
      <3>2. new[f] = sum[f] /\ new[f + 1] = sum[f + 1]
        BY <1>2, <3>1
      <3> QED
        BY <1>1, <3>1, <3>2
    <2> QED
      BY <2>1, <2>2
  <1>6. (k + 1) - 1 = k
    BY <1>2
  <1> HIDE DEF new
  <1> QED
    BY <1>4, <1>5, <1>6 DEF Counted

\* A request that a step replaces by another.
LEMMA RequestBecomes ==
  ASSUME ClientType, NEW c \in Clients, NEW r \in Requests, Due(r.handler, r.todo),
         req' = [req EXCEPT ![c] = r], seen' \in [Clients -> [stage : 0..7, bytes : Nat]]
  PROVE  ClientType' /\ req'[c] = r /\ \A d \in Clients \ {c} : req'[d] = req[d]
  BY DEF ClientType

\* What is known where a snapshot is taken.
LEMMA SnapshotKnows ==
  ASSUME WorldInv, ClientInv, NEW c \in Clients
  PROVE  /\ ProgressTypeOK /\ RWMutexTypeOK /\ ClientType /\ StateTells /\ SettledIsShown
         /\ req \in [Clients -> Requests] /\ req[c] \in Requests /\ req[c].got \in Answer
         /\ Due(req[c].handler, req[c].todo) /\ seen[c].stage \in 0..7 /\ seen[c].bytes \in Nat
         /\ Unread(c) /\ Reading(c) /\ JobKnown(c) /\ CountsAll(c) /\ Explains(c)
         /\ StageTells(c) /\ CountsUp(c)
  BY DEF WorldInv, WorldType, ProgressTypeOK, ClientInv, ClientType, Informed, Requests

LEMMA BeginSnapshotKeeps ==
  ASSUME WorldInv, ClientInv, NEW c \in Clients, BeginSnapshot(c)
  PROVE  WorldInv' /\ ClientInv'
  <1> DEFINE r == req[c]
             new == [r EXCEPT !.at = 1]
  <1>1. /\ ProgressTypeOK /\ RWMutexTypeOK /\ ClientType
        /\ req \in [Clients -> Requests] /\ r \in Requests /\ r.got \in Answer
        /\ Due(r.handler, r.todo)
        /\ Unread(c) /\ JobKnown(c) /\ CountsAll(c) /\ Explains(c) /\ StageTells(c) /\ CountsUp(c)
    BY SnapshotKnows
  <1>2. /\ Upcoming(r.todo) = "snapshot" /\ r.got.job /\ r.at = 0
        /\ RLock(c, "job") /\ UNCHANGED <<progressVars, timelineVars, pollVars, seen>>
    BY DEF BeginSnapshot, Upcoming
  <1>3. new \in Requests /\ new.handler = r.handler /\ new.todo = r.todo /\ new.got = r.got /\ new.at = 1
    <2>1. 1 \in 0..NFiles + 1
      BY Sizes
    <2> QED
      BY <1>1, <2>1 DEF Requests
  <1>4. req' = [req EXCEPT ![c] = new]
    BY <1>1 DEF BeginSnapshot
  <1> HIDE DEF new
  <1>5. ClientType' /\ req'[c] = new /\ \A d \in Clients \ {c} : req'[d] = req[d]
    BY <1>1, <1>2, <1>3, <1>4, RequestBecomes DEF ClientType
  <1>6. r.got.bytes = 0
    BY <1>1, <1>2 DEF Unread
  <1> USE DEF progressVars, jobVars, fileVars, pollVars
  <1>7. Informed(c)'
    <2>1. Unread(c)'
      BY <1>1, <1>2, <1>3, <1>5 DEF Unread
    <2>2. Reading(c)'
      BY <1>1, <1>2, <1>3, <1>5, ThreadsAndLocks DEF Reading, RLock, RWMutexTypeOK
    <2>3. JobKnown(c)'
      BY <1>1, <1>2, <1>3, <1>5 DEF JobKnown
    <2>4. CountsAll(c)'
      <3>1. AllShown' <=> AllShown
        BY <1>2 DEF AllShown, JobShown, Done
      <3>2. (1 - 1) * FileSize = 0 /\ 0 <= TotalSize
        BY Sizes
      <3> QED
        BY <1>1, <1>2, <1>3, <1>5, <1>6, <3>1, <3>2 DEF CountsAll
    <2>5. Explains(c)'
      BY <1>1, <1>2, <1>3, <1>5 DEF Explains
    <2>6. StageTells(c)'
      BY <1>1, <1>2, <1>3, <1>5, Zenon DEF StageTells
    <2>7. CountsUp(c)'
      <3>1. ShownBefore(c)'
        <4>1. PICK sum \in [1..NFiles + 1 -> Nat] :
                /\ sum[1] = 0 /\ sum[NFiles + 1] = seen[c].bytes
                /\ \A f \in Files : sum[f + 1] <= sum[f] + shown[f]
          BY <1>1 DEF CountsUp, ShownBefore
        <4>2. sum[req'[c].at] <= req'[c].got.bytes
          BY <1>3, <1>5, <1>6, <4>1
        <4> QED
          BY <1>2, <4>1, <4>2 DEF ShownBefore
      <3>2. Counted(0, 1)
        <4>1. \E sum \in [1..NFiles + 1 -> Nat] : sum[1] = 0
          BY <1>1, NothingRead DEF ProgressTypeOK
        <4>2. 1..(1 - 1) = {}
          OBVIOUS
        <4> QED
          BY <4>1, <4>2 DEF Counted
      <3>3. Counted(0, 1)'
        BY <1>2, <3>2 DEF Counted
      <3> QED
        BY <1>1, <1>2, <1>3, <1>5, <1>6, <3>1, <3>3 DEF CountsUp
    <2> QED
      BY <2>1, <2>2, <2>3, <2>4, <2>5, <2>6, <2>7 DEF Informed
  <1> QED
    BY <1>2, <1>5, <1>7, OwnStepKeeps, ThreadsAndLocks

\* A file of a job that is complete is read in full.
LEMMA SnapshotFileKeeps ==
  ASSUME WorldInv, ClientInv, NEW c \in Clients, SnapshotFile(c)
  PROVE  WorldInv' /\ ClientInv'
  <1> DEFINE r == req[c]
             k == r.at
             bytes == r.got.bytes + shown[k]
             new == [r EXCEPT !.at = k + 1, !.got.bytes = bytes]
  <1>1. /\ ProgressTypeOK /\ ClientType /\ StateTells /\ SettledIsShown
        /\ req \in [Clients -> Requests] /\ r \in Requests /\ r.got \in Answer
        /\ Due(r.handler, r.todo) /\ seen[c].bytes \in Nat
        /\ Unread(c) /\ Reading(c) /\ JobKnown(c) /\ CountsAll(c) /\ Explains(c)
        /\ StageTells(c) /\ CountsUp(c)
    BY SnapshotKnows
  <1>2. /\ k \in Files /\ UNCHANGED <<locks, progressVars, timelineVars, pollVars, seen>>
        /\ k \in 1..NFiles + 1 /\ k \in Nat /\ k # 0 /\ k + 1 \in 1..NFiles + 1 /\ k + 1 # 0
        /\ (k + 1) - 1 = k
    BY Sizes DEF SnapshotFile, Files
  <1>3. shown[k] \in Nat /\ shown[k] <= FileSize /\ bytes \in Nat /\ r.got.bytes \in Nat
    BY <1>1, <1>2, Sizes DEF ProgressTypeOK, Answer
  <1>4. req' = [req EXCEPT ![c] = new]
    BY <1>1 DEF SnapshotFile
  <1>5. /\ new \in Requests /\ new.handler = r.handler /\ new.todo = r.todo /\ new.at = k + 1
        /\ new.got.bytes = bytes /\ new.got.state = r.got.state /\ new.got.job = r.got.job
        /\ new.got.status = r.got.status /\ new.got.err = r.got.err
        /\ new.got.done = r.got.done /\ new.got.stage = r.got.stage
    <2>1. k + 1 \in 0..NFiles + 1
      BY <1>2, Sizes
    <2>2. new = [r EXCEPT !.at = k + 1, !.got = [r.got EXCEPT !.bytes = bytes]]
      BY <1>1 DEF Requests
    <2> HIDE DEF bytes, k, new
    <2>3. [r.got EXCEPT !.bytes = bytes] \in Answer
      BY <1>1, <1>3 DEF Answer
    <2> QED
      BY <1>1, <2>1, <2>2, <2>3 DEF Requests, Answer
  <1>6. Upcoming(r.todo) = "snapshot" /\ r.got.job /\ td.job /\ c \in locks["job"].readers
    BY <1>1, <1>2 DEF Reading, JobKnown
  <1> HIDE DEF new, bytes
  <1>7. ClientType' /\ req'[c] = new /\ \A d \in Clients \ {c} : req'[d] = req[d]
    BY <1>1, <1>2, <1>4, <1>5, RequestBecomes DEF ClientType
  <1> USE DEF progressVars, jobVars, fileVars, pollVars
  <1>8. Informed(c)'
    <2>1. Unread(c)'
      BY <1>1, <1>2, <1>5, <1>6, <1>7 DEF Unread
    <2>2. Reading(c)'
      BY <1>1, <1>2, <1>5, <1>6, <1>7 DEF Reading
    <2>3. JobKnown(c)'
      BY <1>1, <1>2, <1>5, <1>7 DEF JobKnown
    <2>4. CountsAll(c)'
      <3>1. AllShown' <=> AllShown
        BY <1>2 DEF AllShown, JobShown, Done
      <3>2. /\ (k - 1) * FileSize \in Nat /\ (k - 1) * FileSize + FileSize = k * FileSize
            /\ k * FileSize <= TotalSize /\ k * FileSize \in Nat
        BY <1>2, SizesAddUp, Sizes
      <3>3. r.got.state \in Settled \/ jobStatus = "complete" => bytes = k * FileSize
        <4>1. SUFFICES ASSUME r.got.state \in Settled \/ jobStatus = "complete"
                       PROVE  bytes = k * FileSize
          OBVIOUS
        <4>2. AllShown
          BY <1>1, <4>1 DEF CountsAll, SettledIsShown
        <4>3. shown[k] = FileSize
          BY <1>2, <1>6, <4>2 DEF AllShown, JobShown, WorldInv, CopyTells
        <4>4. r.got.bytes = (k - 1) * FileSize
          BY <1>1, <1>2, <4>1 DEF CountsAll
        <4> QED
          BY <3>2, <4>3, <4>4 DEF bytes
      <3>4. bytes <= k * FileSize
        <4>1. r.got.bytes <= (k - 1) * FileSize
          BY <1>1, <1>2 DEF CountsAll
        <4> QED
          BY <1>3, <3>2, <4>1, Sizes DEF bytes
      <3>5. bytes <= TotalSize
        BY <1>3, <3>2, <3>4, Sizes
      <3>6. Upcoming(req'[c].todo) = "snapshot"
        BY <1>5, <1>6, <1>7
      <3> HIDE DEF k
      <3> QED
        BY <1>1, <1>2, <1>5, <1>7, <3>1, <3>3, <3>4, <3>5, <3>6 DEF CountsAll
    <2>5. Explains(c)'
      BY <1>1, <1>2, <1>5, <1>7 DEF Explains
    <2>6. StageTells(c)'
      <3>1. /\ req'[c].got.stage = r.got.stage /\ req'[c].got.state = r.got.state
            /\ seen' = seen /\ td' = td
        BY <1>2, <1>5, <1>7
      <3> QED
        BY <1>1, <3>1, Zenon DEF StageTells
    <2>7. CountsUp(c)'
      <3>1. ShownBefore(c)'
        <4>1. PICK sum \in [1..NFiles + 1 -> Nat] :
                /\ sum[1] = 0 /\ sum[NFiles + 1] = seen[c].bytes
                /\ \A f \in Files : sum[f + 1] <= sum[f] + shown[f]
                /\ k # 0 => sum[k] <= r.got.bytes
          BY <1>1 DEF CountsUp, ShownBefore
        <4>2. sum[k] \in Nat /\ sum[k + 1] \in Nat /\ sum[k] <= r.got.bytes
              /\ sum[k + 1] <= sum[k] + shown[k]
          BY <1>2, <4>1
        <4>3. sum[k + 1] <= bytes
          BY <1>3, <4>2 DEF bytes
        <4>4. sum[req'[c].at] <= req'[c].got.bytes
          BY <1>5, <1>7, <4>3
        <4> QED
          BY <1>2, <4>1, <4>4 DEF ShownBefore
      <3>2. Counted(r.got.bytes, k)
        BY <1>1, <1>2 DEF CountsUp
      <3>3. Counted(bytes, k + 1)
        BY <1>1, <1>2, <1>3, <3>2, CountedOn DEF bytes
      <3>4. \A b, m : Counted(b, m) => Counted(b, m)'
        BY <1>2 DEF Counted
      <3>5. Upcoming(req'[c].todo) = "snapshot"
        BY <1>5, <1>6, <1>7
      <3> QED
        BY <1>1, <1>2, <1>5, <1>7, <3>1, <3>3, <3>4, <3>5 DEF CountsUp
    <2> QED
      BY <2>1, <2>2, <2>3, <2>4, <2>5, <2>6, <2>7 DEF Informed
  <1> QED
    BY <1>2, <1>7, <1>8, OwnStepKeeps, ThreadsAndLocks

LEMMA EndSnapshotKeeps ==
  ASSUME WorldInv, ClientInv, NEW c \in Clients, EndSnapshot(c)
  PROVE  WorldInv' /\ ClientInv'
  <1> DEFINE r == req[c]
             new == [r EXCEPT !.at = 0, !.todo = Tail(r.todo), !.got.status = jobStatus]
             y == Upcoming(new.todo)
  <1>1. /\ ProgressTypeOK /\ RWMutexTypeOK /\ ClientType /\ StateTells /\ SettledIsShown
        /\ req \in [Clients -> Requests] /\ r \in Requests /\ r.got \in Answer
        /\ Due(r.handler, r.todo) /\ seen[c].bytes \in Nat
        /\ Unread(c) /\ Reading(c) /\ JobKnown(c) /\ CountsAll(c) /\ Explains(c)
        /\ StageTells(c) /\ CountsUp(c)
    BY SnapshotKnows
  <1>2. /\ r.at = NFiles + 1 /\ RUnlock(c, "job")
        /\ UNCHANGED <<progressVars, timelineVars, pollVars, seen>>
        /\ r.at # 0 /\ NFiles + 1 \in 1..NFiles + 1 /\ (NFiles + 1) - 1 = NFiles
    BY Sizes DEF EndSnapshot
  <1>3. Upcoming(r.todo) = "snapshot" /\ r.got.job /\ td.job
    BY <1>1, <1>2 DEF Reading, JobKnown
  <1>4. r.todo # <<>> /\ Head(r.todo) = "snapshot" /\ r.todo \in Seq(Item)
    BY <1>1, <1>3 DEF Upcoming, Requests
  <1>5. Tail(r.todo) \in Seq(Item)
    BY <1>4, TailIsSeq
  <1>6. Due(r.handler, Tail(r.todo)) /\ Follows(r.handler, "snapshot", Upcoming(Tail(r.todo)))
    BY <1>1, <1>4, DueGoesOn
  <1>7. req' = [req EXCEPT ![c] = new]
    BY <1>1 DEF EndSnapshot
  <1>8. /\ new \in Requests /\ new.handler = r.handler /\ new.todo = Tail(r.todo) /\ new.at = 0
        /\ new.got.bytes = r.got.bytes /\ new.got.state = r.got.state /\ new.got.job = r.got.job
        /\ new.got.status = jobStatus /\ new.got.err = r.got.err
        /\ new.got.done = r.got.done /\ new.got.stage = r.got.stage
    <2>1. 0 \in 0..NFiles + 1
      BY Sizes
    <2>2. new = [r EXCEPT !.at = 0, !.todo = Tail(r.todo),
                          !.got = [r.got EXCEPT !.status = jobStatus]]
      BY <1>1 DEF Requests
    <2> HIDE DEF new
    <2>3. [r.got EXCEPT !.status = jobStatus] \in Answer
      BY <1>1 DEF Answer, ProgressTypeOK
    <2> QED
      BY <1>1, <1>5, <2>1, <2>2, <2>3 DEF Requests, Answer
  <1> HIDE DEF new
  <1>9. Follows(r.handler, "snapshot", y) /\ Due(new.handler, new.todo)
    BY <1>6, <1>8
  <1>10. ClientType' /\ req'[c] = new /\ \A d \in Clients \ {c} : req'[d] = req[d]
    BY <1>1, <1>2, <1>7, <1>8, <1>9, RequestBecomes DEF ClientType
  <1>11. Upcoming(req'[c].todo) = y
    BY <1>10
  <1> HIDE DEF y
  <1>12. y \in {"end", "runlock"} /\ r.handler # "none" /\ (y = "runlock" => r.handler = "stats")
    BY <1>9 DEF Follows
  <1> USE DEF progressVars, jobVars, fileVars, pollVars
  <1>13. Informed(c)'
    <2>1. Unread(c)'
      BY <1>8, <1>10, <1>11, <1>12 DEF Unread
    <2>2. Reading(c)'
      BY <1>8, <1>10 DEF Reading
    <2>3. JobKnown(c)'
      BY <1>1, <1>2, <1>3, <1>8, <1>10, <1>11 DEF JobKnown
    <2>4. CountsAll(c)'
      <3>1. AllShown' <=> AllShown
        BY <1>2 DEF AllShown, JobShown, Done
      <3>2. r.got.state \in Settled \/ jobStatus = "complete" => AllShown /\ r.got.bytes = TotalSize
        BY <1>1, <1>2, Sizes DEF CountsAll, SettledIsShown
      <3>3. r.got.bytes <= TotalSize /\ seen[c].bytes <= TotalSize
        BY <1>1 DEF CountsAll
      <3>4. /\ req'[c].got.state = r.got.state /\ req'[c].got.status = jobStatus
            /\ req'[c].got.job /\ req'[c].got.bytes = r.got.bytes /\ req'[c].at = 0
            /\ seen' = seen
        BY <1>2, <1>3, <1>8, <1>10
      <3> QED
        BY <3>1, <3>2, <3>3, <3>4 DEF CountsAll
    <2>5. Explains(c)'
      BY <1>1, <1>2, <1>3, <1>8, <1>10, <1>11, <1>12 DEF Explains
    <2>6. StageTells(c)'
      <3>1. /\ req'[c].got.stage = r.got.stage /\ req'[c].got.state = r.got.state
            /\ seen' = seen /\ td' = td
        BY <1>2, <1>8, <1>10
      <3> QED
        BY <1>1, <3>1, Zenon DEF StageTells
    <2>7. CountsUp(c)'
      <3>1. PICK sum \in [1..NFiles + 1 -> Nat] :
              /\ sum[1] = 0 /\ sum[NFiles + 1] = seen[c].bytes
              /\ \A f \in Files : sum[f + 1] <= sum[f] + shown[f]
              /\ sum[r.at] <= r.got.bytes
        BY <1>1, <1>2 DEF CountsUp, ShownBefore
      <3>2. seen[c].bytes <= r.got.bytes
        BY <1>2, <3>1
      <3>3. ShownBefore(c)'
        BY <1>2, <1>8, <1>10, <3>1 DEF ShownBefore
      <3>4. Counted(r.got.bytes, NFiles + 1)
        BY <1>1, <1>2 DEF CountsUp
      <3>5. \A b, m : Counted(b, m) => Counted(b, m)'
        BY <1>2 DEF Counted
      <3> QED
        BY <1>1, <1>2, <1>3, <1>8, <1>10, <3>2, <3>3, <3>4, <3>5 DEF CountsUp
    <2> QED
      BY <2>1, <2>2, <2>3, <2>4, <2>5, <2>6, <2>7 DEF Informed
  <1> QED
    BY <1>2, <1>10, <1>13, OwnStepKeeps, ThreadsAndLocks

-----------------------------------------------------------------------------
(***************************************************************************)
(* The clients                                                             *)
(***************************************************************************)
\* Each handler has first all of its reads before it.
LEMMA AllIsDue ==
  ASSUME NEW h \in DOMAIN Reads
  PROVE  /\ Reads[h] \in Seq(Item) /\ Due(h, Reads[h]) /\ h # "none"
         /\ Upcoming(Reads[h]) \in {"find", "lookup", "rlock", "events"}
  <1>1. /\ "find" \in Item /\ "state" \in Item /\ "error" \in Item /\ "times" \in Item
        /\ "job" \in Item /\ "snapshot" \in Item /\ "lookup" \in Item /\ "rlock" \in Item
        /\ "td" \in Item /\ "runlock" \in Item /\ "events" \in Item
        /\ "download" \in Item
    BY DEF Item
  <1>2. \A u, v, w, x, y, z \in Item :
          /\ <<u, v, w, x>> \in Seq(Item) /\ <<u, v, w, x, y>> \in Seq(Item)
          /\ <<u, v, w, x, y, z>> \in Seq(Item)
    OBVIOUS
  <1>a. \A u \in Item : <<u>> \in Seq(Item)
    OBVIOUS
  <1>3. CASE h = "downloads"
    <2>1. Reads[h] = <<"find", "state", "error", "times", "job", "snapshot">>
      BY <1>3 DEF Reads
    <2>2. <<"find", "state", "error", "times", "job", "snapshot">> \in Seq(Item)
      BY <1>1, <1>2, Zenon
    <2> QED
      BY <1>3, <2>1, <2>2 DEF Due, Upcoming
  <1>4. CASE h = "download"
    <2>1. Reads[h] = <<"find", "state", "job", "snapshot">>
      BY <1>4 DEF Reads
    <2>2. <<"find", "state", "job", "snapshot">> \in Seq(Item)
      BY <1>1, <1>2, Zenon
    <2> QED
      BY <1>4, <2>1, <2>2 DEF Due, Upcoming
  <1>5. CASE h = "jobs"
    <2>1. Reads[h] = <<"find", "job", "state", "snapshot">>
      BY <1>5 DEF Reads
    <2>2. <<"find", "job", "state", "snapshot">> \in Seq(Item)
      BY <1>1, <1>2, Zenon
    <2> QED
      BY <1>5, <2>1, <2>2 DEF Due, Upcoming
  <1>6. CASE h = "syncJob"
    <2>1. Reads[h] = <<"lookup", "snapshot", "find", "download", "state">>
      BY <1>6 DEF Reads
    <2>2. <<"lookup", "snapshot", "find", "download", "state">> \in Seq(Item)
      BY <1>1, <1>2, Zenon
    <2> QED
      BY <1>6, <2>1, <2>2 DEF Due, Upcoming
  <1>7. CASE h = "stats"
    <2>1. Reads[h] = <<"rlock", "td", "snapshot", "runlock">>
      BY <1>7 DEF Reads
    <2>2. <<"rlock", "td", "snapshot", "runlock">> \in Seq(Item)
      BY <1>1, <1>2, Zenon
    <2> QED
      BY <1>7, <2>1, <2>2 DEF Due, Upcoming
  <1>8. CASE h = "timeline"
    <2>1. Reads[h] = <<"events">>
      BY <1>8 DEF Reads
    <2>2. <<"events">> \in Seq(Item)
      BY <1>1, <1>a, Zenon
    <2> QED
      BY <1>8, <2>1, <2>2 DEF Due, Upcoming
  <1>9. h \in {"downloads", "download", "jobs", "syncJob", "stats", "timeline"}
    BY DEF Reads
  <1> QED
    BY <1>3, <1>4, <1>5, <1>6, <1>7, <1>8, <1>9

\* A client that knows nothing of the torrent but what it was told last.
ToldOnly(c) ==
  /\ seen[c] \in [stage : 0..7, bytes : Nat]
  /\ req[c].got = Nothing /\ req[c].at = 0
  /\ req[c].handler = "none" <=> Upcoming(req[c].todo) = "end"
  /\ ShownBefore(c)
  /\ seen[c].bytes # 0 => td.job
  /\ seen[c].bytes <= TotalSize /\ seen[c].stage <= Stage(td.state)

ToldIsInformed == \A c \in Clients : ToldOnly(c) => Informed(c)

LEMMA NothingInforms == ToldIsInformed
  <1> SUFFICES ASSUME NEW c \in Clients, ToldOnly(c) PROVE Informed(c)
    BY DEF ToldIsInformed
  <1> USE DEF ToldOnly
  <1>1. Unread(c) /\ Reading(c) /\ JobKnown(c) /\ Explains(c)
    BY DEF Unread, Reading, JobKnown, Explains, Nothing
  <1>2. CountsAll(c)
    BY Sizes DEF CountsAll, Nothing, Settled
  <1>3. StageTells(c)
    <2>1. Stage(td.state) \in 0..7
      BY StageIsSmall
    <2>2. req[c].got.stage = 0 /\ req[c].got.state = "untracked"
      BY DEF Nothing
    <2>3. 0 <= Stage(td.state)
      BY <2>1
    <2> QED
      BY <2>2, <2>3, Zenon DEF StageTells
  <1>4. CountsUp(c)
    BY DEF CountsUp, Nothing
  <1> QED
    BY <1>1, <1>2, <1>3, <1>4 DEF Informed

LEMMA RequestKeeps ==
  ASSUME WorldInv, ClientInv, NEW c \in Clients, NEW h \in DOMAIN Reads, Request(c, h)
  PROVE  WorldInv' /\ ClientInv'
  <1> DEFINE new == [NoRequest EXCEPT !.handler = h, !.todo = Reads[h]]
  <1>1. /\ ProgressTypeOK /\ RWMutexTypeOK /\ ClientType
        /\ req \in [Clients -> Requests] /\ StageTells(c) /\ CountsUp(c) /\ CountsAll(c)
    BY SnapshotKnows
  <1>2. /\ UNCHANGED <<locks, progressVars, timelineVars, pollVars, seen>>
        /\ req' = [req EXCEPT ![c] = new]
    BY DEF Request
  <1>3. /\ new.handler = h /\ new.todo = Reads[h] /\ new.at = 0 /\ new.got = Nothing
        /\ new \in Requests
    <2>1. Nothing \in Answer
      BY DEF Nothing, Answer, State
    <2>2. Reads[h] \in Seq(Item) /\ 0 \in 0..NFiles + 1
      BY AllIsDue, Sizes
    <2>3. NoRequest \in [handler : {"none"} \cup DOMAIN Reads, todo : {<<>>}, at : {0}, got : {Nothing}]
      BY DEF NoRequest
    <2>4. new.handler = h /\ new.todo = Reads[h] /\ new.at = 0 /\ new.got = Nothing
      BY DEF NoRequest
    <2>5. new \in [handler : {"none"} \cup DOMAIN Reads, todo : Seq(Item), at : {0}, got : {Nothing}]
      BY <2>2, <2>3
    <2> HIDE DEF new
    <2> QED
      BY <2>1, <2>2, <2>4, <2>5 DEF Requests
  <1> HIDE DEF new
  <1>4. Due(new.handler, new.todo) /\ new.handler # "none"
        /\ Upcoming(new.todo) \in {"find", "lookup", "rlock", "events"}
    BY <1>3, AllIsDue
  <1>5. ClientType' /\ req'[c] = new /\ \A d \in Clients \ {c} : req'[d] = req[d]
    BY <1>1, <1>2, <1>3, <1>4, RequestBecomes DEF ClientType
  <1> USE DEF progressVars, jobVars, fileVars, pollVars
  <1>6. Informed(c)'
    <2>1. ToldIsInformed'
      BY NothingInforms, PTL
    <2>2. ShownBefore(c)'
      BY <1>1, <1>2, <1>3, <1>5 DEF CountsUp, ShownBefore
    <2>3. seen'[c] \in [stage : 0..7, bytes : Nat]
      BY <1>5 DEF ClientType
    <2>4. /\ seen'[c].bytes # 0 => td'.job
          /\ seen'[c].bytes <= TotalSize
      BY <1>1, <1>2 DEF CountsUp, CountsAll
    <2>5. seen'[c].stage <= Stage(td'.state)
      <3>1. seen' = seen /\ td' = td
        BY <1>2
      <3> QED
        BY <1>1, <3>1, Zenon DEF StageTells
    <2>6. /\ req'[c].got = Nothing /\ req'[c].at = 0
          /\ req'[c].handler # "none" /\ Upcoming(req'[c].todo) # "end"
      BY <1>3, <1>4, <1>5
    <2> QED
      <3>1. ToldOnly(c)'
        BY <2>2, <2>3, <2>4, <2>5, <2>6, Zenon DEF ToldOnly
      <3> QED
        BY <2>1, <3>1, Zenon DEF ToldIsInformed
  <1> QED
    BY <1>2, <1>5, <1>6, OwnStepKeeps, ThreadsAndLocks

LEMMA ReceiveKeeps ==
  ASSUME WorldInv, ClientInv, NEW c \in Clients, Receive(c)
  PROVE  WorldInv' /\ ClientInv'
  <1> DEFINE r == req[c]
             told == [stage |-> r.got.stage, bytes |-> IF r.got.job THEN r.got.bytes ELSE seen[c].bytes]
  <1>1. /\ ProgressTypeOK /\ RWMutexTypeOK /\ ClientType
        /\ req \in [Clients -> Requests] /\ r.got \in Answer
        /\ JobKnown(c) /\ StageTells(c) /\ CountsUp(c) /\ CountsAll(c)
    BY SnapshotKnows
  <1>2. /\ UNCHANGED <<locks, progressVars, timelineVars, pollVars>>
        /\ req' = [req EXCEPT ![c] = NoRequest] /\ seen' = [seen EXCEPT ![c] = told]
        /\ Upcoming(r.todo) = "end"
    BY DEF Receive, Answered, Upcoming
  <1>3. told \in [stage : 0..7, bytes : Nat]
    BY <1>1 DEF Answer, ClientType
  <1>4. /\ told.stage = r.got.stage
        /\ r.got.job => told.bytes = r.got.bytes
        /\ ~ r.got.job => told.bytes = seen[c].bytes
    OBVIOUS
  <1> HIDE DEF told
  <1>5. /\ seen' \in [Clients -> [stage : 0..7, bytes : Nat]]
        /\ seen'[c] = told /\ \A d \in Clients \ {c} : seen'[d] = seen[d]
    BY <1>1, <1>2, <1>3 DEF ClientType
  <1>6. /\ NoRequest \in Requests /\ NoRequest.handler = "none" /\ NoRequest.at = 0
        /\ NoRequest.got = Nothing /\ Upcoming(NoRequest.todo) = "end"
        /\ Due(NoRequest.handler, NoRequest.todo)
    <2>1. Nothing \in Answer
      BY DEF Nothing, Answer, State
    <2>2. <<>> \in Seq(Item) /\ 0 \in 0..NFiles + 1
      BY Sizes
    <2>3. NoRequest \in Requests
      BY <2>1, <2>2 DEF NoRequest, Requests
    <2> QED
      BY <2>3 DEF NoRequest, Upcoming, Due
  <1>7. ClientType' /\ req'[c] = NoRequest /\ \A d \in Clients \ {c} : req'[d] = req[d]
    BY <1>1, <1>2, <1>5, <1>6, RequestBecomes
  <1> USE DEF progressVars, jobVars, fileVars, pollVars
  <1>8. Informed(c)'
    <2>1. ToldIsInformed'
      BY NothingInforms, PTL
    <2>2. \E sum \in [1..NFiles + 1 -> Nat] :
             /\ sum[1] = 0 /\ sum[NFiles + 1] = told.bytes
             /\ \A f \in Files : sum[f + 1] <= sum[f] + shown[f]
      <3>1. CASE r.got.job
        <4>1. Counted(r.got.bytes, NFiles + 1)
          BY <1>1, <1>2, <3>1 DEF CountsUp
        <4>2. (NFiles + 1) - 1 = NFiles
          BY Sizes
        <4> QED
          BY <1>4, <3>1, <4>1, <4>2 DEF Counted, Files
      <3>2. CASE ~ r.got.job
        <4> QED
          BY <1>1, <1>4, <3>2 DEF CountsUp, ShownBefore
      <3> QED
        BY <3>1, <3>2
    <2>3. ShownBefore(c)'
      BY <1>2, <1>5, <1>6, <1>7, <2>2 DEF ShownBefore
    <2>4. /\ seen'[c] \in [stage : 0..7, bytes : Nat]
          /\ seen'[c].bytes # 0 => td'.job
          /\ seen'[c].bytes <= TotalSize
      BY <1>1, <1>2, <1>3, <1>4, <1>5, Sizes DEF JobKnown, CountsAll, CountsUp
    <2>5. seen'[c].stage <= Stage(td'.state)
      <3>1. seen'[c].stage = r.got.stage /\ td' = td
        BY <1>2, <1>4, <1>5
      <3> QED
        BY <1>1, <3>1, Zenon DEF StageTells
    <2>6. /\ req'[c].got = Nothing /\ req'[c].at = 0
          /\ req'[c].handler = "none" /\ Upcoming(req'[c].todo) = "end"
      BY <1>6, <1>7
    <2> QED
      <3>1. ToldOnly(c)'
        BY <2>3, <2>4, <2>5, <2>6, Zenon DEF ToldOnly
      <3> QED
        BY <2>1, <3>1, Zenon DEF ToldIsInformed
  <1> QED
    BY <1>2, <1>5, <1>7, <1>8, OwnStepKeeps, ThreadsAndLocks

LEMMA ClientsKeep ==
  ASSUME WorldInv, ClientInv, BoxInv, NEW c \in Clients, ClientStep(c) \/ HandlerStep(c)
  PROVE  WorldInv' /\ ClientInv'
  BY FindKeeps, GetStateKeeps, GetErrorKeeps, GetTimesKeeps, GetDownloadKeeps, GetSyncJobKeeps, LookupKeeps,
     NoSnapshotKeeps, BeginSnapshotKeeps, SnapshotFileKeeps, EndSnapshotKeeps, LockStatsKeeps,
     StatsTrackedKeeps, UnlockStatsKeeps, GetTimelineKeeps, RequestKeeps, ReceiveKeeps,
     HandlersAssumption, Zenon
  DEF ClientStep, HandlerStep

-----------------------------------------------------------------------------
(***************************************************************************)
(* The whole                                                               *)
(***************************************************************************)
LEMMA InitKeeps == Init => ApiInv
  <1> SUFFICES ASSUME Init PROVE ApiInv
    OBVIOUS
  <1> USE DEF Init, ProgressInit, TimelineInit
  <1>1. WorldType
    <2>1. ProgressTypeOK
      <3>1. RWMutexTypeOK
        BY DEF RWMutexTypeOK, RWMutexInit
      <3>2. 0 \in 0..FileSize
        BY Sizes
      <3>3. MonitorOff \in Monitor
        BY <3>2 DEF Monitor, MonitorOff
      <3> QED
        BY <3>1, <3>2, <3>3 DEF ProgressTypeOK, FileStatus, FilePc
    <2>2. TimelineTypeOK
      BY DEF TimelineTypeOK
    <2> QED
      BY <2>1, <2>2 DEF WorldType, TrackedDownload, State
  <1>2. StateTells /\ PcTells
    BY DEF StateTells, PcTells
  <1>3. EventsBehind
    BY DEF EventsBehind
  <1>4. CopyTells /\ NothingHalfDone /\ SettledIsShown
    BY DEF CopyTells, NothingHalfDone, SettledIsShown, Settled, Done, MonitorOff
  <1>5. NoRequest \in Requests /\ Due("none", <<>>) /\ NoRequest.todo = <<>> /\ NoRequest.at = 0
        /\ NoRequest.handler = "none" /\ NoRequest.got = Nothing
    <2>1. Nothing \in Answer
      BY DEF Nothing, Answer, State
    <2>2. <<>> \in Seq(Item) /\ 0 \in 0..NFiles + 1
      BY Sizes
    <2> QED
      BY <2>1, <2>2 DEF NoRequest, Requests, Due
  <1>6. ClientType
    BY <1>5 DEF ClientType, NothingSeen
  <1>7. ASSUME NEW c \in Clients PROVE Informed(c)
    <2>1. req[c] = NoRequest /\ seen[c] = NothingSeen
      OBVIOUS
    <2>2. ProgressTypeOK
      BY <1>1 DEF WorldType
    <2>3. ShownBefore(c)
      <3>1. \E sum \in [1..NFiles + 1 -> Nat] :
               /\ sum[1] = 0 /\ sum[NFiles + 1] = 0
               /\ \A f \in Files : sum[f + 1] <= sum[f] + shown[f]
        BY <2>2, NothingRead DEF ProgressTypeOK
      <3> QED
        BY <1>5, <2>1, <3>1 DEF ShownBefore, NothingSeen
    <2>4. seen[c].stage <= Stage(td.state)
      <3>1. seen[c].stage = 0 /\ Stage(td.state) \in 0..7
        BY <2>1, StageIsSmall DEF NothingSeen
      <3> QED
        BY <3>1
    <2>5. /\ seen[c] \in [stage : 0..7, bytes : Nat]
          /\ seen[c].bytes = 0 /\ seen[c].bytes <= TotalSize
      BY <2>1, Sizes DEF NothingSeen
    <2>6. /\ req[c].got = Nothing /\ req[c].at = 0 /\ req[c].handler = "none"
          /\ Upcoming(req[c].todo) = "end"
      BY <1>5, <2>1 DEF Upcoming
    <2> HIDE DEF Init, ProgressInit, TimelineInit
    <2>7. ToldOnly(c)
      BY <2>3, <2>4, <2>5, <2>6, Zenon DEF ToldOnly
    <2> QED
      BY <2>7, NothingInforms DEF ToldIsInformed
  <1> QED
    <2>1. BoxInv
      BY Sizes DEF BoxInv
    <2> QED
      BY <1>1, <1>2, <1>3, <1>4, <1>6, <1>7, <2>1 DEF ApiInv, WorldInv, ClientInv

\* No step of the poll loop, of a run, or of the timeline is one of a client.
LEMMA ClientsStandBy == ASSUME PollStep \/ WorkStep PROVE UNCHANGED clientVars
  <1>1. CASE WorkStep
    BY <1>1 DEF WorkStep
  <1>2. CASE PollStep
    BY <1>2 DEF PollStep, SystemStarts, Discover, Discovered, DiscoverEnds, Listed, Refresh,
       StartSyncing, NothingReady, SkipSync, LogSyncStarted, Launch, CreateSyncJob,
       ContinueSyncing, SeesComplete, SeesError, SeesSyncing, SeesPending, LogSync,
       UnlockTracked, StartMove, MoveFails, MoveReturns, LogMove, StartImport, ImportReturns,
       Complete, LogComplete, Rest, Expire, Removed, CancelSync, Untrack, ForgetJob,
       PollAwaits, LockStep, LogStep, SetStep
  <1> QED
    BY <1>1, <1>2

LEMMA BoxKeeps == BoxInv /\ [Next]_vars => BoxInv'
  <1> SUFFICES ASSUME BoxInv, [Next]_vars PROVE BoxInv'
    OBVIOUS
  <1>1. CASE GetFiles
    BY <1>1, Sizes DEF GetFiles, BoxInv
  <1>2. CASE UNCHANGED atBox
    BY <1>2 DEF BoxInv
  <1>3. ASSUME PollStep PROVE GetFiles \/ UNCHANGED atBox
    BY <1>3 DEF PollStep, SystemStarts, Discover, Discovered, DiscoverEnds, Listed, Refresh,
       StartSyncing, NothingReady, SkipSync, LogSyncStarted, Launch, CreateSyncJob,
       ContinueSyncing, SeesComplete, SeesError, SeesSyncing, SeesPending, LogSync,
       UnlockTracked, StartMove, MoveFails, MoveReturns, LogMove, StartImport, ImportReturns,
       Complete, LogComplete, Rest, Expire, Removed, CancelSync, Untrack, ForgetJob,
       PollAwaits, LockStep, LogStep, SetStep, ReadyFiles, pollVars
  <1>4. CASE WorkStep
    BY <1>2, <1>4 DEF WorkStep, pollVars
  <1>5. CASE \E c \in Clients : ClientStep(c) \/ HandlerStep(c)
    BY <1>2, <1>5 DEF ClientStep, HandlerStep, Request, Receive, Find, GetState, GetError, GetTimes,
       GetDownload, GetSyncJob, Lookup, NoSnapshot, BeginSnapshot, SnapshotFile, EndSnapshot,
       LockStats, StatsTracked, UnlockStats, GetTimeline, Read, Step, pollVars
  <1>6. CASE UNCHANGED vars
    BY <1>2, <1>6 DEF vars, pollVars
  <1> QED
    BY <1>1, <1>2, <1>3, <1>4, <1>5, <1>6 DEF Next

LEMMA NextKeeps == ApiInv /\ [Next]_vars => ApiInv'
  <1> SUFFICES ASSUME WorldInv, ClientInv, BoxInv, [Next]_vars PROVE WorldInv' /\ ClientInv'
    BY BoxKeeps DEF ApiInv
  <1>1. CASE PollStep \/ WorkStep
    BY <1>1, PollKeeps, WorkStepKeeps, ClientsStandBy, OnwardInforms
  <1>2. CASE \E c \in Clients : ClientStep(c) \/ HandlerStep(c)
    BY <1>2, ClientsKeep
  <1>3. CASE UNCHANGED vars
    <2>1. /\ UNCHANGED locks /\ UNCHANGED <<progressVars, timelineVars, pollVars>>
          /\ req' = req /\ seen' = seen
      BY <1>3 DEF vars, clientVars
    <2>2. WorldInv'
      BY <2>1, HandlersLeaveWorld DEF RWMutexTypeOK, WorldInv, WorldType, ProgressTypeOK
    <2>3. ClientType'
      BY <2>1 DEF ClientInv, ClientType
    <2>4. \A c \in Clients : Informed(c)'
      BY <2>1, OthersKeep
    <2> QED
      BY <2>2, <2>3, <2>4 DEF ClientInv
  <1> QED
    BY <1>1, <1>2, <1>3 DEF Next

\* What is known between any two steps is known throughout.
LEMMA ApiInductive == Spec => []ApiInv
  BY InitKeeps, NextKeeps, PTL DEF Spec

\* Everything keeps its type, no answer counts more bytes than there are, and
\* the torrent's state agrees with its error, its time and its job while nobody
\* is changing it.
THEOREM TypeCorrect == Spec => []TypeOK
  <1>1. ApiInv => TypeOK
    <2> SUFFICES ASSUME ApiInv PROVE TypeOK
      OBVIOUS
    <2>1. ASSUME NEW c \in Clients
          PROVE  /\ req[c].handler \in {"none"} \cup DOMAIN Reads
                 /\ req[c].at \in 0..NFiles + 1 /\ req[c].got.bytes \in 0..TotalSize
                 /\ seen[c] \in [stage : 0..7, bytes : 0..TotalSize]
      <3>1. req[c] \in Requests /\ seen[c] \in [stage : 0..7, bytes : Nat] /\ CountsAll(c)
        BY DEF ApiInv, ClientInv, ClientType, Informed
      <3>2. req[c].got \in Answer
        BY <3>1 DEF Requests
      <3>3. req[c].got.bytes \in 0..TotalSize /\ seen[c].bytes \in 0..TotalSize
        BY <3>1, <3>2, Sizes DEF CountsAll, Answer
      <3>4. seen[c] \in [stage : 0..7, bytes : 0..TotalSize]
        BY <3>1, <3>3
      <3> QED
        BY <3>1, <3>3, <3>4 DEF Requests
    <2>2. seen \in [Clients -> [stage : 0..7, bytes : 0..TotalSize]]
      BY <2>1 DEF ApiInv, ClientInv, ClientType
    <2>3. /\ td.state \in {"syncing", "synced", "moving", "importing"} => td.job
          /\ td.err <=> td.state = "error"
          /\ td.done <=> td.state = "complete"
      BY DEF ApiInv, WorldInv, StateTells
    <2> QED
      BY <2>1, <2>2, <2>3 DEF TypeOK, ApiInv, WorldInv, WorldType, BoxInv
  <1> QED
    BY <1>1, ApiInductive, PTL

\* What an answer says of its client.
LEMMA AnswerKnows ==
  ASSUME ApiInv, NEW c \in Clients, Answered(c)
  PROVE  /\ Upcoming(req[c].todo) = "end" /\ CountsAll(c) /\ Explains(c) /\ StageTells(c)
         /\ CountsUp(c)
  BY DEF ApiInv, ClientInv, Informed, Answered, Upcoming

\* Whatever the copies, their monitors and the poll loop do while an answer is
\* put together file by file, one that has read the job, and says that the torrent
\* or the job is synced or further, counts every byte; so does an entry of GET /jobs
\* without a job that is complete.  Of other answers without a job it says nothing.
THEOREM Whole == Spec => []CompleteIsWhole
  <1>1. ApiInv => CompleteIsWhole
    BY AnswerKnows DEF CompleteIsWhole, CountsAll, Settled
  <1> QED
    BY <1>1, ApiInductive, PTL

\* The list of downloads reads the state before the error and the time, and
\* neither state is ever left: no answer shows one without the other.
THEOREM Explained == Spec => []ErrorsAreExplained
  <1>1. ApiInv => ErrorsAreExplained
    BY AnswerKnows DEF ErrorsAreExplained, Explains
  <1> QED
    BY <1>1, ApiInductive, PTL

\* No event is recorded before its state is set where a reader could tell, so
\* an answer shows the torrent at least as far as the timeline has shown it,
\* while it is tracked the first time.
THEOREM Follow == Spec => []EventsFollowStates
  <1>1. ApiInv => EventsFollowStates
    <2> SUFFICES ASSUME ApiInv, NEW c \in Clients, Answered(c), req[c].got.state # "untracked"
                 PROVE  Stage(req[c].got.state) >= seen[c].stage
      BY DEF EventsFollowStates
    <2>1. seen[c].stage <= Stage(req[c].got.state)
      BY AnswerKnows DEF StageTells
    <2>2. seen[c].stage \in 0..7 /\ Stage(req[c].got.state) \in 0..7
      BY StageIsSmall DEF ApiInv, ClientInv, ClientType
    <2> QED
      BY <2>1, <2>2
  <1> QED
    BY <1>1, ApiInductive, PTL

\* What a client is shown of a job never shrinks from one answer that has read the
\* job to the next, whatever it is told in between, for any number of files that
\* are copied, reported and read at their own pace.
THEOREM NeverBack == Spec => []ProgressNeverGoesBack
  <1>1. ApiInv => ProgressNeverGoesBack
    <2> SUFFICES ASSUME ApiInv, NEW c \in Clients, Answered(c), req[c].got.job
                 PROVE  req[c].got.bytes >= seen[c].bytes
      BY DEF ProgressNeverGoesBack
    <2>1. seen[c].bytes <= req[c].got.bytes
      BY AnswerKnows DEF CountsUp
    <2>2. seen[c].bytes \in Nat /\ req[c].got.bytes \in Nat
      BY DEF ApiInv, ClientInv, ClientType, Requests, Answer
    <2> QED
      BY <2>1, <2>2
  <1> QED
    BY <1>1, ApiInductive, PTL

-----------------------------------------------------------------------------
(***************************************************************************)
(* The timeline in its place                                               *)
(***************************************************************************)
\* What the poll loop records are events that the timeline takes.
LEMMA LogIsRecord ==
  ASSUME NEW type, NEW download, NEW app, Log(type, download, app),
         type \in {"system_started", "discovered", "sync_started", "sync_complete",
                   "move_complete", "import_started", "import_complete", "import_failed",
                   "removed", "error", "complete"},
         download \in {"", "torrent"}, app \in {"", "app"}
  PROVE  TimelineNext
  <1> DEFINE e == [type |-> type, download |-> download, app |-> app,
                   downloader |-> IF download = "" THEN "" ELSE "box"]
  <1>1. e \in NewEvent
    BY ApiAssumption DEF NewEvent
  <1>2. Record(e)
    BY DEF Log
  <1> HIDE DEF e
  <1> QED
    BY <1>1, <1>2 DEF TimelineNext

LEMMA StepIsTimelineStep == [Next]_vars => [TimelineNext]_timelineVars
  <1> SUFFICES ASSUME [Next]_vars PROVE TimelineNext \/ UNCHANGED timelineVars
    OBVIOUS
  <1>1. CASE PollStep
    <2>1. CASE \/ SystemStarts \/ LogSyncStarted \/ LogSync \/ LogMove \/ StartImport
               \/ ImportReturns \/ LogComplete \/ Removed \/ Discovered
      BY <2>1, LogIsRecord DEF SystemStarts, LogSyncStarted, LogSync, LogMove, StartImport,
         ImportReturns, LogComplete, Removed, Discovered, LogStep
    <2>2. CASE ~ \/ SystemStarts \/ LogSyncStarted \/ LogSync \/ LogMove \/ StartImport
                 \/ ImportReturns \/ LogComplete \/ Removed \/ Discovered
      BY <1>1, <2>2 DEF PollStep, Discover, DiscoverEnds, Listed, Refresh, StartSyncing,
         NothingReady, SkipSync, Launch, CreateSyncJob, ContinueSyncing, SeesComplete,
         SeesError, SeesSyncing, SeesPending, UnlockTracked, StartMove, MoveFails, MoveReturns,
         Complete, Rest, Expire, CancelSync, Untrack, ForgetJob, PollAwaits, LockStep, SetStep
    <2> QED
      BY <2>1, <2>2
  <1>2. CASE WorkStep
    BY <1>2 DEF WorkStep
  <1>3. CASE \E c \in Clients : ClientStep(c) \/ HandlerStep(c)
    BY <1>3 DEF ClientStep, HandlerStep, Request, Receive, Find, GetState, GetError, GetTimes,
       GetDownload,
       GetSyncJob, Lookup, NoSnapshot, BeginSnapshot, SnapshotFile, EndSnapshot, LockStats,
       StatsTracked, UnlockStats, GetTimeline, Read, Step
  <1>4. CASE UNCHANGED vars
    BY <1>4 DEF vars
  <1> QED
    BY <1>1, <1>2, <1>3, <1>4 DEF Next

\* The program uses the timeline as it is meant to be used: to it, every step of
\* the poll loop, of a run or of a handler is one event recorded, or nothing.
THEOREM UsesTimeline == Spec => TimelineSpec
  <1>1. Init => TimelineInit
    BY DEF Init
  <1> QED
    BY <1>1, StepIsTimelineStep, PTL DEF Spec, TimelineSpec

\* So what the handlers return of the timeline is bounded, newest first, and has
\* lost only the oldest.
THEOREM TimelineServes == Spec => []NewestFirst /\ OldestGoFirst
  BY UsesTimeline, TimelineOrdered, TimelineKeeps, PTL
=============================================================================
