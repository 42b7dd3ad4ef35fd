------------------------------- MODULE Server -------------------------------
(***************************************************************************)
(* The life of the process (cmd/root.go, internal/server/server.go, and    *)
(* Start and Stop of the orchestrator): a configuration is validated, the  *)
(* components are built, the downloaders connected, and the poll loop and  *)
(* the HTTP server run until a signal comes or the server fails.  The      *)
(* shutdown then ends them in turn, with a limit on each wait.             *)
(***************************************************************************)
EXTENDS Sftp, Integers

CONSTANTS
  Names,        \* of downloaders
  Apps,
  Hosts,
  NoHost,
  Configs,      \* what the file and the environment may say
  MaxRequests   \* bound: HTTP requests under way at once

VARIABLES
  config,
  main,         \* where the main goroutine is
  signals,      \* what the goroutine that waits for signals has done
  toConnect,    \* downloaders not connected yet
  host,         \* that of the transferer; NoHost: there is no transferer
  slots,        \* places of the syncer's semaphore
  loop,         \* the poll loop
  running,      \* goroutines that run SyncJob are under way
  requests,     \* HTTP requests under way
  timedOut,     \* Stop has given up waiting
  exit          \* how the process has ended

procVars == <<main, signals, exit>>
builtVars == <<config, toConnect, host, slots>>
workVars == <<loop, running, requests, timedOut>>
vars == <<sftpVars, procVars, builtVars, workVars>>

Url == {"none", "bad", "good"}
Downloader ==
  [type : {"none", "qbittorrent", "other"}, url : Url, host : Hosts \cup {NoHost},
   user : BOOLEAN, keyFile : BOOLEAN, knownHostsFile : BOOLEAN, ignoreHostKey : BOOLEAN]
App ==
  [type : {"none", "sonarr", "radarr", "passthrough", "other"}, category : BOOLEAN,
   url : Url, apiKey : BOOLEAN]
Sync ==
  [downloadsPath : BOOLEAN, syncingPath : BOOLEAN, backend : {"none", "rclone", "other"},
   maxConcurrent : Int, pollInterval : Int]
Config ==
  [downloaders : UNION {[S -> Downloader] : S \in SUBSET Names},
   apps : UNION {[S -> App] : S \in SUBSET Apps}, sync : Sync]

ASSUME ServerAssumption ==
  /\ NoHost \notin Hosts
  /\ MaxRequests \in Nat
  /\ IsFiniteSet(Names) /\ IsFiniteSet(Transfers)
  /\ \A c \in Configs : c \in Config

ASSUME ConfigsAreGiven == Configs # {}

-----------------------------------------------------------------------------
(***************************************************************************)
(* Configuration                                                           *)
(***************************************************************************)
\* Mutant: the host is not asked for.
ValidDownloaderAnyHost(dl) ==
  /\ dl.type = "qbittorrent" /\ dl.url = "good"
  /\ dl.user /\ dl.keyFile
  /\ dl.knownHostsFile # dl.ignoreHostKey
ValidDownloader(dl) ==
  /\ dl.type = "qbittorrent" /\ dl.url = "good"
  /\ dl.host # NoHost /\ dl.user /\ dl.keyFile
  /\ dl.knownHostsFile # dl.ignoreHostKey

ValidApp(app) ==
  /\ app.type \in {"sonarr", "radarr", "passthrough"}
  /\ app.category
  /\ app.type # "passthrough" => app.url = "good" /\ app.apiKey

ValidSync(sync) == sync.downloadsPath /\ sync.syncingPath /\ sync.backend # "other"

Valid(c) ==
  /\ \A d \in DOMAIN c.downloaders : ValidDownloader(c.downloaders[d])
  /\ \A a \in DOMAIN c.apps : ValidApp(c.apps[a])
  /\ ValidSync(c.sync)

\* Zero stands for the default.
MaxConcurrent(c) == IF c.sync.maxConcurrent = 0 THEN 2 ELSE c.sync.maxConcurrent

\* The hosts that New may take for the transferer: that of the first downloader
\* it meets, and the order of a Go map is no order.
FirstHosts(c) ==
  LET given == {c.downloaders[d].host : d \in {x \in DOMAIN c.downloaders :
                  c.downloaders[x].type = "qbittorrent" /\ c.downloaders[x].host # NoHost}}
  IN  IF given = {} THEN {NoHost} ELSE given

-----------------------------------------------------------------------------
TypeOK ==
  /\ SftpTypeOK
  /\ config \in Configs
  /\ main \in {"load", "new", "start", "serve", "api", "orchestrator", "syncer", "gone"}
  /\ signals \in {"none", "first", "cancelled"}
  /\ toConnect \subseteq Names
  /\ host \in Hosts \cup {NoHost}
  /\ slots \in Nat
  /\ loop \in {"none", "asleep", "polling", "gone"}
  /\ running \in BOOLEAN
  /\ requests \in 0..MaxRequests
  /\ timedOut \in BOOLEAN
  /\ exit \in {"none", "ok", "error", "forced", "panic"}
  \* nothing is shut down but on a signal
  /\ main \in {"api", "orchestrator", "syncer", "gone"} => signals = "cancelled"

Init ==
  /\ SftpInit
  /\ config \in Configs
  /\ main = "load" /\ signals = "none" /\ exit = "none"
  /\ toConnect = {} /\ host = NoHost /\ slots = 0
  /\ loop = "none" /\ running = FALSE /\ requests = 0 /\ timedOut = FALSE

\* The context of Run, from which Start derives the orchestrator's.
CtxDone == signals = "cancelled"

-----------------------------------------------------------------------------
(***************************************************************************)
(* The main goroutine                                                      *)
(***************************************************************************)
\* It goes on to the next stage, or the process ends.
Reach(from, to) == main = from /\ main' = to /\ UNCHANGED exit
End(at, how) == main = at /\ exit' = how /\ UNCHANGED main

Load ==
  /\ IF Valid(config) THEN Reach("load", "new") ELSE End("load", "error")
  /\ UNCHANGED <<sftpVars, signals, builtVars, workVars>>

\* make of a channel panics on a negative size.
Build ==
  /\ MaxConcurrent(config) >= 0
  /\ Reach("new", "start")
  /\ host' \in FirstHosts(config)
  /\ slots' = MaxConcurrent(config)
  /\ toConnect' = DOMAIN config.downloaders
  /\ UNCHANGED <<sftpVars, signals, config, workVars>>
BuildPanics ==
  /\ MaxConcurrent(config) < 0
  /\ End("new", "panic")
  /\ UNCHANGED <<sftpVars, signals, builtVars, workVars>>

\* The downloaders' logins; what the apps answer is only logged.
Connect(d) ==
  /\ main = "start" /\ d \in toConnect /\ ~ CtxDone
  /\ toConnect' = toConnect \ {d}
  /\ UNCHANGED <<sftpVars, procVars, config, host, slots, workVars>>
ConnectFails ==
  /\ toConnect # {}
  /\ End("start", "error")
  /\ UNCHANGED <<sftpVars, signals, builtVars, workVars>>

\* The goroutine of the poll loop panics when its ticker gets a negative interval.
StartLoop ==
  /\ toConnect = {}
  /\ config.sync.pollInterval >= 0
  /\ Reach("start", "serve")
  /\ loop' = "polling"
  /\ UNCHANGED <<sftpVars, signals, builtVars, running, requests, timedOut>>
LoopPanics ==
  /\ toConnect = {}
  /\ config.sync.pollInterval < 0
  /\ End("start", "panic")
  /\ UNCHANGED <<sftpVars, signals, builtVars, workVars>>

\* The process ends there and then: nothing is shut down.
ServeFails ==
  /\ End("serve", "error")
  /\ UNCHANGED <<sftpVars, signals, builtVars, workVars>>

\* The order of Shutdown.
\* Mutant: the syncer is closed before the orchestrator is stopped.
AfterCloseFirst ==
  [serve |-> "api", api |-> "syncer", syncer |-> "orchestrator", orchestrator |-> "gone"]
After ==
  [serve |-> "api", api |-> "orchestrator", orchestrator |-> "syncer", syncer |-> "gone"]

\* Mutant: Run returns at once.
ShutDownAtOnce ==
  /\ Reach("serve", After["serve"])
  /\ UNCHANGED <<sftpVars, signals, builtVars, workVars>>
ShutDown ==
  /\ CtxDone
  /\ Reach("serve", After["serve"])
  /\ UNCHANGED <<sftpVars, signals, builtVars, workVars>>

\* Either wait ends when there is nothing left to wait for, or with its time.
ApiStops ==
  /\ requests = 0
  /\ Reach("api", After["api"])
  /\ UNCHANGED <<sftpVars, signals, builtVars, workVars>>
ApiTimesOut ==
  /\ requests > 0
  /\ Reach("api", After["api"])
  /\ UNCHANGED <<sftpVars, signals, builtVars, workVars>>

\* The orchestrator's WaitGroup counts the poll loop and the runs.
\* Mutant: it counts the poll loop only.
WaitedForLoop == loop # "gone"
WaitedFor == loop # "gone" \/ running

Stopped ==
  /\ ~ WaitedFor
  /\ Reach("orchestrator", After["orchestrator"])
  /\ UNCHANGED <<sftpVars, signals, builtVars, workVars>>
\* Mutant: Stop waits as long as it takes.
StopNeverTimesOut ==
  /\ WaitedFor /\ requests < 0
  /\ Reach("orchestrator", After["orchestrator"])
  /\ timedOut' = TRUE
  /\ UNCHANGED <<sftpVars, signals, builtVars, loop, running, requests>>
StopTimesOut ==
  /\ WaitedFor
  /\ Reach("orchestrator", After["orchestrator"])
  /\ timedOut' = TRUE
  /\ UNCHANGED <<sftpVars, signals, builtVars, loop, running, requests>>

CloseSyncer ==
  /\ Reach("syncer", After["syncer"])
  /\ CloseSftp
  /\ UNCHANGED <<signals, builtVars, workVars>>

Leave ==
  /\ End("gone", "ok")
  /\ UNCHANGED <<sftpVars, signals, builtVars, workVars>>

-----------------------------------------------------------------------------
(***************************************************************************)
(* The others                                                              *)
(***************************************************************************)
\* The first signal cancels the context, after the transferer's log has been
\* silenced; the second ends the process.
FirstSignal ==
  /\ main \notin {"load", "new"}
  /\ signals = "none" /\ signals' = "first"
  /\ UNCHANGED <<sftpVars, main, exit, builtVars, workVars>>
CancelContext ==
  /\ signals = "first" /\ signals' = "cancelled"
  /\ UNCHANGED <<sftpVars, main, exit, builtVars, workVars>>
SecondSignal ==
  /\ signals = "cancelled"
  /\ exit' = "forced"
  /\ UNCHANGED <<sftpVars, main, signals, builtVars, workVars>>

\* When a tick and the end of the context are there, select takes either.
PollBegins ==
  /\ loop = "asleep" /\ loop' = "polling"
  /\ UNCHANGED <<sftpVars, procVars, builtVars, running, requests, timedOut>>
PollEnds ==
  /\ loop = "polling" /\ loop' = "asleep"
  /\ UNCHANGED <<sftpVars, procVars, builtVars, running, requests, timedOut>>
LoopEnds ==
  /\ loop = "asleep" /\ CtxDone /\ loop' = "gone"
  /\ UNCHANGED <<sftpVars, procVars, builtVars, running, requests, timedOut>>

\* A poll starts runs; a run transfers files while it has a place in the semaphore.
RunBegins ==
  /\ loop = "polling" /\ running' = TRUE
  /\ UNCHANGED <<sftpVars, procVars, builtVars, loop, requests, timedOut>>
RunTransfers(t) ==
  /\ running /\ host # NoHost
  /\ Cardinality(Transferring) < slots
  /\ BeginTransfer(t)
  /\ UNCHANGED <<procVars, builtVars, workVars>>
RunsEnd ==
  /\ running /\ Transferring = {} /\ running' = FALSE
  /\ UNCHANGED <<sftpVars, procVars, builtVars, loop, requests, timedOut>>

\* The listener is open until Shutdown.
RequestComes ==
  /\ main = "serve" /\ requests < MaxRequests /\ requests' = requests + 1
  /\ UNCHANGED <<sftpVars, procVars, builtVars, loop, running, timedOut>>
RequestEnds ==
  /\ requests > 0 /\ requests' = requests - 1
  /\ UNCHANGED <<sftpVars, procVars, builtVars, loop, running, timedOut>>

MainStep ==
  \/ Load \/ Build \/ BuildPanics \/ ConnectFails \/ StartLoop \/ LoopPanics
  \/ (\E d \in Names : Connect(d))
  \/ ShutDown \/ ApiStops \/ ApiTimesOut \/ Stopped \/ StopTimesOut \/ CloseSyncer \/ Leave

Signals == FirstSignal \/ CancelContext \/ SecondSignal

Work ==
  \/ PollBegins \/ PollEnds \/ LoopEnds \/ RunBegins \/ RunsEnd \/ RequestComes \/ RequestEnds
  \/ (\E t \in Transfers : RunTransfers(t))
  \/ (\E t \in Transfers : TransferStep(t)) /\ UNCHANGED <<procVars, builtVars, workVars>>

\* Nothing happens in a process that has ended.
Next == exit = "none" /\ (MainStep \/ ServeFails \/ Signals \/ Work)

Spec == Init /\ [][Next]_vars

\* The main goroutine and the one for signals run, and time passes.  The server
\* need not fail, and nothing is assumed of transfers, polls and requests: they may hang.
FairSpec ==
  /\ Spec
  /\ WF_vars(exit = "none" /\ MainStep)
  /\ WF_vars(exit = "none" /\ CancelContext)

-----------------------------------------------------------------------------
\* The poll loop runs only where it can do its work: every downloader has been
\* connected, transfers have somewhere to go, and the semaphore has a place.
\* What validate accepts, what New makes of it and what Start does with an error
\* add up to this (config.go:216, server.go:67, 160, orchestrator.go:178).
PollsReady ==
  loop \in {"asleep", "polling"} =>
    /\ toConnect = {}
    /\ slots >= 1
    /\ DOMAIN config.downloaders # {} => host # NoHost

\* Unless Stop has given up waiting, a shutdown leaves nothing behind it: no poll
\* that still writes, no run that still transfers, no open session
\* (server.go:285, orchestrator.go:219 "Wait for goroutines").
CleanExit ==
  exit = "ok" /\ ~ timedOut =>
    /\ loop = "gone" /\ ~ running
    /\ sftp \notin {"open", "dialing"}

\* The session is not closed under a transfer, again unless Stop has given up.
SessionOutlivesTransfers == sftp = "closed" /\ Transferring # {} => timedOut

\* After a signal the process ends, even if a transfer, a poll or a request hangs
\* (orchestrator.go:219 "a timeout to prevent hanging on stuck processes").
ShutdownEnds == signals = "first" ~> exit # "none"

\* A transfer goes to the host of the downloader that has the torrent:
\* docs/configuration/downloaders.md:48 says "You can configure multiple downloaders
\* to sync from multiple seedboxes", each with an ssh host of its own.
\* The code does not keep this with two downloaders on two hosts.
TransfersUseOwnHost ==
  \A d \in DOMAIN config.downloaders : loop # "none" => host = config.downloaders[d].host

\* A configuration that validate accepts does not make the program panic.  The
\* code does not keep this of negative values of maxConcurrent and pollInterval.
ValidConfigRuns == exit # "panic"
=============================================================================
