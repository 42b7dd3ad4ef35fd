---------------------------- MODULE ServerProofs ----------------------------
(***************************************************************************)
(* Proofs about Server, for any configurations, hosts and transfers.       *)
(***************************************************************************)
EXTENDS Server, TLAPS

\* One call at most makes the session, and while it does the others wait.
OneDialer ==
  /\ dials = IF sftp = "none" THEN 0 ELSE 1
  /\ \A t \in Transfers : xfer[t] = "dial" => sftp = "dialing"
  /\ \A t, u \in Transfers : xfer[t] = "dial" /\ xfer[u] = "dial" => t = u
  /\ sftp = "dialing" => \E t \in Transfers : xfer[t] = "dial"

\* Only runs transfer.
RunsTransfer == \A t \in Transfers : xfer[t] # "idle" => running

\* What the stages of the main goroutine have behind them on the way up.
BuiltInOrder ==
  /\ main # "load" => Valid(config)
  /\ main \notin {"load", "new"} =>
       /\ slots >= 1
       /\ DOMAIN config.downloaders # {} => host # NoHost
  /\ main \in {"load", "new", "start"} => loop = "none"
  /\ loop # "none" => toConnect = {}

\* And on the way down.
StoppedInOrder ==
  /\ main \in {"syncer", "gone"} => timedOut \/ (loop = "gone" /\ ~ running)
  /\ main = "gone" => timedOut \/ sftp \notin {"open", "dialing"}
  /\ sftp = "closed" => main = "gone"
  /\ exit = "ok" => main = "gone"

LifeInv == TypeOK /\ OneDialer /\ RunsTransfer /\ BuiltInOrder /\ StoppedInOrder

-----------------------------------------------------------------------------
\* The process starts with all of it.
LEMMA InitLife == Init => LifeInv
  <1> SUFFICES ASSUME Init PROVE LifeInv
    OBVIOUS
  <1> USE DEF Init, SftpInit
  <1>1. SftpTypeOK
    BY DEF SftpTypeOK, XferPc
  <1>2. TypeOK
    <2>1. requests \in 0..MaxRequests /\ slots \in Nat
      BY ServerAssumption
    <2>2. toConnect \subseteq Names /\ host \in Hosts \cup {NoHost}
      OBVIOUS
    <2> QED
      BY <1>1, <2>1, <2>2 DEF TypeOK
  <1>3. OneDialer /\ RunsTransfer
    BY DEF OneDialer, RunsTransfer
  <1>4. BuiltInOrder /\ StoppedInOrder
    BY DEF BuiltInOrder, StoppedInOrder
  <1> QED
    BY <1>2, <1>3, <1>4 DEF LifeInv

\* A host that New may take is one of a downloader, or none.
LEMMA FirstHostsTyped ==
  ASSUME NEW c \in Configs
  PROVE  FirstHosts(c) \subseteq Hosts \cup {NoHost}
  <1>1. c \in Config
    BY ServerAssumption
  <1>2. PICK S \in SUBSET Names : c.downloaders \in [S -> Downloader]
    BY <1>1 DEF Config
  <1>3. \A d \in DOMAIN c.downloaders : c.downloaders[d].host \in Hosts \cup {NoHost}
    BY <1>2 DEF Downloader
  <1> QED
    BY <1>3 DEF FirstHosts

\* Where validate has passed, New finds a host, if there is any downloader.
LEMMA FirstHostsGiven ==
  ASSUME NEW c \in Configs, Valid(c), DOMAIN c.downloaders # {}
  PROVE  NoHost \notin FirstHosts(c)
  BY DEF FirstHosts, Valid, ValidDownloader

\* The downloaders of a configuration have their names from Names, and its
\* numbers are integers.
LEMMA ConfigTyped ==
  ASSUME NEW c \in Configs
  PROVE  /\ DOMAIN c.downloaders \subseteq Names
         /\ MaxConcurrent(c) \in Int
         /\ MaxConcurrent(c) # 0
  <1>1. c \in Config
    BY ServerAssumption
  <1>2. PICK S \in SUBSET Names : c.downloaders \in [S -> Downloader]
    BY <1>1 DEF Config
  <1>3. c.sync.maxConcurrent \in Int
    BY <1>1 DEF Config, Sync
  <1> QED
    BY <1>2, <1>3 DEF MaxConcurrent

-----------------------------------------------------------------------------
\* The main goroutine on its way up: a configuration that is valid is built,
\* what is built is connected, and only what is connected is polled.
LEMMA StartKeeps ==
  ASSUME LifeInv, exit = "none",
         \/ Load \/ Build \/ BuildPanics \/ ConnectFails \/ StartLoop \/ LoopPanics
         \/ ServeFails \/ (\E d \in Names : Connect(d))
  PROVE  LifeInv'
  <1> USE DEF LifeInv, TypeOK, SftpTypeOK, OneDialer, RunsTransfer, BuiltInOrder,
              StoppedInOrder, sftpVars, builtVars, workVars, procVars, CtxDone
  <1>1. CASE Load
    BY <1>1 DEF Load, Reach, End
  <1>2. CASE Build
    <2>1. host' \in Hosts \cup {NoHost}
      BY <1>2, FirstHostsTyped DEF Build
    <2>2. slots' \in Nat /\ slots' >= 1 /\ toConnect' \subseteq Names
      BY <1>2, ConfigTyped DEF Build
    <2>3. DOMAIN config.downloaders # {} => host' # NoHost
      BY <1>2, FirstHostsGiven DEF Build, Reach
    <2> QED
      BY <1>2, <2>1, <2>2, <2>3 DEF Build, Reach
  <1>3. CASE BuildPanics
    BY <1>3 DEF BuildPanics, End
  <1>4. CASE ConnectFails
    BY <1>4 DEF ConnectFails, End
  <1>5. CASE StartLoop
    BY <1>5 DEF StartLoop, Reach
  <1>6. CASE LoopPanics
    BY <1>6 DEF LoopPanics, End
  <1>7. CASE ServeFails
    BY <1>7 DEF ServeFails, End
  <1>8. ASSUME NEW d \in Names, Connect(d) PROVE LifeInv'
    BY <1>8 DEF Connect
  <1> QED
    BY <1>1, <1>2, <1>3, <1>4, <1>5, <1>6, <1>7, <1>8

\* The main goroutine on its way down: when Stop has seen the runs end there is
\* no transfer left, so no session is being made that Close would not see.
LEMMA ShutdownKeeps ==
  ASSUME LifeInv, exit = "none",
         \/ ShutDown \/ ApiStops \/ ApiTimesOut \/ Stopped \/ StopTimesOut \/ CloseSyncer
         \/ Leave
  PROVE  LifeInv'
  <1> USE DEF LifeInv, TypeOK, SftpTypeOK, OneDialer, RunsTransfer, BuiltInOrder,
              StoppedInOrder, sftpVars, builtVars, workVars, procVars, CtxDone, After
  <1>1. CASE ShutDown
    BY <1>1 DEF ShutDown, Reach
  <1>2. CASE ApiStops
    BY <1>2 DEF ApiStops, Reach
  <1>3. CASE ApiTimesOut
    BY <1>3 DEF ApiTimesOut, Reach
  <1>4. CASE Stopped
    BY <1>4 DEF Stopped, Reach, WaitedFor
  <1>5. CASE StopTimesOut
    BY <1>5 DEF StopTimesOut, Reach
  <1>6. CASE CloseSyncer
    <2>1. timedOut \/ sftp # "dialing"
      BY <1>6 DEF CloseSyncer, Reach
    <2> QED
      BY <1>6, <2>1 DEF CloseSyncer, CloseSftp, Reach
  <1>7. CASE Leave
    BY <1>7 DEF Leave, End
  <1> QED
    BY <1>1, <1>2, <1>3, <1>4, <1>5, <1>6, <1>7

\* Signals only ever go on to the next.
LEMMA SignalsKeep ==
  ASSUME LifeInv, exit = "none", Signals
  PROVE  LifeInv'
  BY DEF LifeInv, TypeOK, SftpTypeOK, OneDialer, RunsTransfer, BuiltInOrder, StoppedInOrder,
         sftpVars, builtVars, workVars, procVars, Signals, FirstSignal, CancelContext,
         SecondSignal

\* The poll loop and the handlers: nothing begins that Stop has seen end.
LEMMA PollsKeep ==
  ASSUME LifeInv, exit = "none",
         PollBegins \/ PollEnds \/ LoopEnds \/ RunBegins \/ RunsEnd \/ RequestComes \/ RequestEnds
  PROVE  LifeInv'
  <1> USE DEF LifeInv, TypeOK, SftpTypeOK, OneDialer, RunsTransfer, BuiltInOrder,
              StoppedInOrder, sftpVars, builtVars, workVars, procVars
  <1>1. CASE PollBegins \/ PollEnds \/ LoopEnds
    BY <1>1 DEF PollBegins, PollEnds, LoopEnds
  <1>2. CASE RunBegins
    BY <1>2 DEF RunBegins
  <1>3. CASE RunsEnd
    BY <1>3 DEF RunsEnd, Transferring
  <1>4. CASE RequestComes \/ RequestEnds
    BY <1>4, ServerAssumption DEF RequestComes, RequestEnds
  <1> QED
    BY <1>1, <1>2, <1>3, <1>4

\* Transfers: the first to come makes the session, and no other does.
LEMMA TransfersKeep ==
  ASSUME LifeInv, exit = "none", NEW t \in Transfers,
         \/ RunTransfers(t)
         \/ TransferStep(t) /\ UNCHANGED <<procVars, builtVars, workVars>>
  PROVE  LifeInv'
  <1> USE DEF LifeInv, TypeOK, SftpTypeOK, XferPc, OneDialer, RunsTransfer, BuiltInOrder,
              StoppedInOrder, sftpVars, builtVars, workVars, procVars, Go
  <1>1. CASE RunTransfers(t)
    BY <1>1 DEF RunTransfers, BeginTransfer
  <1>2. ASSUME UNCHANGED <<procVars, builtVars, workVars>>, Dial(t) PROVE LifeInv'
    BY <1>2 DEF Dial
  <1>3. ASSUME UNCHANGED <<procVars, builtVars, workVars>>, DialEnds(t) PROVE LifeInv'
    BY <1>3 DEF DialEnds
  <1>4. ASSUME UNCHANGED <<procVars, builtVars, workVars>>,
               GetSession(t) \/ GetError(t) \/ EndTransfer(t)
        PROVE  LifeInv'
    BY <1>4 DEF GetSession, GetError, EndTransfer
  <1> QED
    BY <1>1, <1>2, <1>3, <1>4 DEF TransferStep

LEMMA NextLife == LifeInv /\ [Next]_vars => LifeInv'
  <1> SUFFICES ASSUME LifeInv, [Next]_vars PROVE LifeInv'
    OBVIOUS
  <1>1. CASE UNCHANGED vars
    BY <1>1 DEF vars, LifeInv, TypeOK, SftpTypeOK, OneDialer, RunsTransfer, BuiltInOrder,
                StoppedInOrder, sftpVars, builtVars, workVars, procVars
  <1>2. CASE Next
    BY <1>2, StartKeeps, ShutdownKeeps, SignalsKeep, PollsKeep, TransfersKeep
    DEF Next, MainStep, Work
  <1> QED
    BY <1>1, <1>2

\* What holds of the process from its start to its end.
LEMMA LifeHolds == Spec => []LifeInv
  BY InitLife, NextLife, PTL DEF Spec

-----------------------------------------------------------------------------
\* Every variable keeps its type, and no shutdown begins without a signal.
THEOREM TypeCorrect == Spec => []TypeOK
  <1>1. LifeInv => TypeOK
    BY DEF LifeInv
  <1> QED
    BY <1>1, LifeHolds, PTL

\* However many transfers there are, the seedbox is connected to at most once
\* (rclone.go:175, sftpOnce).
THEOREM ConnectsOnce == Spec => []OneConnection
  <1>1. LifeInv => OneConnection
    BY DEF LifeInv, OneDialer, OneConnection
  <1> QED
    BY <1>1, LifeHolds, PTL

\* Whatever is configured, the poll loop runs only with its downloaders connected,
\* a place in the semaphore and a host to transfer from (config.go:195,
\* server.go:67).
THEOREM PollsAreReady == Spec => []PollsReady
  <1>1. LifeInv => PollsReady
    BY DEF LifeInv, TypeOK, BuiltInOrder, PollsReady
  <1> QED
    BY <1>1, LifeHolds, PTL

\* An exit after a shutdown in time leaves no poll, no run and no session
\* (server.go:285, orchestrator.go:213).
THEOREM ExitsClean == Spec => []CleanExit
  <1>1. LifeInv => CleanExit
    BY DEF LifeInv, StoppedInOrder, CleanExit
  <1> QED
    BY <1>1, LifeHolds, PTL

\* The session is closed under a transfer only when Stop has given up waiting
\* (server.go:285, rclone.go:153).
THEOREM SessionOutlives == Spec => []SessionOutlivesTransfers
  <1>1. LifeInv => SessionOutlivesTransfers
    BY DEF LifeInv, RunsTransfer, StoppedInOrder, SessionOutlivesTransfers, Transferring
  <1> QED
    BY <1>1, LifeHolds, PTL
=============================================================================
