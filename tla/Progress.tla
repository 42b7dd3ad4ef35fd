------------------------------ MODULE Progress ------------------------------
(***************************************************************************)
(* What the syncer shows of a job while it works on it                     *)
(* (internal/filesync/syncer.go, internal/transfer/rclone.go).  Each file  *)
(* has a goroutine that copies it and, beside it, one that reports how far *)
(* the copy is; the job's status and the files' progress are read by the   *)
(* poll loop and by the handlers.  Filesync models what becomes of the     *)
(* files on disk; here a transfer ends well or does not.                   *)
(***************************************************************************)
EXTENDS RWMutex, Naturals, FiniteSets

CONSTANTS
  NFiles,
  FileSize     \* bound: steps in which a copy's progress is seen

ASSUME ProgressAssumption == NFiles \in Nat \ {0} /\ FileSize \in Nat \ {0}

Files == 1..NFiles
TotalSize == NFiles * FileSize

VARIABLES
  jobStatus,   \* SyncJob.Status; "absent" before CreateJob
  cancelled,   \* SyncJob.CancelledAt is set
  fileStatus,  \* FileProgress.Status
  shown,       \* FileProgress.Transferred
  runPc,       \* the goroutine that runs SyncJob
  runErr,      \* errChan is not empty
  filePc,      \* the goroutines that run SyncFile
  copied,      \* bytes that rclone has counted for the file's stats group
  monitor      \* monitorProgress: off, on, or with the bytes it has read

jobVars == <<jobStatus, cancelled>>
fileVars == <<fileStatus, shown, filePc, copied, monitor>>
progressVars == <<jobVars, fileVars, runPc, runErr>>

FileStatus == {"pending", "syncing", "complete", "skipped", "error"}
Done(f) == fileStatus[f] \in {"complete", "skipped"}

FilePc == {"none", "start", "copy", "copied", "failed", "verify"}
Monitor == [at : {"off", "on", "read"}, bytes : 0..FileSize]
MonitorOff == [at |-> "off", bytes |-> 0]
MonitorOn  == [at |-> "on", bytes |-> 0]

ProgressTypeOK ==
  /\ RWMutexTypeOK
  /\ jobStatus \in FileStatus \cup {"absent"}
  /\ cancelled \in BOOLEAN
  /\ fileStatus \in [Files -> FileStatus]
  /\ shown \in [Files -> 0..FileSize]
  /\ runPc \in {"none", "begin", "mark", "list", "wait", "finish"}
  /\ runErr \in BOOLEAN
  /\ filePc \in [Files -> FilePc]
  /\ copied \in [Files -> 0..FileSize]
  /\ monitor \in [Files -> Monitor]

ProgressInit ==
  /\ RWMutexInit
  /\ jobStatus = "absent" /\ cancelled = FALSE
  /\ fileStatus = [f \in Files |-> "pending"]
  /\ shown = [f \in Files |-> 0]
  /\ runPc = "none" /\ runErr = FALSE
  /\ filePc = [f \in Files |-> "none"]
  /\ copied = [f \in Files |-> 0]
  /\ monitor = [f \in Files |-> MonitorOff]

-----------------------------------------------------------------------------
\* CreateJob: the files found at the final path are shown as transferred.
CreateJob(atFinal) ==
  /\ jobStatus' = "pending"
  /\ fileStatus' = [f \in Files |-> IF f \in atFinal THEN "skipped" ELSE "pending"]
  /\ shown' = [f \in Files |-> IF f \in atFinal THEN FileSize ELSE 0]
  /\ UNCHANGED <<cancelled, filePc, copied, monitor, runPc, runErr>>

StartRun ==
  /\ runPc = "none"
  /\ runPc' = "begin"
  /\ runErr' = FALSE
  /\ UNCHANGED <<jobVars, fileVars>>

\* SyncJob.Cancel
Cancel(t) ==
  /\ WriteAtOnce(t, "job")
  /\ jobStatus' = "error" /\ cancelled' = TRUE
  /\ UNCHANGED <<fileVars, runPc, runErr>>

-----------------------------------------------------------------------------
(***************************************************************************)
(* SyncJob                                                                 *)
(***************************************************************************)
BeginRun ==
  /\ runPc = "begin"
  /\ MayRead("job")
  /\ runPc' = IF cancelled THEN "none" ELSE "mark"
  /\ UNCHANGED <<locks, jobVars, fileVars, runErr>>

MarkSyncing ==
  /\ runPc = "mark"
  /\ WriteAtOnce("run", "job")
  /\ jobStatus' = "syncing"
  /\ runPc' = "list"
  /\ UNCHANGED <<cancelled, fileVars, runErr>>

ListFails ==
  /\ runPc = "list"
  /\ runPc' = "none"
  /\ UNCHANGED <<locks, jobVars, fileVars, runErr>>

\* Mutant: a file that an earlier run has done is started again.
FanOutAgain(ready) ==
  /\ runPc = "list"
  /\ runPc' = "wait"
  /\ filePc' = [f \in Files |-> IF f \in ready THEN "start" ELSE "none"]
  /\ UNCHANGED <<locks, jobVars, fileStatus, shown, copied, monitor, runErr>>
\* ready: the files that are complete at the downloader
FanOut(ready) ==
  /\ runPc = "list"
  /\ runPc' = "wait"
  /\ filePc' = [f \in Files |-> IF f \in ready /\ ~ Done(f) THEN "start" ELSE "none"]
  /\ UNCHANGED <<locks, jobVars, fileStatus, shown, copied, monitor, runErr>>

WaitForFiles ==
  /\ runPc = "wait"
  /\ \A f \in Files : filePc[f] = "none"
  /\ runPc' = "finish"
  /\ UNCHANGED <<locks, jobVars, fileVars, runErr>>

\* Mutant: a run without an error makes the job complete.
FinishRunEarly ==
  /\ runPc = "finish"
  /\ WriteAtOnce("run", "job")
  /\ jobStatus' = IF runErr THEN "error" ELSE "complete"
  /\ runPc' = "none"
  /\ UNCHANGED <<cancelled, fileVars, runErr>>
\* Mutant: one file that is done makes the job complete.
FinishRunAny ==
  /\ runPc = "finish"
  /\ WriteAtOnce("run", "job")
  /\ jobStatus' = IF runErr THEN "error"
                  ELSE IF \E f \in Files : Done(f) THEN "complete" ELSE "pending"
  /\ runPc' = "none"
  /\ UNCHANGED <<cancelled, fileVars, runErr>>
FinishRun ==
  /\ runPc = "finish"
  /\ WriteAtOnce("run", "job")
  /\ jobStatus' = IF runErr THEN "error"
                  ELSE IF \A f \in Files : Done(f) THEN "complete" ELSE "pending"
  /\ runPc' = "none"
  /\ UNCHANGED <<cancelled, fileVars, runErr>>

RunAwaits ==
  /\ runPc \in {"mark", "finish"}
  /\ Await("run", "job")
  /\ UNCHANGED progressVars

-----------------------------------------------------------------------------
(***************************************************************************)
(* SyncFile, and Transfer within it                                        *)
(***************************************************************************)
\* The semaphore is given; the file is found staged, or its copy begins with a
\* fresh stats group and a monitor.
StartFile(f) ==
  /\ filePc[f] = "start"
  /\ \/ /\ fileStatus' = [fileStatus EXCEPT ![f] = "skipped"]
        /\ shown' = [shown EXCEPT ![f] = FileSize]
        /\ filePc' = [filePc EXCEPT ![f] = "none"]
        /\ UNCHANGED <<copied, monitor>>
     \/ /\ fileStatus' = [fileStatus EXCEPT ![f] = "syncing"]
        /\ filePc' = [filePc EXCEPT ![f] = "copy"]
        /\ copied' = [copied EXCEPT ![f] = 0]
        /\ monitor' = [monitor EXCEPT ![f] = MonitorOn]
        /\ UNCHANGED shown
  /\ UNCHANGED <<locks, jobVars, runPc, runErr>>

\* The context ends while it waits for the semaphore, or making the directory fails.
FileFailsEarly(f) ==
  /\ filePc[f] = "start"
  /\ filePc' = [filePc EXCEPT ![f] = "none"]
  /\ fileStatus' \in {fileStatus, [fileStatus EXCEPT ![f] = "error"]}
  /\ runErr' = TRUE
  /\ UNCHANGED <<locks, jobVars, shown, copied, monitor, runPc>>

Copy(f) ==
  /\ filePc[f] = "copy"
  /\ copied[f] < FileSize
  /\ copied' = [copied EXCEPT ![f] = @ + 1]
  /\ UNCHANGED <<locks, jobVars, fileStatus, shown, filePc, monitor, runPc, runErr>>

CopyEnds(f) ==
  /\ filePc[f] = "copy"
  /\ \/ copied[f] = FileSize /\ filePc' = [filePc EXCEPT ![f] = "copied"]
     \/ filePc' = [filePc EXCEPT ![f] = "failed"]
  /\ UNCHANGED <<locks, jobVars, fileStatus, shown, copied, monitor, runPc, runErr>>

\* A tick: the monitor reads the stats and then calls back.  Between two ticks
\* it may also find the copy ended; when both are so, select takes either.
Sample(f) ==
  /\ monitor[f].at = "on"
  /\ monitor' = [monitor EXCEPT ![f] = [at |-> "read", bytes |-> copied[f]]]
  /\ UNCHANGED <<locks, jobVars, fileStatus, shown, filePc, copied, runPc, runErr>>

Publish(f) ==
  /\ monitor[f].at = "read"
  /\ shown' = [shown EXCEPT ![f] = monitor[f].bytes]
  /\ monitor' = [monitor EXCEPT ![f] = MonitorOn]
  /\ UNCHANGED <<locks, jobVars, fileStatus, filePc, copied, runPc, runErr>>

MonitorEnds(f) ==
  /\ monitor[f].at = "on"
  /\ filePc[f] \in {"copied", "failed"}
  /\ monitor' = [monitor EXCEPT ![f] = MonitorOff]
  /\ UNCHANGED <<locks, jobVars, fileStatus, shown, filePc, copied, runPc, runErr>>

\* Mutant: the monitor is told to stop and not waited for.
TransferReturnsAtOnce(f) ==
  /\ filePc[f] = "copied"
  /\ shown' = [shown EXCEPT ![f] = FileSize]
  /\ filePc' = [filePc EXCEPT ![f] = "verify"]
  /\ UNCHANGED <<locks, jobVars, fileStatus, copied, monitor, runPc, runErr>>
\* The monitor is waited for before the last report.
TransferReturns(f) ==
  /\ filePc[f] = "copied"
  /\ monitor[f].at = "off"
  /\ shown' = [shown EXCEPT ![f] = FileSize]
  /\ filePc' = [filePc EXCEPT ![f] = "verify"]
  /\ UNCHANGED <<locks, jobVars, fileStatus, copied, monitor, runPc, runErr>>

TransferFails(f) ==
  /\ filePc[f] = "failed"
  /\ monitor[f].at = "off"
  /\ fileStatus' = [fileStatus EXCEPT ![f] = "error"]
  /\ filePc' = [filePc EXCEPT ![f] = "none"]
  /\ runErr' = TRUE
  /\ UNCHANGED <<locks, jobVars, shown, copied, monitor, runPc>>

Verify(f) ==
  /\ filePc[f] = "verify"
  /\ \/ /\ fileStatus' = [fileStatus EXCEPT ![f] = "complete"]
        /\ shown' = [shown EXCEPT ![f] = FileSize]
        /\ UNCHANGED runErr
     \/ /\ fileStatus' = [fileStatus EXCEPT ![f] = "error"]
        /\ runErr' = TRUE
        /\ UNCHANGED shown
  /\ filePc' = [filePc EXCEPT ![f] = "none"]
  /\ UNCHANGED <<locks, jobVars, copied, monitor, runPc>>

RunStep ==
  \/ BeginRun \/ MarkSyncing \/ ListFails \/ WaitForFiles \/ FinishRun \/ RunAwaits
  \/ \E ready \in SUBSET Files : FanOut(ready)

FileStep(f) ==
  \/ StartFile(f) \/ FileFailsEarly(f) \/ Copy(f) \/ CopyEnds(f)
  \/ TransferReturns(f) \/ TransferFails(f) \/ Verify(f)

MonitorStep(f) == Sample(f) \/ Publish(f) \/ MonitorEnds(f)

ProgressStep == RunStep \/ \E f \in Files : FileStep(f) \/ MonitorStep(f)
=============================================================================
