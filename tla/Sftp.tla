-------------------------------- MODULE Sftp --------------------------------
(***************************************************************************)
(* The SFTP session that all transfers share (internal/transfer/rclone.go) *)
(* and the files being transferred through it.  The first transfer makes   *)
(* the session, inside a sync.Once; the others wait for it, and what came  *)
(* of it, session or error, is kept.                                       *)
(***************************************************************************)
EXTENDS Naturals, FiniteSets

CONSTANT Transfers     \* calls of Transfer that may be under way at once

VARIABLES
  sftp,      \* none, being made, open, failed, or closed
  dials,     \* how often createSFTPFs has been called
  xfer       \* where each call is

sftpVars == <<sftp, dials, xfer>>

XferPc == {"idle", "get", "dial", "copy"}

SftpTypeOK ==
  /\ sftp \in {"none", "dialing", "open", "failed", "closed"}
  /\ dials \in Nat
  /\ xfer \in [Transfers -> XferPc]

SftpInit == sftp = "none" /\ dials = 0 /\ xfer = [t \in Transfers |-> "idle"]

Go(t, from, to) == xfer[t] = from /\ xfer' = [xfer EXCEPT ![t] = to]

\* A run of the syncer calls Transfer.
BeginTransfer(t) == Go(t, "idle", "get") /\ UNCHANGED <<sftp, dials>>

\* Mutant: whoever finds no session makes one.
DialUnguarded(t) ==
  /\ Go(t, "get", "dial")
  /\ sftp \in {"none", "dialing"}
  /\ sftp' = "dialing"
  /\ dials' = dials + 1
\* sftpOnce: one call makes the session ...
Dial(t) ==
  /\ Go(t, "get", "dial")
  /\ sftp = "none"
  /\ sftp' = "dialing"
  /\ dials' = dials + 1
DialEnds(t) ==
  /\ \/ Go(t, "dial", "copy") /\ sftp' = "open"
     \/ Go(t, "dial", "idle") /\ sftp' = "failed"
  /\ UNCHANGED dials

\* ... and every other gets what came of it.
GetSession(t) == sftp \in {"open", "closed"} /\ Go(t, "get", "copy") /\ UNCHANGED <<sftp, dials>>
GetError(t) == sftp = "failed" /\ Go(t, "get", "idle") /\ UNCHANGED <<sftp, dials>>

\* The copy ends, well or not.
EndTransfer(t) == Go(t, "copy", "idle") /\ UNCHANGED <<sftp, dials>>

\* Close: a session that is still being made is not seen.
CloseSftp ==
  /\ sftp' = IF sftp = "open" THEN "closed" ELSE sftp
  /\ UNCHANGED <<dials, xfer>>

Transferring == {t \in Transfers : xfer[t] # "idle"}

TransferStep(t) ==
  Dial(t) \/ DialEnds(t) \/ GetSession(t) \/ GetError(t) \/ EndTransfer(t)

-----------------------------------------------------------------------------
\* However many transfers start together, and whatever becomes of the first
\* attempt, the seedbox is connected to at most once (rclone.go:175
\* "returns a cached SFTP filesystem or creates a new one", sftpOnce).
OneConnection ==
  /\ dials <= 1
  /\ \A t, u \in Transfers : xfer[t] = "dial" /\ xfer[u] = "dial" => t = u

\* An error in making the session does not last.  rclone.go:175 says that
\* getSFTPFs "returns a cached SFTP filesystem or creates a new one"; the code
\* does not keep this: it returns the error of the first attempt for ever, even
\* if that was only the cancellation of the job that made it.
SessionRecovers == [](sftp = "failed" => <>(sftp # "failed"))
=============================================================================
