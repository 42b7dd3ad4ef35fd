--------------------------- MODULE MCSyncService ---------------------------
(* Instances of SyncService for TLC. *)
EXTENDS SyncService, TLC

CONSTANTS d1, d2, h1, h2, n1, n2, j1, j2, r1, r2, r3, destA, destB, nil

OneTorrent  == {d1}
TwoTorrents == {d1, d2}
OwnHash     == (d1 :> h1)
OwnName     == (d1 :> n1)
SharedHash  == (d1 :> h1) @@ (d2 :> h1)
OneName     == (d1 :> n1) @@ (d2 :> n1)

SlotSymmetry == Permutations(JobIds) \cup Permutations(Runs)
=============================================================================
