-------------------------- MODULE MCOrchestrator --------------------------
(* Instances of Orchestrator for TLC. *)
EXTENDS Orchestrator, TLC

CONSTANTS d1, d2, h1, h2, n1, n2, j1, j2, r1, r2, nil, box, box2, catA, catB, catX,
          pathA, pathB, pathAbox, pathBbox

OneTorrent == {d1}
OwnHash    == (d1 :> h1)
OwnName    == (d1 :> n1)
OneBox     == (d1 :> box)

\* Two torrents of one name, at two downloaders.
TwoTorrents == {d1, d2}
OwnHashes   == (d1 :> h1) @@ (d2 :> h2)
OneName     == (d1 :> n1) @@ (d2 :> n1)
TwoBoxes    == (d1 :> box) @@ (d2 :> box2)

\* A job goes straight below the app's directory, a migration into the
\* directory of the downloader below it.
OneAppSync    == (catA :> pathA)
OneAppMigrate == (catA :> pathAbox)
TwoAppSync    == (catA :> pathA) @@ (catB :> pathB)
TwoAppMigrate == (catA :> pathAbox) @@ (catB :> pathBbox)

Slots == Permutations(JobIds) \cup Permutations(Runs)
=============================================================================
