------------------------------ MODULE MCServer ------------------------------
(* Instances of Server for TLC. *)
EXTENDS Server, TLC

CONSTANTS box1, box2, hostA, hostB, noHost, app1, t1, t2

Box(h) ==
  [type |-> "qbittorrent", url |-> "good", host |-> h, user |-> TRUE, keyFile |-> TRUE,
   knownHostsFile |-> TRUE, ignoreHostKey |-> FALSE]
Arr == [type |-> "sonarr", category |-> TRUE, url |-> "good", apiKey |-> TRUE]
GoodSync ==
  [downloadsPath |-> TRUE, syncingPath |-> TRUE, backend |-> "none", maxConcurrent |-> 0,
   pollInterval |-> 0]
Good == [downloaders |-> (box1 :> Box(hostA)), apps |-> (app1 :> Arr), sync |-> GoodSync]

\* What may be wrong with one downloader, one app, or the rest.
BadBoxes ==
  LET b == Box(hostA)
  IN  {[b EXCEPT !.type = "none"], [b EXCEPT !.type = "other"], [b EXCEPT !.url = "none"],
       [b EXCEPT !.url = "bad"], [b EXCEPT !.host = noHost], [b EXCEPT !.user = FALSE],
       [b EXCEPT !.keyFile = FALSE], [b EXCEPT !.knownHostsFile = FALSE],
       [b EXCEPT !.ignoreHostKey = TRUE]}
BadApps ==
  {[Arr EXCEPT !.type = "none"], [Arr EXCEPT !.type = "other"], [Arr EXCEPT !.category = FALSE],
   [Arr EXCEPT !.url = "none"], [Arr EXCEPT !.url = "bad"], [Arr EXCEPT !.apiKey = FALSE]}
OddSyncs ==
  {[GoodSync EXCEPT !.downloadsPath = FALSE], [GoodSync EXCEPT !.syncingPath = FALSE],
   [GoodSync EXCEPT !.backend = "other"], [GoodSync EXCEPT !.backend = "rclone"],
   [GoodSync EXCEPT !.maxConcurrent = 1], [GoodSync EXCEPT !.maxConcurrent = -1],
   [GoodSync EXCEPT !.pollInterval = -1]}

SomeConfigs ==
  {Good,
   [Good EXCEPT !.downloaders = <<>>],
   [Good EXCEPT !.downloaders = (box1 :> Box(hostA)) @@ (box2 :> Box(hostB))],
   [Good EXCEPT !.apps = (app1 :> [Arr EXCEPT !.type = "passthrough", !.url = "none",
                                             !.apiKey = FALSE])]}
  \cup {[Good EXCEPT !.downloaders = (box1 :> b)] : b \in BadBoxes}
  \cup {[Good EXCEPT !.downloaders = (box1 :> b) @@ (box2 :> Box(hostA))] : b \in BadBoxes}
  \cup {[Good EXCEPT !.apps = (app1 :> a)] : a \in BadApps}
  \cup {[Good EXCEPT !.sync = y] : y \in OddSyncs}
=============================================================================
