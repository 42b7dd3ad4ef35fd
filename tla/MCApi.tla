------------------------------- MODULE MCApi -------------------------------
(* Instances of Api for TLC. *)
EXTENDS Api, TLC

CONSTANTS c1, nobody

AllThreads == {c1, "poll", "run"}
AllLocks == {"tracked", "td", "job"}
AllSubjects == {"", "torrent", "app", "box"}
AllEventTypes ==
  {"system_started", "discovered", "sync_started", "sync_complete", "move_complete",
   "import_started", "import_complete", "import_failed", "removed", "error", "complete"}
=============================================================================
