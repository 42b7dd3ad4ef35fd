------------------------------ MODULE Timeline ------------------------------
(***************************************************************************)
(* The recorder of events (internal/timeline/timeline.go): a list, newest  *)
(* first, cut at its bound.  The poll loop writes to it and the handlers   *)
(* of the API read it; a mutex makes each operation one step.              *)
(***************************************************************************)
EXTENDS Naturals, Sequences

CONSTANTS
  MaxEvents,    \* maxEvents, 10000 in the program
  EventTypes,
  Subjects      \* what events are about: torrents, apps, downloaders, and ""

ASSUME TimelineAssumption == MaxEvents \in Nat

VARIABLES
  events,       \* newest first
  nextID

timelineVars == <<events, nextID>>

\* An event as its callers give it, and as it is kept.  Messages and times are
\* left out.
NewEvent == [type : EventTypes, download : Subjects, app : Subjects, downloader : Subjects]
Event == [id : Nat \ {0}, type : EventTypes, download : Subjects, app : Subjects,
          downloader : Subjects]

TimelineTypeOK == events \in Seq(Event) /\ nextID \in Nat \ {0}

TimelineInit == events = <<>> /\ nextID = 1

WithID(e) == [id |-> nextID, type |-> e.type, download |-> e.download, app |-> e.app,
              downloader |-> e.downloader]

\* Mutant: the new event goes to the end, where the trim takes it off.
RecordAppended(e) ==
  /\ events' = SubSeq(Append(events, WithID(e)), 1,
                      IF Len(events) < MaxEvents THEN Len(events) + 1 ELSE MaxEvents)
  /\ nextID' = nextID + 1
\* Mutant: a full list is begun anew.
RecordAfresh(e) ==
  /\ events' = IF Len(events) < MaxEvents THEN <<WithID(e)>> \o events ELSE <<WithID(e)>>
  /\ nextID' = nextID + 1
\* Prepend, then trim.
Record(e) ==
  LET len == IF Len(events) < MaxEvents THEN Len(events) + 1 ELSE MaxEvents
  IN  /\ events' = [i \in 1..len |-> IF i = 1 THEN WithID(e) ELSE events[i - 1]]
      /\ nextID' = nextID + 1

\* Nothing calls it outside the tests.
Clear(download) ==
  \E len \in 0..Len(events) : \E at \in [1..len -> DOMAIN events] :
     /\ \A i, j \in 1..len : i < j => at[i] < at[j]
     /\ \A k \in DOMAIN events : events[k].download # download <=> \E i \in 1..len : at[i] = k
     /\ events' = [i \in 1..len |-> events[at[i]]]
     /\ UNCHANGED nextID

\* The queries, as sets: what they return keeps the order of the list.
Kept == {events[i] : i \in DOMAIN events}
GetAll == Kept
GetByDownload(d) == {e \in Kept : e.download = d}
GetByApp(a) == {e \in Kept : e.app = a}
GetByDownloader(x) == {e \in Kept : e.downloader = x}

TimelineNext ==
  \/ \E e \in NewEvent : Record(e)
  \/ \E d \in Subjects : Clear(d)

TimelineSpec == TimelineInit /\ [][TimelineNext]_timelineVars

-----------------------------------------------------------------------------
\* The list never outgrows its bound, runs from the newest event to the oldest,
\* and no id is given twice: the handlers return it as it is (timeline.go:54,
\* "newest first", and generateID).
NewestFirst ==
  /\ Len(events) <= MaxEvents
  /\ \A i \in DOMAIN events : events[i].id < nextID
  /\ \A i, j \in DOMAIN events : i < j => events[j].id < events[i].id

\* An event leaves the list only when it is older than MaxEvents others that are
\* kept, or with every event of its torrent (the trim in Record, Clear).
OldestGoFirst ==
  [][\A e \in Kept :
        \/ e \in Kept'
        \/ Len(events') = MaxEvents /\ \A f \in Kept' : e.id < f.id
        \/ \A f \in Kept' : f.download # e.download]_timelineVars
=============================================================================
