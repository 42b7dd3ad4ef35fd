--------------------------- MODULE TimelineProofs ---------------------------
(***************************************************************************)
(* Proofs about Timeline, for every bound and every kind of event.         *)
(***************************************************************************)
EXTENDS Timeline, TLAPS

TimelineInv == TimelineTypeOK /\ NewestFirst

\* The list as a function: what Record and Clear do to it index by index.
LEMMA EventsAreAFunction ==
  ASSUME TimelineTypeOK
  PROVE  /\ Len(events) \in Nat /\ DOMAIN events = 1..Len(events)
         /\ \A i \in DOMAIN events : events[i] \in Event
         /\ \A i \in DOMAIN events : events[i].id \in Nat
  <1>1. events \in Seq(Event)
    BY DEF TimelineTypeOK
  <1>2. Len(events) \in Nat /\ DOMAIN events = 1..Len(events)
    BY <1>1
  <1>3. \A i \in DOMAIN events : events[i] \in Event
    BY <1>1, <1>2
  <1>4. \A e \in Event : e.id \in Nat
    BY DEF Event
  <1> QED
    BY <1>2, <1>3, <1>4

\* A function on 1..n is a sequence of length n.
LEMMA FunctionIsSeq ==
  ASSUME NEW S, NEW n \in Nat, NEW g, g = [i \in 1..n |-> g[i]], \A i \in 1..n : g[i] \in S
  PROVE  g \in Seq(S) /\ Len(g) = n /\ DOMAIN g = 1..n
  <1>1. g \in [1..n -> S]
    BY Zenon
  <1> QED
    BY <1>1

\* What Record leaves behind: the new event, then the old ones one place on.
LEMMA RecordShifts ==
  ASSUME TimelineTypeOK, NEW e \in NewEvent, Record(e)
  PROVE  /\ events' \in Seq(Event) /\ nextID' \in Nat \ {0} /\ nextID' = nextID + 1
         /\ Len(events') = IF Len(events) < MaxEvents THEN Len(events) + 1 ELSE MaxEvents
         /\ DOMAIN events' = 1..Len(events')
         /\ \A i \in DOMAIN events' :
               IF i = 1 THEN events'[i] = WithID(e)
                        ELSE events'[i] = events[i - 1] /\ i - 1 \in DOMAIN events
  <1> DEFINE len == IF Len(events) < MaxEvents THEN Len(events) + 1 ELSE MaxEvents
             new == [i \in 1..len |-> IF i = 1 THEN WithID(e) ELSE events[i - 1]]
  <1>1. events' = new /\ nextID' = nextID + 1
    BY DEF Record
  <1>2. len \in Nat /\ len <= Len(events) + 1
    BY EventsAreAFunction, TimelineAssumption
  <1>3. WithID(e) \in Event
    BY DEF TimelineTypeOK, NewEvent, Event, WithID
  <1>4. \A i \in 1..len : i # 1 => i - 1 \in DOMAIN events
    BY <1>2, EventsAreAFunction
  <1>5. \A i \in 1..len : new[i] \in Event
    BY <1>3, <1>4, EventsAreAFunction
  <1>6. new \in Seq(Event) /\ Len(new) = len /\ DOMAIN new = 1..len
    <2>1. new = [i \in 1..len |-> new[i]]
      OBVIOUS
    <2> HIDE DEF new, len
    <2> QED
      BY <2>1, <1>2, <1>5, FunctionIsSeq
  <1>7. nextID' \in Nat \ {0}
    BY <1>1 DEF TimelineTypeOK
  <1> QED
    BY <1>1, <1>4, <1>6, <1>7

\* What Clear leaves behind: some of the old events, in their old order.
LEMMA ClearThins ==
  ASSUME TimelineTypeOK, NEW d \in Subjects, Clear(d)
  PROVE  /\ events' \in Seq(Event) /\ nextID' = nextID
         /\ \E len \in 0..Len(events) : \E at \in [1..len -> DOMAIN events] :
              /\ Len(events') = len /\ DOMAIN events' = 1..len
              /\ \A i \in 1..len : events'[i] = events[at[i]]
              /\ \A i, j \in 1..len : i < j => at[i] < at[j]
              /\ \A k \in DOMAIN events :
                    events[k].download # d <=> \E i \in 1..len : at[i] = k
  <1>0. PICK len \in 0..Len(events) : \E at \in [1..len -> DOMAIN events] :
          /\ \A i, j \in 1..len : i < j => at[i] < at[j]
          /\ \A k \in DOMAIN events : events[k].download # d <=> \E i \in 1..len : at[i] = k
          /\ events' = [i \in 1..len |-> events[at[i]]]
          /\ nextID' = nextID
    BY DEF Clear
  <1>1. PICK at \in [1..len -> DOMAIN events] :
          /\ \A i, j \in 1..len : i < j => at[i] < at[j]
          /\ \A k \in DOMAIN events : events[k].download # d <=> \E i \in 1..len : at[i] = k
          /\ events' = [i \in 1..len |-> events[at[i]]]
          /\ nextID' = nextID
    BY <1>0
  <1>2. len \in Nat
    BY EventsAreAFunction
  <1>3. \A i \in 1..len : events'[i] = events[at[i]] /\ events'[i] \in Event
    BY <1>1, EventsAreAFunction
  <1>4. events' \in Seq(Event) /\ Len(events') = len /\ DOMAIN events' = 1..len
    BY <1>1, <1>2, <1>3, FunctionIsSeq
  <1> QED
    BY <1>1, <1>3, <1>4

LEMMA RecordKeepsInv ==
  ASSUME TimelineInv, NEW e \in NewEvent, Record(e)
  PROVE  TimelineInv'
  <1> USE DEF TimelineInv
  <1>1. TimelineTypeOK'
    BY RecordShifts DEF TimelineTypeOK
  <1>2. Len(events') <= MaxEvents
    BY RecordShifts, EventsAreAFunction, TimelineAssumption
  <1>3. \A i \in DOMAIN events' : i # 1 => events'[i].id < nextID
    BY RecordShifts DEF NewestFirst
  <1>4. \A i \in DOMAIN events' : i = 1 => events'[i].id = nextID
    BY RecordShifts DEF WithID
  <1>5. \A i \in DOMAIN events' : events'[i].id < nextID'
    <2>1. nextID \in Nat /\ nextID' = nextID + 1
      BY RecordShifts DEF TimelineTypeOK
    <2>2. \A i \in DOMAIN events' : events'[i].id \in Nat
      <3>1. events' \in Seq(Event) /\ DOMAIN events' = 1..Len(events')
        BY RecordShifts
      <3>2. \A i \in DOMAIN events' : events'[i] \in Event
        BY <3>1
      <3> QED
        BY <3>2 DEF Event
    <2> QED
      BY <1>3, <1>4, <2>1, <2>2
  <1>6. ASSUME NEW i \in DOMAIN events', NEW j \in DOMAIN events', i < j
        PROVE  events'[j].id < events'[i].id
    <2>1. i \in Nat /\ j \in Nat /\ j # 1 /\ 1 <= i
      BY <1>6, RecordShifts, <1>1 DEF TimelineTypeOK
    <2>2. CASE i = 1
      BY <2>1, <2>2, <1>3, <1>4
    <2>3. CASE i # 1
      BY <2>1, <2>3, <1>6, RecordShifts DEF NewestFirst
    <2> QED
      BY <2>2, <2>3
  <1> QED
    BY <1>1, <1>2, <1>5, <1>6 DEF NewestFirst

LEMMA ClearKeepsInv ==
  ASSUME TimelineInv, NEW d \in Subjects, Clear(d)
  PROVE  TimelineInv'
  <1> USE DEF TimelineInv
  <1>1. TimelineTypeOK'
    BY ClearThins DEF TimelineTypeOK
  <1>2. PICK len \in 0..Len(events) : \E at \in [1..len -> DOMAIN events] :
          /\ Len(events') = len /\ DOMAIN events' = 1..len
          /\ \A i \in 1..len : events'[i] = events[at[i]]
          /\ \A i, j \in 1..len : i < j => at[i] < at[j]
    BY ClearThins
  <1>3. Len(events') <= MaxEvents
    BY <1>2, EventsAreAFunction, TimelineAssumption DEF NewestFirst
  <1>4. \A i \in 1..len : events'[i].id < nextID'
    BY <1>2, ClearThins DEF NewestFirst
  <1>5. \A i, j \in 1..len : i < j => events'[j].id < events'[i].id
    BY <1>2 DEF NewestFirst
  <1> QED
    BY <1>1, <1>2, <1>3, <1>4, <1>5 DEF NewestFirst

LEMMA TimelineInductive == TimelineSpec => []TimelineInv
  <1>1. TimelineInit => TimelineInv
    BY TimelineAssumption DEF TimelineInit, TimelineInv, TimelineTypeOK, NewestFirst
  <1>2. TimelineInv /\ [TimelineNext]_timelineVars => TimelineInv'
    <2> SUFFICES ASSUME TimelineInv, [TimelineNext]_timelineVars PROVE TimelineInv'
      OBVIOUS
    <2>1. CASE UNCHANGED timelineVars
      BY <2>1 DEF timelineVars, TimelineInv, TimelineTypeOK, NewestFirst
    <2> QED
      BY <2>1, RecordKeepsInv, ClearKeepsInv DEF TimelineNext
  <1> QED
    BY <1>1, <1>2, PTL DEF TimelineSpec

\* NewestFirst holds of the recorder whatever is recorded and cleared.
THEOREM TimelineOrdered == TimelineSpec => []NewestFirst
  BY TimelineInductive, PTL DEF TimelineInv

\* Record drops at most the last event, and only from a full list.
LEMMA RecordDropsTheOldest ==
  ASSUME TimelineInv, NEW e \in NewEvent, Record(e), NEW k \in DOMAIN events,
         events[k] \notin Kept'
  PROVE  Len(events') = MaxEvents /\ \A f \in Kept' : events[k].id < f.id
  <1> USE DEF TimelineInv
  <1>1. k \in Nat /\ 1 <= k /\ k <= Len(events) /\ Len(events) \in Nat
    BY EventsAreAFunction
  <1>2. k + 1 \notin DOMAIN events'
    <2> SUFFICES ASSUME k + 1 \in DOMAIN events' PROVE FALSE
      OBVIOUS
    <2>1. events'[k + 1] = events[k]
      BY <1>1, RecordShifts
    <2> QED
      BY <2>1 DEF Kept
  <1>3. Len(events') = MaxEvents /\ MaxEvents <= k
    BY <1>1, <1>2, RecordShifts, TimelineAssumption
  <1>4. ASSUME NEW i \in DOMAIN events' PROVE events[k].id < events'[i].id
    <2>1. i \in Nat /\ i <= k
      BY <1>1, <1>3, RecordShifts, TimelineAssumption
    <2>2. CASE i = 1
      BY <2>2, RecordShifts DEF WithID, NewestFirst
    <2>3. CASE i # 1
      BY <1>1, <2>1, <2>3, RecordShifts DEF NewestFirst
    <2> QED
      BY <2>2, <2>3
  <1> QED
    BY <1>3, <1>4 DEF Kept

\* Clear drops the events of its torrent and no others.
LEMMA ClearDropsTheTorrent ==
  ASSUME TimelineInv, NEW d \in Subjects, Clear(d), NEW k \in DOMAIN events,
         events[k] \notin Kept'
  PROVE  \A f \in Kept' : f.download # events[k].download
  <1> USE DEF TimelineInv
  <1>0. PICK len \in 0..Len(events) : \E at \in [1..len -> DOMAIN events] :
          /\ DOMAIN events' = 1..len
          /\ \A i \in 1..len : events'[i] = events[at[i]]
          /\ \A n \in DOMAIN events : events[n].download # d <=> \E i \in 1..len : at[i] = n
    BY ClearThins
  <1>1. PICK at \in [1..len -> DOMAIN events] :
          /\ DOMAIN events' = 1..len
          /\ \A i \in 1..len : events'[i] = events[at[i]]
          /\ \A n \in DOMAIN events : events[n].download # d <=> \E i \in 1..len : at[i] = n
    BY <1>0
  <1>2. events[k].download = d
    BY <1>1 DEF Kept
  <1>3. \A i \in DOMAIN events' : events'[i].download # d
    BY <1>1
  <1> QED
    BY <1>2, <1>3 DEF Kept

\* OldestGoFirst holds of the recorder, too.
THEOREM TimelineKeeps == TimelineSpec => OldestGoFirst
  <1> DEFINE Goes(e) ==
        \/ e \in Kept'
        \/ Len(events') = MaxEvents /\ \A f \in Kept' : e.id < f.id
        \/ \A f \in Kept' : f.download # e.download
  <1>1. TimelineInv /\ [TimelineNext]_timelineVars => [\A e \in Kept : Goes(e)]_timelineVars
    <2> SUFFICES ASSUME TimelineInv, TimelineNext, NEW k \in DOMAIN events PROVE Goes(events[k])
      BY DEF Kept
    <2>1. CASE events[k] \in Kept'
      BY <2>1
    <2>2. CASE events[k] \notin Kept'
      BY <2>2, RecordDropsTheOldest, ClearDropsTheTorrent DEF TimelineNext
    <2> QED
      BY <2>1, <2>2
  <1> QED
    BY <1>1, TimelineInductive, PTL DEF TimelineSpec, OldestGoFirst
=============================================================================
