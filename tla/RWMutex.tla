------------------------------- MODULE RWMutex -------------------------------
(***************************************************************************)
(* Go's sync.RWMutex, for the locks that a goroutine holds, or waits for,  *)
(* across several of its steps.  A waiting writer keeps new readers out,   *)
(* as Go's does.  A critical section that does nothing else that can wait  *)
(* is one step: it is guarded by MayRead, or by MayWrite and WriteAtOnce.  *)
(***************************************************************************)
CONSTANTS Threads, Locks, Nobody

ASSUME RWMutexAssumption == Nobody \notin Threads

VARIABLE locks

RWMutexTypeOK ==
  locks \in [Locks -> [writer  : Threads \cup {Nobody},
                       waiting : SUBSET Threads,
                       readers : SUBSET Threads]]

RWMutexInit == locks = [l \in Locks |-> [writer |-> Nobody, waiting |-> {}, readers |-> {}]]

MayRead(l)  == locks[l].writer = Nobody /\ locks[l].waiting = {}
MayWrite(l) == locks[l].writer = Nobody /\ locks[l].readers = {}

RLock(t, l) ==
  /\ MayRead(l)
  /\ locks' = [locks EXCEPT ![l].readers = @ \cup {t}]

RUnlock(t, l) == locks' = [locks EXCEPT ![l].readers = @ \ {t}]

\* Lock, with readers still there.
Await(t, l) ==
  /\ ~ MayWrite(l)
  /\ t \notin locks[l].waiting
  /\ locks' = [locks EXCEPT ![l].waiting = @ \cup {t}]

Lock(t, l) ==
  /\ MayWrite(l)
  /\ locks' = [locks EXCEPT ![l].waiting = @ \ {t}, ![l].writer = t]

Unlock(l) == locks' = [locks EXCEPT ![l].writer = Nobody]

WriteAtOnce(t, l) ==
  /\ MayWrite(l)
  /\ locks' = [locks EXCEPT ![l].waiting = @ \ {t}]
=============================================================================
