------------------------------ MODULE SemLock ------------------------------
(***************************************************************************)
(* Threads that use one semaphore as the kernel does: down (or try_down),  *)
(* a section, up.  With Units = 1 it is the mutex of lock_sfs_fs, lock_mm, *)
(* lock_files, lock_disk0 and lock_vdev_list.                              *)
(***************************************************************************)
EXTENDS Naturals, Sequences, FiniteSets

CONSTANTS Thread,
          Units     \* the initial value

ASSUME UnitsAssumption == Units \in Nat

VARIABLES value, wait_queue, asleep,
          inside    \* threads whose down or try_down has been called

vars == <<value, wait_queue, asleep, inside>>

Sem == {"sem"}
S == INSTANCE Semaphore

Queue == wait_queue["sem"]

\* Threads that hold a unit: those inside that are not still asleep.
Holders == inside \ asleep

Init == S!sem_init([s \in Sem |-> Units]) /\ inside = {}

Down(t) ==
    /\ t \notin inside
    /\ inside' = inside \cup {t}
    /\ S!down(t, "sem")

TryDown(t) ==
    /\ t \notin inside
    /\ inside' = inside \cup {t}
    /\ S!try_down("sem")

Up(t) ==
    /\ t \in Holders
    /\ inside' = inside \ {t}
    /\ S!up("sem")

Next == \E t \in Thread : Down(t) \/ TryDown(t) \/ Up(t)

Spec == Init /\ [][Next]_vars

-----------------------------------------------------------------------------

\* Values stay natural numbers, and only a thread inside down sleeps.
TypeOK ==
    /\ value \in [Sem -> Nat]
    /\ wait_queue \in [Sem -> Seq(Thread)]
    /\ asleep \subseteq inside
    /\ inside \subseteq Thread

\* A thread is asleep exactly while it is in the wait queue, and is there once:
\* a woken thread is never still queued, which would hand it a second unit, and
\* a sleeping one is never forgotten.
QueueIsAsleep ==
    /\ asleep = {Queue[i] : i \in 1..Len(Queue)}
    /\ \A i, j \in 1..Len(Queue) : Queue[i] = Queue[j] => i = j

\* No thread waits while a unit is free, so a newcomer cannot overtake one that
\* sleeps.
NoBarging == Queue # <<>> => value["sem"] = 0

\* The units are conserved: free ones and held ones add up to the initial
\* value.  With Units = 1 this is mutual exclusion.
Conservation == value["sem"] + Cardinality(Holders) = Units

\* Every thread that waits in down gets the semaphore: the hand-over in up is
\* in queue order.
WaitersServed == \A t \in Thread : t \in asleep ~> t \in Holders

=============================================================================
