----------------------------- MODULE SyncProofs -----------------------------
(***************************************************************************)
(* Mutual exclusion and conservation for the kernel semaphores, for any    *)
(* number of threads and any initial value, and the monitor beside them.   *)
(***************************************************************************)
EXTENDS MCSync, FiniteSetTheorems, TLAPS

\* Every leaf has a minute.
USE SMTT(30), ZenonT(30), SMTT(60), SMTT(61)

\* The inductive invariant.  Conservation needs the queue to agree with the
\* sleepers: up hands its unit to the head of the queue, which must be a
\* thread that is inside and holds none.
Inv ==
    /\ TypeOK
    /\ QueueIsAsleep
    /\ NoBarging
    /\ IsFiniteSet(Holders)
    /\ Conservation

\* The invariant holds after sem_init.
LEMMA InitInv == Init => Inv
<1> SUFFICES ASSUME Init PROVE Inv
  OBVIOUS
<1> USE UnitsAssumption DEF Init, S!sem_init, Sem
<1>1. TypeOK /\ QueueIsAsleep /\ NoBarging
  BY DEF TypeOK, QueueIsAsleep, NoBarging, Queue
<1>2. Holders = {}
  BY DEF Holders
<1>3. IsFiniteSet(Holders) /\ Cardinality(Holders) = 0
  BY <1>2, FS_EmptySet
<1> QED
  BY <1>1, <1>3 DEF Inv, Conservation

\* A unit is taken from the value: down when it does not sleep, and try_down.
LEMMA TakeStep ==
    ASSUME Inv, NEW t \in Thread, t \notin inside, inside' = inside \cup {t},
           value["sem"] > 0, value' = [value EXCEPT !["sem"] = @ - 1],
           UNCHANGED <<wait_queue, asleep>>
    PROVE  Inv'
<1> USE DEF Inv
<1>1. TypeOK'
  BY DEF TypeOK, Sem
<1>2. QueueIsAsleep' /\ NoBarging'
  BY DEF QueueIsAsleep, NoBarging, Queue
<1>3. Holders' = Holders \cup {t} /\ t \notin Holders
  BY DEF Holders, TypeOK
<1>4. IsFiniteSet(Holders') /\ Cardinality(Holders') = Cardinality(Holders) + 1
  BY <1>3, FS_AddElement
<1>5. Cardinality(Holders) \in Nat
  BY FS_CardinalityType
<1> QED
  BY <1>1, <1>2, <1>4, <1>5 DEF Conservation, TypeOK, Sem

\* down when it sleeps.
LEMMA SleepStep ==
    ASSUME Inv, NEW t \in Thread, t \notin inside, inside' = inside \cup {t},
           ~(value["sem"] > 0),
           wait_queue' = [wait_queue EXCEPT !["sem"] = Append(@, t)],
           asleep' = asleep \cup {t},
           UNCHANGED value
    PROVE  Inv'
<1> USE DEF Inv
<1>1. TypeOK'
  BY DEF TypeOK, Sem
<1>2. Queue \in Seq(Thread) /\ Queue' = Append(Queue, t)
  BY DEF TypeOK, Sem, Queue
<1>3. /\ Len(Queue') = Len(Queue) + 1 /\ Len(Queue) \in Nat
      /\ \A i \in 1..Len(Queue) : Queue'[i] = Queue[i]
      /\ Queue'[Len(Queue) + 1] = t
  BY <1>2
<1>4. QueueIsAsleep'
  <2>1. \A i \in 1..Len(Queue) : Queue[i] \in asleep
    BY DEF QueueIsAsleep
  <2>2. t \notin asleep
    BY DEF TypeOK
  <2>3. \A i, j \in 1..Len(Queue') : Queue'[i] = Queue'[j] => i = j
    BY <1>3, <2>1, <2>2 DEF QueueIsAsleep
  <2>4. {Queue'[i] : i \in 1..Len(Queue')} = {Queue[i] : i \in 1..Len(Queue)} \cup {t}
    BY <1>3
  <2> QED
    BY <2>3, <2>4, ZenonT(60) DEF QueueIsAsleep
<1>5. NoBarging'
  BY DEF NoBarging, TypeOK, Sem
<1>6. Holders' = Holders
  BY DEF Holders, TypeOK
<1> QED
  BY <1>1, <1>4, <1>5, <1>6 DEF Conservation

\* up when nobody waits.
LEMMA FreeStep ==
    ASSUME Inv, NEW t \in Holders, inside' = inside \ {t}, Queue = <<>>,
           value' = [value EXCEPT !["sem"] = @ + 1],
           UNCHANGED <<wait_queue, asleep>>
    PROVE  Inv'
<1> USE DEF Inv
<1>1. asleep = {}
  BY DEF QueueIsAsleep
<1>2. TypeOK'
  BY <1>1 DEF TypeOK, Sem
<1>3. QueueIsAsleep' /\ NoBarging'
  BY DEF QueueIsAsleep, NoBarging, Queue
<1>4. Holders' = Holders \ {t}
  BY DEF Holders
<1>5. IsFiniteSet(Holders') /\ Cardinality(Holders') = Cardinality(Holders) - 1
  BY <1>4, FS_RemoveElement
<1>6. Cardinality(Holders) \in Nat
  BY FS_CardinalityType
<1> QED
  BY <1>2, <1>3, <1>5, <1>6 DEF Conservation, TypeOK, Sem

\* up when a thread waits: t hands its unit to the head of the queue.
LEMMA HandStep ==
    ASSUME Inv, NEW t \in Holders, inside' = inside \ {t}, Queue # <<>>,
           asleep' = asleep \ {Head(Queue)},
           wait_queue' = [wait_queue EXCEPT !["sem"] = Tail(@)],
           UNCHANGED value
    PROVE  Inv'
<1> USE DEF Inv
<1> DEFINE u == Head(Queue)
<1>1. Queue \in Seq(Thread) /\ Queue' = Tail(Queue)
  BY DEF TypeOK, Sem, Queue
<1>2. /\ Len(Queue) \in Nat /\ Len(Queue) > 0 /\ u = Queue[1]
      /\ Len(Queue') = Len(Queue) - 1
      /\ \A i \in 1..Len(Queue') : Queue'[i] = Queue[i + 1]
  BY <1>1
<1>3. u \in asleep /\ u \in inside /\ u # t /\ u \notin Holders
  BY <1>2 DEF QueueIsAsleep, TypeOK, Holders
<1>4. TypeOK'
  <2>1. wait_queue' \in [Sem -> Seq(Thread)]
    BY <1>1 DEF TypeOK, Sem, Queue
  <2>2. asleep' \subseteq inside'
    BY DEF TypeOK, Holders
  <2> QED
    BY <2>1, <2>2 DEF TypeOK
<1> HIDE DEF u
<1>5. QueueIsAsleep'
  <2>1. \A i, j \in 1..Len(Queue') : Queue'[i] = Queue'[j] => i = j
    BY <1>2 DEF QueueIsAsleep
  <2>2. \A i \in 1..Len(Queue') : Queue'[i] \in asleep \ {u}
    BY <1>2 DEF QueueIsAsleep
  <2>3. ASSUME NEW v \in asleep \ {u} PROVE \E i \in 1..Len(Queue') : Queue'[i] = v
    <3>1. PICK i \in 1..Len(Queue) : Queue[i] = v
      BY DEF QueueIsAsleep
    <3>2. i # 1 /\ i - 1 \in 1..Len(Queue')
      BY <1>2, <3>1
    <3>3. (i - 1) + 1 = i /\ Queue'[i - 1] = Queue[(i - 1) + 1]
      BY <1>2, <3>2
    <3> QED
      BY <3>1, <3>2, <3>3
  <2>4. asleep' = asleep \ {u}
    BY DEF u
  <2>5. asleep \ {u} = {Queue'[i] : i \in 1..Len(Queue')}
    BY <2>2, <2>3
  <2> QED
    BY <2>1, <2>4, <2>5, ZenonT(60) DEF QueueIsAsleep
<1>6. NoBarging'
  BY DEF NoBarging
<1>7. Holders' = (Holders \ {t}) \cup {u}
  BY <1>3 DEF Holders, u
<1>8. IsFiniteSet(Holders \ {t}) /\ Cardinality(Holders \ {t}) = Cardinality(Holders) - 1
  BY FS_RemoveElement
<1>9. u \notin Holders \ {t}
  BY <1>3
<1>10. IsFiniteSet(Holders') /\ Cardinality(Holders') = Cardinality(Holders \ {t}) + 1
  BY <1>7, <1>8, <1>9, FS_AddElement
<1>11. Cardinality(Holders) \in Nat
  BY FS_CardinalityType
<1> QED
  BY <1>4, <1>5, <1>6, <1>8, <1>10, <1>11 DEF Conservation

\* up, down and try_down keep the invariant.
THEOREM StepInv == Inv /\ [Next]_vars => Inv'
<1> SUFFICES ASSUME Inv, [Next]_vars PROVE Inv'
  OBVIOUS
<1>1. CASE UNCHANGED vars
  BY <1>1 DEF vars, Inv, TypeOK, QueueIsAsleep, NoBarging, Conservation, Holders, Queue
<1>2. ASSUME NEW t \in Thread, Down(t) PROVE Inv'
  BY <1>2, TakeStep, SleepStep DEF Down, S!down
<1>3. ASSUME NEW t \in Thread, TryDown(t) PROVE Inv'
  BY <1>3, TakeStep DEF TryDown, S!try_down
<1>4. ASSUME NEW t \in Thread, Up(t) PROVE Inv'
  BY <1>4, FreeStep, HandStep DEF Up, S!up, Queue
<1> QED
  BY <1>1, <1>2, <1>3, <1>4 DEF Next

\* The inductive invariant of the semaphore holds in every reachable state.
THEOREM InvCorrect == Spec => []Inv
  BY InitInv, StepInv, PTL DEF Spec

\* The units of a semaphore are conserved by up, down and try_down, whatever
\* the number of threads: with Units = 1, at most one thread is in the section.
THEOREM SemConservation == Spec => []Conservation
  BY InvCorrect, PTL DEF Inv

\* The wait queue holds exactly the sleeping threads, once each.
THEOREM SemQueueIsAsleep == Spec => []QueueIsAsleep
  BY InvCorrect, PTL DEF Inv

\* No thread sleeps while a unit is free.
THEOREM SemNoBarging == Spec => []NoBarging
  BY InvCorrect, PTL DEF Inv

-----------------------------------------------------------------------------
(* The monitor of MCSync is the one of MonitorProofs. *)

MP == INSTANCE MonitorProofs WITH
        value <- mvalue, wait_queue <- mwait_queue, asleep <- masleep

\* monitor_init gives the monitor to its mutex.
LEMMA MonitorInit == M!monitor_init => MP!Full
<1> SUFFICES ASSUME M!monitor_init PROVE MP!Full
  OBVIOUS
<1>1. MP!monitor_init
  BY DEF M!monitor_init, MP!monitor_init, M!S!sem_init, MP!S!sem_init,
         M!Sem, MP!Sem, M!cv, MP!cv, M!mutex, MP!mutex, M!next, MP!next
<1> QED
  BY <1>1, MP!InitFull

\* A thread that uses the monitor keeps the invariant of MonitorProofs, and so does
\* one that uses the semaphore.
LEMMA MonitorKept == MP!Full /\ [MCNext]_<<vars, monvars>> => MP!Full'
<1> SUFFICES ASSUME MP!Full, [MCNext]_<<vars, monvars>> PROVE MP!Full'
  OBVIOUS
<1>1. CASE UNCHANGED monvars
  <2>1. UNCHANGED MP!monvars
    BY <1>1 DEF monvars, MP!monvars
  <2> QED
    BY <2>1, MP!NextFull
<1>2. ASSUME NEW t \in Thread, M!Enter(t) \/ M!Leave(t) \/ M!Continue(t)
      PROVE  MP!Full'
  <2> USE DEF M!mutex, MP!mutex, M!next, MP!next, M!cv, MP!cv, M!At, MP!At,
              M!Goto, MP!Goto, M!S!Runs, MP!S!Runs, M!S!up, MP!S!up, M!S!down, MP!S!down,
              M!PassOn, MP!PassOn
  <2>1. MP!Enter(t) \/ MP!Leave(t) \/ MP!Continue(t)
    BY <1>2, ZenonT(60) DEF M!Enter, MP!Enter, M!Leave, MP!Leave, M!Continue, MP!Continue, M!Block,
       MP!Block, M!Rewake, MP!Rewake, M!Urgent, MP!Urgent, M!Signalled, MP!Signalled
  <2> QED
    BY <2>1, MP!NextFull, ZenonT(60) DEF MP!Next
<1>3. ASSUME NEW t \in Thread, NEW c \in CV, M!cond_wait(t, c) \/ M!cond_signal(t, c)
      PROVE  MP!Full'
  <2>1. MP!cond_wait(t, c) \/ MP!cond_signal(t, c)
    BY <1>3 DEF M!cond_wait, MP!cond_wait, M!cond_signal, MP!cond_signal,
       M!mutex, MP!mutex, M!next, MP!next, M!cv, MP!cv, M!At, MP!At,
       M!Goto, MP!Goto, M!S!Runs, MP!S!Runs, M!S!up, MP!S!up, M!PassOn, MP!PassOn
  <2> QED
    BY <2>1, MP!NextFull, ZenonT(60) DEF MP!Next
<1> QED
  BY <1>1, <1>2, <1>3 DEF MCNext, SemStep, MonitorStep, M!Next, monvars

\* What the invariant of MonitorProofs says of one monitor is MonitorSafe.
LEMMA FullSafe == MP!Full => MonitorSafe
<1> SUFFICES ASSUME MP!Full PROVE MonitorSafe
  OBVIOUS
<1>1. MP!OneActive /\ MP!NeverLost /\ MP!NoStoredSignal
  BY MP!FullNeverLost, MP!FullNoStoredSignal DEF MP!Full, MP!Inv, MP!OneToken
<1>2. M!OneActive
  BY <1>1 DEF MP!OneActive, M!OneActive, M!Active, MP!Active, M!S!Runs, MP!S!Runs
<1>3. M!NeverLost
  BY <1>1 DEF M!NeverLost, MP!NeverLost, M!S!Runs, MP!S!Runs
<1>4. M!NoStoredSignal
  <2>1. \A T : M!Cardinality(T) = MP!Cardinality(T)
    BY ZenonT(60) DEF M!Cardinality, MP!Cardinality
  <2> QED
    BY <1>1, <2>1 DEF M!NoStoredSignal, MP!NoStoredSignal, M!cv, MP!cv
<1> QED
  BY <1>2, <1>3, <1>4, ZenonT(60) DEF MonitorSafe

\* At most one thread is active in a monitor, no signal is kept for a thread that
\* waits later, and the monitor is passed on while somebody sleeps: for any threads
\* and any condition variables, in the system that has a semaphore beside it.
THEOREM SyncMonitorSafe == MCSpec => []MonitorSafe
<1>1. MCInit => MP!Full
  BY MonitorInit DEF MCInit
<1> QED
  BY <1>1, MonitorKept, FullSafe, PTL DEF MCSpec

=============================================================================
