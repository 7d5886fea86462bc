------------------------------ MODULE Monitor ------------------------------
(***************************************************************************)
(* The monitors of kern/sync/monitor.c: a mutex, condition variables and   *)
(* the "next" semaphore on which a thread that signals waits for the       *)
(* monitor to come back to it.  A routine in the monitor starts with       *)
(* down(mutex) and ends by waking "next" or the mutex, as in               *)
(* kern/sync/check_sync.c.                                                 *)
(*                                                                         *)
(* Where a thread is, in step:                                             *)
(*   out       outside                                                     *)
(*   in        inside, in the routine                                      *)
(*   block     in cond_wait, the monitor released, before down(cv.sem)     *)
(*   rewake    in cond_wait, after down(cv.sem)                            *)
(*   urgent    in cond_signal, after up(cv.sem), before down(next)         *)
(*   signalled in cond_signal, after down(next)                            *)
(* A thread past a down may still be asleep in it.  Threads interleave at  *)
(* every semaphore operation, as if the kernel were preemptive; without    *)
(* preemption there are fewer behaviours.                                  *)
(***************************************************************************)
EXTENDS Integers, Sequences, FiniteSets

CONSTANTS Thread, CV

VARIABLES value, wait_queue, asleep,
          next_count,   \* mt.next_count
          count,        \* cv.count
          step,         \* where each thread is
          on            \* the condition variable a thread waits on or signals

monvars == <<value, wait_queue, asleep, next_count, count, step, on>>

mutex == <<"mutex">>
next == <<"next">>
cv(c) == <<"cv", c>>

Sem == {mutex, next} \cup {cv(c) : c \in CV}

S == INSTANCE Semaphore

monitor_init ==
    /\ S!sem_init([s \in Sem |-> IF s = mutex THEN 1 ELSE 0])
    /\ next_count = 0
    /\ count = [c \in CV |-> 0]
    /\ step = [t \in Thread |-> "out"]
    /\ \E c \in CV : on = [t \in Thread |-> c]

At(t, label) == step[t] = label /\ S!Runs(t)

Goto(t, label) == step' = [step EXCEPT ![t] = label]

Enter(t) ==
    /\ At(t, "out")
    /\ S!down(t, mutex)
    /\ Goto(t, "in")
    /\ UNCHANGED <<next_count, count, on>>

\* Fault: the mutex is released although a thread waits on next.
PassOnMutex == S!up(mutex)

\* A thread that leaves, or waits, passes the monitor to one that signalled.
PassOn == IF next_count > 0 THEN S!up(next) ELSE S!up(mutex)

Leave(t) ==
    /\ At(t, "in")
    /\ PassOn
    /\ Goto(t, "out")
    /\ UNCHANGED <<next_count, count, on>>

-----------------------------------------------------------------------------
(* cond_wait *)

cond_wait(t, c) ==
    /\ At(t, "in")
    /\ count' = [count EXCEPT ![c] = @ + 1]
    /\ on' = [on EXCEPT ![t] = c]
    /\ PassOn
    /\ Goto(t, "block")
    /\ UNCHANGED next_count

Block(t) ==
    /\ At(t, "block")
    /\ S!down(t, cv(on[t]))
    /\ Goto(t, "rewake")
    /\ UNCHANGED <<next_count, count, on>>

Rewake(t) ==
    /\ At(t, "rewake")
    /\ count' = [count EXCEPT ![on[t]] = @ - 1]
    /\ Goto(t, "in")
    /\ UNCHANGED <<value, wait_queue, asleep, next_count, on>>

-----------------------------------------------------------------------------
(* cond_signal *)

\* Fault: the signal is sent although nobody waits.
cond_signal_always(t, c) ==
    /\ At(t, "in")
    /\ next_count' = next_count + 1
    /\ on' = [on EXCEPT ![t] = c]
    /\ S!up(cv(c))
    /\ Goto(t, "urgent")
    /\ UNCHANGED count

\* Fault: the thread that signals stays in the monitor.
cond_signal_stay(t, c) ==
    /\ At(t, "in")
    /\ count[c] > 0
    /\ S!up(cv(c))
    /\ UNCHANGED <<next_count, count, step, on>>

\* cond_signal when a thread waits; it does nothing otherwise.
cond_signal(t, c) ==
    /\ At(t, "in")
    /\ count[c] > 0
    /\ next_count' = next_count + 1
    /\ on' = [on EXCEPT ![t] = c]
    /\ S!up(cv(c))
    /\ Goto(t, "urgent")
    /\ UNCHANGED count

Urgent(t) ==
    /\ At(t, "urgent")
    /\ S!down(t, next)
    /\ Goto(t, "signalled")
    /\ UNCHANGED <<next_count, count, on>>

Signalled(t) ==
    /\ At(t, "signalled")
    /\ next_count' = next_count - 1
    /\ Goto(t, "in")
    /\ UNCHANGED <<value, wait_queue, asleep, count, on>>

\* The steps inside cond_wait and cond_signal.
Continue(t) == Block(t) \/ Rewake(t) \/ Urgent(t) \/ Signalled(t)

-----------------------------------------------------------------------------
(* Threads that use the monitor in any order. *)

Next ==
    \E t \in Thread :
        \/ Enter(t) \/ Leave(t) \/ Continue(t)
        \/ \E c \in CV : cond_wait(t, c) \/ cond_signal(t, c)

Spec == monitor_init /\ [][Next]_monvars

\* Threads that run monitor code.
Active == {t \in Thread : S!Runs(t) /\ step[t] \in {"in", "rewake", "signalled"}}

\* "Only one process at a time may be be active in a monitor", also around
\* cond_wait and cond_signal, where the monitor changes hands through three
\* kinds of semaphores.
OneActive == \A t, u \in Active : t = u

\* A signal reaches a thread that was waiting when it was sent: none is kept
\* in cv.sem for a thread that waits later.
NoStoredSignal ==
    \A c \in CV :
        value[cv(c)] <= Cardinality({t \in Thread : step[t] = "block" /\ on[t] = c})

\* The monitor is never lost: while a thread sleeps on the mutex or on next,
\* some thread inside can run and will pass it on.
NeverLost ==
    (\E t \in asleep : step[t] \in {"in", "signalled"}) =>
        \E u \in Thread : S!Runs(u) /\ step[u] # "out"

=============================================================================
