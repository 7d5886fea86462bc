----------------------------- MODULE PhiCondvar -----------------------------
(***************************************************************************)
(* The philosophers that use a monitor with one condition variable each    *)
(* (kern/sync/check_sync.c).  A neighbour who puts the forks down makes a  *)
(* hungry philosopher EATING and signals; the philosopher tests with "if", *)
(* not "while", and so relies on how the monitor changes hands.            *)
(*                                                                         *)
(* pc names the statement a philosopher executes next:                     *)
(*   think                        do_sleep, then down(mutex)               *)
(*   hungry, try, wait, release   the rest of phi_take_forks_condvar       *)
(*   eat                          do_sleep, then down(mutex)               *)
(*   put, left, right, leave      the rest of phi_put_forks_condvar        *)
(*   quit                         after the loop                           *)
(***************************************************************************)
EXTENDS Naturals, Sequences, FiniteSets

CONSTANTS N, TIMES

VARIABLES value, wait_queue, asleep, next_count, count, step, on,
          state,    \* state_condvar
          iter,     \* the philosopher's iter inside the loop
          pc

monvars == <<value, wait_queue, asleep, next_count, count, step, on>>
vars == <<monvars, state, iter, pc>>

Phil == 0..N-1
LEFT(i) == (i - 1 + N) % N
RIGHT(i) == (i + 1) % N

M == INSTANCE Monitor WITH Thread <- Phil, CV <- Phil

Init ==
    /\ M!monitor_init
    /\ on = [i \in Phil |-> 0]
    /\ state = [i \in Phil |-> "THINKING"]
    /\ iter = [i \in Phil |-> 1]
    /\ pc = [i \in Phil |-> "think"]

Goto(i, from, to) == pc[i] = from /\ pc' = [pc EXCEPT ![i] = to]

Enter(i, from, to) ==
    Goto(i, from, to) /\ M!Enter(i) /\ UNCHANGED <<state, iter>>

Assign(i, v, from, to) ==
    /\ M!At(i, "in")
    /\ Goto(i, from, to)
    /\ state' = [state EXCEPT ![i] = v]
    /\ UNCHANGED <<monvars, iter>>

CanEat(i) ==
    /\ state[i] = "HUNGRY"
    /\ state[LEFT(i)] # "EATING"
    /\ state[RIGHT(i)] # "EATING"

Signal(i, j) ==
    IF count[j] > 0 THEN M!cond_signal(i, j) ELSE UNCHANGED monvars

\* Fault: a neighbour is signalled but left to take the forks itself.
SignalOnly(i, j) ==
    IF CanEat(j)
    THEN /\ state' = IF i = j THEN [state EXCEPT ![j] = "EATING"] ELSE state
         /\ Signal(i, j)
    ELSE UNCHANGED <<monvars, state>>

\* Fault: the neighbour on the right is not looked at.
TestLeft(i, j) ==
    IF state[j] = "HUNGRY" /\ state[LEFT(j)] # "EATING"
    THEN state' = [state EXCEPT ![j] = "EATING"] /\ Signal(i, j)
    ELSE UNCHANGED <<monvars, state>>

\* Philosopher i calls phi_test_condvar(j).
phi_test_condvar(i, j) ==
    IF CanEat(j)
    THEN state' = [state EXCEPT ![j] = "EATING"] /\ Signal(i, j)
    ELSE UNCHANGED <<monvars, state>>

Test(i, j, from, to) ==
    M!At(i, "in") /\ Goto(i, from, to) /\ phi_test_condvar(i, j) /\ UNCHANGED iter

WaitForForks(i) ==
    /\ M!At(i, "in")
    /\ Goto(i, "wait", "release")
    /\ IF state[i] = "HUNGRY" THEN M!cond_wait(i, i) ELSE UNCHANGED monvars
    /\ UNCHANGED <<state, iter>>

phi_take_forks_condvar(i) ==
    \/ Enter(i, "think", "hungry")
    \/ Assign(i, "HUNGRY", "hungry", "try")
    \/ Test(i, i, "try", "wait")
    \/ WaitForForks(i)
    \/ Goto(i, "release", "eat") /\ M!Leave(i) /\ UNCHANGED <<state, iter>>

phi_put_forks_condvar(i) ==
    \/ Enter(i, "eat", "put")
    \/ Assign(i, "THINKING", "put", "left")
    \/ Test(i, LEFT(i), "left", "right")
    \/ Test(i, RIGHT(i), "right", "leave")

\* The end of phi_put_forks_condvar, and the test of the loop.
EndIteration(i) ==
    /\ Goto(i, "leave", IF iter[i] < TIMES THEN "think" ELSE "quit")
    /\ iter' = [iter EXCEPT ![i] = @ + 1]
    /\ M!Leave(i)
    /\ UNCHANGED state

\* A step inside cond_wait or cond_signal.
InMonitor(i) == M!Continue(i) /\ UNCHANGED <<state, iter, pc>>

philosopher_using_condvar(i) ==
    \/ phi_take_forks_condvar(i)
    \/ phi_put_forks_condvar(i)
    \/ EndIteration(i)
    \/ InMonitor(i)

\* check_sync waits for every philosopher.
AllQuit == \A i \in Phil : pc[i] = "quit"

Next == \E i \in Phil : philosopher_using_condvar(i)

Spec == Init /\ [][Next]_vars

-----------------------------------------------------------------------------

D == INSTANCE Dining WITH
        eating <- {i \in Phil : state[i] = "EATING"},
        meals <- [i \in Phil |-> iter[i] - (IF pc[i] \in {"left", "right", "leave"}
                                            THEN 0 ELSE 1)]

\* The states change as those of philosophers who share forks with their
\* neighbours and eat TIMES times each.
ImplementsDining == D!Spec

\* cond_wait returns to a philosopher who has the forks: phi_take_forks_condvar
\* does not test again after it, which is right only because cond_signal hands
\* the monitor to the thread it wakes.
WokenEats ==
    \A i \in Phil : pc[i] = "release" /\ M!At(i, "in") => state[i] = "EATING"

=============================================================================
