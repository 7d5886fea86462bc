------------------------------ MODULE PhiSema ------------------------------
(***************************************************************************)
(* The philosophers that use semaphores (kern/sync/check_sync.c): a mutex  *)
(* over the states and one semaphore per philosopher.                      *)
(*                                                                         *)
(* pc names the statement a philosopher executes next:                     *)
(*   think           do_sleep, then down(mutex) of phi_take_forks_sema     *)
(*   hungry, try, release, block   the rest of phi_take_forks_sema         *)
(*   eat             do_sleep, then down(mutex) of phi_put_forks_sema      *)
(*   put, left, right, leave       the rest of phi_put_forks_sema          *)
(*   quit            after the loop                                        *)
(* A philosopher past a down may still be asleep in it.                    *)
(***************************************************************************)
EXTENDS Naturals, Sequences

CONSTANTS N, TIMES

VARIABLES value, wait_queue, asleep,
          state,    \* state_sema
          iter,     \* the philosopher's iter inside the loop
          pc

vars == <<value, wait_queue, asleep, state, iter, pc>>

Phil == 0..N-1
LEFT(i) == (i - 1 + N) % N
RIGHT(i) == (i + 1) % N

mutex == <<"mutex">>
s(i) == <<"s", i>>
Sem == {mutex} \cup {s(i) : i \in Phil}

S == INSTANCE Semaphore WITH Thread <- Phil

Init ==
    /\ S!sem_init([x \in Sem |-> IF x = mutex THEN 1 ELSE 0])
    /\ state = [i \in Phil |-> "THINKING"]
    /\ iter = [i \in Phil |-> 1]
    /\ pc = [i \in Phil |-> "think"]

Goto(i, from, to) ==
    /\ pc[i] = from
    /\ S!Runs(i)
    /\ pc' = [pc EXCEPT ![i] = to]

Down(i, x, from, to) ==
    Goto(i, from, to) /\ S!down(i, x) /\ UNCHANGED <<state, iter>>

Up(i, x, from, to) ==
    Goto(i, from, to) /\ S!up(x) /\ UNCHANGED <<state, iter>>

Assign(i, v, from, to) ==
    /\ Goto(i, from, to)
    /\ state' = [state EXCEPT ![i] = v]
    /\ UNCHANGED <<value, wait_queue, asleep, iter>>

\* Fault: the neighbour on the right is not looked at.
CanEatLeft(i) == state[i] = "HUNGRY" /\ state[LEFT(i)] # "EATING"

\* Fault: a philosopher who is not hungry is given the forks as well.
CanEatAnyway(i) == state[LEFT(i)] # "EATING" /\ state[RIGHT(i)] # "EATING"

CanEat(i) ==
    /\ state[i] = "HUNGRY"
    /\ state[LEFT(i)] # "EATING"
    /\ state[RIGHT(i)] # "EATING"

phi_test_sema(i) ==
    IF CanEat(i)
    THEN state' = [state EXCEPT ![i] = "EATING"] /\ S!up(s(i))
    ELSE UNCHANGED <<value, wait_queue, asleep, state>>

Test(i, j, from, to) ==
    Goto(i, from, to) /\ phi_test_sema(j) /\ UNCHANGED iter

\* Fault: phi_take_forks_sema blocks while it holds the mutex.
TakeHolding(i) ==
    \/ Down(i, mutex, "think", "hungry")
    \/ Assign(i, "HUNGRY", "hungry", "try")
    \/ Test(i, i, "try", "release")
    \/ Down(i, s(i), "release", "block")
    \/ Up(i, mutex, "block", "eat")

phi_take_forks_sema(i) ==
    \/ Down(i, mutex, "think", "hungry")
    \/ Assign(i, "HUNGRY", "hungry", "try")
    \/ Test(i, i, "try", "release")
    \/ Up(i, mutex, "release", "block")
    \/ Down(i, s(i), "block", "eat")

phi_put_forks_sema(i) ==
    \/ Down(i, mutex, "eat", "put")
    \/ Assign(i, "THINKING", "put", "left")
    \/ Test(i, LEFT(i), "left", "right")
    \/ Test(i, RIGHT(i), "right", "leave")

\* up(mutex), and the test of the loop.
EndIteration(i) ==
    /\ Goto(i, "leave", IF iter[i] < TIMES THEN "think" ELSE "quit")
    /\ iter' = [iter EXCEPT ![i] = @ + 1]
    /\ S!up(mutex)
    /\ UNCHANGED state

philosopher_using_semaphore(i) ==
    phi_take_forks_sema(i) \/ phi_put_forks_sema(i) \/ EndIteration(i)

\* check_sync waits for every philosopher.
AllQuit == \A i \in Phil : pc[i] = "quit"

Next == \E i \in Phil : philosopher_using_semaphore(i)

Spec == Init /\ [][Next]_vars

-----------------------------------------------------------------------------

D == INSTANCE Dining WITH
        eating <- {i \in Phil : state[i] = "EATING"},
        meals <- [i \in Phil |-> iter[i] - (IF pc[i] \in {"left", "right", "leave"}
                                            THEN 0 ELSE 1)]

\* The states change as those of philosophers who share forks with their
\* neighbours and eat TIMES times each, although a neighbour makes a
\* philosopher EATING while that philosopher sleeps.
ImplementsDining == D!Spec

\* down(s[i]) returns only to a philosopher who has the forks, so that the
\* number of ups of s[i] and of blocked philosophers never drift apart.
EatsWithForks ==
    \A i \in Phil :
        pc[i] = "put" \/ (pc[i] = "eat" /\ S!Runs(i)) => state[i] = "EATING"

=============================================================================
