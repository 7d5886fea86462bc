---------------------------- MODULE MCCheckSync ----------------------------
(***************************************************************************)
(* check_sync (kern/sync/check_sync.c): the philosophers that use          *)
(* semaphores and those that use a monitor.  The two groups share no state,*)
(* so the second one starts here when the first one has finished.          *)
(***************************************************************************)

EXTENDS Naturals

CONSTANTS N, TIMES

ASSUME CheckSyncAssumption == N \in Nat \ {0} /\ TIMES \in Nat \ {0}

VARIABLES value, wait_queue, asleep, state, iter, pc,
          mvalue, mwait_queue, masleep, next_count, count, step, on,
          mstate, miter, mpc

Sema == INSTANCE PhiSema

Condvar == INSTANCE PhiCondvar WITH
            value <- mvalue, wait_queue <- mwait_queue, asleep <- masleep,
            state <- mstate, iter <- miter, pc <- mpc

semavars == <<value, wait_queue, asleep, state, iter, pc>>
condvars == <<mvalue, mwait_queue, masleep, next_count, count, step, on, mstate,
              miter, mpc>>
vars == <<semavars, condvars>>

Init == Sema!Init /\ Condvar!Init

SemaStep(i) == Sema!philosopher_using_semaphore(i) /\ UNCHANGED condvars

CondvarStep(i) ==
    /\ Sema!AllQuit
    /\ Condvar!philosopher_using_condvar(i)
    /\ UNCHANGED semavars

Next == \E i \in Sema!Phil : SemaStep(i) \/ CondvarStep(i)

\* The scheduler runs every thread that is runnable.
Spec ==
    /\ Init /\ [][Next]_vars
    /\ \A i \in Sema!Phil : WF_vars(SemaStep(i)) /\ WF_vars(CondvarStep(i))

\* down(s[i]) and cond_wait return only to a philosopher who has the forks.
WokenEats == Sema!EatsWithForks /\ Condvar!WokenEats

\* The philosophers with semaphores share the forks as Dining says.
SemaDining == Sema!ImplementsDining

\* The philosophers with condition variables share the forks as Dining says.
CondvarDining == Condvar!ImplementsDining

\* Every philosopher finishes the loop, so that the do_wait calls of check_sync
\* return: no deadlock between mutex, next, the condition variables and s[i],
\* and nobody starves.
AllFinish == <>(Sema!AllQuit /\ Condvar!AllQuit)

=============================================================================
