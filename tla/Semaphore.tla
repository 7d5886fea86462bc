----------------------------- MODULE Semaphore -----------------------------
(***************************************************************************)
(* Kernel semaphores and the wait queue under them (kern/sync/sem.c,       *)
(* kern/sync/wait.c).  up and down run with interrupts disabled, so each   *)
(* is one step up to schedule().  The sleep is WT_KSEM, which do_kill does *)
(* not interrupt: only up wakes a thread, and it takes the wait_t off the  *)
(* queue when it does, so a thread that runs again after schedule() finds  *)
(* itself off the queue with wakeup_flags = WT_KSEM and down returns.      *)
(***************************************************************************)
EXTENDS Naturals, Sequences

CONSTANTS Thread, Sem

VARIABLES value,        \* sem->value
          wait_queue,   \* the threads in sem->wait_queue, in order
          asleep        \* threads that are PROC_SLEEPING in a down

semvars == <<value, wait_queue, asleep>>

\* sem_init: v gives each semaphore its value.
sem_init(v) ==
    /\ value = v
    /\ wait_queue = [s \in Sem |-> <<>>]
    /\ asleep = {}

\* Fault: the semaphore is incremented although a thread is handed it.
UpTwice(s) ==
    /\ value' = [value EXCEPT ![s] = @ + 1]
    /\ IF wait_queue[s] = <<>>
       THEN UNCHANGED <<wait_queue, asleep>>
       ELSE /\ asleep' = asleep \ {Head(wait_queue[s])}
            /\ wait_queue' = [wait_queue EXCEPT ![s] = Tail(@)]

\* Fault: up increments the value and wakes nobody.
UpNoWake(s) ==
    /\ value' = [value EXCEPT ![s] = @ + 1]
    /\ UNCHANGED <<wait_queue, asleep>>

\* A thread that waits is handed the semaphore; the value does not change.
up(s) ==
    IF wait_queue[s] = <<>>
    THEN /\ value' = [value EXCEPT ![s] = @ + 1]
         /\ UNCHANGED <<wait_queue, asleep>>
    ELSE /\ asleep' = asleep \ {Head(wait_queue[s])}
         /\ wait_queue' = [wait_queue EXCEPT ![s] = Tail(@)]
         /\ UNCHANGED value

\* Fault: the thread that waits is not put to sleep.
DownNoSleep(t, s) ==
    IF value[s] > 0
    THEN /\ value' = [value EXCEPT ![s] = @ - 1]
         /\ UNCHANGED <<wait_queue, asleep>>
    ELSE /\ wait_queue' = [wait_queue EXCEPT ![s] = Append(@, t)]
         /\ UNCHANGED <<value, asleep>>

\* t goes on at once, or sleeps in the queue until an up hands it the semaphore.
down(t, s) ==
    IF value[s] > 0
    THEN /\ value' = [value EXCEPT ![s] = @ - 1]
         /\ UNCHANGED <<wait_queue, asleep>>
    ELSE /\ wait_queue' = [wait_queue EXCEPT ![s] = Append(@, t)]
         /\ asleep' = asleep \cup {t}
         /\ UNCHANGED value

\* try_down when it returns 1.
try_down(s) ==
    /\ value[s] > 0
    /\ value' = [value EXCEPT ![s] = @ - 1]
    /\ UNCHANGED <<wait_queue, asleep>>

\* A thread that can run.
Runs(t) == t \notin asleep

=============================================================================
