----------------------------- MODULE StdinRing -----------------------------
(***************************************************************************)
(* The keyboard buffer of the stdin device (kern/fs/devs/dev_stdin.c): the *)
(* interrupt handler puts characters in a ring, dev_stdin_read takes them  *)
(* out and sleeps when there are none.                                     *)
(*                                                                         *)
(* The characters are numbered as they are typed; what a reader has copied *)
(* is told apart only by these numbers.  wakeup_queue wakes every waiter,  *)
(* so the queue is a set.                                                  *)
(***************************************************************************)
EXTENDS Integers, Sequences, Functions

CONSTANTS Reader,
          STDIN_BUFSIZE,
          Lengths,      \* of the buffers to read into
          MaxTyped      \* characters typed

StdinAssumption ==
    STDIN_BUFSIZE \in Nat \ {0} /\ Lengths \subseteq Nat /\ MaxTyped \in Nat

VARIABLES buffer, p_rpos, p_wpos,
          typed,        \* characters typed
          dropped,      \* a character came when the ring was full
          got,          \* characters read, in order
          reader,       \* [at, left, flags] of each reader
          killed,       \* those with PF_EXITING
          wait_queue    \* the readers whose wait_t is in the queue

vars == <<buffer, p_rpos, p_wpos, typed, dropped, got, reader, killed, wait_queue>>

Index == 0 .. STDIN_BUFSIZE - 1

Idle == [at |-> "idle", left |-> 0, flags |-> ""]

Init ==
    /\ buffer = [i \in Index |-> 0] /\ p_rpos = 0 /\ p_wpos = 0
    /\ typed = 0 /\ dropped = FALSE /\ got = <<>>
    /\ reader = [r \in Reader |-> Idle] /\ killed = {} /\ wait_queue = {}

\* wakeup_queue with del: every waiter off the queue and runnable.  A waiter that
\* do_kill made runnable is still on the queue and has its flags overwritten.
wakeup_queue ==
    /\ reader' = [r \in Reader |-> IF r \in wait_queue
                                   THEN [reader[r] EXCEPT !.at = "ready", !.flags = "WT_KBD"]
                                   ELSE reader[r]]
    /\ wait_queue' = {}

\* Fault: the room is not checked.
WriteOver ==
    /\ typed < MaxTyped
    /\ typed' = typed + 1
    /\ buffer' = [buffer EXCEPT ![p_wpos % STDIN_BUFSIZE] = typed + 1]
    /\ p_wpos' = p_wpos + 1 /\ UNCHANGED dropped
    /\ wakeup_queue
    /\ UNCHANGED <<p_rpos, got, killed>>

\* A full ring keeps p_wpos; the character goes where the oldest unread one was.
dev_stdin_write ==
    /\ typed < MaxTyped
    /\ typed' = typed + 1
    /\ buffer' = [buffer EXCEPT ![p_wpos % STDIN_BUFSIZE] = typed + 1]
    /\ LET room == p_wpos - p_rpos < STDIN_BUFSIZE
       IN  p_wpos' = (IF room THEN p_wpos + 1 ELSE p_wpos) /\ dropped' = (dropped \/ ~room)
    /\ wakeup_queue
    /\ UNCHANGED <<p_rpos, got, killed>>

least(a, b) == IF a < b THEN a ELSE b

\* The loop of dev_stdin_read up to its end or to schedule(), from which it comes
\* back here to try again.
Fetch(r, left) ==
    LET n == least(left, p_wpos - p_rpos)
    IN  /\ got' = got \o [i \in 1 .. n |-> buffer[(p_rpos + i - 1) % STDIN_BUFSIZE]]
        /\ p_rpos' = p_rpos + n
        /\ IF n = left
           THEN reader' = [reader EXCEPT ![r] = Idle] /\ wait_queue' = wait_queue \ {r}
           ELSE /\ reader' = [reader EXCEPT ![r] = [at |-> "asleep", left |-> left - n,
                                                    flags |-> "WT_INTERRUPTED"]]
                /\ wait_queue' = wait_queue \cup {r}
        /\ UNCHANGED <<buffer, p_wpos, typed, dropped, killed>>

\* A killed process exits when its call returns, and reads no more.
dev_stdin_read(r, len) == reader[r].at = "idle" /\ r \notin killed /\ Fetch(r, len)

\* Back from schedule(): off the queue, and again if it was a key that came.
Resume(r) ==
    /\ reader[r].at = "ready"
    /\ IF reader[r].flags = "WT_KBD" THEN Fetch(r, reader[r].left)
       ELSE /\ reader' = [reader EXCEPT ![r] = Idle]
            /\ wait_queue' = wait_queue \ {r}
            /\ UNCHANGED <<buffer, p_rpos, p_wpos, typed, dropped, got, killed>>

\* do_kill of a reader in WT_INTERRUPTED makes it runnable and leaves the queue;
\* a second one is refused.
do_kill(r) ==
    /\ r \notin killed /\ killed' = killed \cup {r}
    /\ reader' = IF reader[r].at = "asleep" THEN [reader EXCEPT ![r].at = "ready"] ELSE reader
    /\ UNCHANGED <<buffer, p_rpos, p_wpos, typed, dropped, got, wait_queue>>

Next ==
    \/ dev_stdin_write
    \/ \E r \in Reader : \/ \E len \in Lengths : dev_stdin_read(r, len)
                         \/ Resume(r)
                         \/ do_kill(r)

Spec == Init /\ [][Next]_vars
-----------------------------------------------------------------------------
Unread == [i \in 1 .. p_wpos - p_rpos |-> buffer[(p_rpos + i - 1) % STDIN_BUFSIZE]]

\* Interrupts, readers that sleep in the middle of a read and kills never make a
\* reader sleep while there is something to read, deliver a character twice, or
\* lose or reorder one as long as the ring never was full.
KeyboardExact ==
    /\ p_wpos - p_rpos \in 0 .. STDIN_BUFSIZE
    /\ \A r \in Reader : reader[r].at = "asleep" => p_rpos = p_wpos /\ r \in wait_queue
    /\ IsInjective(got \o Unread)
    /\ ~dropped => got \o Unread = [i \in 1 .. typed |-> i]

=============================================================================
