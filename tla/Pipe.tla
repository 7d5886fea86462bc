-------------------------------- MODULE Pipe --------------------------------
(***************************************************************************)
(* The pipes of kern/fs/pipe/pipe.c: a ring buffer with a queue of readers *)
(* and a queue of writers.  A call moves all the bytes it was asked for,   *)
(* and sleeps with WT_IPC whenever the pipe is empty or full.  Interrupts  *)
(* are off outside the sleep, so a call that runs keeps the CPU from one   *)
(* byte to the next; at schedule() any process may come.  wakeup_queue     *)
(* wakes every waiter, so the queues are sets.                             *)
(*                                                                         *)
(* A process can be killed: do_kill wakes it from the sleep with its       *)
(* wakeup_flags still WT_INTERRUPTED, and it exits when the call returns.  *)
(***************************************************************************)
EXTENDS Integers, FiniteSets

CONSTANTS Proc,
          NONE,
          Byte,
          PIPE_BUFFER_SIZE,
          MaxLen            \* the longest read or write

PipeAssumption ==
    /\ PIPE_BUFFER_SIZE \in Nat /\ PIPE_BUFFER_SIZE > 1
    /\ MaxLen \in Nat
    /\ NONE \notin Proc
    /\ Byte # {}

VARIABLES p_head, p_tail, p_buffer,
          p_read_queue,     \* processes whose wait_t is in the queue
          p_write_queue,
          asleep,           \* processes in PROC_SLEEPING
          flags,            \* wait->wakeup_flags
          exiting,          \* processes with PF_EXITING
          pc,               \* "user", or inside "read" or "write"
          left,             \* iob->io_resid - ret
          got,              \* the byte the last read stored
          cpu               \* the process inside the loop, or NONE

vars == <<p_head, p_tail, p_buffer, p_read_queue, p_write_queue, asleep, flags,
          exiting, pc, left, got, cpu>>

bufvars == <<p_head, p_tail, p_buffer, got>>

Index == 0..(PIPE_BUFFER_SIZE - 1)

pipe_empty == p_head = p_tail

\* Fault: the end of the buffer is not wrapped round.
pipe_full_flat == p_head = p_tail + 1

pipe_full == p_head = (p_tail + 1) % PIPE_BUFFER_SIZE

pipe_create_inode ==
    /\ p_head = 0 /\ p_tail = 0
    /\ p_buffer \in [Index -> Byte]
    /\ \A i, j \in Index : p_buffer[i] = p_buffer[j]
    /\ p_read_queue = {} /\ p_write_queue = {}

Init ==
    /\ pipe_create_inode
    /\ asleep = {}
    /\ flags = [p \in Proc |-> "INTERRUPTED"]
    /\ exiting = {}
    /\ pc = [p \in Proc |-> "user"]
    /\ left = [p \in Proc |-> 0]
    /\ got = p_buffer[0]
    /\ cpu = NONE

-----------------------------------------------------------------------------
(* Calls, sleeps and wakeups *)

Call(p, op) ==
    /\ cpu = NONE /\ pc[p] = "user"
    /\ pc' = [pc EXCEPT ![p] = op]
    /\ \E n \in 1..MaxLen : left' = [left EXCEPT ![p] = n]
    /\ cpu' = p
    /\ UNCHANGED <<bufvars, p_read_queue, p_write_queue, asleep, flags, exiting>>

\* The loop ends and the call returns.
Return(p) ==
    /\ cpu = p /\ left[p] = 0
    /\ pc' = [pc EXCEPT ![p] = "user"]
    /\ cpu' = NONE
    /\ UNCHANGED <<bufvars, p_read_queue, p_write_queue, asleep, flags, exiting,
                   left>>

\* wakeup_wait with WT_IPC, for the waiters W.
Wake(W) ==
    /\ asleep' = asleep \ W
    /\ flags' = [p \in Proc |-> IF p \in W THEN "IPC" ELSE flags[p]]

\* wait_current_set, and schedule().
Sleep(p) ==
    /\ asleep' = asleep \cup {p}
    /\ flags' = [flags EXCEPT ![p] = "INTERRUPTED"]
    /\ cpu' = NONE

\* Fault: the wait_t is left in the queue.
AwakeLinked(p) ==
    /\ cpu = NONE
    /\ pc[p] # "user" /\ p \notin asleep
    /\ UNCHANGED <<p_read_queue, p_write_queue>>
    /\ IF flags[p] = "IPC"
       THEN cpu' = p /\ UNCHANGED <<pc, left>>
       ELSE /\ pc' = [pc EXCEPT ![p] = "user"]
            /\ left' = [left EXCEPT ![p] = 0]
            /\ UNCHANGED cpu
    /\ UNCHANGED <<bufvars, asleep, flags, exiting>>

\* The process runs again after schedule(): it tries again if a pipe operation
\* woke it, and breaks out of the loop otherwise.
Awake(p) ==
    /\ cpu = NONE
    /\ pc[p] # "user" /\ p \notin asleep
    /\ p_read_queue' = p_read_queue \ {p}
    /\ p_write_queue' = p_write_queue \ {p}
    /\ IF flags[p] = "IPC"
       THEN cpu' = p /\ UNCHANGED <<pc, left>>
       ELSE /\ pc' = [pc EXCEPT ![p] = "user"]
            /\ left' = [left EXCEPT ![p] = 0]
            /\ UNCHANGED cpu
    /\ UNCHANGED <<bufvars, asleep, flags, exiting>>

-----------------------------------------------------------------------------
(* pipe_read and pipe_write, one byte at a time *)

\* Fault: one waiter is woken instead of all.
WakeFirst(Q) == IF Q = {} THEN Wake({}) ELSE \E p \in Q : Wake({p})

\* wakeup_queue with del: every waiter.
WakeQueue(Q) == Wake(Q)

\* Fault: the head is not wrapped round.
ReadUnwrapped(p) ==
    /\ cpu = p /\ pc[p] = "read" /\ left[p] > 0
    /\ ~pipe_empty
    /\ got' = p_buffer[p_head]
    /\ p_head' = p_head + 1
    /\ left' = [left EXCEPT ![p] = @ - 1]
    /\ WakeQueue(p_write_queue)
    /\ p_write_queue' = {}
    /\ UNCHANGED <<p_tail, p_buffer, p_read_queue, exiting, pc, cpu>>

pipe_read_byte(p) ==
    /\ cpu = p /\ pc[p] = "read" /\ left[p] > 0
    /\ ~pipe_empty
    /\ got' = p_buffer[p_head]
    /\ p_head' = (p_head + 1) % PIPE_BUFFER_SIZE
    /\ left' = [left EXCEPT ![p] = @ - 1]
    /\ WakeQueue(p_write_queue)
    /\ p_write_queue' = {}
    /\ UNCHANGED <<p_tail, p_buffer, p_read_queue, exiting, pc, cpu>>

pipe_read_wait(p) ==
    /\ cpu = p /\ pc[p] = "read" /\ left[p] > 0
    /\ pipe_empty
    /\ p_read_queue' = p_read_queue \cup {p}
    /\ Sleep(p)
    /\ UNCHANGED <<bufvars, p_write_queue, exiting, pc, left>>

pipe_write_byte(p) ==
    /\ cpu = p /\ pc[p] = "write" /\ left[p] > 0
    /\ ~pipe_full
    /\ \E b \in Byte : p_buffer' = [p_buffer EXCEPT ![p_tail] = b]
    /\ p_tail' = (p_tail + 1) % PIPE_BUFFER_SIZE
    /\ left' = [left EXCEPT ![p] = @ - 1]
    /\ WakeQueue(p_read_queue)
    /\ p_read_queue' = {}
    /\ UNCHANGED <<p_head, got, p_write_queue, exiting, pc, cpu>>

pipe_write_wait(p) ==
    /\ cpu = p /\ pc[p] = "write" /\ left[p] > 0
    /\ pipe_full
    /\ p_write_queue' = p_write_queue \cup {p}
    /\ Sleep(p)
    /\ UNCHANGED <<bufvars, p_read_queue, exiting, pc, left>>

-----------------------------------------------------------------------------
(* Kills *)

\* do_kill by some other process that is running: it interrupts the sleep.
do_kill(p) ==
    /\ cpu = NONE
    /\ p \notin exiting
    /\ exiting' = exiting \cup {p}
    /\ asleep' = asleep \ {p}
    /\ UNCHANGED <<bufvars, p_read_queue, p_write_queue, flags, pc, left, cpu>>

\* The trap epilogue: the process exits, and its slot is used for another.
Exit(p) ==
    /\ cpu = NONE
    /\ pc[p] = "user" /\ p \in exiting
    /\ exiting' = exiting \ {p}
    /\ UNCHANGED <<bufvars, p_read_queue, p_write_queue, asleep, flags, pc, left,
                   cpu>>

\* The steps of a call.
Run(p) ==
    \/ Return(p) \/ Awake(p)
    \/ pipe_read_byte(p) \/ pipe_read_wait(p)
    \/ pipe_write_byte(p) \/ pipe_write_wait(p)

Next ==
    \E p \in Proc :
        Run(p) \/ Call(p, "read") \/ Call(p, "write") \/ do_kill(p) \/ Exit(p)

Spec == Init /\ [][Next]_vars

-----------------------------------------------------------------------------

\* The indices stay inside the buffer, and a call never moves more bytes than
\* it was asked for.
TypeOK ==
    /\ p_head \in Index /\ p_tail \in Index
    /\ p_buffer \in [Index -> Byte]
    /\ p_read_queue \subseteq Proc /\ p_write_queue \subseteq Proc
    /\ asleep \subseteq Proc
    /\ flags \in [Proc -> {"INTERRUPTED", "IPC"}]
    /\ exiting \subseteq Proc
    /\ pc \in [Proc -> {"user", "read", "write"}]
    /\ left \in [Proc -> 0..MaxLen]
    /\ got \in Byte
    /\ cpu \in Proc \cup {NONE}

\* No lost wakeup: a reader sleeps only while the pipe is empty, a writer only
\* while it is full, however reads, writes and kills interleave.
NoLostWakeup ==
    /\ (\E p \in asleep : pc[p] = "read") => pipe_empty
    /\ (\E p \in asleep : pc[p] = "write") => pipe_full

\* The wait_t of a call is a local variable: it is in a queue only while the
\* call is inside its sleep, and every sleeper is in the queue of its call.
QueuesLive ==
    /\ \A p \in p_read_queue : pc[p] = "read" /\ cpu # p
    /\ \A p \in p_write_queue : pc[p] = "write" /\ cpu # p
    /\ asleep \subseteq p_read_queue \cup p_write_queue

Contents ==
    [i \in 1..((p_tail - p_head) % PIPE_BUFFER_SIZE) |->
        p_buffer[(p_head + i - 1) % PIPE_BUFFER_SIZE]]

F == INSTANCE Fifo WITH Capacity <- PIPE_BUFFER_SIZE - 1, queue <- Contents

\* The ring buffer is a queue of PIPE_BUFFER_SIZE - 1 bytes: every byte is read
\* once, in the order of the writes, by readers and writers that sleep halfway
\* and are killed.
ImplementsFifo == F!Spec

=============================================================================
