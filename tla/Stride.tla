------------------------------- MODULE Stride -------------------------------
(***************************************************************************)
(* The stride scheduler: kern/schedule/default_sched_stride.c under the    *)
(* schedule() and wakeup_proc of kern/schedule/sched.c, with the run pool  *)
(* a skew heap.  Processes run, use up their time slice, sleep, wake, exit *)
(* and are forked.                                                         *)
(***************************************************************************)
EXTENDS FiniteSets, StrideArith

CONSTANTS MAX_TIME_SLICE,
          Priorities    \* the values user programs pass to lab6_set_priority

VARIABLES run_pool,     \* the root of the heap
          heap,         \* the lab6_run_pool fields
          proc_num,
          stride,       \* lab6_stride
          priority,     \* lab6_priority
          time_slice,
          status,       \* "free", "ready" (runnable or running) or "asleep"
          current,      \* the running process, NULL for idleproc
          need_resched  \* current->need_resched

vars == <<run_pool, heap, proc_num, stride, priority, time_slice, status,
          current, need_resched>>

INSTANCE SkewHeap WITH Node <- Proc

\* Fault: strides are compared as they are.
comp_plain(p, q) == stride[p] - stride[q]

\* The difference as a signed integer: its sign is the value of
\* proc_stride_comp_f.
proc_stride_comp_f(p, q) ==
    LET c == (stride[p] - stride[q]) % Modulus
    IN  IF c < Modulus \div 2 THEN c ELSE c - Modulus

\* Fault: the heap is upside down.
LessReversed == [pq \in Proc \X Proc |-> proc_stride_comp_f(pq[1], pq[2]) > 0]

Less == [pq \in Proc \X Proc |-> proc_stride_comp_f(pq[1], pq[2]) < 0]

Init ==
    /\ run_pool = NULL /\ heap = Blank /\ proc_num = 0
    /\ stride = [p \in Proc |-> 0]
    /\ priority = [p \in Proc |-> 0]
    /\ time_slice = [p \in Proc |-> 0]
    /\ status = [p \in Proc |-> "free"]
    /\ current = NULL
    /\ need_resched = TRUE

-----------------------------------------------------------------------------

\* The run queue as a value: root, memory and count.
Queue == [root |-> run_pool, mem |-> heap, num |-> proc_num]

stride_enqueue(rq, p) ==
    LET h == skew_heap_insert(rq.mem, rq.root, p, Less)
    IN  [root |-> h.root, mem |-> h.mem, num |-> rq.num + 1]

\* The links of p are dead after this; they are blanked here instead of in the
\* next skew_heap_insert.
stride_dequeue(rq, p) ==
    LET h == skew_heap_remove(rq.mem, rq.root, p, Less)
    IN  [root |-> h.root, mem |-> skew_heap_init(h.mem, p), num |-> rq.num - 1]

SetQueue(rq) == run_pool' = rq.root /\ heap' = rq.mem /\ proc_num' = rq.num

\* time_slice after stride_enqueue.
FreshSlice(p) ==
    IF time_slice[p] = 0 \/ time_slice[p] > MAX_TIME_SLICE
    THEN MAX_TIME_SLICE ELSE time_slice[p]

\* Fault: priority 0 is not told apart from the others, and adds nothing.
PassNothing(p) == IF priority[p] = 0 THEN 0 ELSE BIG_STRIDE \div priority[p]

Pass(p) == IF priority[p] = 0 THEN BIG_STRIDE ELSE BIG_STRIDE \div priority[p]

\* schedule(): rq is the run queue after current is enqueued, or not, and st
\* the strides.
PickNext(rq, st) ==
    IF rq.root = NULL
    THEN /\ SetQueue(rq)
         /\ stride' = st
         /\ current' = NULL
         /\ need_resched' = TRUE
    ELSE /\ SetQueue(stride_dequeue(rq, rq.root))
         /\ stride' = [st EXCEPT ![rq.root] = (@ + Pass(rq.root)) % Modulus]
         /\ current' = rq.root
         /\ need_resched' = FALSE

\* The running process, or idleproc, calls schedule() and stays runnable.
Reschedule ==
    /\ IF current = NULL
       THEN PickNext(Queue, stride) /\ UNCHANGED time_slice
       ELSE /\ PickNext(stride_enqueue(Queue, current), stride)
            /\ time_slice' = [time_slice EXCEPT ![current] = FreshSlice(current)]
    /\ UNCHANGED <<priority, status>>

\* The running process goes to sleep.
Sleep ==
    /\ current # NULL
    /\ status' = [status EXCEPT ![current] = "asleep"]
    /\ PickNext(Queue, stride)
    /\ UNCHANGED <<priority, time_slice>>

\* The running process exits.  Its slot is as alloc_proc will fill it.
Exit ==
    /\ current # NULL
    /\ status' = [status EXCEPT ![current] = "free"]
    /\ PickNext(Queue, [stride EXCEPT ![current] = 0])
    /\ priority' = [priority EXCEPT ![current] = 0]
    /\ time_slice' = [time_slice EXCEPT ![current] = 0]

\* wakeup_proc of a process that sleeps, or that do_fork has just made.
wakeup_proc(p) ==
    /\ status[p] # "ready"
    /\ status' = [status EXCEPT ![p] = "ready"]
    /\ SetQueue(stride_enqueue(Queue, p))
    /\ time_slice' = [time_slice EXCEPT ![p] = FreshSlice(p)]
    /\ UNCHANGED <<stride, priority, current, need_resched>>

lab6_set_priority(n) ==
    /\ current # NULL
    /\ priority' = [priority EXCEPT ![current] = IF n = 0 THEN 1 ELSE n]
    /\ UNCHANGED <<run_pool, heap, proc_num, stride, time_slice, status, current,
                   need_resched>>

stride_proc_tick ==
    /\ current # NULL
    /\ time_slice' = [time_slice EXCEPT ![current] = IF @ > 0 THEN @ - 1 ELSE 0]
    /\ need_resched' = (need_resched \/ time_slice'[current] = 0)
    /\ UNCHANGED <<run_pool, heap, proc_num, stride, priority, status, current>>

Ready == {p \in Proc : status[p] = "ready"}

Work == Reschedule \/ stride_proc_tick \/ \E n \in Priorities : lab6_set_priority(n)

Next == Work \/ Sleep \/ Exit \/ \E p \in Proc : wakeup_proc(p)

Spec == Init /\ [][Next]_vars

\* Processes that are all there before the first one runs, and never sleep.
SteadyNext ==
    Work \/ \E p \in Proc : (\A q \in Proc : stride[q] = 0) /\ wakeup_proc(p)

\* The timer makes the running process give up the CPU again and again, and cpu_idle
\* calls schedule(): while a process is runnable, Reschedule is always enabled,
\* and this is its weak fairness.
SteadySpec ==
    /\ Init /\ [][SteadyNext]_vars
    /\ []<>(Ready = {}) \/ []<><<Reschedule>>_vars

-----------------------------------------------------------------------------

\* The heap holds exactly the runnable processes that are not running, as a
\* tree with the right parent pointers, whatever the order of the strides.
PoolExact ==
    /\ Nodes(heap, run_pool) = Ready \ {current}
    /\ IsTree(heap, run_pool)
    /\ proc_num = Cardinality(Ready \ {current})

\* stride_pick_next takes the element of the run-queue "with the minimum value
\* of stride": the root of the heap.
PicksMinimum ==
    \A p \in Nodes(heap, run_pool) : proc_stride_comp_f(run_pool, p) <= 0

Q == INSTANCE StrideQueue WITH pool <- Nodes(heap, run_pool)

\* The heap implements a set from which a process with the smallest stride is
\* taken.
ImplementsQueue == Q!Spec

\* The strides of runnable processes lie within BIG_STRIDE of each other, so
\* that proc_stride_comp_f is right although they wrap round.
Spread == Q!Spread

\* Every runnable process gets the CPU.
EveryoneRuns == \A p \in Proc : p \in Ready ~> current = p

=============================================================================
