---------------------------- MODULE StrideQueue ----------------------------
(***************************************************************************)
(* What the stride scheduler of kern/schedule/default_sched_stride.c       *)
(* promises: each call of schedule() runs a process with the smallest      *)
(* stride and moves that stride on by at most BIG_STRIDE.  The processes   *)
(* arrive before the first one runs.                                       *)
(***************************************************************************)
EXTENDS StrideArith

VARIABLES pool,     \* the runnable processes that do not run
          stride,
          current   \* the process that runs, or NULL

qvars == <<pool, stride, current>>

\* current goes back to the run queue.
Waiting == pool \cup ({current} \ {NULL})

Init ==
    /\ pool = {}
    /\ stride = [p \in Proc |-> 0]
    /\ current = NULL

Arrive(p) ==
    /\ p \notin Waiting
    /\ \A q \in Proc : stride[q] = 0
    /\ pool' = pool \cup {p}
    /\ UNCHANGED <<stride, current>>

Run(p, pass) ==
    /\ p \in Waiting
    /\ \A q \in Waiting : AtMost(stride[p], stride[q])
    /\ current' = p
    /\ pool' = Waiting \ {p}
    /\ stride' = [stride EXCEPT ![p] = Plus(@, pass)]

Next == \E p \in Proc : Arrive(p) \/ \E pass \in 1..BIG_STRIDE : Run(p, pass)

Spec == Init /\ [][Next]_qvars

-----------------------------------------------------------------------------

\* The unsigned strides keep their range when they wrap round.
TypeOK ==
    /\ pool \subseteq Proc
    /\ stride \in [Proc -> 0..(Modulus - 1)]
    /\ current \in Proc \cup {NULL}

\* The strides of runnable processes lie within BIG_STRIDE of each other, on
\* one side or the other, although any of them may have wrapped round.
Spread ==
    \A p, q \in Waiting :
        \/ Minus(stride[p], stride[q]) <= BIG_STRIDE
        \/ Minus(stride[q], stride[p]) <= BIG_STRIDE

\* proc_stride_comp_f orders the runnable processes, which the skew heap takes
\* for granted: of two strides one is at most the other, and no three of them
\* go round in a circle.
Ordered ==
    /\ \A p, q \in Waiting :
            AtMost(stride[p], stride[q]) \/ AtMost(stride[q], stride[p])
    /\ \A p, q, r \in Waiting :
            AtMost(stride[p], stride[q]) /\ AtMost(stride[q], stride[r])
                => AtMost(stride[p], stride[r])

=============================================================================
