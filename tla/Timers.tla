------------------------------- MODULE Timers -------------------------------
(***************************************************************************)
(* What the timer list promises to do_sleep: a timer armed for n ticks     *)
(* wakes its owner at the n-th tick after that, unless it is cancelled     *)
(* first, whatever happens to the other timers.                            *)
(***************************************************************************)
EXTENDS Naturals

CONSTANTS Timer,    \* the timers, one for each process that can sleep
          Limit     \* the largest expiry time

VARIABLES left,     \* ticks left for each timer, 0 when it is not armed
          fired     \* timers that ran out and woke their owner

vars == <<left, fired>>

Init == left = [t \in Timer |-> 0] /\ fired = {}

Arm(t, n) ==
    /\ left[t] = 0 /\ t \notin fired
    /\ left' = [left EXCEPT ![t] = n]
    /\ UNCHANGED fired

Cancel(t) ==
    /\ left[t] > 0 \/ t \in fired
    /\ left' = [left EXCEPT ![t] = 0]
    /\ fired' = fired \ {t}

Tick ==
    /\ left' = [t \in Timer |-> IF left[t] > 0 THEN left[t] - 1 ELSE 0]
    /\ fired' = fired \cup {t \in Timer : left[t] = 1}

Next ==
    \/ \E t \in Timer : Cancel(t) \/ \E n \in 1..Limit : Arm(t, n)
    \/ Tick

Spec == Init /\ [][Next]_vars

=============================================================================
