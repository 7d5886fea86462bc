----------------------------- MODULE TimerList -----------------------------
(***************************************************************************)
(* The timer list of kern/schedule/sched.c: a list ordered by expiry in    *)
(* which every timer holds the ticks between the previous one and itself.  *)
(* do_sleep links a timer with add_timer and takes it out with del_timer   *)
(* once it runs again, because the timer ran out or because the process    *)
(* was killed; the timer interrupt calls run_timer_list.                   *)
(***************************************************************************)
EXTENDS Integers, Sequences, SequencesExt

CONSTANTS Timer,    \* one timer for each process: the local of do_sleep
          Modulus   \* 2^32 in the code: expires is an unsigned int

VARIABLES timer_list,   \* the list, in order
          expires,      \* timer->expires
          fired         \* timers whose owner run_timer_list has woken

vars == <<timer_list, expires, fired>>

Linked(t) == \E i \in 1..Len(timer_list) : timer_list[i] = t

Position(t) == CHOOSE i \in 1..Len(timer_list) : timer_list[i] = t

Init ==
    /\ timer_list = <<>>
    /\ expires = [t \in Timer |-> 0]
    /\ fired = {}

-----------------------------------------------------------------------------
(* add_timer *)

\* The loop of add_timer: the place to insert at, and what is left of the
\* expiry time there.
RECURSIVE Walk(_, _)
Walk(i, left) ==
    IF i > Len(timer_list) \/ left < expires[timer_list[i]]
    THEN <<i, left>>
    ELSE Walk(i + 1, left - expires[timer_list[i]])

add_timer(t, time) ==
    /\ ~Linked(t) /\ t \notin fired
    /\ LET i == Walk(1, time)[1]
           left == Walk(1, time)[2]
           shorter == IF i > Len(timer_list) THEN expires
                      ELSE [expires EXCEPT ![timer_list[i]] = @ - left]
       IN  /\ timer_list' = InsertAt(timer_list, i, t)
           /\ expires' = [shorter EXCEPT ![t] = left]
    /\ UNCHANGED fired

-----------------------------------------------------------------------------
(* del_timer *)

\* Fault: the next timer does not inherit the ticks of the one removed.
InheritNothing(t) == expires

\* The expiry times after t leaves the list; the sum is an unsigned int.
Inherit(t) ==
    IF Position(t) = Len(timer_list) THEN expires
    ELSE [expires EXCEPT ![timer_list[Position(t) + 1]] =
            (@ + expires[t]) % Modulus]

Unlink(t) == RemoveAt(timer_list, Position(t))

\* do_sleep has returned from schedule().
del_timer(t) ==
    /\ Linked(t) \/ t \in fired
    /\ IF Linked(t)
       THEN /\ expires' = [Inherit(t) EXCEPT ![t] = 0]
            /\ timer_list' = Unlink(t)
       ELSE UNCHANGED <<timer_list, expires>>
    /\ fired' = fired \ {t}

-----------------------------------------------------------------------------
(* run_timer_list *)

\* Fault: only the first timer that runs out is taken off the list.
RunOutFirst(ex) == IF ex[Head(timer_list)] = 0 THEN 1 ELSE 0

\* How many timers at the front of the list have run out, by the times ex.
RunOut(ex) ==
    LET zeros == {n \in 0..Len(timer_list) :
                    \A i \in 1..n : ex[timer_list[i]] = 0}
    IN  CHOOSE n \in zeros : \A m \in zeros : m <= n

\* The list without its first n timers, which have run out.
Rest(n) == SubSeq(timer_list, n + 1, Len(timer_list))

\* Wakes the owners of the timers that run out and deletes those timers.
run_timer_list ==
    IF timer_list = <<>>
    THEN UNCHANGED vars
    ELSE LET ex == [expires EXCEPT ![Head(timer_list)] = (@ - 1) % Modulus]
             n == RunOut(ex)
         IN  /\ expires' = ex
             /\ timer_list' = Rest(n)
             /\ fired' = fired \cup {timer_list[i] : i \in 1..n}

Next ==
    \/ \E t \in Timer : del_timer(t) \/ \E n \in 1..(Modulus - 1) : add_timer(t, n)
    \/ run_timer_list

Spec == Init /\ [][Next]_vars

-----------------------------------------------------------------------------

\* The assert of run_timer_list: the first timer has ticks left.  A timer that
\* runs out together with others must leave the list at the same tick, or the
\* unsigned count would wrap at the next one.
HeadHasTicks == timer_list # <<>> => expires[Head(timer_list)] > 0

\* The ticks until t runs out: the differences up to its place, added up.
Remaining(t) ==
    IF Linked(t)
    THEN FoldLeft(LAMBDA sum, u : sum + expires[u], 0,
                  SubSeq(timer_list, 1, Position(t)))
    ELSE 0

Abstract == INSTANCE Timers WITH
    Limit <- Modulus - 1,
    left <- [t \in Timer |-> Remaining(t)]

\* The delta list implements independent timers: add_timer, del_timer and
\* run_timer_list never change when another timer runs out, the unsigned sums
\* never wrap, and a timer wakes its owner after exactly its time.
ImplementsTimers == Abstract!Spec

=============================================================================
