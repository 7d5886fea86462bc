------------------------------- MODULE Dining -------------------------------
(***************************************************************************)
(* What the dining philosophers of kern/sync/check_sync.c promise: a       *)
(* philosopher eats TIMES times, and never beside one who eats.            *)
(***************************************************************************)
EXTENDS Naturals

CONSTANTS N, TIMES

VARIABLES eating,   \* philosophers who hold both forks
          meals     \* meals finished

Phil == 0..N-1

LEFT(i) == (i - 1 + N) % N
RIGHT(i) == (i + 1) % N

Init == eating = {} /\ meals = [i \in Phil |-> 0]

Sit(i) ==
    /\ i \notin eating
    /\ meals[i] < TIMES
    /\ {LEFT(i), RIGHT(i)} \cap eating = {}
    /\ eating' = eating \cup {i}
    /\ UNCHANGED meals

Rise(i) ==
    /\ i \in eating
    /\ eating' = eating \ {i}
    /\ meals' = [meals EXCEPT ![i] = @ + 1]

Next == \E i \in Phil : Sit(i) \/ Rise(i)

Spec == Init /\ [][Next]_<<eating, meals>>

=============================================================================
