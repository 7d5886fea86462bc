---------------------------- MODULE StrideArith ----------------------------
(***************************************************************************)
(* Strides (kern/schedule/default_sched_stride.c): unsigned integers below *)
(* Modulus that wrap round, compared by the sign of the wrapped            *)
(* difference.  Modulus is 2^32 and BIG_STRIDE 2^30 in the code.           *)
(***************************************************************************)
EXTENDS Integers

CONSTANTS Proc, NULL, Modulus, BIG_STRIDE

ASSUME StrideAssumption ==
    /\ Modulus \in Nat /\ BIG_STRIDE \in Nat
    /\ BIG_STRIDE > 0 /\ 2 * BIG_STRIDE < Modulus
    /\ NULL \notin Proc

\* Sums and differences of unsigned integers.
Plus(x, d) == IF x + d >= Modulus THEN x + d - Modulus ELSE x + d
Minus(x, y) == IF x >= y THEN x - y ELSE x - y + Modulus

\* x - y, as a signed integer, is not positive.
AtMost(x, y) == x = y \/ 2 * Minus(x, y) >= Modulus

=============================================================================
