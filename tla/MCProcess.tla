----------------------------- MODULE MCProcess -----------------------------
(* Process with model values for the slots; the user slots are symmetric. *)
EXTENDS Process, TLC

Symmetry == Permutations(User)

=============================================================================
