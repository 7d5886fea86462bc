-------------------------------- MODULE Fifo --------------------------------
(***************************************************************************)
(* What a pipe promises: a bounded first-in first-out queue of bytes.      *)
(***************************************************************************)
EXTENDS Naturals, Sequences

CONSTANTS Byte,
          Capacity

VARIABLES queue,    \* the bytes written and not yet read
          got       \* the byte the last read took

vars == <<queue, got>>

Init == queue = <<>> /\ got \in Byte

Put ==
    /\ Len(queue) < Capacity
    /\ \E b \in Byte : queue' = Append(queue, b)
    /\ UNCHANGED got

Get ==
    /\ queue # <<>>
    /\ got' = Head(queue)
    /\ queue' = Tail(queue)

Next == Put \/ Get

Spec == Init /\ [][Next]_vars

=============================================================================
