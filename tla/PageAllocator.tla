--------------------------- MODULE PageAllocator ---------------------------
(***************************************************************************)
(* What the first-fit allocator promises: alloc_pages(n) returns the       *)
(* lowest n contiguous free pages, and fails only if there are none.       *)
(***************************************************************************)
EXTENDS Integers, FiniteSetsExt

CONSTANTS NPAGE, NULL

VARIABLES free,     \* the pages nobody holds
          result    \* the page the last call returned

vars == <<free, result>>

Page == 0..NPAGE-1

Block(b, n) == b..(b + n - 1)

Init == free = Page /\ result = NULL

Alloc(n) ==
    LET fits == {b \in Page : Block(b, n) \subseteq free}
    IN  IF fits = {}
        THEN result' = NULL /\ UNCHANGED free
        ELSE /\ result' = Min(fits)
             /\ free' = free \ Block(Min(fits), n)

Free(b, n) ==
    /\ Block(b, n) \subseteq Page \ free
    /\ free' = free \cup Block(b, n)
    /\ result' = NULL

Next == \E n \in 1..NPAGE : Alloc(n) \/ \E b \in Page : Free(b, n)

Spec == Init /\ [][Next]_vars

=============================================================================
