------------------------------ MODULE Kmalloc ------------------------------
(***************************************************************************)
(* kmalloc and kfree (kern/mm/kmalloc.c): the SLOB heap, a circular list   *)
(* of free blocks in address order, over pages taken from the page         *)
(* allocator and never given back, and the list of big blocks, which have  *)
(* pages of their own.  Addresses count units of SLOB_UNIT bytes: the      *)
(* static block arena is at 0, page k at k * PAGE.  A block's header is    *)
(* its first unit; header fields of no block are 0.  One page that cannot  *)
(* be had is a panic (see AddressSpace), several are NIL.                 *)
(***************************************************************************)
EXTENDS Integers, Sequences, FiniteSets, SequencesExt

CONSTANTS
    PAGE,      \* units of a page
    NPage,     \* pages
    BigUnits,  \* SLOB_UNITS(sizeof(bigblock_t))
    Sizes      \* sizes the kernel asks for, in units

VARIABLES
    units, next,  \* headers of the blocks
    slobfree,     \* the free block the next search starts after
    bigblocks,    \* sequence of [bb, order, pages], the newest first
    pages,        \* free pages of the page allocator
    held,         \* blocks in use: [at, size]
    panic

vars == <<units, next, slobfree, bigblocks, pages, held, panic>>

Addr == 0 .. PAGE * (NPage + 1) - 1
arena == 0
NIL == -1

\* got is the block a call returns; cur is where slob_free reinserted.
World == [units |-> units, next |-> next, slobfree |-> slobfree, bigblocks |-> bigblocks,
          pages |-> pages, panic |-> panic, got |-> NIL]

\* First fit on whole pages; the heap pages and the big blocks are not free.
Fits(x, n) == {k \in x.pages : \A i \in 0 .. n - 1 : k + i \in x.pages}

alloc_pages(x, n) ==
    IF Fits(x, n) = {} THEN [x EXCEPT !.got = NIL, !.panic = @ \/ n = 1]
    ELSE LET k == CHOOSE k \in Fits(x, n) : \A j \in Fits(x, n) : k <= j
         IN  [x EXCEPT !.pages = @ \ (k .. k + n - 1), !.got = k * PAGE]

free_pages(x, k, n) == [x EXCEPT !.pages = @ \union (k .. k + n - 1)]
-----------------------------------------------------------------------------
\* Where a block goes: between its neighbours, or round the end of the list.
RECURSIVE Reinsertion(_, _, _)
Reinsertion(x, b, cur) ==
    IF \/ b > cur /\ b < x.next[cur]
       \/ cur >= x.next[cur] /\ (b > cur \/ b < x.next[cur])
    THEN cur ELSE Reinsertion(x, b, x.next[cur])

\* Join b with the free block after it, or link it before that block.
JoinNext(x, b, n) ==
    IF b + x.units[b] = n
    THEN [x EXCEPT !.units[b] = @ + x.units[n], !.next[b] = x.next[n],
                   !.units[n] = 0, !.next[n] = 0]
    ELSE [x EXCEPT !.next[b] = n]

\* Join the free block before it with b, or link b after that block.
JoinPrev(x, b, cur) ==
    IF cur + x.units[cur] = b
    THEN [x EXCEPT !.units[cur] = @ + x.units[b], !.next[cur] = x.next[b],
                   !.units[b] = 0, !.next[b] = 0, !.slobfree = cur]
    ELSE [x EXCEPT !.next[cur] = b, !.slobfree = cur]

ReinsertAt(x, b, cur) == JoinPrev(JoinNext(x, b, x.next[cur]), b, cur)

\* size 0 keeps the size in the header of b.
slob_free(x, b, size) ==
    LET y == IF size = 0 THEN x ELSE [x EXCEPT !.units[b] = size]
    IN  ReinsertAt(y, b, Reinsertion(y, b, y.slobfree))

\* Fault: the rest keeps the size of the whole block.
CarveWhole(x, prev, cur, n) ==
    IF x.units[cur] = n
    THEN [x EXCEPT !.next[prev] = x.next[cur], !.next[cur] = 0,
                   !.slobfree = prev, !.got = cur]
    ELSE [x EXCEPT !.next[prev] = cur + n,
                   !.units[cur + n] = x.units[cur],
                   !.next[cur + n] = IF prev = cur THEN cur + n ELSE x.next[cur],
                   !.units[cur] = n, !.next[cur] = 0,
                   !.slobfree = prev, !.got = cur]

\* Take n units from the front of cur: all of it, or the rest stays in the list.
Carve(x, prev, cur, n) ==
    IF x.units[cur] = n
    THEN [x EXCEPT !.next[prev] = x.next[cur], !.next[cur] = 0,
                   !.slobfree = prev, !.got = cur]
    ELSE [x EXCEPT !.next[prev] = cur + n,
                   !.units[cur + n] = x.units[cur] - n,
                   !.next[cur + n] = IF prev = cur THEN cur + n ELSE x.next[cur],
                   !.units[cur] = n, !.next[cur] = 0,
                   !.slobfree = prev, !.got = cur]

GrowHeap(x) == IF x.got = NIL THEN x ELSE slob_free(x, x.got, PAGE)

\* First fit from slobfree on; when the search is round, the heap grows by a
\* page and the search goes on behind the new slobfree.
RECURSIVE Search(_, _, _, _)
Search(x, prev, cur, n) ==
    IF x.units[cur] >= n THEN Carve(x, prev, cur, n)
    ELSE IF cur # x.slobfree THEN Search(x, cur, x.next[cur], n)
    ELSE LET y == GrowHeap(alloc_pages(x, 1))
         IN  IF y.panic THEN y ELSE Search(y, y.slobfree, y.next[y.slobfree], n)

slob_alloc(x, n) ==
    IF ~(n + 1 < PAGE) THEN [x EXCEPT !.panic = TRUE]
    ELSE Search(x, x.slobfree, x.next[x.slobfree], n)

\* Halving rounds down: the order fits powers of two.
RECURSIVE find_order(_)
find_order(size) == IF size > PAGE THEN 1 + find_order(size \div 2) ELSE 0

\* The pages of a big block whose header is bb, or its header back.
BigPages(x, bb, order) ==
    IF x.got = NIL THEN slob_free(x, bb, BigUnits)
    ELSE [x EXCEPT !.bigblocks = <<[bb |-> bb, order |-> order, pages |-> x.got]>> \o @]

NoBlock(x) == [x EXCEPT !.got = NIL]

AllocBig(x, n) ==
    IF x.panic THEN x
    ELSE LET y == BigPages(alloc_pages(x, 2^find_order(n)), x.got, find_order(n))
         IN  IF Len(y.bigblocks) > Len(x.bigblocks) THEN y ELSE NoBlock(y)

\* Small blocks are returned behind their header.
__kmalloc(x, n) ==
    IF n < PAGE - 1
    THEN LET y == slob_alloc(x, n + 1) IN IF y.panic THEN y ELSE [y EXCEPT !.got = @ + 1]
    ELSE AllocBig(slob_alloc(x, BigUnits), n)

FreeBig(x, i) ==
    LET bb == x.bigblocks[i]
    IN  slob_free(free_pages([x EXCEPT !.bigblocks = RemoveAt(@, i)],
                             bb.pages \div PAGE, 2^bb.order), bb.bb, BigUnits)

\* A page-aligned block may be a big one.
Big(x, block) == {i \in DOMAIN x.bigblocks : x.bigblocks[i].pages = block}

FreeBlock(x, block) ==
    IF block % PAGE = 0 /\ Big(x, block) # {}
    THEN FreeBig(x, CHOOSE i \in Big(x, block) : TRUE)
    ELSE slob_free(x, block - 1, 0)

\* The room of a block, in units: its header counts.
ksize(x, block) ==
    IF block % PAGE = 0 /\ Big(x, block) # {}
    THEN PAGE * 2^x.bigblocks[CHOOSE i \in Big(x, block) : TRUE].order
    ELSE x.units[block - 1]
-----------------------------------------------------------------------------
Init ==
    /\ units = [a \in Addr |-> IF a = arena THEN 1 ELSE 0]
    /\ next = [a \in Addr |-> 0]
    /\ slobfree = arena
    /\ bigblocks = <<>>
    /\ pages = 1 .. NPage
    /\ held = {}
    /\ panic = FALSE

\* A panic stops the kernel; what its memory held no longer matters.
Becomes(x, blocks) ==
    IF x.panic
    THEN panic' = TRUE /\ units' = [a \in Addr |-> 0] /\ next' = [a \in Addr |-> 0]
         /\ slobfree' = arena /\ bigblocks' = <<>> /\ pages' = {} /\ held' = {}
    ELSE /\ units' = x.units /\ next' = x.next /\ slobfree' = x.slobfree
         /\ bigblocks' = x.bigblocks /\ pages' = x.pages
         /\ held' = blocks /\ panic' = panic

kmalloc(n) ==
    /\ ~panic
    /\ LET x == __kmalloc(World, n)
       IN  Becomes(x, IF x.got = NIL THEN held ELSE held \union {[at |-> x.got, size |-> n]})

kfree(block) ==
    /\ ~panic
    /\ Becomes(FreeBlock(World, block.at), held \ {block})

Next == (\E n \in Sizes : kmalloc(n)) \/ (\E block \in held : kfree(block))

Spec == Init /\ [][Next]_vars
-----------------------------------------------------------------------------
\* The free blocks, from the arena on.
RECURSIVE FreeFrom(_)
FreeFrom(a) == IF next[a] = arena THEN {a} ELSE {a} \union FreeFrom(next[a])

Small == {b \in held : Big(World, b.at) = {}}

\* The blocks the heap is cut into: free, in use, and headers of big blocks.
Span(a, n) == a .. a + n - 1
Blocks == {<<a, units[a]>> : a \in FreeFrom(arena)}
          \union {<<b.at - 1, units[b.at - 1]>> : b \in Small}
          \union {<<bigblocks[i].bb, BigUnits>> : i \in DOMAIN bigblocks}
BigSpans == {<<bigblocks[i].pages, PAGE * 2^bigblocks[i].order>> : i \in DOMAIN bigblocks}
FreePages == {<<k * PAGE, PAGE>> : k \in pages}

\* kmalloc and kfree keep the heap exact: every unit of memory is in exactly one
\* free block, used block, big block or free page, in a list sorted by address
\* without neighbours left apart, and every block has the room that was asked for.
HeapExact ==
    ~panic =>
        LET all == Blocks \union BigSpans \union FreePages
        IN  /\ \A a \in {arena} \union {a \in Addr : a >= PAGE} :
                  Cardinality({b \in all : a \in Span(b[1], b[2])}) = 1
            /\ slobfree \in FreeFrom(arena)
            /\ \A a \in FreeFrom(arena) :
                  next[a] # arena => a < next[a] /\ a + units[a] # next[a]
            /\ \A b \in held : ksize(World, b.at) >= b.size + (IF b \in Small THEN 1 ELSE 0)

=============================================================================
