------------------------------ MODULE FirstFit ------------------------------
(***************************************************************************)
(* The first-fit page allocator of kern/mm/default_pmm.c: a doubly linked  *)
(* list of free blocks, ordered by address.  The first page of a block     *)
(* holds its length (property) and the flag PG_property.  Callers free any *)
(* contiguous pages they hold, as default_check does.                      *)
(***************************************************************************)
EXTENDS Integers, FiniteSets, LinkedList

CONSTANTS NPAGE, NULL

VARIABLES link,         \* page_link of every page, and free_list
          property,
          PG_property,  \* the pages that have the flag
          nr_free,
          held,         \* the pages callers hold
          result        \* the page the last call returned, or NULL

vars == <<link, property, PG_property, nr_free, held, result>>

Page == 0..NPAGE-1
free_list == NPAGE      \* the list head
Entry == 0..NPAGE

Block(b, n) == b..(b + n - 1)

\* default_init_memmap of all pages.
Init ==
    /\ LET self == [e \in Entry |-> e]
       IN  link = list_add([prev |-> self, next |-> self], free_list, 0)
    /\ property = [p \in Page |-> IF p = 0 THEN NPAGE ELSE 0]
    /\ PG_property = {0}
    /\ nr_free = NPAGE
    /\ held = {}
    /\ result = NULL

-----------------------------------------------------------------------------

\* The entries from le to the end of the list.
RECURSIVE From(_, _)
From(le, d) == IF le = free_list \/ d = 0 THEN {} ELSE {le} \cup From(link.next[le], d - 1)

Listed == From(link.next[free_list], NPAGE + 1)

\* The list leads back to its head.  If it does not, the loops below never end.
Circular == \E e \in Listed \cup {free_list} : link.next[e] = free_list

\* Fault: a block must be larger than the request.
FirstFitStrict(le, n) == property[le] > n

\* A block that the loop of default_alloc_pages takes.
Fits(le, n) == property[le] >= n

\* The first block from le on that fits, or free_list.
RECURSIVE Search(_, _)
Search(le, n) ==
    IF le = free_list \/ Fits(le, n) THEN le ELSE Search(link.next[le], n)

\* The list without the first n pages of the block page.
Split(page, n) ==
    IF property[page] > n
    THEN list_add(list_del(link, page), link.prev[page], page + n)
    ELSE list_del(link, page)

default_alloc_pages(n) ==
    /\ Circular
    /\ LET page == IF n > nr_free THEN free_list ELSE Search(link.next[free_list], n)
       IN  IF page = free_list
           THEN result' = NULL /\ UNCHANGED <<link, property, PG_property, nr_free, held>>
           ELSE /\ link' = Split(page, n)
                /\ IF property[page] > n
                   THEN /\ property' = [property EXCEPT ![page + n] = property[page] - n]
                        /\ PG_property' = (PG_property \cup {page + n}) \ {page}
                   ELSE /\ PG_property' = PG_property \ {page}
                        /\ UNCHANGED property
                /\ nr_free' = nr_free - n
                /\ held' = held \cup Block(page, n)
                /\ result' = page

-----------------------------------------------------------------------------

\* The loop that inserts base, from the entry after le on.  There is no break
\* after base is added at the end.
RECURSIVE Insert(_, _, _)
Insert(l, le, base) ==
    LET e == l.next[le]
    IN  IF e = free_list THEN l
        ELSE IF base < e THEN list_add_before(l, e, base)
        ELSE IF l.next[e] = free_list THEN Insert(list_add(l, e, base), e, base)
        ELSE Insert(l, e, base)

\* A list, the lengths of its blocks and the flags, while free_pages merges.
Area(l, prop, flags, base) == [link |-> l, property |-> prop, flags |-> flags, base |-> base]

\* Fault: the block is not merged with the one before.
MergePrevNot(a) == a

MergePrev(a) ==
    LET p == a.link.prev[a.base]
    IN  IF p = free_list \/ p + a.property[p] # a.base THEN a
        ELSE Area(list_del(a.link, a.base),
                  [a.property EXCEPT ![p] = @ + a.property[a.base]],
                  a.flags \ {a.base}, p)

MergeNext(a) ==
    LET p == a.link.next[a.base]
    IN  IF p = free_list \/ a.base + a.property[a.base] # p THEN a
        ELSE Area(list_del(a.link, p),
                  [a.property EXCEPT ![a.base] = @ + a.property[p]],
                  a.flags \ {p}, a.base)

\* The asserts of the first loop are part of the guard: they stop the kernel.
default_free_pages(base, n) ==
    /\ Block(base, n) \subseteq held
    /\ Block(base, n) \cap PG_property = {}
    /\ Circular
    /\ LET l == IF list_empty(link, free_list) THEN list_add(link, free_list, base)
                ELSE Insert(link, free_list, base)
           a == MergeNext(MergePrev(Area(l, [property EXCEPT ![base] = n],
                                         PG_property \cup {base}, base)))
       IN  /\ link' = a.link
           /\ property' = a.property
           /\ PG_property' = a.flags
    /\ nr_free' = nr_free + n
    /\ held' = held \ Block(base, n)
    /\ result' = NULL

-----------------------------------------------------------------------------

Next ==
    \E n \in 1..NPAGE :
        default_alloc_pages(n) \/ \E base \in Page : default_free_pages(base, n)

Spec == Init /\ [][Next]_vars

\* The last page is never handed out: memory does not run out.
Roomy == NPAGE - 1 \notin held'

\* The free list is a list in both directions, its blocks are marked, ordered by
\* address, apart from each other (so they have been merged), and make up the
\* pages nobody holds, of which there are nr_free.
FreeListExact ==
    /\ \A e \in Listed \cup {free_list} : link.prev[link.next[e]] = e
    /\ PG_property = Listed
    /\ \A e \in Listed : link.next[e] # free_list => e + property[e] < link.next[e]
    /\ UNION {Block(e, property[e]) : e \in Listed} = Page \ held
    /\ nr_free = Cardinality(Page \ held)

A == INSTANCE PageAllocator WITH free <- Page \ held

\* The list implements first fit on the set of free pages: the lowest block is
\* found, a request fails only if no block is large enough, and no page is
\* handed out twice.
ImplementsAllocator == A!Spec

\* default_check: "assert(PageProperty(p))" for every entry p of the free list.
ListedMarked == \A e \in Listed : e \in PG_property

=============================================================================
