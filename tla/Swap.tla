-------------------------------- MODULE Swap --------------------------------
(***************************************************************************)
(* Page replacement (kern/mm/swap.c, swap_clock.c, swap_fifo.c).  Only the *)
(* boot-time check_swap ever swaps: it confines the kernel to NPhys pages, *)
(* maps the virtual pages 1 .. NVirt through do_pgfault, accesses them in  *)
(* a fixed order and counts the faults.  Here the script is followed by    *)
(* any further accesses, and then by the end of check_swap.  The list of   *)
(* swappable pages is kept at the level of its links, because the clock    *)
(* hand curr_ptr stays on an entry after list_del has taken it out.        *)
(***************************************************************************)
EXTENDS Integers, Sequences, FiniteSets, LinkedList, Ramdisk

CONSTANTS
    NVirt,          \* CHECK_VALID_VIR_PAGE_NUM
    NPhys,          \* CHECK_VALID_PHY_PAGE_NUM
    Managers,       \* the swap managers of the tree; swap_init takes "clock"
    max_swap_offset \* pages of swap.img

VARIABLES
    phase,       \* "boot", "script", "free" (any access), "done"
    pc,          \* next access of the script
    pgfault_num,
    asserts,     \* FALSE once an assert of the check or a panic was reached
    sm,          \* the swap manager
    w            \* the memory: see Start

vars == <<phase, pc, pgfault_num, asserts, sm, w>>

VPage == 1 .. NVirt
Frame == 1 .. NPhys
Sentinel == 0 \* pra_list_head
Unset == 0    \* the data of a page nobody wrote
Empty == [valid |-> FALSE, at |-> 0]

\* The bytes written to page v: page 1 is written with two different ones.
Patterns(v) == IF v = 1 THEN {1, NVirt + 1} ELSE {v}

\* What check_swap starts from: the frames free, the list empty.
Start ==
    [pte |-> [v \in VPage |-> Empty],      \* a frame, or an offset on the disk
     mem |-> [f \in Frame |-> Unset],
     disk |-> [s \in 0 .. max_swap_offset - 1 |-> Unset],
     free |-> Frame,
     link |-> [prev |-> [e \in 0 .. NPhys |-> e], next |-> [e \in 0 .. NPhys |-> e]],
     visited |-> [f \in Frame |-> 0],
     pra_vaddr |-> [f \in Frame |-> 0],
     curr_ptr |-> Sentinel,
     got |-> 0,                            \* the frame last allocated or chosen
     ok |-> TRUE,                          \* no assert failed, no panic
     last |-> [v \in VPage |-> Unset]]     \* the byte last written to v

\* _clock_init_mm, _fifo_init_mm
swap_init_mm(x) == [x EXCEPT !.link = list_init(@, Sentinel), !.curr_ptr = Sentinel]

\* Fault: the newest page goes to the front of the list.
map_swappable_front(x, v, f) ==
    [x EXCEPT !.link = list_add(@, Sentinel, f), !.visited[f] = 1]

\* _clock_map_swappable; the FIFO manager does not look at visited.
swap_map_swappable(x, v, f) ==
    [x EXCEPT !.link = list_add_before(@, Sentinel, f), !.visited[f] = 1]

\* The sweep of the hand, at most twice round the list: first the visited bits
\* are cleared.
RECURSIVE clock_sweep(_, _)
clock_sweep(x, fuel) ==
    IF fuel = 0 THEN [x EXCEPT !.ok = FALSE]
    ELSE IF x.curr_ptr = Sentinel
    THEN clock_sweep([x EXCEPT !.curr_ptr = x.link.next[Sentinel]], fuel - 1)
    ELSE IF x.visited[x.curr_ptr] = 1
    THEN clock_sweep([x EXCEPT !.visited[x.curr_ptr] = 0,
                               !.curr_ptr = x.link.next[x.curr_ptr]], fuel - 1)
    ELSE [x EXCEPT !.link = list_del(@, x.curr_ptr), !.got = x.curr_ptr]

_clock_swap_out_victim(x) == clock_sweep(x, 2 * (NPhys + 2))

_fifo_swap_out_victim(x) ==
    LET entry == x.link.next[Sentinel]
    IN  [x EXCEPT !.link = list_del(@, entry), !.got = entry]

swap_out_victim(x) ==
    IF sm = "clock" THEN _clock_swap_out_victim(x) ELSE _fifo_swap_out_victim(x)

\* An offset outside swap.img is a panic.
swap_offset(n) == n > 0 /\ n < max_swap_offset

\* Fault: every victim is saved in the same slot.
StoreVictimThere(x, f, v) ==
    [x EXCEPT !.ok = @ /\ x.pte[v].valid /\ swap_offset(v + 1),
              !.disk = ramdisk_write(@, 1, [i \in {0} |-> x.mem[f]], 1),
              !.pte[v] = [valid |-> FALSE, at |-> 1],
              !.free = @ \union {f}]

\* Save frame f of page v on the disk, leave the offset in the entry, free f.
StoreVictim(x, f, v) ==
    [x EXCEPT !.ok = @ /\ x.pte[v].valid /\ swap_offset(v + 1),
              !.disk = ramdisk_write(@, v + 1, [i \in {0} |-> x.mem[f]], 1),
              !.pte[v] = [valid |-> FALSE, at |-> v + 1],
              !.free = @ \union {f}]

SwapOutChosen(x) == IF x.ok THEN StoreVictim(x, x.got, x.pra_vaddr[x.got]) ELSE x

swap_out(x) == SwapOutChosen(swap_out_victim(x))

TakeFree(x) ==
    IF x.free = {} THEN [x EXCEPT !.ok = FALSE]
    ELSE LET f == CHOOSE f \in x.free : \A g \in x.free : f <= g
         IN  [x EXCEPT !.free = @ \ {f}, !.got = f]

\* alloc_pages(1): when there is no page, swap one out and try again.
alloc_page(x) == TakeFree(IF x.free = {} THEN swap_out(x) ELSE x)

\* page_insert into the entry of v, and make the page swappable.
MapGot(x, v) ==
    [swap_map_swappable(x, v, x.got) EXCEPT
        !.pte[v] = [valid |-> TRUE, at |-> x.got], !.pra_vaddr[x.got] = v]

pgdir_alloc_page(x, v) == MapGot(alloc_page(x), v)

ReadSlot(x, n) ==
    [x EXCEPT !.mem[x.got] = ramdisk_read(x.disk, n, 1)[0], !.ok = @ /\ swap_offset(n)]

swap_in(x, v) == ReadSlot(alloc_page(x), x.pte[v].at)

\* The fault of an access to page v, which the one area of the check contains.
do_pgfault(x, v) ==
    IF x.pte[v] = Empty THEN pgdir_alloc_page(x, v) ELSE MapGot(swap_in(x, v), v)

Touched(x, v) == IF x.pte[v].valid THEN x ELSE do_pgfault(x, v)

Store(x, v, b) == [x EXCEPT !.mem[x.pte[v].at] = b, !.last[v] = b]

Load(x, v) == x.mem[x.pte[v].at]

Faults(v) == IF w.pte[v].valid THEN 0 ELSE 1
-----------------------------------------------------------------------------
\* The accesses of check_content_set: page, and pgfault_num after it.
check_content_set == <<<<1, 1>>, <<1, 1>>, <<2, 2>>, <<2, 2>>,
                       <<3, 3>>, <<3, 3>>, <<4, 4>>, <<4, 4>>>>

_clock_check_swap == <<<<3, 4>>, <<1, 4>>, <<4, 4>>, <<2, 4>>, <<5, 5>>, <<2, 5>>,
                       <<1, 6>>, <<2, 7>>, <<3, 8>>, <<4, 9>>, <<5, 10>>, <<1, 11>>>>

_fifo_check_swap == <<<<3, 4>>, <<1, 4>>, <<4, 4>>, <<2, 4>>, <<5, 5>>, <<2, 5>>,
                      <<1, 6>>, <<2, 7>>, <<3, 8>>, <<4, 9>>, <<5, 10>>, <<1, 11>>>>

Script == check_content_set \o
          (IF sm = "clock" THEN _clock_check_swap ELSE _fifo_check_swap)

Init == /\ phase = "boot" /\ pc = 1 /\ pgfault_num = 0 /\ asserts = TRUE
        /\ sm \in Managers /\ w = Start

\* The beginning of check_swap: mm_create, and the confinement to NPhys pages.
check_swap ==
    /\ phase = "boot"
    /\ phase' = "script"
    /\ w' = swap_init_mm(w)
    /\ UNCHANGED <<pc, pgfault_num, asserts, sm>>

\* The next access of the script with its assert.  After check_content_set the
\* pages 1 .. 4 must sit in the frames check_rp[0] .. check_rp[3], none free; the
\* last access reads the page before it writes it.
ScriptAccess ==
    /\ phase = "script"
    /\ LET v == Script[pc][1]
       IN  /\ w' = Store(Touched(w, v), v, v)
           /\ pgfault_num' = pgfault_num + Faults(v)
           /\ asserts' = /\ asserts
                         /\ w'.ok
                         /\ pgfault_num' = Script[pc][2]
                         /\ pc = Len(check_content_set) =>
                               /\ w'.free = {}
                               /\ \A f \in Frame : w'.pte[f] = [valid |-> TRUE, at |-> f]
                         /\ pc = Len(Script) => Load(Touched(w, v), v) = v
    /\ pc' = pc + 1
    /\ phase' = IF pc = Len(Script) THEN "free" ELSE phase
    /\ UNCHANGED sm

\* Any other access, a load or a store; the faults are no longer counted.
Access(v) ==
    /\ phase = "free"
    /\ \/ w' = Touched(w, v)
       \/ \E b \in Patterns(v) : w' = Store(Touched(w, v), v, b)
    /\ asserts' = (asserts /\ w'.ok)
    /\ UNCHANGED <<phase, pc, pgfault_num, sm>>

\* The end of check_swap: the frames go back, the address space is dropped.
\* From here on check_mm_struct is NULL and no page is swappable.
EndCheck ==
    /\ phase = "free"
    /\ phase' = "done"
    /\ w' = [w EXCEPT !.free = Frame, !.pte = [v \in VPage |-> Empty],
                      !.last = [v \in VPage |-> Unset]]
    /\ UNCHANGED <<pc, pgfault_num, asserts, sm>>

Next == check_swap \/ ScriptAccess \/ (\E v \in VPage : Access(v)) \/ EndCheck

Spec == Init /\ [][Next]_vars
-----------------------------------------------------------------------------
\* No assert of check_swap and of the manager's own check fails, no page is
\* saved outside swap.img, and the hand always finds a victim.
CheckSwapPasses == asserts

\* A page that was written keeps its last byte, in its frame or in its slot on
\* the disk, whichever page do_pgfault replaced.
ContentsKept ==
    \A v \in VPage :
        w.last[v] # Unset =>
            w.last[v] = IF w.pte[v].valid THEN w.mem[w.pte[v].at] ELSE w.disk[w.pte[v].at]

\* The list of the manager holds exactly the mapped frames, each tied to its
\* page, and the hand is never left on an entry that is out of the list.
Entries == {f \in Frame : w.link.next[w.link.prev[f]] = f /\ w.link.prev[f] # f}

SwapListExact ==
    phase \in {"script", "free"} =>
        /\ {w.pte[v].at : v \in {u \in VPage : w.pte[u].valid}} = Entries
        /\ \A v \in VPage : w.pte[v].valid => w.pra_vaddr[w.pte[v].at] = v
        /\ w.curr_ptr \in Entries \union {Sentinel}

=============================================================================
