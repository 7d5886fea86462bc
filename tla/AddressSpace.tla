---------------------------- MODULE AddressSpace ----------------------------
(***************************************************************************)
(* The address spaces of user processes: the areas of an mm_struct         *)
(* (kern/mm/vmm.c), its page tables and the page frames behind them        *)
(* (kern/mm/pmm.c), and the calls that build, copy and tear them down      *)
(* (load_icode, copy_mm, do_execve, do_exit of kern/process/proc.c).       *)
(*                                                                         *)
(* Tables live in frames, as in the code: the page directory of a process  *)
(* points to level 0 directories, these to page tables, these to pages;    *)
(* each has Fan entries.  No two processes share an mm_struct: CLONE_VM is *)
(* passed only by kernel threads, which have none.  With swap_init_ok set  *)
(* and check_mm_struct NULL, a single page that cannot be had sends        *)
(* swap_out through a null pointer: exhaustion is a panic.                 *)
(***************************************************************************)
EXTENDS Integers, Sequences, FiniteSets, SequencesExt

CONSTANTS
    Proc,
    NFrame,       \* page frames
    Fan,          \* NPTEENTRY = NPDEENTRY
    PGSIZE,       \* bytes of a page
    USERBASE,     \* first user address
    USTACKPAGE,   \* pages of the user stack
    EagerStack,   \* pages of it that load_icode allocates
    Programs,     \* executables: see Image
    Watched,      \* addresses user programs store to and pass to the kernel,
    Bytes,        \* ... the bytes they store
    Extents       \* ... and the lengths they pass

GeometryAssumption ==
    /\ {NFrame, Fan, PGSIZE, USERBASE, USTACKPAGE, EagerStack} \subseteq Nat \ {0}
    /\ USERBASE % PGSIZE = 0 /\ EagerStack <= USTACKPAGE /\ USTACKPAGE <= Fan

Frame == 0 .. NFrame   \* 0 is no frame
NVPage == Fan * Fan * Fan
USERTOP == NVPage * PGSIZE
Addr == 0 .. USERTOP - 1
KERNBASE == USERTOP + PGSIZE
KERNTOP == KERNBASE + PGSIZE
WORD == KERNTOP + 1        \* addresses wrap round here
Junk == -1          \* the unspecified content of a new page
Unmapped == -2
NoEntry == [at |-> 0, w |-> FALSE]
NullMM == [pgdir |-> 0, areas |-> <<>>, cache |-> <<>>, count |-> 0]

VARIABLES
    mm,     \* Proc -> mm_struct, NullMM if the process has none
    free,   \* free frames
    tab,    \* entries of a frame used as a table
    data,   \* bytes of a frame used as a page
    ref,    \* reference counts of the frames
    panic,
    torn    \* history: a level 0 directory was freed while it had a valid entry

vars == <<mm, free, tab, data, ref, panic, torn>>

\* The kernel's memory as one value, which the operators below pass along: m is
\* the mm_struct worked on, got the frame last allocated, err the error of the call.
World(m) == [m |-> m, free |-> free, tab |-> tab, data |-> data, ref |-> ref,
             panic |-> panic, torn |-> torn, got |-> 0, err |-> FALSE,
             start |-> 0, la |-> 0, offset |-> 0]

NoTable == [i \in 0 .. Fan - 1 |-> NoEntry]
NoData == [i \in 0 .. PGSIZE - 1 |-> Junk]

RoundDown(a) == PGSIZE * (a \div PGSIZE)
RoundUp(a) == RoundDown(a + PGSIZE - 1)

PDX1(v) == v \div (Fan * Fan)
PDX0(v) == (v \div Fan) % Fan
PTX(v) == v % Fan
-----------------------------------------------------------------------------
(* Frames *)

alloc_page(x) ==
    IF x.free = {} THEN [x EXCEPT !.panic = TRUE, !.got = 0]
    ELSE LET f == CHOOSE f \in x.free : \A g \in x.free : f <= g
         IN  [x EXCEPT !.free = @ \ {f}, !.got = f]

free_page(x, f) ==
    [x EXCEPT !.free = @ \union {f}, !.ref[f] = 0, !.tab[f] = NoTable, !.data[f] = NoData]

Alive(x) == ~x.panic /\ ~x.err
-----------------------------------------------------------------------------
(* Page tables *)

\* Enter the frame got, cleared, as a table in entry i of table f.
LinkTable(x, f, i) ==
    [x EXCEPT !.ref[x.got] = 1, !.tab[x.got] = NoTable, !.tab[f][i] = [at |-> x.got, w |-> FALSE]]

EnsureTable(x, f, i) == IF x.tab[f][i].at # 0 THEN x ELSE LinkTable(alloc_page(x), f, i)

\* The frame of the page table for page v, 0 if there is none: get_pte without create.
PageTable(x, pgdir, v) ==
    LET pd == x.tab[pgdir][PDX1(v)].at IN IF pd = 0 THEN 0 ELSE x.tab[pd][PDX0(v)].at

EnsureLevel0(x, pgdir, v) == EnsureTable(x, x.tab[pgdir][PDX1(v)].at, PDX0(v))

\* get_pte with create: both levels of tables on the way to page v exist.
get_pte(x, pgdir, v) == EnsureLevel0(EnsureTable(x, pgdir, PDX1(v)), pgdir, v)

Entry(x, pgdir, v) ==
    LET pt == PageTable(x, pgdir, v) IN IF pt = 0 THEN NoEntry ELSE x.tab[pt][PTX(v)]

SetEntry(x, pgdir, v, e) == [x EXCEPT !.tab[PageTable(x, pgdir, v)][PTX(v)] = e]

\* Fault: the last reference does not free the frame.
DropRefKept(x, f) == [x EXCEPT !.ref[f] = @ - 1]

DropRef(x, f) ==
    IF x.ref[f] = 1 THEN free_page(x, f) ELSE [x EXCEPT !.ref[f] = @ - 1]

page_remove_pte(x, pgdir, v) ==
    IF Entry(x, pgdir, v).at = 0 THEN x
    ELSE SetEntry(DropRef(x, Entry(x, pgdir, v).at), pgdir, v, NoEntry)

\* Point the entry of v to frame f, whatever it pointed to before.
InsertEntry(x, pgdir, f, v, w) ==
    SetEntry(IF Entry(x, pgdir, v).at = f THEN x
             ELSE [page_remove_pte(x, pgdir, v) EXCEPT !.ref[f] = @ + 1],
             pgdir, v, [at |-> f, w |-> w])

page_insert(x, pgdir, f, v, w) == InsertEntry(get_pte(x, pgdir, v), pgdir, f, v, w)

MapFrame(x, pgdir, f, v, w) == [page_insert(x, pgdir, f, v, w) EXCEPT !.got = f]

InsertGot(x, pgdir, v, w) == IF x.panic THEN x ELSE MapFrame(x, pgdir, x.got, v, w)

pgdir_alloc_page(x, pgdir, v, w) == InsertGot(alloc_page(x), pgdir, v, w)

\* A range without a page table is skipped in one go.
RECURSIVE unmap_range(_, _, _, _)
unmap_range(x, pgdir, v, end) ==
    IF v >= end THEN x
    ELSE IF PageTable(x, pgdir, v) = 0 THEN unmap_range(x, pgdir, Fan * (v \div Fan + 1), end)
    ELSE unmap_range(page_remove_pte(x, pgdir, v), pgdir, v + 1, end)

\* Free the page table of entry i of the directory pd, when it is empty.
FreeTable(x, pd, i) ==
    LET pt == x.tab[pd][i].at
    IN  IF pt # 0 /\ \A j \in 0 .. Fan - 1 : x.tab[pt][j].at = 0
        THEN [free_page(x, pt) EXCEPT !.tab[pd][i] = NoEntry] ELSE x

RECURSIVE FreeTables(_, _, _, _)
FreeTables(x, pd, i, last) ==
    IF i > last THEN x ELSE FreeTables(FreeTable(x, pd, i), pd, i + 1, last)

\* The directory goes when every entry looked at was valid when it was looked at.
FreeDirectory(x, pgdir, d, pd, whole) ==
    IF whole
    THEN [free_page(x, pd) EXCEPT !.tab[pgdir][d] = NoEntry,
              !.torn = @ \/ \E i \in 0 .. Fan - 1 : x.tab[pd][i].at # 0]
    ELSE x

ExitDirectory(x, pgdir, d, first, last) ==
    LET pd == x.tab[pgdir][d].at
    IN  IF pd = 0 THEN x
        ELSE FreeDirectory(FreeTables(x, pd, first, last), pgdir, d, pd,
                           \A i \in first .. last : x.tab[pd][i].at # 0)

\* Directory by directory, from the table of the first page to that of the last.
RECURSIVE exit_range(_, _, _, _)
exit_range(x, pgdir, v, end) ==
    IF v >= end THEN x
    ELSE LET d == PDX1(v)
             last == IF PDX1(end - 1) = d THEN PDX0(end - 1) ELSE Fan - 1
         IN  exit_range(ExitDirectory(x, pgdir, d, PDX0(v), last), pgdir,
                        Fan * Fan * (d + 1), end)

\* Fault: the frame is shared, not copied.
ShareFrame(x, to, f, v, w) == IF x.panic THEN x ELSE page_insert(x, to, f, v, w)

CopyGot(x, to, f, v, w) ==
    IF x.panic THEN x
    ELSE page_insert([x EXCEPT !.data[x.got] = x.data[f]], to, x.got, v, w)

\* The tables of the copy first, then its page, then the copy itself.
CopyPage(x, to, e, v) == CopyGot(alloc_page(get_pte(x, to, v)), to, e.at, v, e.w)

RECURSIVE copy_range(_, _, _, _, _)
copy_range(x, to, from, v, end) ==
    IF v >= end \/ x.panic THEN x
    ELSE IF PageTable(x, from, v) = 0
    THEN copy_range(x, to, from, Fan * (v \div Fan + 1), end)
    ELSE IF Entry(x, from, v).at = 0 THEN copy_range(x, to, from, v + 1, end)
    ELSE copy_range(CopyPage(x, to, Entry(x, from, v), v), to, from, v + 1, end)
-----------------------------------------------------------------------------
(* Areas *)

Fail(x) == [x EXCEPT !.err = TRUE]
Panic(x) == [x EXCEPT !.panic = TRUE]

Has(area, v) == area.s <= v /\ v < area.e

\* find_vma: the cached area, or the first of the list; <<>> for NULL.
find_vma(m, v) ==
    IF m.cache # <<>> /\ Has(m.cache[1], v) THEN m.cache
    ELSE LET hit == {i \in DOMAIN m.areas : Has(m.areas[i], v)}
         IN  IF hit = {} THEN <<>> ELSE <<m.areas[CHOOSE i \in hit : \A j \in hit : i <= j]>>

\* ... and what it leaves in mmap_cache.
Cached(m, v) == IF find_vma(m, v) = <<>> THEN m ELSE [m EXCEPT !.cache = find_vma(m, v)]

check_vma_overlap(prev, next) == prev.s < prev.e /\ prev.e <= next.s /\ next.s < next.e

\* Behind the areas that start no later; an overlap with a neighbour is an assert.
insert_vma_struct(x, vma) ==
    LET areas == x.m.areas
        n == Len(SelectSeq(areas, LAMBDA a : a.s <= vma.s))
    IN  IF /\ vma.s < vma.e
           /\ n > 0 => check_vma_overlap(areas[n], vma)
           /\ n < Len(areas) => check_vma_overlap(vma, areas[n + 1])
        THEN [x EXCEPT !.m.areas = InsertAt(areas, n + 1, vma)] ELSE Panic(x)

USER_ACCESS(start, end) == USERBASE <= start /\ start < end /\ end <= USERTOP

\* Only the area of the first page is looked for before the insertion.
mm_map(x, addr, len, flags) ==
    LET start == RoundDown(addr)
        end == RoundUp(addr + len)
        vma == [s |-> start \div PGSIZE, e |-> end \div PGSIZE, flags |-> flags]
    IN  IF ~USER_ACCESS(start, end) THEN Fail(x)
        ELSE IF find_vma(x.m, vma.s) # <<>> THEN Fail([x EXCEPT !.m = Cached(@, vma.s)])
        ELSE insert_vma_struct(x, vma)

DupArea(x, from, area) ==
    copy_range(insert_vma_struct(x, area), x.m.pgdir, from.pgdir, area.s, area.e)

\* From the last area to the first.
dup_mmap(x, from) ==
    FoldRight(LAMBDA area, y : IF y.panic THEN y ELSE DupArea(y, from, area), from.areas, x)

\* Every range is unmapped before the first table is freed.
exit_mmap(x) ==
    FoldLeft(LAMBDA y, a : exit_range(y, x.m.pgdir, a.s, a.e),
             FoldLeft(LAMBDA y, a : unmap_range(y, x.m.pgdir, a.s, a.e), x, x.m.areas),
             x.m.areas)

\* The assert of mm_destroy and exit_mmap: nobody uses the mm_struct.
mm_destroy(x) == IF x.m.count = 0 THEN [x EXCEPT !.m = NullMM] ELSE Panic(x)

put_pgdir(x) == free_page(x, x.m.pgdir)

mm_create(x) == [x EXCEPT !.m = NullMM]

\* The user part of boot_pgdir is empty.
setup_pgdir(x) ==
    LET y == alloc_page(x) IN [y EXCEPT !.m.pgdir = y.got, !.tab[y.got] = NoTable]

Release(x) == mm_destroy(put_pgdir(exit_mmap(x)))

\* do_exit and do_execve drop the old memory when its count falls to 0.
DropMM(x) ==
    LET y == [x EXCEPT !.m.count = @ - 1] IN IF y.m.count = 0 THEN Release(y) ELSE y

copy_mm(x, from) ==
    LET y == dup_mmap(setup_pgdir(mm_create(x)), from)
    IN  IF y.panic THEN y ELSE [y EXCEPT !.m.count = @ + 1]
-----------------------------------------------------------------------------
(* Page faults and access to user memory *)

FaultIn(x, v, area) ==
    LET y == get_pte([x EXCEPT !.m.cache = <<area>>], x.m.pgdir, v)
    IN  IF y.panic THEN y
        ELSE IF Entry(y, x.m.pgdir, v) = NoEntry THEN pgdir_alloc_page(y, x.m.pgdir, v, "VM_WRITE" \in area.flags)
        ELSE Panic(y)     \* a valid entry is taken for a swap entry out of range

\* Outside every area the handler's error is a panic.
do_pgfault(x, v) ==
    IF find_vma(x.m, v) = <<>> THEN Panic(x) ELSE FaultIn(x, v, find_vma(x.m, v)[1])

\* Fault: whoever may not write may still read.
AllowsAnyRead(area, start, write) ==
    write => /\ "VM_WRITE" \in area.flags
             /\ "VM_STACK" \in area.flags => start >= PGSIZE * (area.s + 1)

\* The flag that is asked for; a write may not begin in the first page of the stack.
Allows(area, start, write) ==
    /\ (IF write THEN "VM_WRITE" ELSE "VM_READ") \in area.flags
    /\ write /\ "VM_STACK" \in area.flags => start >= PGSIZE * (area.s + 1)

\* Area by area from start to end.  The result has the answer, and the mm_struct
\* with the mmap_cache that the last find_vma left.
RECURSIVE CheckAreas(_, _, _, _)
CheckAreas(m, start, end, write) ==
    IF start >= end THEN [ok |-> TRUE, m |-> m]
    ELSE LET hit == find_vma(m, start \div PGSIZE)
             moved == Cached(m, start \div PGSIZE)
         IN  IF hit # <<>> /\ Allows(hit[1], start, write)
             THEN CheckAreas(moved, PGSIZE * hit[1].e, end, write)
             ELSE [ok |-> FALSE, m |-> moved]

KERN_ACCESS(start, end) == KERNBASE <= start /\ start < end /\ end <= KERNTOP

\* Fault: only the area of the first byte is looked at.
user_mem_check_first(m, addr, len, write) ==
    IF m = NullMM THEN [ok |-> KERN_ACCESS(addr, (addr + len) % WORD), m |-> m]
    ELSE IF USER_ACCESS(addr, (addr + len) % WORD)
    THEN CheckAreas(m, addr, addr + 1, write) ELSE [ok |-> FALSE, m |-> m]

\* A kernel thread has no mm_struct and may pass kernel addresses.
user_mem_check(m, addr, len, write) ==
    LET end == (addr + len) % WORD
    IN  IF m = NullMM THEN [ok |-> KERN_ACCESS(addr, end), m |-> m]
        ELSE IF USER_ACCESS(addr, end) THEN CheckAreas(m, addr, end, write)
        ELSE [ok |-> FALSE, m |-> m]
-----------------------------------------------------------------------------
(* Executables.  A program is a record: magic (the ELF magic is right), hdrs *)
(* (program headers the file holds), len (its length in bytes) and segs, one *)
(* per header: load (PT_LOAD), va, filesz, memsz, offset and flags, the area *)
(* flags that its ELF_PF_R, W and X stand for.                               *)

FileByte(o) == o + 1

\* What the process must find at the addresses of a loaded program.
Image(prog) ==
    LET loaded == {i \in DOMAIN prog.segs : prog.segs[i].load}
        At(i) == prog.segs[i].va .. prog.segs[i].va + prog.segs[i].memsz - 1
    IN  [a \in UNION {At(i) : i \in loaded} |->
            LET seg == prog.segs[CHOOSE i \in loaded : a \in At(i)]
            IN  IF a - seg.va < seg.filesz THEN FileByte(seg.offset + a - seg.va) ELSE 0]

\* Fill size bytes of the page got from off on, and move start on.
Fill(x, off, size, byte(_)) ==
    [x EXCEPT !.data[x.got] = [i \in DOMAIN @ |-> IF i \in off .. off + size - 1
                                                  THEN byte(i - off) ELSE @[i]],
              !.start = @ + size]

\* How much of the page at la, from start on, lies before end.
SizeIn(start, la, end) == (IF end < la + PGSIZE THEN end ELSE la + PGSIZE) - start

Writable(seg) == "VM_WRITE" \in seg.flags

ReadPage(x, prog, off, size) ==
    IF ~Alive(x) THEN x
    ELSE IF x.offset + size > prog.len THEN Fail([x EXCEPT !.la = @ + PGSIZE])
    ELSE [Fill(x, off, size, LAMBDA i : FileByte(x.offset + i))
            EXCEPT !.la = @ + PGSIZE, !.offset = @ + size]

\* TEXT and DATA: a page at a time from the file.
RECURSIVE LoadFile(_, _, _)
LoadFile(x, prog, seg) ==
    IF x.start >= seg.va + seg.filesz \/ ~Alive(x) THEN x
    ELSE LoadFile(ReadPage(pgdir_alloc_page(x, x.m.pgdir, x.la \div PGSIZE, Writable(seg)), prog,
                           x.start - x.la, SizeIn(x.start, x.la, seg.va + seg.filesz)),
                  prog, seg)

\* The rest of the last page of the file part, with the assert after it.
LoadTail(x, end) ==
    IF x.start >= x.la \/ x.start = end \/ ~Alive(x) THEN x
    ELSE LET off == x.start + PGSIZE - x.la
             size == PGSIZE - off - (IF end < x.la THEN x.la - end ELSE 0)
             y == Fill(x, off, size, LAMBDA i : 0)
         IN  IF (end < x.la /\ y.start = end) \/ (end >= x.la /\ y.start = x.la)
             THEN y ELSE Panic(y)

ZeroPage(x, off, size) ==
    IF ~Alive(x) THEN x ELSE [Fill(x, off, size, LAMBDA i : 0) EXCEPT !.la = @ + PGSIZE]

\* BSS: pages of zeros.
RECURSIVE LoadZeros(_, _, _)
LoadZeros(x, seg, end) ==
    IF x.start >= end \/ ~Alive(x) THEN x
    ELSE LoadZeros(ZeroPage(pgdir_alloc_page(x, x.m.pgdir, x.la \div PGSIZE, Writable(seg)),
                            x.start - x.la, SizeIn(x.start, x.la, end)), seg, end)

LoadMapped(x, prog, seg) ==
    LET end == seg.va + seg.memsz
    IN  LoadZeros(LoadTail(LoadFile([x EXCEPT !.start = seg.va, !.la = RoundDown(seg.va),
                                              !.offset = seg.offset], prog, seg),
                           end), seg, end)

LoadSegment(x, prog, i) ==
    LET seg == prog.segs[i]
    IN  IF ~Alive(x) \/ (i <= prog.hdrs /\ ~seg.load) THEN x
        ELSE IF i > prog.hdrs \/ seg.filesz > seg.memsz THEN Fail(x)
        ELSE LoadMapped(mm_map(x, seg.va, seg.memsz, seg.flags), prog, seg)

LoadSegments(x, prog) ==
    FoldLeft(LAMBDA y, i : LoadSegment(y, prog, i), x, [i \in 1 .. Len(prog.segs) |-> i])

\* The area of the stack and its top pages.
StackPages(x) ==
    FoldLeft(LAMBDA y, i : IF y.panic THEN y
                           ELSE pgdir_alloc_page(y, x.m.pgdir, NVPage - i, TRUE),
             x, [i \in 1 .. EagerStack |-> i])

MapStack(x) ==
    IF ~Alive(x) THEN x
    ELSE LET y == mm_map(x, USERTOP - USTACKPAGE * PGSIZE, USTACKPAGE * PGSIZE,
                         {"VM_READ", "VM_WRITE", "VM_STACK"})
         IN  IF Alive(y) THEN [StackPages(y) EXCEPT !.m.count = @ + 1] ELSE y

\* The error paths release what was built; before the first program header there
\* is only the directory.
CleanUp(x) == IF x.panic \/ ~x.err THEN x ELSE Release(x)

load_icode(x, prog) ==
    LET y == setup_pgdir(mm_create(x))
    IN  IF y.panic THEN y
        ELSE IF prog.len = 0 \/ ~prog.magic THEN mm_destroy(put_pgdir(Fail(y)))
        ELSE CleanUp(MapStack(LoadSegments(y, prog)))
-----------------------------------------------------------------------------
(* Steps of the processes; every call runs to its end without interruption *)

Boot ==
    [mm |-> [p \in Proc |-> NullMM], free |-> 1 .. NFrame, tab |-> [f \in Frame |-> NoTable],
     data |-> [f \in Frame |-> NoData], ref |-> [f \in Frame |-> 0]]

Init ==
    /\ mm = Boot.mm /\ free = Boot.free /\ tab = Boot.tab
    /\ data = Boot.data /\ ref = Boot.ref
    /\ panic = FALSE /\ torn = FALSE

\* The state after a call of process p.  A panic stops the kernel: what its
\* memory held no longer matters.
Becomes(p, x) ==
    IF x.panic
    THEN /\ mm' = Boot.mm /\ free' = Boot.free /\ tab' = Boot.tab
         /\ data' = Boot.data /\ ref' = Boot.ref
         /\ panic' = TRUE /\ torn' = FALSE
    ELSE /\ mm' = [mm EXCEPT ![p] = x.m]
         /\ free' = x.free /\ tab' = x.tab /\ data' = x.data /\ ref' = x.ref
         /\ panic' = FALSE /\ torn' = x.torn

IsUser(p) == mm[p] # NullMM
PTE(p, a) == Entry(World(mm[p]), mm[p].pgdir, a \div PGSIZE)

\* A kernel thread (kernel_execve) or a user process; a program that cannot be
\* loaded ends the process, without its old memory and without a new one.
do_execve(p, prog) ==
    /\ ~panic
    /\ LET x == IF IsUser(p) THEN DropMM(World(mm[p])) ELSE World(mm[p])
       IN  Becomes(p, IF x.panic THEN x ELSE load_icode(x, prog))

\* The part of do_fork that copies the memory.
do_fork(p, q) ==
    /\ ~panic /\ IsUser(p) /\ ~IsUser(q)
    /\ Becomes(q, copy_mm(World(NullMM), mm[p]))

\* The part of do_exit that releases it.
do_exit(p) ==
    /\ ~panic /\ IsUser(p)
    /\ Becomes(p, DropMM(World(mm[p])))

\* The process touches a page that is not mapped.
pgfault_handler(p, v) ==
    /\ ~panic /\ IsUser(p) /\ PTE(p, PGSIZE * v) = NoEntry
    /\ Becomes(p, do_pgfault(World(mm[p]), v))

\* A store instruction; a store to a read-only page faults.
Store(p, a, b) ==
    /\ ~panic /\ IsUser(p) /\ PTE(p, a) # NoEntry
    /\ Becomes(p, IF PTE(p, a).w
                  THEN [World(mm[p]) EXCEPT !.data[PTE(p, a).at][a % PGSIZE] = b]
                  ELSE do_pgfault(World(mm[p]), a \div PGSIZE))

\* A system call of the process checks a range it was passed (copy_from_user,
\* copy_to_user, copy_string); the copy itself is made of accesses as above.  A
\* check that leaves mmap_cache as it was changes nothing: it is no step.
CheckRange(p, a, len, write) ==
    /\ ~panic /\ IsUser(p)
    /\ LET m == user_mem_check(mm[p], a, len, write).m
       IN  m # mm[p] /\ Becomes(p, World(m))

Next == \/ \E p \in Proc : (\E prog \in Programs : do_execve(p, prog)) \/ do_exit(p)
        \/ \E p, q \in Proc : do_fork(p, q)
        \/ \E p \in Proc : \E v \in 0 .. NVPage - 1 : pgfault_handler(p, v)
        \/ \E p \in Proc : \E a \in Watched : \E b \in Bytes : Store(p, a, b)
        \/ \E p \in Proc : \E a \in Watched : \E len \in Extents : \E write \in BOOLEAN :
                CheckRange(p, a, len, write)

Spec == Init /\ [][Next]_vars
-----------------------------------------------------------------------------
\* The entries of live tables that hold a frame: the directory of each process,
\* its level 0 directories, its page tables and its pages.
Holders(f) ==
    LET dirs == {<<p>> : p \in {p \in Proc : IsUser(p) /\ mm[p].pgdir = f}}
        In(t) == {<<t, i>> : i \in {i \in 0 .. Fan - 1 : tab[t][i].at = f}}
        Tables(t) == {tab[t][i].at : i \in 0 .. Fan - 1} \ {0}
        level1 == {mm[p].pgdir : p \in {p \in Proc : IsUser(p)}}
        level0 == UNION {Tables(t) : t \in level1}
        pts == UNION {Tables(t) : t \in level0}
    IN  dirs \union UNION {In(t) : t \in level1 \union level0 \union pts}

\* Page frames are exact across exec, fork, faults and exit: a frame is free and
\* nobody's, or held by exactly one entry of one process (its reference count
\* says so, but for directories, which have none).
FramesExact ==
    ~panic => \A f \in 1 .. NFrame :
        /\ Cardinality(Holders(f)) = IF f \in free THEN 0 ELSE 1
        /\ ref[f] = IF f \in free \/ \E p \in Proc : IsUser(p) /\ mm[p].pgdir = f
                    THEN 0 ELSE 1

\* A directory is freed "only when all pde0s in it are already invalid".
DirectoryEmpty == ~torn

\* What a byte of user memory may be used for.
Permits(area, a, write) ==
    /\ Has(area, a \div PGSIZE)
    /\ IF write THEN "VM_WRITE" \in area.flags ELSE "VM_READ" \in area.flags
    /\ write /\ "VM_STACK" \in area.flags => a >= PGSIZE * (area.s + 1)

MayUse(p, b, write) ==
    IF IsUser(p) THEN \E i \in DOMAIN mm[p].areas : Permits(mm[p].areas[i], b, write)
    ELSE KERNBASE <= b /\ b < KERNTOP

\* user_mem_check, which walks from area to area through a cache that earlier
\* calls, faults and failed calls have moved, says exactly whether there is a byte
\* in the range and every one may be read or written, also for a range that wraps
\* round the end of the address space; mmap_cache is an area of its own list.
UserMemExact ==
    \A p \in Proc :
        /\ mm[p].cache = <<>> \/ \E i \in DOMAIN mm[p].areas : mm[p].cache = <<mm[p].areas[i]>>
        /\ \A write \in BOOLEAN :
              LET usable == {b \in 0 .. WORD - 1 : MayUse(p, b, write)}
              IN  \A a, len \in 0 .. WORD - 1 :
                    user_mem_check(mm[p], a, len, write).ok
                      = (len > 0 /\ a .. a + len - 1 \subseteq usable)

\* The bytes a process finds at its addresses; none after a panic.
Flat(p) ==
    IF ~IsUser(p) THEN [a \in Addr |-> Unmapped]
    ELSE LET x == World(mm[p])
             at == [v \in 0 .. NVPage - 1 |-> Entry(x, mm[p].pgdir, v).at]
         IN  [a \in Addr |-> IF at[a \div PGSIZE] = 0 THEN Unmapped
                             ELSE data[at[a \div PGSIZE]][a % PGSIZE]]

PM == INSTANCE PrivateMemory WITH flat <- [p \in Proc |-> Flat(p)]

\* The page tables, frames and copies give every process memory of its own, with
\* the program in it after exec and the parent's after fork.
ImplementsPrivateMemory == PM!Spec

=============================================================================
