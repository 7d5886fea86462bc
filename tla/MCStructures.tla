--------------------------- MODULE MCStructures ---------------------------
(***************************************************************************)
(* Memory management, the lists and libraries, mksfs and SFS, in one run.  *)
(* The components share no state: a behaviour is one of "part", the others *)
(* stay as they were at the start.                                         *)
(***************************************************************************)
EXTENDS Integers, Sequences, FiniteSets, TLC

CONSTANTS Parts,                                            \* the parts of this run
          Timer, Modulus,                                   \* TimerList
          NPAGE, NULL,                                      \* FirstFit
          PAGE, NPage, BigUnits, KSizes,                    \* Kmalloc
          NProc, MAX_PROCESS, MAX_PID, HASH_LIST_SIZE,      \* ProcTable
          NVirt, NPhys, Managers, max_swap_offset,          \* Swap
          Proc, NFrame, Fan, PGSIZE, USERBASE, USTACKPAGE,  \* AddressSpace
          EagerStack, Programs, Watched, Bytes, Extents,
          Letters, MaxString, Cells, Numbers, Widths, Sizes,\* Strings
          INT_BITS, LONG_BITS,
          File, Fd, NBlock, SFS_BLKSIZE, SFS_NDIRECT,       \* SfsFile
          SFS_MAX_FILE_SIZE, IOBUF_SIZE, Content, Lengths, Seeks, MaxCalls,
          Real, Type, Kids, Extras, Stem, TooLong, Pieces,  \* SfsNames
          Hidden, ImageSizes, Devices,
          SFS_BLKBITS, NDirect, NEntry, SFS_LN_NBLKS, BufferSizes

VARIABLES part,
          timer_list, expires, fired,
          link, property, PG_property, nr_free, held, result,
          units, next, slobfree, bigblocks, pages, blocks, oom,
          state, pid, proc_list, hash_list, parent, cptr, yptr, optr, nr_process,
          last_pid, next_safe,
          phase, pc, pgfault_num, asserts, sm, w,
          mm, free, tab, data, ref, panic, torn,
          call, answer,
          mode, pos, of, calls, stale, disk,
          stage, ninos, stack, image, device, freemap, agrees

timervars == <<timer_list, expires, fired>>
pagevars == <<link, property, PG_property, nr_free, held, result>>
heapvars == <<units, next, slobfree, bigblocks, pages, blocks, oom>>
procvars == <<state, pid, proc_list, hash_list, parent, cptr, yptr, optr, nr_process,
              last_pid, next_safe>>
swapvars == <<phase, pc, pgfault_num, asserts, sm, w>>
vmvars == <<mm, free, tab, data, ref, panic, torn>>
textvars == <<call, answer>>
sfsvars == <<mode, pos, of, calls, stale, disk>>
namevars == <<stage, ninos, stack, image, device, freemap, agrees>>

T == INSTANCE TimerList
P == INSTANCE FirstFit
K == INSTANCE Kmalloc WITH Sizes <- KSizes, held <- blocks, panic <- oom
H == INSTANCE ProcTable
S == INSTANCE Swap
V == INSTANCE AddressSpace
L == INSTANCE Strings WITH result <- answer
F == INSTANCE SfsFile WITH Byte <- Content, phase <- mode, w <- disk
N == INSTANCE SfsNames WITH
        SFS_NDIRECT <- NDirect, SFS_BLK_NENTRY <- NEntry,
        phase <- stage, x <- image, asserts <- agrees

ASSUME ParametersAllowed == V!GeometryAssumption /\ H!PidAssumption
-----------------------------------------------------------------------------
\* Executables: text and data with a header to skip; one segment that straddles
\* two pages and may be written but, by its flags, not read; a file that ends
\* before its data; and a file that is no program.
Seg(va, filesz, memsz, offset, flags) ==
    [load |-> TRUE, va |-> va, filesz |-> filesz, memsz |-> memsz, offset |-> offset, flags |-> flags]

RX == {"VM_READ", "VM_EXEC"}
RW == {"VM_READ", "VM_WRITE"}
Skipped == [Seg(0, 0, 0, 0, {}) EXCEPT !.load = FALSE]

Prog(segs, len) == [magic |-> TRUE, hdrs |-> Len(segs), len |-> len, segs |-> segs]

MCPrograms ==
    {Prog(<<Skipped, Seg(4, 1, 1, 0, RX), Seg(6, 1, 2, 1, RW)>>, 2),
     Prog(<<Seg(5, 1, 3, 0, {"VM_WRITE"})>>, 1),
     Prog(<<Seg(4, 2, 2, 0, RX), Seg(6, 1, 2, 2, RW)>>, 2),
     [magic |-> FALSE, hdrs |-> 0, len |-> 1, segs |-> <<>>]}

\* The bytes of two calls in a row differ.
MCContent == [i \in 1 .. MaxCalls |-> 10 + (i % 2)]

\* The tree given to mksfs: nested directories, a file with two names, an empty
\* file, a link, a device, a hidden name, and a file that needs a table of tables.
\* In some trees there is besides a fifo, a socket, a name that is too long, or one
\* or two of the longest names there can be.
Entry(name, real) == [name |-> name, real |-> real]

MCType == (0 :> "dir") @@ (1 :> "dir") @@ (2 :> "file") @@ (3 :> "file") @@ (4 :> "link")
          @@ (5 :> "dev") @@ (6 :> "dir") @@ (7 :> "file") @@ (8 :> "dir") @@ (9 :> "fifo")
          @@ (10 :> "sock")

MCKids == (0 :> {Entry("a", 2), Entry("d", 1), Entry("l", 4), Entry("f", 5), Entry(".h", 3)})
          @@ (1 :> {Entry("b", 3), Entry("e", 6), Entry("a", 2)}) @@ (6 :> {Entry("c", 7)})
          @@ (8 :> {})

MCExtras == {{}, {Entry("p", 9)}, {Entry("s", 10)}, {Entry("z", 3)}, {Entry("n1", 8)},
             {Entry("n1", 8), Entry("n2", 3)}}

MCStem == ("n1" :> "n") @@ ("n2" :> "n")

\* Of the right size; too small; with other blocks; with something else on it.
MCDevices == {[d_blocksize |-> SFS_BLKSIZE, d_blocks |-> 48, sfs |-> TRUE],
              [d_blocksize |-> SFS_BLKSIZE, d_blocks |-> 44, sfs |-> TRUE],
              [d_blocksize |-> SFS_BLKSIZE + 1, d_blocks |-> 48, sfs |-> TRUE],
              [d_blocksize |-> SFS_BLKSIZE, d_blocks |-> 48, sfs |-> FALSE]}

MCPieces == (2 :> <<2, 2, 1>>) @@ (3 :> <<>>) @@ (4 :> <<1>>)
            @@ (7 :> <<2, 2, 2, 2, 2, 2, 2, 1>>)
TwoTables == {Prog(<<Seg(2, 1, 1, 0, RX), Seg(4, 1, 1, 1, RW)>>, 2)}
-----------------------------------------------------------------------------
Init ==
    /\ part \in Parts
    /\ T!Init /\ P!Init /\ K!Init /\ H!Init /\ S!Init /\ V!Init /\ L!Init /\ F!Init /\ N!InitAll
    /\ part # "swap" => sm = "clock"
    /\ part # "names" => image.extra = {} /\ \A n \in ImageSizes : n <= ninos

TimerStep ==
    /\ part = "timers" /\ T!Next
    /\ UNCHANGED <<part, pagevars, heapvars, procvars, swapvars, vmvars, textvars,
                   sfsvars, namevars>>

\* The last page is never handed out: memory does not run out.
PageStep ==
    /\ part = "pages" /\ P!Next /\ P!Roomy
    /\ UNCHANGED <<part, timervars, heapvars, procvars, swapvars, vmvars, textvars,
                   sfsvars, namevars>>

HeapStep ==
    /\ part = "heap" /\ K!Next
    /\ UNCHANGED <<part, timervars, pagevars, procvars, swapvars, vmvars, textvars,
                   sfsvars, namevars>>

ProcStep ==
    /\ part = "processes" /\ H!Next
    /\ UNCHANGED <<part, timervars, pagevars, heapvars, swapvars, vmvars, textvars,
                   sfsvars, namevars>>

SwapStep ==
    /\ part = "swap" /\ S!Next
    /\ UNCHANGED <<part, timervars, pagevars, heapvars, procvars, vmvars, textvars,
                   sfsvars, namevars>>

VmStep ==
    /\ part = "vm" /\ V!Next
    /\ UNCHANGED <<part, timervars, pagevars, heapvars, procvars, swapvars, textvars,
                   sfsvars, namevars>>

TextStep ==
    /\ part = "text" /\ L!Next
    /\ UNCHANGED <<part, timervars, pagevars, heapvars, procvars, swapvars, vmvars,
                   sfsvars, namevars>>

SfsStep ==
    /\ part = "sfs" /\ F!Next
    /\ UNCHANGED <<part, timervars, pagevars, heapvars, procvars, swapvars, vmvars,
                   textvars, namevars>>

NamesStep ==
    /\ part = "names" /\ N!NextAll
    /\ UNCHANGED <<part, timervars, pagevars, heapvars, procvars, swapvars, vmvars,
                   textvars, sfsvars>>

Next == TimerStep \/ PageStep \/ HeapStep \/ ProcStep \/ SwapStep \/ VmStep \/ TextStep
        \/ SfsStep \/ NamesStep

Spec == Init /\ [][Next]_<<part, timervars, pagevars, heapvars, procvars, swapvars, vmvars,
                           textvars, sfsvars, namevars>>

\* The view leaves out what no step reads again: in the address spaces, which
\* frames hold what (a frame is as good as another, and the model takes one by
\* CHOOSE) and which process has which memory (they run the same programs).  TLC
\* keeps the variables a view leaves out in a form it can store only if something
\* compares them: hence Evaluated.
Evaluated == LET rest == <<mm, free, tab, data, ref>> IN rest = rest

MemoryShape(p) == <<mm[p].areas, mm[p].cache, V!IsUser(p), V!Flat(p)>>

VmShape ==
    LET shape == [p \in Proc |-> MemoryShape(p)]
    IN  <<[s \in {shape[p] : p \in Proc} |-> Cardinality({p \in Proc : shape[p] = s})],
          Cardinality(free), panic, torn>>

Shape ==
    <<part, Evaluated,
      CASE part = "vm" -> VmShape
        [] OTHER -> <<timervars, pagevars, heapvars, procvars, swapvars, textvars, sfsvars, namevars>> >>

-----------------------------------------------------------------------------
\* add_timer, del_timer and run_timer_list implement independent timers.
ImplementsTimers == T!Abstract!Init /\ [][part = "timers" => [T!Abstract!Next]_T!Abstract!vars]_timervars

\* default_alloc_pages and default_free_pages keep the free list exact, and
\* add_timer, del_timer and run_timer_list leave a timer list whose head has ticks
\* left, as run_timer_list asserts.
ListsExact ==
    /\ part = "pages" => P!FreeListExact
    /\ part = "timers" => T!HeadHasTicks

\* default_alloc_pages and default_free_pages implement first fit.
ImplementsAllocator == P!A!Init /\ [][part = "pages" => [P!A!Next]_P!A!vars]_pagevars

\* slob_alloc, slob_free, __kmalloc and kfree: the free blocks, the blocks in use
\* and the free pages never overlap and together are all of the memory.
HeapExact == part = "heap" => K!HeapExact

\* get_pid gives no live process the pid of another, and set_links, hash_proc
\* and remove_links keep the list, the hash lists and the family tree in step
\* with the processes there are.
ProcessesFound == part = "processes" => H!PidsUnique /\ H!LinksExact

\* Whatever the manager evicts and the disk brings back, check_swap counts the
\* faults it expects, a page holds what was last stored in it, and the list of
\* the manager holds the pages in memory.
SwapExact == part = "swap" => S!CheckSwapPasses /\ S!ContentsKept /\ S!SwapListExact

\* A frame is free or has one owner with the right count, through exec, fork,
\* page faults, failures half way and exit; and user_mem_check answers for every
\* range of addresses, for reading and for writing, what the areas permit.
MemoryExact == part = "vm" => V!FramesExact /\ V!UserMemExact

\* load_icode, dup_mmap, do_pgfault and exit_mmap give every process memory of
\* its own.
ImplementsPrivateMemory == V!PM!Init /\ [][part = "vm" => [V!PM!Next]_V!PM!vars]_vmvars


\* sfs_io_nolock, sfs_bmap_load_nolock, sfs_truncfile and the bitmap: every block
\* is free or belongs to one file, fs_cleanup leaves on the disk what was in
\* memory, and a read returns the bytes last written at its position.
SfsExact == part = "sfs" => F!BlocksExact /\ F!ImageLeft /\ F!ReadsExact

\* A file of SFS, on its blocks and through its caches, is an array of bytes.
ImplementsByteFile == F!BF!Init /\ [][part = "sfs" => [F!BF!Next]_F!BF!vars]_sfsvars

\* The image mksfs writes is one sfs_do_mount accepts: its inodes, names, counts
\* and free map agree; and sfs_lookup, sfs_getdirentry and sfs_namefile find in it
\* the names of the host's directories, as far as mksfs wrote them.
NamesExact == part = "names" => N!ImageExact /\ N!NamesExact

\* exit_range, pmm.c:430: a page directory is freed "only when all pde0s
\* in it are already invalid".
DirectoryEmpty == V!DirectoryEmpty

=============================================================================
