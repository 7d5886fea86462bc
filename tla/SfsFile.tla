------------------------------ MODULE SfsFile ------------------------------
(***************************************************************************)
(* The data path of SFS, from the system calls read, write, lseek, open    *)
(* with O_TRUNC and O_APPEND, fsync and close down to the sectors of       *)
(* disk0: sysfile.c, file.c, sfs_inode.c, sfs_io.c, bitmap.c, dev_disk0.c. *)
(* Files share the blocks of a small disk.  Descriptors and inode counts   *)
(* are in Files; here an inode is in memory while a descriptor is open,    *)
(* and it may be kept or dropped after the last close.                     *)
(*                                                                         *)
(* A byte is a cell of a block and a sector is one cell; an entry of a     *)
(* table of blocks is a cell as well.  An on-disk inode has a block of its *)
(* own, outside of the blocks counted here.  Functions map a world w to    *)
(* the next one; w.got, w.ret, w.alen and w.buf are their results.         *)
(***************************************************************************)
EXTENDS Integers, Sequences, FiniteSets, FiniteSetsExt, Ramdisk

CONSTANTS
    File, Fd,
    NBlock,             \* blocks for data, numbered from 1; 0 is "no block"
    SFS_BLKSIZE,        \* also SFS_BLK_NENTRY
    SFS_NDIRECT,
    SFS_MAX_FILE_SIZE,
    IOBUF_SIZE,         \* sysfile.c: one block
    Byte,               \* 1..MaxCalls -> what the n-th call writes, not 0
    Lengths,            \* of a read or write
    Seeks,              \* positions for lseek
    NULL,
    MaxCalls

VARIABLES
    phase,     \* "mounted", "down" after fs_cleanup, "panic"
    pos,       \* Fd -> position, -1 when closed
    of,        \* Fd -> the file, NULL when closed
    calls,     \* of open, write and lseek, bounded by MaxCalls
    stale,     \* a write has begun past the end of its file
    w

vars == <<phase, pos, of, calls, stale, w>>

Block == 1 .. NBlock
SFS_BLK_NENTRY == SFS_BLKSIZE
Ceil(n) == (n + SFS_BLKSIZE - 1) \div SFS_BLKSIZE
NoInode == [size |-> 0, blocks |-> 0, direct |-> [i \in 0 .. SFS_NDIRECT - 1 |-> 0],
            indirect |-> 0]

Failed(x) == x.ret # "" \/ x.panic # ""
Panic(x, what) == [x EXCEPT !.panic = what]
-----------------------------------------------------------------------------
\* disk0_io, for SFS always one block: refused past the end.
disk0_write(disk, b, data) == ramdisk_write(disk, b * SFS_BLKSIZE, data, SFS_BLKSIZE)
disk0_read(disk, b) == ramdisk_read(disk, b * SFS_BLKSIZE, SFS_BLKSIZE)

\* sfs_wbuf: read the block, change some cells, write it back.
sfs_wbuf(x, b, off, data) ==
    [x EXCEPT !.disk = disk0_write(@, b, [i \in 0 .. SFS_BLKSIZE - 1 |->
        IF i \in off .. off + Len(data) - 1 THEN data[i - off + 1] ELSE disk0_read(x.disk, b)[i]])]

sfs_rbuf(x, b, off, len) == [i \in 1 .. len |-> disk0_read(x.disk, b)[off + i - 1]]

\* sfs_wblock: n blocks that follow each other on the disk.
RECURSIVE sfs_wblock(_, _, _, _)
sfs_wblock(x, b, n, data) ==
    IF n = 0 THEN x
    ELSE IF b \notin Block THEN Panic(x, "blkno")
    ELSE sfs_wblock(sfs_wbuf(x, b, 0, SubSeq(data, 1, SFS_BLKSIZE)), b + 1, n - 1,
                    SubSeq(data, SFS_BLKSIZE + 1, Len(data)))

sfs_clear_block(x, b) == sfs_wbuf(x, b, 0, [i \in 1 .. SFS_BLKSIZE |-> 0])

\* A bitmap is the set of its free bits, the lowest of which is handed out.
bitmap_alloc(x) ==
    IF x.freemap = {} THEN [x EXCEPT !.ret = "NO_MEM"]
    ELSE [x EXCEPT !.freemap = @ \ {Min(@)}, !.got = Min(x.freemap)]

bitmap_test(x, b) == b \in x.freemap

bitmap_free(x, b) ==
    IF bitmap_test(x, b) THEN Panic(x, "bit is set") ELSE [x EXCEPT !.freemap = @ \cup {b}]

ClearGot(x) ==
    IF Failed(x) THEN x
    ELSE sfs_clear_block([x EXCEPT !.unused = @ - 1, !.super_dirty = TRUE], x.got)

\* A new block is cleared.
sfs_block_alloc(x) == ClearGot(bitmap_alloc(x))

sfs_block_inuse(x, b) == b \in Block /\ ~bitmap_test(x, b)

sfs_block_free(x, b) ==
    IF ~sfs_block_inuse(x, b) THEN Panic(x, "inuse")
    ELSE [bitmap_free(x, b) EXCEPT !.unused = @ + 1, !.super_dirty = TRUE]
-----------------------------------------------------------------------------
\* The end of sfs_bmap_get_sub_nolock: the block got goes into the table ent, and
\* a table that was allocated for it goes into the inode, or back.
LinkEntry(x, f, ent, index) ==
    IF Failed(x)
    THEN IF ent = x.din[f].indirect THEN x ELSE sfs_block_free(x, ent)
    ELSE [sfs_wbuf(x, ent, index, <<x.got>>) EXCEPT
            !.din[f].indirect = ent, !.dirty[f] = @ \/ ent # x.din[f].indirect]

NewEntry(x, f, index) ==
    IF Failed(x) THEN x ELSE LinkEntry(sfs_block_alloc(x), f, x.got, index)

Entry(x, f, index) == sfs_rbuf(x, x.din[f].indirect, index, 1)[1]

sfs_bmap_get_sub_nolock(x, f, index, create) ==
    IF x.din[f].indirect # 0
    THEN IF Entry(x, f, index) # 0 \/ ~create THEN [x EXCEPT !.got = Entry(x, f, index)]
         ELSE NewEntry([x EXCEPT !.got = x.din[f].indirect], f, index)
    ELSE IF create THEN NewEntry(sfs_block_alloc(x), f, index) ELSE [x EXCEPT !.got = 0]

LinkDirect(x, f, index) ==
    IF Failed(x) THEN x ELSE [x EXCEPT !.din[f].direct[index] = x.got, !.dirty[f] = TRUE]

sfs_bmap_get_nolock(x, f, index, create) ==
    IF index < SFS_NDIRECT
    THEN IF x.din[f].direct[index] # 0 \/ ~create THEN [x EXCEPT !.got = x.din[f].direct[index]]
         ELSE LinkDirect(sfs_block_alloc(x), f, index)
    ELSE IF index - SFS_NDIRECT < SFS_BLK_NENTRY
    THEN sfs_bmap_get_sub_nolock(x, f, index - SFS_NDIRECT, create)
    ELSE Panic(x, "index out of range")

Loaded(x, f, create) ==
    IF Failed(x) THEN x
    ELSE IF ~sfs_block_inuse(x, x.got) THEN Panic(x, "inuse")
    ELSE IF create THEN [x EXCEPT !.din[f].blocks = @ + 1] ELSE x

\* The block of a file with this index; the one after the last is created.
sfs_bmap_load_nolock(x, f, index) ==
    IF index > x.din[f].blocks THEN Panic(x, "index <= blocks")
    ELSE Loaded(sfs_bmap_get_nolock(x, f, index, index = x.din[f].blocks), f,
                index = x.din[f].blocks)

\* Fault: the entry of the table is left.
free_sub_left(x, ent, index) ==
    LET b == sfs_rbuf(x, ent, index, 1)[1]
    IN  IF ~sfs_block_inuse(x, ent) THEN Panic(x, "inuse")
        ELSE IF b = 0 THEN x ELSE sfs_block_free(x, b)

sfs_bmap_free_sub_nolock(x, ent, index) ==
    LET b == sfs_rbuf(x, ent, index, 1)[1]
    IN  IF ~sfs_block_inuse(x, ent) THEN Panic(x, "inuse")
        ELSE IF b = 0 THEN x ELSE sfs_block_free(sfs_wbuf(x, ent, index, <<0>>), b)

sfs_bmap_free_nolock(x, f, index) ==
    IF index < SFS_NDIRECT
    THEN IF x.din[f].direct[index] = 0 THEN x
         ELSE [sfs_block_free(x, x.din[f].direct[index]) EXCEPT
                 !.din[f].direct[index] = 0, !.dirty[f] = TRUE]
    ELSE IF index - SFS_NDIRECT < SFS_BLK_NENTRY /\ x.din[f].indirect # 0
    THEN sfs_bmap_free_sub_nolock(x, x.din[f].indirect, index - SFS_NDIRECT)
    ELSE x

sfs_bmap_truncate_nolock(x, f) ==
    [sfs_bmap_free_nolock(x, f, x.din[f].blocks - 1) EXCEPT
        !.din[f].blocks = @ - 1, !.dirty[f] = TRUE]

\* The loops of sfs_truncfile: one block more, or one block less.
RECURSIVE Enlarge(_, _, _)
Enlarge(x, f, n) ==
    IF Failed(x) \/ x.din[f].blocks = n THEN x
    ELSE Enlarge(sfs_bmap_load_nolock(x, f, x.din[f].blocks), f, n)

RECURSIVE Shrink(_, _, _)
Shrink(x, f, n) ==
    IF x.din[f].blocks = n THEN x ELSE Shrink(sfs_bmap_truncate_nolock(x, f), f, n)

Resized(x, f, len) ==
    IF Failed(x) THEN x ELSE [x EXCEPT !.din[f].size = len, !.dirty[f] = TRUE]

sfs_truncfile(x, f, len) ==
    IF len > SFS_MAX_FILE_SIZE THEN [x EXCEPT !.ret = "INVAL"]
    ELSE IF x.din[f].size = len
    THEN IF Ceil(len) = x.din[f].blocks THEN x ELSE Panic(x, "tblks == blocks")
    ELSE Resized(IF x.din[f].blocks < Ceil(len) THEN Enlarge(x, f, Ceil(len))
                 ELSE Shrink(x, f, Ceil(len)), f, len)

sfs_tryseek(x, f, p) ==
    IF p < 0 \/ p >= SFS_MAX_FILE_SIZE THEN [x EXCEPT !.ret = "INVAL"]
    ELSE IF p > x.din[f].size THEN sfs_truncfile(x, f, p) ELSE x
-----------------------------------------------------------------------------
\* Fault: the offset in the block is ignored.
PartAtStart(x, off, n, write) ==
    IF Failed(x) THEN x
    ELSE [(IF write THEN sfs_wbuf(x, x.got, 0, SubSeq(x.buf, x.alen + 1, x.alen + n))
           ELSE [x EXCEPT !.buf = @ \o sfs_rbuf(x, x.got, 0, n)]) EXCEPT !.alen = @ + n]

\* sfs_buf_op on the block got: cells off .. off+n-1.
Part(x, off, n, write) ==
    IF Failed(x) THEN x
    ELSE [(IF write THEN sfs_wbuf(x, x.got, off, SubSeq(x.buf, x.alen + 1, x.alen + n))
           ELSE [x EXCEPT !.buf = @ \o sfs_rbuf(x, x.got, off, n)]) EXCEPT !.alen = @ + n]

\* sfs_block_op on n blocks from the block got.
Whole(x, n, write) ==
    IF Failed(x) THEN x
    ELSE [(IF write
           THEN sfs_wblock(x, x.got, n, SubSeq(x.buf, x.alen + 1, x.alen + n * SFS_BLKSIZE))
           ELSE [x EXCEPT !.buf = @ \o [i \in 1 .. n * SFS_BLKSIZE |->
                                          x.disk[x.got * SFS_BLKSIZE + i - 1]]])
          EXCEPT !.alen = @ + n * SFS_BLKSIZE]

FirstPart(x, f, from, to, write) ==
    IF from % SFS_BLKSIZE = 0 THEN x
    ELSE Part(sfs_bmap_load_nolock(x, f, from \div SFS_BLKSIZE), from % SFS_BLKSIZE,
              IF to \div SFS_BLKSIZE # from \div SFS_BLKSIZE
              THEN SFS_BLKSIZE - (from % SFS_BLKSIZE) ELSE to - from, write)

WholePart(x, f, blk, n, write) ==
    IF Failed(x) \/ n <= 0 THEN x ELSE Whole(sfs_bmap_load_nolock(x, f, blk), n, write)

LastPart(x, f, from, to, write) ==
    IF Failed(x) \/ to % SFS_BLKSIZE = 0
         \/ (from % SFS_BLKSIZE # 0 /\ to \div SFS_BLKSIZE = from \div SFS_BLKSIZE)
    THEN x
    ELSE Part(sfs_bmap_load_nolock(x, f, to \div SFS_BLKSIZE), 0, to % SFS_BLKSIZE, write)

Grown(x, f, from) ==
    IF x.panic = "" /\ from + x.alen > x.din[f].size
    THEN [x EXCEPT !.din[f].size = from + x.alen, !.dirty[f] = TRUE]
    ELSE x

Transfer(x, f, from, to, write) ==
    Grown(LastPart(WholePart(FirstPart(x, f, from, to, write), f, Ceil(from),
                             to \div SFS_BLKSIZE - Ceil(from), write),
                   f, from, to, write), f, from)

\* x.buf is the data to write, or becomes the data read.
sfs_io_nolock(x, f, from, len, write) ==
    LET to == Min({from + len, SFS_MAX_FILE_SIZE})
    IN  IF from >= SFS_MAX_FILE_SIZE THEN [x EXCEPT !.ret = "INVAL"]
        ELSE IF len = 0 \/ (~write /\ from >= x.din[f].size) THEN x
        ELSE Transfer(x, f, from, IF write THEN to ELSE Min({to, x.din[f].size}), write)

Fresh(x) == [x EXCEPT !.alen = 0, !.buf = <<>>]

\* sysfile_write: the data goes down in pieces of at most IOBUF_SIZE, each at the
\* position that the one before left.
RECURSIVE WriteLoop(_, _, _, _)
WriteLoop(x, f, p, data) ==
    IF data = <<>> THEN [x |-> x, pos |-> p]
    ELSE LET piece == SubSeq(data, 1, Min({IOBUF_SIZE, Len(data)}))
             y == sfs_io_nolock([Fresh(x) EXCEPT !.buf = piece], f, p, Len(piece), TRUE)
         IN  IF Failed(y) \/ y.alen = 0 THEN [x |-> y, pos |-> p + y.alen]
             ELSE WriteLoop(y, f, p + y.alen, SubSeq(data, y.alen + 1, Len(data)))

RECURSIVE ReadLoop(_, _, _, _, _)
ReadLoop(x, f, p, len, out) ==
    IF len = 0 THEN [x |-> x, out |-> out, pos |-> p]
    ELSE LET y == sfs_io_nolock(Fresh(x), f, p, Min({IOBUF_SIZE, len}), FALSE)
         IN  IF Failed(y) \/ y.alen = 0
             THEN [x |-> y, out |-> out \o y.buf, pos |-> p + y.alen]
             ELSE ReadLoop(y, f, p + y.alen, len - y.alen, out \o y.buf)

sfs_fsync(x, f) ==
    IF x.dirty[f] THEN [x EXCEPT !.dirty[f] = FALSE, !.ondisk[f] = x.din[f]] ELSE x

RECURSIVE SyncAll(_, _)
SyncAll(x, fs) ==
    IF fs = {} THEN x
    ELSE LET f == CHOOSE f \in fs : TRUE IN SyncAll(sfs_fsync(x, f), fs \ {f})

sfs_sync_super(x) == [x EXCEPT !.super = x.unused]
sfs_sync_freemap(x) == [x EXCEPT !.diskmap = x.freemap]

SyncMeta(x) ==
    IF x.super_dirty THEN [sfs_sync_freemap(sfs_sync_super(x)) EXCEPT !.super_dirty = FALSE] ELSE x

\* sfs_sync: the inodes in memory, then superblock and bitmap.
sfs_sync(x) == SyncMeta(SyncAll(x, {f \in File : x.cached[f]}))
-----------------------------------------------------------------------------
\* The mounted image: empty files.
Mounted ==
    [disk |-> [s \in 0 .. (NBlock + 1) * SFS_BLKSIZE - 1 |-> 0],
     freemap |-> Block, unused |-> NBlock, super_dirty |-> FALSE,
     super |-> NBlock, diskmap |-> Block,
     din |-> [f \in File |-> NoInode], ondisk |-> [f \in File |-> NoInode],
     dirty |-> [f \in File |-> FALSE], cached |-> [f \in File |-> FALSE],
     got |-> 0, ret |-> "", alen |-> 0, buf |-> <<>>, panic |-> ""]

Init ==
    /\ phase = "mounted" /\ calls = 0 /\ stale = FALSE
    /\ pos = [d \in Fd |-> -1] /\ of = [d \in Fd |-> NULL]
    /\ w = Mounted

\* An assert that fails stops the kernel; of its state only that is kept.
Becomes(x) ==
    IF x.panic = "" THEN phase' = "mounted" /\ w' = [x EXCEPT !.got = 0, !.ret = "", !.alen = 0,
                                                             !.buf = <<>>]
    ELSE phase' = "panic" /\ w' = [Mounted EXCEPT !.panic = x.panic]

\* sfs_reclaim, or not: the inode leaves memory.
Reclaimed(x, f, keep) ==
    IF keep THEN x ELSE [x EXCEPT !.cached[f] = FALSE, !.din[f] = NoInode]

load(x, f) ==
    IF x.cached[f] THEN x ELSE [x EXCEPT !.cached[f] = TRUE, !.din[f] = x.ondisk[f]]

\* vfs_open truncates after the open, file_open looks up the size once.
sysfile_open(d, f, flag) ==
    /\ phase = "mounted" /\ pos[d] = -1 /\ calls < MaxCalls
    /\ LET x == IF flag = "O_TRUNC" THEN sfs_truncfile(load(w, f), f, 0) ELSE load(w, f)
       IN  /\ Becomes(x)
           /\ pos' = [pos EXCEPT ![d] = IF flag = "O_APPEND" THEN x.din[f].size ELSE 0]
    /\ of' = [of EXCEPT ![d] = f]
    /\ calls' = calls + 1 /\ UNCHANGED stale

sysfile_write(d, n) ==
    /\ phase = "mounted" /\ pos[d] # -1 /\ calls < MaxCalls
    /\ LET r == WriteLoop(w, of[d], pos[d], [i \in 1 .. n |-> Byte[calls + 1]])
       IN  Becomes(r.x) /\ pos' = [pos EXCEPT ![d] = r.pos]
    /\ stale' = (stale \/ pos[d] > w.din[of[d]].size)
    /\ calls' = calls + 1 /\ UNCHANGED of

sysfile_read(d, n) ==
    /\ phase = "mounted" /\ pos[d] # -1
    /\ LET r == ReadLoop(w, of[d], pos[d], n, <<>>)
       IN  Becomes(r.x) /\ pos' = [pos EXCEPT ![d] = r.pos]
    /\ UNCHANGED <<of, calls, stale>>

sysfile_seek(d, p) ==
    /\ phase = "mounted" /\ pos[d] # -1 /\ calls < MaxCalls
    /\ LET x == sfs_tryseek(w, of[d], p)
       IN  Becomes(x) /\ pos' = [pos EXCEPT ![d] = IF Failed(x) THEN @ ELSE p]
    /\ calls' = calls + 1 /\ UNCHANGED <<of, stale>>

sysfile_fsync(d) ==
    /\ phase = "mounted" /\ pos[d] # -1
    /\ w' = sfs_fsync(w, of[d])
    /\ UNCHANGED <<phase, pos, of, calls, stale>>

\* The last close writes the inode back; whether it is also reclaimed depends on
\* the counts of Files, so both happen here.
sysfile_close(d) ==
    /\ phase = "mounted" /\ pos[d] # -1
    /\ pos' = [pos EXCEPT ![d] = -1]
    /\ IF \E e \in Fd \ {d} : pos[e] # -1 /\ of[e] = of[d] THEN UNCHANGED w
       ELSE \E keep \in BOOLEAN : w' = Reclaimed(sfs_fsync(w, of[d]), of[d], keep)
    /\ of' = [of EXCEPT ![d] = NULL]
    /\ UNCHANGED <<phase, calls, stale>>

\* init_main cleans up when every process has quit.
fs_cleanup ==
    /\ phase = "mounted" /\ \A d \in Fd : pos[d] = -1
    /\ phase' = "down" /\ w' = sfs_sync(w)
    /\ UNCHANGED <<pos, of, calls, stale>>

Next ==
    \/ \E d \in Fd : \/ \E f \in File, flag \in {"", "O_TRUNC", "O_APPEND"} : sysfile_open(d, f, flag)
                     \/ \E n \in Lengths : sysfile_write(d, n)
                     \/ \E n \in Lengths : sysfile_read(d, n)
                     \/ \E p \in Seeks : sysfile_seek(d, p)
                     \/ sysfile_fsync(d)
                     \/ sysfile_close(d)
    \/ fs_cleanup

Spec == Init /\ [][Next]_vars
-----------------------------------------------------------------------------
\* The blocks that an inode names, and its bytes.
Owned(dn) ==
    {dn.direct[i] : i \in 0 .. SFS_NDIRECT - 1} \cup {dn.indirect}
      \cup (IF dn.indirect = 0 THEN {}
            ELSE {w.disk[dn.indirect * SFS_BLKSIZE + i] : i \in 0 .. SFS_BLK_NENTRY - 1})

BlockAt(dn, i) ==
    IF i < SFS_NDIRECT THEN dn.direct[i]
    ELSE w.disk[dn.indirect * SFS_BLKSIZE + i - SFS_NDIRECT]

BytesOf(dn) ==
    [i \in 1 .. dn.size |->
        w.disk[BlockAt(dn, (i - 1) \div SFS_BLKSIZE) * SFS_BLKSIZE + ((i - 1) % SFS_BLKSIZE)]]

Inode(f) == IF w.cached[f] THEN w.din[f] ELSE w.ondisk[f]

\* No block is lost or shared: as long as no assert has failed, the bitmap marks
\* free exactly the blocks no inode names, the files name different blocks, and
\* the superblock's count is right; also where the disk ran full half-way.
BlocksExact ==
    phase # "panic" =>
        /\ w.freemap = Block \ UNION {Owned(Inode(f)) : f \in File}
        /\ \A f, g \in File : f # g => Owned(Inode(f)) \cap Owned(Inode(g)) \subseteq {0}
        /\ w.unused = Cardinality(w.freemap)

Sound == phase # "panic" /\ ~stale

\* What fs_cleanup leaves on the disk is what the programs wrote, and an image
\* that sfs_do_mount accepts: bitmap and count agree with the inodes on the disk.
ImageLeft ==
    phase = "down" =>
        /\ w.diskmap = Block \ UNION {Owned(w.ondisk[f]) : f \in File}
        /\ w.super = Cardinality(w.diskmap)
        /\ Sound => \A f \in File : BytesOf(w.ondisk[f]) = BytesOf(Inode(f))

\* read returns the bytes of the file from the position on, however they lie on
\* the disk.
ReadsExact ==
    phase = "mounted" /\ ~stale => \A d \in Fd, n \in Lengths : pos[d] # -1 =>
        LET c == BytesOf(Inode(of[d]))
        IN  ReadLoop(w, of[d], pos[d], n, <<>>).out
              = SubSeq(c, pos[d] + 1, Min({pos[d] + n, Len(c)}))

\* The files as byte strings, until a write begins past the end of its file.
BF == INSTANCE ByteFile WITH
        Bytes <- {Byte[i] : i \in 1 .. MaxCalls},
        content <- [f \in File |-> IF Sound THEN BytesOf(Inode(f)) ELSE <<>>],
        stopped <- phase # "mounted" \/ stale

\* SFS implements byte files: whatever the layout on the disk, and also when the
\* disk is full, a step changes one file, at the position of one descriptor.
ImplementsByteFile == BF!Spec

=============================================================================
