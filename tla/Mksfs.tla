------------------------------- MODULE Mksfs -------------------------------
(***************************************************************************)
(* tools/mksfs.c builds the disk image out of a directory of the host: it  *)
(* hands out blocks in order, writes data and directory entries at once    *)
(* and inodes, tables of blocks, bitmap and superblock at the end.         *)
(*                                                                         *)
(* A host file is known by its inode number ("real"); its contents are     *)
(* pieces of a block.  The functions map a world x to the next one; x.bug  *)
(* is set where the tool gives up.                                         *)
(***************************************************************************)
EXTENDS Integers, Sequences, FiniteSets, TLC

CONSTANTS
    Real,             \* host inodes; 0 is the directory given to mksfs
    Type,             \* Real -> {"dir", "file", "link", "dev", "fifo", "sock"}
    Kids,             \* Real -> set of [name, real]: a directory's entries
    Extras,           \* sets of further entries of the directory given to mksfs
    Stem,             \* names of 253 to 255 characters -> their first 252
    TooLong,          \* names of more than SFS_MAX_FNAME_LEN characters
    Pieces,           \* Real -> the lengths of a file's blocks
    Hidden,           \* names that start with a dot
    ImageSizes,       \* sizes of the image file, in blocks
    SFS_BLKBITS, SFS_NDIRECT, SFS_BLK_NENTRY, SFS_LN_NBLKS

VARIABLES phase, ninos, stack, x

mkvars == <<phase, ninos, stack, x>>

SFS_BLKN_SUPER == 0
SFS_BLKN_ROOT == 1
SFS_BLKN_FREEMAP == 2
SFS_MAGIC == 1
SFS_L1_NBLKS == SFS_BLK_NENTRY + SFS_NDIRECT
NameSize == 1         \* what an entry adds to the size of a directory

Zeros == [i \in 0 .. SFS_BLK_NENTRY - 1 |-> 0]
FreemapBlocks(n) == (n + SFS_BLKBITS - 1) \div SFS_BLKBITS
Bug(y) == [y EXCEPT !.bug = TRUE]

sfs_alloc_ino(y) ==
    IF y.next < ninos THEN [y EXCEPT !.next = @ + 1, !.unused = @ - 1, !.got = y.next]
    ELSE Bug(y)

NewInode(real, type) ==
    [real |-> real, type |-> type, nlinks |-> 0, size |-> 0, blocks |-> 0,
     direct |-> [i \in 0 .. SFS_NDIRECT - 1 |-> 0], indirect |-> 0, db_indirect |-> 0,
     l1 |-> 0, l2 |-> 0]

AddInode(y, real, ino, type) == [y EXCEPT !.inode = (ino :> NewInode(real, type)) @@ @]

\* alloc_cache_inode with no block given takes the next one.
alloc_cache_inode(y, real, type) ==
    LET z == sfs_alloc_ino(y) IN IF z.bug THEN z ELSE AddInode(z, real, z.got, type)

\* search_cache_inode: the inode made for a host file, 0 if there is none.
search_cache_inode(y, real) ==
    LET hits == {i \in DOMAIN y.inode : y.inode[i].real = real}
    IN  IF hits = {} THEN 0 ELSE CHOOSE i \in hits : \A j \in hits : j <= i

write_block(y, b, what) == [y EXCEPT !.img = (b :> what) @@ @]

\* alloc_cache_block: a new table of zeros, written to the image at the end.
alloc_cache_block(y) ==
    LET z == sfs_alloc_ino(y)
    IN  IF z.bug THEN z ELSE [z EXCEPT !.table = (z.got :> Zeros) @@ @]

\* update_cache leaves the table in y.got.  A table that is not the cached one
\* would not be found: every table was hashed under 0, not under its number.
update_cache(y, cached, b) ==
    IF b = 0 THEN alloc_cache_block(y)
    ELSE IF cached = b THEN [y EXCEPT !.got = b] ELSE Bug(y)

SetTable(y, t, i, b) == [y EXCEPT !.table[t][i] = b]

AppendL1(y, r, n, b) ==
    IF y.bug THEN y
    ELSE [SetTable(y, y.got, n, b) EXCEPT !.inode[r].l1 = y.got, !.inode[r].indirect = y.got]

LinkL2(y, r, n, b, l2) ==
    IF y.bug THEN y
    ELSE [SetTable(SetTable(y, l2, n \div SFS_BLK_NENTRY, y.got), y.got, n % SFS_BLK_NENTRY, b)
            EXCEPT !.inode[r].l1 = y.got]

AppendL2(y, r, n, b) ==
    IF y.bug THEN y
    ELSE LinkL2(update_cache([y EXCEPT !.inode[r].l2 = y.got, !.inode[r].db_indirect = y.got],
                             y.inode[r].l1, y.table[y.got][n \div SFS_BLK_NENTRY]),
                r, n, b, y.got)

Counted(y, r, size) ==
    [y EXCEPT !.inode[r].size = @ + size, !.inode[r].blocks = @ + 1]

\* The n-th block of a file goes to the inode, the table, or the table of tables.
append_block(y, r, size, b) ==
    LET n == y.inode[r].blocks
    IN  IF y.bug \/ n >= SFS_LN_NBLKS THEN Bug(y)
        ELSE Counted(IF n < SFS_NDIRECT THEN [y EXCEPT !.inode[r].direct[n] = b]
                     ELSE IF n < SFS_L1_NBLKS
                     THEN AppendL1(update_cache(y, y.inode[r].l1, y.inode[r].indirect),
                                   r, n - SFS_NDIRECT, b)
                     ELSE AppendL2(update_cache(y, y.inode[r].l2, y.inode[r].db_indirect),
                                   r, n - SFS_L1_NBLKS, b),
                     r, size)

\* Of an entry, its number and its name, only sizeof(entry->name) bytes are written:
\* the last four characters of the longest names are lost.
OnDisk(name) == IF name \in DOMAIN Stem THEN Stem[name] ELSE name

EntryWritten(y, d, r, name) ==
    IF y.bug THEN y
    ELSE LET e == [kind |-> "entry", ino |-> r, name |-> OnDisk(name)]
             z == append_block(write_block(y, y.got, e), d, NameSize, y.got)
         IN  [z EXCEPT !.inode[r].nlinks = @ + 1]

\* The name of r in directory d: a block of its own.
add_entry(y, d, r, name) ==
    IF y.bug THEN y ELSE EntryWritten(sfs_alloc_ino(y), d, r, name)

DataWritten(y, r, real, i) ==
    IF y.bug THEN y
    ELSE append_block(write_block(y, y.got, [kind |-> "data", real |-> real, piece |-> i]),
                      r, Pieces[real][i], y.got)

\* open_file and open_link copy the pieces of the host file.
RECURSIVE open_file(_, _, _, _)
open_file(y, r, real, i) ==
    IF y.bug \/ i > Len(Pieces[real]) THEN y
    ELSE open_file(DataWritten(sfs_alloc_ino(y), r, real, i), r, real, i + 1)

Copied(y, d, real, name) == add_entry(open_file(y, y.got, real, 1), d, y.got, name)

\* A host file with several names is copied once; a link is copied every time.
add_file(y, d, real, name) ==
    LET old == search_cache_inode(y, real)
    IN  IF old # 0 THEN add_entry(y, d, old, name)
        ELSE Copied(alloc_cache_inode(y, real, "file"), d, real, name)

add_link(y, d, real, name) == Copied(alloc_cache_inode(y, real, "link"), d, real, name)

\* open_dir begins with "." and "..".
Dots(y, d, parent) ==
    IF y.bug THEN y ELSE add_entry(add_entry(y, d, d, "."), d, parent, "..")

Entries(real, extra) == {k \in Kids[real] : k.name \notin Hidden} \cup (IF real = 0 THEN extra ELSE {})

Frame(real, extra, ino, parent, name) ==
    [ino |-> ino, parent |-> parent, name |-> name, todo |-> Entries(real, extra)]
-----------------------------------------------------------------------------
\* create_sfs and the start of open_dir on the root.
Init ==
    /\ phase = "build"
    /\ ninos \in ImageSizes /\ SFS_BLKN_FREEMAP + FreemapBlocks(ninos) < ninos
    /\ \E extra \in Extras :
          LET first == SFS_BLKN_FREEMAP + FreemapBlocks(ninos)
              y == [next |-> first, unused |-> ninos - first, inode |-> << >>, table |-> << >>,
                    img |-> << >>, got |-> 0, extra |-> extra, bug |-> FALSE]
          IN  /\ x = Dots(AddInode(y, 0, SFS_BLKN_ROOT, "dir"), SFS_BLKN_ROOT, SFS_BLKN_ROOT)
              /\ stack = <<Frame(0, extra, SFS_BLKN_ROOT, SFS_BLKN_ROOT, "/")>>

Current == stack[Len(stack)]
Popped == SubSeq(stack, 1, Len(stack) - 1)
Done(k) == Append(Popped, [Current EXCEPT !.todo = @ \ {k}])
Go(y) == x' = [y EXCEPT !.got = 0] /\ UNCHANGED ninos

\* readdir returns the entries in any order.
Reads(k, types) ==
    phase = "build" /\ ~x.bug /\ k \in Current.todo /\ k.name \notin TooLong /\ Type[k.real] \in types

AddFile(k) ==
    /\ Reads(k, {"file", "link"})
    /\ Go(IF Type[k.real] = "file" THEN add_file(x, Current.ino, k.real, k.name)
          ELSE add_link(x, Current.ino, k.real, k.name))
    /\ stack' = Done(k) /\ UNCHANGED phase

\* A device is opened, warned about and left out.
SkipSpecial(k) ==
    /\ Reads(k, {"dev"})
    /\ stack' = Done(k) /\ UNCHANGED <<phase, ninos, x>>

\* The open of a fifo waits for a writer; then it is left out too.
OpenFifo(k) ==
    /\ Reads(k, {"fifo"})
    /\ phase' = "blocked" /\ stack' = Done(k) /\ UNCHANGED <<ninos, x>>

WriterOpens == phase = "blocked" /\ phase' = "build" /\ UNCHANGED <<ninos, stack, x>>

\* A name that is too long, and a socket, which cannot be opened, end the run.
OpenBug(k) ==
    /\ phase = "build" /\ ~x.bug /\ k \in Current.todo
    /\ k.name \in TooLong \/ Type[k.real] = "sock"
    /\ Go(Bug(x)) /\ UNCHANGED <<phase, stack>>

EnterDir(k) ==
    /\ Reads(k, {"dir"})
    /\ LET y == alloc_cache_inode(x, k.real, "dir")
       IN  /\ Go(Dots(y, y.got, Current.ino))
           /\ stack' = Append(Done(k), Frame(k.real, {}, y.got, Current.ino, k.name))
    /\ UNCHANGED phase

\* add_dir enters the name of a directory in its parent last.
LeaveDir ==
    /\ phase = "build" /\ ~x.bug /\ Current.todo = {} /\ Len(stack) > 1
    /\ Go(add_entry(x, Current.parent, Current.ino, Current.name))
    /\ stack' = Popped /\ UNCHANGED phase

\* Fault: the last block of the image is left out.
FreeBitsShort(i) ==
    LET start == IF i < x.next THEN x.next - i ELSE 0
        end == IF i + SFS_BLKBITS > ninos THEN ninos - i - 1 ELSE SFS_BLKBITS
    IN  IF i + SFS_BLKBITS > x.next THEN start .. end - 1 ELSE {}

\* The bits of the blocks from next_ino on, below ninos: they are free.
FreeBits(i) ==
    LET start == IF i < x.next THEN x.next - i ELSE 0
        end == IF i + SFS_BLKBITS > ninos THEN ninos - i ELSE SFS_BLKBITS
    IN  IF i + SFS_BLKBITS > x.next THEN start .. end - 1 ELSE {}

FreemapImage ==
    [b \in SFS_BLKN_FREEMAP .. SFS_BLKN_FREEMAP + FreemapBlocks(ninos) - 1 |->
        [kind |-> "freemap", bits |-> FreeBits((b - SFS_BLKN_FREEMAP) * SFS_BLKBITS)]]

InodeImage == [b \in DOMAIN x.inode |-> [kind |-> "inode", din |-> x.inode[b]]]

TableImage == [b \in DOMAIN x.table |-> [kind |-> "table", entries |-> x.table[b]]]

SuperImage == SFS_BLKN_SUPER :> [kind |-> "super", magic |-> SFS_MAGIC, blocks |-> ninos, unused |-> x.unused]

close_sfs ==
    /\ phase = "build" /\ ~x.bug /\ Current.todo = {} /\ Len(stack) = 1
    /\ Go([x EXCEPT !.img = InodeImage @@ TableImage @@ SuperImage @@ FreemapImage @@ @])
    /\ phase' = "closed" /\ UNCHANGED stack

\* bug() exits: there is no image to boot from.
GiveUp == phase = "build" /\ x.bug /\ phase' = "failed" /\ UNCHANGED <<ninos, stack, x>>

Next == \/ \E k \in Current.todo : AddFile(k) \/ SkipSpecial(k) \/ OpenFifo(k) \/ OpenBug(k) \/ EnterDir(k)
        \/ WriterOpens \/ LeaveDir \/ close_sfs \/ GiveUp

=============================================================================
