----------------------------- MODULE SfsNames -----------------------------
(***************************************************************************)
(* The image that mksfs wrote, as the kernel reads it: sfs_do_mount checks *)
(* superblock and bitmap, and the directory operations of sfs_inode.c walk *)
(* inodes, tables and entries.  They change nothing on the disk, so they   *)
(* are operators on the mounted image.                                     *)
(***************************************************************************)
EXTENDS Mksfs, FiniteSetsExt

CONSTANTS BufferSizes,    \* lengths of the buffers given to getcwd
          SFS_BLKSIZE,
          Devices         \* [d_blocksize, d_blocks, sfs]: sfs if it holds the image

VARIABLES device, freemap, asserts

vars == <<mkvars, device, freemap, asserts>>

\* sfs_init_freemap: bit i of the n-th block of the bitmap is block n * BLKBITS + i.
sfs_init_freemap(super) ==
    UNION {{n * SFS_BLKBITS + i : i \in x.img[SFS_BLKN_FREEMAP + n].bits} :
             n \in 0 .. FreemapBlocks(super.blocks) - 1}

\* The first block of a device; another content has another magic.
Super(dev) == IF dev.sfs THEN x.img[SFS_BLKN_SUPER]
              ELSE [kind |-> "super", magic |-> 0, blocks |-> 0, unused |-> 0]

\* Fault: the device is taken to be large enough.
MountableAnySize(dev) == dev.d_blocksize = SFS_BLKSIZE /\ Super(dev).magic = SFS_MAGIC

\* The tests before anything of the file system is kept.
Mountable(dev) ==
    dev.d_blocksize = SFS_BLKSIZE /\ Super(dev).magic = SFS_MAGIC /\ Super(dev).blocks <= dev.d_blocks

\* ok: every kmalloc and every read of the device succeeds; each failure goes back
\* over the steps before it.  The superblock's count must be what the bitmap says.
sfs_do_mount(dev, ok) ==
    /\ phase = "closed" /\ device' = dev
    /\ IF ok /\ Mountable(dev)
       THEN /\ phase' = "mounted"
            /\ freemap' = sfs_init_freemap(Super(dev))
            /\ asserts' = (Cardinality(freemap') = Super(dev).unused)
       ELSE phase' = "refused" /\ UNCHANGED <<freemap, asserts>>
    /\ UNCHANGED <<ninos, stack, x>>

NoDevice == [d_blocksize |-> 0, d_blocks |-> 0, sfs |-> FALSE]
MkfsStep == Next /\ UNCHANGED <<device, freemap, asserts>>

InitAll == Init /\ device = NoDevice /\ freemap = {} /\ asserts = TRUE
NextAll == MkfsStep \/ \E dev \in Devices, ok \in BOOLEAN : sfs_do_mount(dev, ok)
SpecAll == InitAll /\ [][NextAll]_vars
-----------------------------------------------------------------------------
NOENT == 0
sfs_block_inuse(b) == b \in 1 .. ninos - 1 /\ b \notin freemap
din(i) == x.img[i].din

\* sfs_load_inode may be asked for this block.
Loadable(i) ==
    sfs_block_inuse(i) /\ i \in DOMAIN x.img /\ x.img[i].kind = "inode" /\ din(i).nlinks # 0

\* sfs_bmap_load_nolock for a block the file has; the kernel knows no second table.
bmap(i, n) ==
    IF n < SFS_NDIRECT THEN din(i).direct[n]
    ELSE x.img[din(i).indirect].entries[n - SFS_NDIRECT]

Slots(d) == 0 .. din(d).blocks - 1
sfs_dirent_read_nolock(d, slot) == x.img[bmap(d, slot)]

FirstSlot(slots) == IF slots = {} THEN -1 ELSE Min(slots)

\* The inode of the first entry in use with the name.
sfs_dirent_search_nolock(d, name) ==
    LET n == FirstSlot({i \in Slots(d) : LET e == sfs_dirent_read_nolock(d, i)
                                        IN  e.ino # 0 /\ e.name = name})
    IN  IF n = -1 THEN NOENT ELSE sfs_dirent_read_nolock(d, n).ino

sfs_dirent_findino_nolock(d, ino) ==
    FirstSlot({i \in Slots(d) : sfs_dirent_read_nolock(d, i).ino = ino})

\* sfs_lookup with sfs_lookup_once: one name in one directory.
sfs_lookup(d, name) ==
    IF din(d).type # "dir" THEN NOENT ELSE sfs_dirent_search_nolock(d, name)

Ref(refs, i, k) == [refs EXCEPT ![i] = @ + k]

\* The loop of sfs_namefile: up by "..", the name found by inode number.  The
\* result has the path, or ok = FALSE when resid is too small, and the
\* references the call has taken less those it has dropped.
RECURSIVE NameLoop(_, _, _, _)
NameLoop(i, path, resid, refs) ==
    LET parent == sfs_lookup(i, "..")
        slot == sfs_dirent_findino_nolock(parent, i)
        up == Ref(Ref(refs, parent, 1), i, -1)
    IN  IF parent = i THEN [ok |-> TRUE, path |-> path, refs |-> Ref(up, i, -1)]
        ELSE IF slot = -1 \/ resid < 2
        THEN [ok |-> FALSE, path |-> <<>>, refs |-> Ref(up, parent, -1)]
        ELSE NameLoop(parent, <<sfs_dirent_read_nolock(parent, slot).name>> \o path,
                      resid - 2, up)

NoRefs == [i \in DOMAIN x.img |-> 0]

\* A name takes two units of the buffer: itself and the slash.
sfs_namefile(i, resid) ==
    IF resid <= 2 THEN [ok |-> FALSE, path |-> <<>>, refs |-> NoRefs]
    ELSE NameLoop(i, <<>>, resid - 2, Ref(NoRefs, i, 1))

\* sfs_getdirentry: the slot-th entry in use, NOENT past the last.
sfs_getdirentry(d, slot) ==
    LET used == {n \in Slots(d) : sfs_dirent_read_nolock(d, n).ino # 0}
        hits == {n \in used : Cardinality({m \in used : m < n}) = slot}
    IN  IF slot > din(d).blocks \/ hits = {} THEN <<>>
        ELSE <<sfs_dirent_read_nolock(d, Min(hits)).name>>
-----------------------------------------------------------------------------
Inodes == DOMAIN x.inode
Dirs == {i \in Inodes : x.inode[i].type = "dir"}
Visible(r) == {k \in Entries(r, x.extra) : Type[k.real] \in {"dir", "file", "link"}}
AllNames == {".", ".."} \cup DOMAIN Stem \cup Range(Stem)
              \cup UNION {{k.name : k \in Kids[r]} : r \in {s \in Real : Type[s] = "dir"}}

\* No two names of the directory given to mksfs begin with the same 252 characters.
NoClash == \A k, m \in Visible(0) : OnDisk(k.name) = OnDisk(m.name) => k = m

\* The blocks an inode stands for, with how often each is named.
Tables(i) ==
    {t \in {din(i).indirect, din(i).db_indirect} : t # 0}
      \cup (IF din(i).db_indirect = 0 THEN {}
            ELSE {t \in Range(x.img[din(i).db_indirect].entries) : t # 0})

Named(i) ==
    {din(i).direct[n] : n \in 0 .. SFS_NDIRECT - 1}
      \cup UNION {Range(x.img[t].entries) : t \in Tables(i) \ {din(i).db_indirect}}

Owned(i) == {i} \cup Tables(i) \cup (Named(i) \ {0})

\* The image mksfs leaves passes the checks of mount, the device has all of its
\* blocks, and it is exact: every block of the image is free, of the layout, or of
\* one inode; an inode holds as many
\* blocks as it counts, as many links as entries name it, and a file whose blocks
\* the kernel can map has the pieces of the host file in their order.
ImageExact ==
    phase = "mounted" =>
        /\ asserts
        /\ \A b \in DOMAIN x.img \cup freemap : b < device.d_blocks
        /\ \A i, j \in Inodes : i # j => Owned(i) \cap Owned(j) = {}
        /\ freemap = (SFS_BLKN_FREEMAP + FreemapBlocks(ninos) .. ninos - 1)
                        \ UNION {Owned(i) : i \in Inodes}
        /\ \A i \in Inodes :
              /\ Loadable(i)
              /\ Cardinality(Named(i) \ {0}) = din(i).blocks
              /\ din(i).nlinks = Cardinality({b \in DOMAIN x.img :
                                    x.img[b].kind = "entry" /\ x.img[b].ino = i})
              /\ din(i).type # "dir" =>
                    /\ din(i).blocks = Len(Pieces[din(i).real])
                    /\ \A n \in 0 .. din(i).blocks - 1 : n < SFS_L1_NBLKS =>
                          x.img[bmap(i, n)] = [kind |-> "data", real |-> din(i).real, piece |-> n + 1]

RECURSIVE Walk(_, _)
Walk(d, path) ==
    IF path = <<>> THEN d ELSE Walk(sfs_lookup(d, path[1]), SubSeq(path, 2, Len(path)))

\* What the kernel finds by name is the host's tree, up to the cut of the longest
\* names: a name leads to a file of the host that has it on the disk, a name that no
\* file has there, a longest one among them, leads nowhere; the path that namefile
\* gives leads back to the directory, unless two names were cut to the same, and the
\* call drops every reference it took; and repeated getdirentry lists each name as
\* often as a file has it.
NamesExact ==
    phase = "mounted" =>
        \A d \in Dirs :
            LET kids == Visible(din(d).real)
                Having(n) == {k \in kids : OnDisk(k.name) = n}
                names == {OnDisk(k.name) : k \in kids}
                listed == [s \in Slots(d) |-> sfs_getdirentry(d, s)]
                Listed(n) == Cardinality({s \in Slots(d) : listed[s] = <<n>>})
            IN  /\ \A n \in AllNames \ (names \cup {".", ".."}) : sfs_lookup(d, n) = NOENT
                /\ \A n \in names : LET i == sfs_lookup(d, n)
                                    IN  i \in Inodes /\ din(i).real \in {k.real : k \in Having(n)}
                /\ sfs_lookup(d, ".") = d
                /\ \A r \in BufferSizes :
                      LET call == sfs_namefile(d, r)
                      IN  /\ call.refs = NoRefs
                          /\ call.ok /\ NoClash => Walk(SFS_BLKN_ROOT, call.path) = d
                          /\ (r > 2 /\ d = SFS_BLKN_ROOT) => call.ok
                /\ \A n \in names : Listed(n) = Cardinality(Having(n))
                /\ Listed(".") = 1 /\ Listed("..") = 1
                /\ sfs_getdirentry(d, Cardinality(kids) + 2) = <<>>

=============================================================================
