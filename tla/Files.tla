------------------------------- MODULE Files -------------------------------
(***************************************************************************)
(* Descriptor tables and inode counts: kern/fs/file.c, kern/fs/fs.c,       *)
(* kern/fs/vfs and the in-memory side of kern/fs/sfs.  Every process owns  *)
(* a table (no caller passes CLONE_FS), and all of them share the inodes:  *)
(* two devices, the root directory and one file of SFS, and pipes.         *)
(*                                                                         *)
(* A system call is one step, since nothing here calls schedule() but a    *)
(* read or write of a pipe or of stdin; the locks of SFS are never         *)
(* contended for the same reason.  Such a call keeps its descriptor        *)
(* acquired while it sleeps.                                               *)
(*                                                                         *)
(* The functions of the source map a "world" w = [files, inode, panic] to  *)
(* the next one.  An assert that fails sets w.panic, and then the machine  *)
(* stops: kern/debug/panic.c does not return.                              *)
(***************************************************************************)
EXTENDS Integers, FiniteSets, FiniteSetsExt

CONSTANTS Proc,
          Pipe,              \* the inodes that pipes can get
          NULL,
          FILES_STRUCT_NENTRY,
          MAX_INODE_COUNT,
          MaxLeaks,          \* bound on the references that nobody holds
          OpenCalls          \* the pairs of path and flags given to open

Path == {"stdin:", "stdout:", "/", "file", "missing"}

Flags == [acc : {"RDONLY", "WRONLY", "RDWR"},
          create : BOOLEAN, excl : BOOLEAN, trunc : BOOLEAN, append : BOOLEAN]

ReadOnly == [acc |-> "RDONLY", create |-> FALSE, excl |-> FALSE,
             trunc |-> FALSE, append |-> FALSE]

ASSUME FilesAssumption ==
    /\ FILES_STRUCT_NENTRY \in Nat /\ FILES_STRUCT_NENTRY >= 2
    /\ MAX_INODE_COUNT \in Nat /\ MaxLeaks \in Nat
    /\ NULL \notin Proc \cup Pipe
    /\ OpenCalls \subseteq [path : Path, flags : Flags]

VARIABLES proc,     \* "free", "live", or "lost": gone without put_files
          files,    \* filesp->fd_array
          asleep,   \* the descriptor of the call a process sleeps in
          inode,    \* the inodes in memory
          panic     \* the assert that failed

vars == <<proc, files, asleep, inode, panic>>

Fd == 0..(FILES_STRUCT_NENTRY - 1)
Device == {"stdin", "stdout"}
Sfs == {"root", "file"}
Node == Device \cup Sfs \cup Pipe

NoFile == [status |-> "NONE", node |-> NULL, count |-> 0,
           readable |-> FALSE, writable |-> FALSE]

NoInode == [ref |-> 0, open |-> 0, dirty |-> FALSE, reclaim |-> 0]

assert(w, holds, what) ==
    IF holds \/ w.panic # "no" THEN w ELSE [w EXCEPT !.panic = what]

-----------------------------------------------------------------------------
\* Inodes.

\* The operations in the vop table of an inode.
in_ops(n) ==
    CASE n \in Device -> {"open", "close", "read", "write", "fstat", "tryseek", "lookup"}
      [] n = "root" -> {"open", "close", "fstat", "fsync", "getdirentry", "reclaim",
                        "lookup"}
      [] n = "file" -> {"open", "close", "read", "write", "fstat", "fsync", "reclaim",
                        "tryseek", "truncate"}
      [] OTHER -> {"close", "read", "write", "reclaim"}

inode_check(w, n) ==
    LET i == w.inode[n]
    IN  assert(assert(w, i.ref >= i.open /\ i.open >= 0, "counts"),
               i.ref < MAX_INODE_COUNT /\ i.open < MAX_INODE_COUNT, "limit")

vop(w, n, op) == inode_check(assert(w, op \in in_ops(n), "operation"), n)

inode_init(w, n) == [w EXCEPT !.inode[n] = [NoInode EXCEPT !.ref = 1, !.reclaim = 1]]

inode_kill(w, n) ==
    [assert(w, w.inode[n].ref = 0 /\ w.inode[n].open = 0, "kill") EXCEPT
        !.inode[n] = NoInode]

inode_ref_inc(w, n) == [w EXCEPT !.inode[n].ref = @ + 1]

inode_open_inc(w, n) == [w EXCEPT !.inode[n].open = @ + 1]

sfs_fsync(w, n) == [vop(w, n, "fsync") EXCEPT !.inode[n].dirty = FALSE]

\* The second half of sfs_reclaim; nothing is ever unlinked.
Free(w, n) ==
    IF w.inode[n].reclaim # 0 \/ w.inode[n].ref # 0
    THEN w
    ELSE inode_kill(IF w.inode[n].dirty THEN sfs_fsync(w, n) ELSE w, n)

sfs_reclaim(w, n) ==
    Free([assert(w, w.inode[n].reclaim > 0, "reclaim") EXCEPT !.inode[n].reclaim = @ - 1], n)

\* vop_reclaim of SFS, and pipe_reclaim; a device has none.
vop_reclaim(w, n) == IF n \in Sfs THEN sfs_reclaim(w, n) ELSE inode_kill(w, n)

inode_ref_dec(w, n) ==
    LET a == [assert(w, w.inode[n].ref > 0, "ref") EXCEPT !.inode[n].ref = @ - 1]
    IN  IF w.inode[n].ref # 1 THEN a ELSE vop_reclaim(vop(a, n, "reclaim"), n)

\* vop_close: a device and a pipe have nothing to do.
vop_close(w, n) ==
    IF n \in Sfs THEN sfs_fsync(vop(w, n, "close"), n) ELSE vop(w, n, "close")

\* Fault: vop_close is called while there is another opener, not for the last.
inode_open_dec_early(w, n) ==
    LET a == [w EXCEPT !.inode[n].open = @ - 1]
    IN  IF w.inode[n].open = 2 THEN vop_close(a, n) ELSE a

inode_open_dec(w, n) ==
    LET a == [assert(w, w.inode[n].open > 0, "open") EXCEPT !.inode[n].open = @ - 1]
    IN  IF w.inode[n].open = 1 THEN vop_close(a, n) ELSE a

sfs_load_inode(w, n) ==
    IF w.inode[n] = NoInode
    THEN inode_init(w, n)
    ELSE [inode_ref_inc(w, n) EXCEPT
             !.inode[n].reclaim = IF w.inode[n].ref = 0 THEN @ + 1 ELSE @]

-----------------------------------------------------------------------------
\* The VFS.

\* The inode a path leads to.
Target(path) ==
    CASE path = "stdin:" -> "stdin" [] path = "stdout:" -> "stdout" [] path = "/" -> "root"
      [] path = "file" -> "file" [] OTHER -> NULL

\* get_device takes a reference to the directory or device where the path
\* starts, and vfs_lookup drops it after the search of the directory.
vfs_lookup(w, path) ==
    LET a == vop(inode_ref_inc(w, "root"), "root", "lookup")
    IN  CASE Target(path) = "file" -> inode_ref_dec(sfs_load_inode(a, "file"), "root")
          [] Target(path) = NULL -> inode_ref_dec(a, "root")
          [] OTHER -> inode_ref_inc(w, Target(path))

\* vop_open: dev_open with stdin_open and stdout_open, sfs_opendir, sfs_openfile.
vop_open(n, f) ==
    CASE n = "stdin" -> f = ReadOnly
      [] n = "stdout" -> f = [ReadOnly EXCEPT !.acc = "WRONLY"]
      [] n = "root" -> f.acc = "RDONLY" /\ ~f.append
      [] OTHER -> TRUE

\* grows says whether the file had anything to truncate.
vop_truncate(w, n, grows) ==
    [vop(w, n, "truncate") EXCEPT !.inode[n].dirty = @ \/ grows]

\* vfs_open returns the inode of the path, or it fails.
Opens(path, f) ==
    /\ ~(f.trunc /\ f.acc = "RDONLY")
    /\ Target(path) # NULL
    /\ ~(f.create /\ f.excl)
    /\ vop_open(Target(path), f)

\* vfs_open after the lookup of the path, with each of its early returns.
OpenFound(w, n, f, grows) ==
    IF n = NULL
    THEN IF f.create THEN vop(w, "root", "create") ELSE w
    ELSE IF f.create /\ f.excl
    THEN w
    ELSE IF ~vop_open(n, f)
    THEN inode_ref_dec(vop(w, n, "open"), n)
    ELSE LET a == inode_open_inc(vop(w, n, "open"), n)
         IN  IF f.trunc \/ f.create THEN vop_truncate(a, n, grows) ELSE a

vfs_open(w, path, f, grows) ==
    IF f.trunc /\ f.acc = "RDONLY"
    THEN w ELSE OpenFound(vfs_lookup(w, path), Target(path), f, grows)

\* Fault: the reference is kept.
vfs_close_kept(w, n) == inode_open_dec(w, n)

vfs_close(w, n) == inode_ref_dec(inode_open_dec(w, n), n)

-----------------------------------------------------------------------------
\* Descriptor tables.

Unused(w, p) == {fd \in Fd : w.files[p][fd].status = "NONE"}

\* The first half of fd_array_alloc, for NO_FD.
FirstUnused(w, p) == IF Unused(w, p) = {} THEN NULL ELSE Min(Unused(w, p))

\* The second half, with a status of its own: FD_INIT.
fd_array_alloc(w, p, fd) ==
    [assert(w, w.files[p][fd].count = 0, "fd") EXCEPT
        !.files[p][fd].status = "INIT", !.files[p][fd].node = NULL]

fd_array_free(w, p, fd) ==
    LET f == w.files[p][fd]
        a == assert(w, f.status \in {"INIT", "CLOSED"} /\ f.count = 0, "fd")
    IN  [IF f.status = "CLOSED" THEN vfs_close(a, f.node) ELSE a EXCEPT
            !.files[p][fd] = NoFile]

fd_array_acquire(w, p, fd) ==
    [assert(w, w.files[p][fd].status = "OPENED", "fd") EXCEPT !.files[p][fd].count = @ + 1]

\* fopen_count_dec, and the descriptor is freed at 0.
Drop(w, p, fd) ==
    LET a == [assert(w, w.files[p][fd].count > 0, "fd") EXCEPT !.files[p][fd].count = @ - 1]
    IN  IF w.files[p][fd].count = 1 THEN fd_array_free(a, p, fd) ELSE a

fd_array_release(w, p, fd) ==
    Drop(assert(w, w.files[p][fd].status \in {"OPENED", "CLOSED"}, "fd"), p, fd)

fd_array_close(w, p, fd) ==
    Drop([assert(w, w.files[p][fd].status = "OPENED", "fd") EXCEPT
             !.files[p][fd].status = "CLOSED"], p, fd)

\* The fields are set by the caller, and the descriptor becomes FD_OPENED.
fd_array_open(w, p, fd, n, readable, writable) ==
    [assert(w, w.files[p][fd].status = "INIT" /\ n # NULL, "fd") EXCEPT !.files[p][fd] =
        [status |-> "OPENED", node |-> n, count |-> w.files[p][fd].count + 1,
         readable |-> readable, writable |-> writable]]

\* Fault: the new descriptor does not hold a reference.
fd_array_dup_unheld(w, q, fd2, from) ==
    fd_array_open(inode_open_inc(w, from.node), q, fd2, from.node, from.readable,
                  from.writable)

fd_array_dup(w, q, fd2, from) ==
    LET n == from.node
        a == inode_ref_inc(assert(w, from.status = "OPENED", "fd"), n)
    IN  fd_array_open(inode_open_inc(a, n), q, fd2, n, from.readable, from.writable)

-----------------------------------------------------------------------------
\* System calls, as functions of the world.

file_open(w, p, path, f, grows) ==
    LET fd == FirstUnused(w, p)
        n == Target(path)
        a == vfs_open(fd_array_alloc(w, p, fd), path, f, grows)
    IN  IF fd = NULL THEN w
        ELSE IF ~Opens(path, f) THEN fd_array_free(a, p, fd)
        ELSE fd_array_open(IF f.append THEN vop(a, n, "fstat") ELSE a,
                           p, fd, n, f.acc # "WRONLY", f.acc # "RDONLY")

\* pipe_create_inode gives one reference, file_pipe takes the other one.
pipe_create_inode(w, n) ==
    inode_open_inc(inode_open_inc(inode_ref_inc(inode_init(w, n), n), n), n)

file_pipe(w, p, n) ==
    LET in == FirstUnused(w, p)
        a == fd_array_alloc(w, p, in)
        out == Min(Unused(w, p) \ {in})
        b == pipe_create_inode(fd_array_alloc(a, p, out), n)
    IN  IF in = NULL THEN w
        ELSE IF Unused(w, p) = {in} THEN fd_array_free(a, p, in)
        ELSE fd_array_open(fd_array_open(b, p, in, n, TRUE, FALSE), p, out, n, FALSE, TRUE)

CloseFrom(w, p, first) ==
    FoldSet(LAMBDA fd, v : IF v.files[p][fd].status = "OPENED"
                           THEN fd_array_close(v, p, fd) ELSE v,
            w, {fd \in Fd : fd >= first})

files_closeall(w, p) == CloseFrom(w, p, 2)

AllClosed(w, p) == assert(w, \A fd \in Fd : w.files[p][fd].status = "NONE", "destroy")

files_destroy(w, p) ==
    AllClosed(CloseFrom(inode_ref_dec(w, "root"), p, 0), p)

dup_files(w, q, p) ==
    FoldSet(LAMBDA fd, v :
                IF v.files[p][fd].status = "OPENED"
                THEN fd_array_dup([v EXCEPT !.files[q][fd].status = "INIT"], q, fd,
                                  v.files[p][fd])
                ELSE v,
            inode_ref_inc(w, "root"), Fd)

-----------------------------------------------------------------------------
\* The state machine.

World == [files |-> files, inode |-> inode, panic |-> panic]

\* A panic stops the machine in the middle of the call; what memory holds
\* then is of no interest.
Becomes(w) ==
    /\ panic' = w.panic
    /\ files' = IF w.panic = "no" THEN w.files ELSE [p \in Proc |-> [fd \in Fd |-> NoFile]]
    /\ inode' = IF w.panic = "no" THEN w.inode ELSE [n \in Node |-> NoInode]

Runs(p) == panic = "no" /\ proc[p] = "live" /\ asleep[p] = NULL

\* fd2file: the descriptor is open.
fd2file(p, fd) == Runs(p) /\ files[p][fd].status = "OPENED"

\* The root directory is held by bootfs_node and by the pwd of initproc.
Init ==
    /\ \E p \in Proc : proc = [q \in Proc |-> IF q = p THEN "live" ELSE "free"]
    /\ files = [p \in Proc |-> [fd \in Fd |-> NoFile]]
    /\ asleep = [p \in Proc |-> NULL]
    /\ inode = [n \in Node |->
                   CASE n \in Device -> [NoInode EXCEPT !.ref = 1, !.reclaim = 1]
                     [] n = "root" -> [NoInode EXCEPT !.ref = 3, !.reclaim = 1]
                     [] OTHER -> NoInode]
    /\ panic = "no"

\* The descriptors of an inode, and the other references to it: the device
\* table, bootfs_node and the working directories.
Holders(n) == {h \in Proc \X Fd : files[h[1]][h[2]].node = n}

Others(n) ==
    CASE n \in Device -> 1
      [] n = "root" -> 2 + Cardinality({p \in Proc : proc[p] # "free"})
      [] OTHER -> 0

\* O_CREAT with O_EXCL on a file that exists keeps a reference for ever: the
\* second guard bounds that.
sysfile_open(p, path, f, grows) ==
    /\ Runs(p)
    /\ f.create /\ f.excl =>
          \A n \in Node : inode[n].ref < Cardinality(Holders(n)) + Others(n) + MaxLeaks
    /\ grows => f.trunc \/ f.create
    /\ Becomes(file_open(World, p, path, f, grows))
    /\ UNCHANGED <<proc, asleep>>

sysfile_close(p, fd) ==
    /\ fd2file(p, fd)
    /\ Becomes(fd_array_close(World, p, fd))
    /\ UNCHANGED <<proc, asleep>>

\* A call on an open descriptor: acquire, the operations ops, release.  It
\* may leave the file longer, which makes its inode dirty.
Operate(p, fd, ops, grows) ==
    LET n == files[p][fd].node
        a == FoldSet(LAMBDA op, w : vop(w, n, op), fd_array_acquire(World, p, fd), ops)
        b == [a EXCEPT !.inode[n].dirty = @ \/ grows]
    IN  /\ fd2file(p, fd)
        /\ grows => n = "file"
        /\ Becomes(fd_array_release(b, p, fd))
        /\ UNCHANGED <<proc, asleep>>

sysfile_read(p, fd) == files[p][fd].readable /\ Operate(p, fd, {"read"}, FALSE)

sysfile_write(p, fd, grows) == files[p][fd].writable /\ Operate(p, fd, {"write"}, grows)

\* A seek beyond the end of a file extends it; LSEEK_END asks for the size.
sysfile_seek(p, fd, end, grows) ==
    Operate(p, fd, IF end THEN {"fstat", "tryseek"} ELSE {"tryseek"}, grows)

sysfile_fstat(p, fd) == Operate(p, fd, {"fstat"}, FALSE)

sysfile_getdirentry(p, fd) == Operate(p, fd, {"getdirentry"}, FALSE)

sysfile_fsync(p, fd) ==
    LET n == files[p][fd].node
    IN  /\ fd2file(p, fd)
        /\ Becomes(fd_array_release(sfs_fsync(fd_array_acquire(World, p, fd), n), p, fd))
        /\ UNCHANGED <<proc, asleep>>

\* A read or write of a pipe, or a read of stdin, that has to wait.
Sleep(p, fd) ==
    LET f == files[p][fd]
    IN  /\ fd2file(p, fd)
        /\ f.node \in Pipe \/ (f.node = "stdin" /\ f.readable)
        /\ Becomes(fd_array_acquire(vop(World, f.node, "read"), p, fd))
        /\ asleep' = [asleep EXCEPT ![p] = fd]
        /\ UNCHANGED proc

\* The call ends: there was data or room, or the process was killed.
Wake(p) ==
    /\ panic = "no" /\ asleep[p] # NULL
    /\ Becomes(fd_array_release(World, p, asleep[p]))
    /\ asleep' = [asleep EXCEPT ![p] = NULL]
    /\ UNCHANGED proc

\* file_dup onto a given descriptor, or onto the first one that is free.
sysfile_dup(p, fd1, fd2) ==
    LET fd == IF fd2 = NULL THEN FirstUnused(World, p) ELSE fd2
    IN  /\ fd2file(p, fd1)
        /\ fd # NULL /\ files[p][fd].status = "NONE"
        /\ Becomes(fd_array_dup(fd_array_alloc(World, p, fd), p, fd, files[p][fd1]))
        /\ UNCHANGED <<proc, asleep>>

sysfile_pipe(p, n) ==
    /\ Runs(p) /\ inode[n] = NoInode
    /\ Becomes(file_pipe(World, p, n))
    /\ UNCHANGED <<proc, asleep>>

\* do_fork with copy_files.
do_fork(p, q) ==
    /\ Runs(p) /\ proc[q] = "free"
    /\ Becomes(dup_files(World, q, p))
    /\ proc' = [proc EXCEPT ![q] = "live"]
    /\ UNCHANGED asleep

\* do_exit with put_files.
do_exit(p) ==
    /\ Runs(p)
    /\ Becomes(files_destroy(World, p))
    /\ proc' = [proc EXCEPT ![p] = "free"]
    /\ UNCHANGED asleep

\* load_icode on an open file.  It can fail before it reads ("unread"), on
\* what it reads ("bad"), and after it has closed the file ("late").
load_icode(w, p, fd, n, outcome) ==
    LET a == vop(w, n, "tryseek")
        b == IF n \in Device THEN a ELSE vop(a, n, "read")
    IN  IF outcome = "unread" THEN w
        ELSE IF outcome = "bad" THEN b
        ELSE fd_array_close(b, p, fd)

\* do_execve closes the table from descriptor 2 on and opens the program.
\* When it cannot be opened the process exits.  When load_icode fails,
\* current->mm is NULL already and do_exit leaves out put_files.  The seek in
\* a device fails.
ExecOpens(p, path) == Opens(path, ReadOnly) /\ \E fd \in Fd : fd >= 2 \/ fd \in Unused(World, p)

do_execve_missing(p, path) ==
    /\ Runs(p) /\ ~ExecOpens(p, path)
    /\ Becomes(files_destroy(file_open(files_closeall(World, p), p, path, ReadOnly, FALSE), p))
    /\ proc' = [proc EXCEPT ![p] = "free"]
    /\ UNCHANGED asleep

do_execve(p, path, outcome) ==
    LET fd == Min(Unused(World, p) \cup {g \in Fd : g >= 2})
        n == Target(path)
    IN  /\ Runs(p) /\ ExecOpens(p, path)
        /\ outcome \in {"ok", "late"} => n \notin Device
        /\ Becomes(load_icode(file_open(files_closeall(World, p), p, path, ReadOnly, FALSE),
                              p, fd, n, outcome))
        /\ proc' = [proc EXCEPT ![p] = IF outcome = "ok" THEN "live" ELSE "lost"]
        /\ UNCHANGED asleep

Next ==
    \E p \in Proc :
        \/ \E c \in OpenCalls, grows \in BOOLEAN : sysfile_open(p, c.path, c.flags, grows)
        \/ \E fd \in Fd : sysfile_close(p, fd)
        \/ \E fd \in Fd : sysfile_read(p, fd)
        \/ \E fd \in Fd, grows \in BOOLEAN : sysfile_write(p, fd, grows)
        \/ \E fd \in Fd, end \in BOOLEAN, grows \in BOOLEAN : sysfile_seek(p, fd, end, grows)
        \/ \E fd \in Fd : sysfile_fstat(p, fd)
        \/ \E fd \in Fd : sysfile_getdirentry(p, fd)
        \/ \E fd \in Fd : sysfile_fsync(p, fd)
        \/ \E fd \in Fd : Sleep(p, fd)
        \/ Wake(p)
        \/ \E fd1 \in Fd, fd2 \in Fd \cup {NULL} : sysfile_dup(p, fd1, fd2)
        \/ \E n \in Pipe : sysfile_pipe(p, n)
        \/ \E q \in Proc : do_fork(p, q)
        \/ do_exit(p)
        \/ \E path \in Path : do_execve_missing(p, path)
        \/ \E path \in Path, outcome \in {"unread", "bad", "late", "ok"} :
               do_execve(p, path, outcome)

Spec == Init /\ [][Next]_vars

-----------------------------------------------------------------------------
\* What holds.

\* Over open, dup, pipe, fork, exec and exit, with every early return, an
\* inode is open exactly as often as descriptors refer to it, and it has at
\* least the references that exist; a pipe has no other ones, so its last
\* close frees it.  An inode in use is therefore never reclaimed.
CountsExact ==
    panic = "no" => \A n \in Node :
        /\ inode[n].open = Cardinality(Holders(n))
        /\ inode[n].ref >= Cardinality(Holders(n)) + Others(n)
        /\ n \in Pipe => inode[n].ref = Cardinality(Holders(n))

\* The asserts of file.c, fs.c, inode.c and sfs_reclaim on the states and
\* counts of descriptors and inodes never fail: a panic can only come from an
\* operation the inode does not have, or from MAX_INODE_COUNT.
AssertsHold == panic \in {"no", "operation", "limit"}

\* The last close of a file writes its inode (vop_close, sfs_close), whoever
\* made it dirty: a file that nobody has open is clean.
ClosedIsClean == \A n \in Sfs : inode[n].dirty => inode[n].open > 0

\* kern/fs/vfs/inode.h on vop_reclaim: "Called when inode is no longer in
\* use."  The file is in memory only while a live process has it open.
UnusedIsReclaimed ==
    inode["file"] # NoInode =>
        \E h \in Holders("file") : proc[h[1]] = "live"

=============================================================================
