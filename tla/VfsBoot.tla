------------------------------ MODULE VfsBoot ------------------------------
(***************************************************************************)
(* The VFS from boot on: the table of devices, the mount of SFS on disk0,  *)
(* the boot file system, working directories, and the lookup of paths with *)
(* the references it takes (kern/fs/vfs, kern/fs/devs).  Its state after   *)
(* boot is the one Files starts from.                                      *)
(*                                                                         *)
(* A path is a form and a rest: "name", "/name", ":name" or "device:name". *)
(***************************************************************************)
EXTENDS Integers, Sequences, FiniteSets, FiniteSetsExt

CONSTANT MaxProc    \* processes with a working directory

BootAssumption == MaxProc \in Nat \ {0}

VARIABLES pc,       \* what the kernel does next: a step of boot, then "run"
          vdev,     \* vdev_list, the newest first
          x         \* [ref, bootfs, pwd, live, held, got]

vars == <<pc, vdev, x>>

NoNode == "NULL"
Node == {"stdin", "stdout", "disk0", "root", "file"}
Form == {"relative", "boot", "colon", "device"}
Path == [form : Form, dev : {"stdin", "disk0", "none"}, rest : {"", "file", "missing"}]

ref_inc(y, n) == [y EXCEPT !.ref[n] = @ + 1]
ref_dec(y, n) == [y EXCEPT !.ref[n] = @ - 1]

\* The result of a lookup is y.got, NoNode when it failed.
Got(y, n) == [y EXCEPT !.got = n]

\* fsop_get_root: sfs_load_inode finds or creates the inode, with a reference.
sfs_get_root(y) == Got(ref_inc(y, "root"), "root")

\* Where vdev_list has a device of the name; a search takes the first one.
Entries(name) == {i \in DOMAIN vdev : vdev[i].name = name}

vfs_get_root(y, name) ==
    IF Entries(name) = {} THEN Got(y, NoNode)
    ELSE LET v == vdev[Min(Entries(name))]
         IN  IF v.fs THEN sfs_get_root(y)
             ELSE IF ~v.mountable THEN Got(ref_inc(y, name), name) ELSE Got(y, NoNode)

vfs_get_curdir(y, p) ==
    IF y.pwd[p] = NoNode THEN Got(y, NoNode) ELSE Got(ref_inc(y, y.pwd[p]), y.pwd[p])

vfs_get_bootfs(y) ==
    IF y.bootfs = NoNode THEN Got(y, NoNode) ELSE Got(ref_inc(y, y.bootfs), y.bootfs)

\* Fault: the reference to the working directory is kept.
ColonRootKept(y) == IF y.got = NoNode THEN y ELSE sfs_get_root(y)

\* ":name" starts at the root of the file system of the working directory.
ColonRoot(y) ==
    IF y.got = NoNode THEN y ELSE ref_dec(sfs_get_root(y), y.got)

get_device(y, p, path) ==
    CASE path.form = "relative" -> vfs_get_curdir(y, p)
      [] path.form = "device" -> vfs_get_root(y, path.dev)
      [] path.form = "boot" -> vfs_get_bootfs(y)
      [] path.form = "colon" -> ColonRoot(vfs_get_curdir(y, p))

\* dev_lookup knows no names; sfs_lookup finds "file" in the root.
vop_lookup(y, n, name) ==
    IF n = "root" /\ name = "file" THEN Got(ref_inc(y, "file"), "file") ELSE Got(y, NoNode)

Below(y, rest) ==
    IF y.got = NoNode \/ rest = "" THEN y ELSE ref_dec(vop_lookup(y, y.got, rest), y.got)

vfs_lookup(y, p, path) == Below(get_device(y, p, path), path.rest)

\* A working directory must be a directory.
vfs_set_curdir(y, p, n) ==
    IF y.pwd[p] = n \/ n # "root" THEN y
    ELSE LET old == y.pwd[p]
             z == [ref_inc(y, n) EXCEPT !.pwd[p] = n]
         IN  IF old = NoNode THEN z ELSE ref_dec(z, old)

vfs_chdir(y, p, path) ==
    LET z == vfs_lookup(y, p, path)
    IN  IF z.got = NoNode THEN z ELSE ref_dec(vfs_set_curdir(z, p, z.got), z.got)

change_bootfs(y, n) ==
    IF y.bootfs = NoNode THEN [y EXCEPT !.bootfs = n] ELSE [ref_dec(y, y.bootfs) EXCEPT !.bootfs = n]

vfs_set_bootfs(y, p, name) ==
    LET z == vfs_get_curdir(vfs_chdir(y, p, [form |-> "device", dev |-> name, rest |-> ""]), p)
    IN  IF z.got = NoNode THEN z ELSE change_bootfs(z, z.got)

\* Whether or not the buffer takes the device name, the colon and the path that
\* sfs_namefile writes, the reference is dropped on the way out.
vfs_getcwd(y, p) ==
    LET z == vfs_get_curdir(y, p) IN IF z.got = NoNode THEN z ELSE ref_dec(z, z.got)
-----------------------------------------------------------------------------
\* initproc is process 1.
Init ==
    /\ pc = "vfs_init" /\ vdev = <<>>
    /\ x = [ref |-> [n \in Node |-> 0], bootfs |-> NoNode, pwd |-> [p \in 1 .. MaxProc |-> NoNode],
            live |-> {1}, held |-> NoNode, got |-> NoNode]

Becomes(y) == x' = [y EXCEPT !.got = NoNode]

\* check_devname_conflict: a second device of the name is refused.
check_devname_conflict(name) == Entries(name) = {}

\* dev_create_inode and vfs_add_dev for one device.
add_dev(name, mountable) ==
    /\ check_devname_conflict(name)
    /\ vdev' = <<[name |-> name, mountable |-> mountable, fs |-> FALSE]>> \o vdev
    /\ Becomes(ref_inc(x, name))

dev_init_stdin == pc = "vfs_init" /\ pc' = "stdout" /\ add_dev("stdin", FALSE)
dev_init_stdout == pc = "stdout" /\ pc' = "disk0" /\ add_dev("stdout", FALSE)
dev_init_disk0 == pc = "disk0" /\ pc' = "sfs_init" /\ add_dev("disk0", TRUE)

\* vfs_mount: the mountable device of the name, if nothing is mounted on it.
sfs_mount ==
    /\ pc = "sfs_init" /\ pc' = "init_main"
    /\ vdev' = [i \in DOMAIN vdev |->
                  IF vdev[i].name = "disk0" /\ vdev[i].mountable /\ ~vdev[i].fs
                  THEN [vdev[i] EXCEPT !.fs = TRUE] ELSE vdev[i]]
    /\ UNCHANGED x

init_main ==
    /\ pc = "init_main" /\ pc' = "run"
    /\ Becomes(vfs_set_bootfs(x, 1, "disk0")) /\ UNCHANGED vdev

\* dup_files: a child takes a reference to its parent's directory.  A number stands
\* for a process and its files_struct.
do_fork(p, q) ==
    /\ pc = "run" /\ p \in x.live /\ q \notin x.live /\ x.pwd[q] = NoNode /\ x.held = NoNode
    /\ Becomes([ref_inc(x, x.pwd[p]) EXCEPT !.pwd[q] = x.pwd[p], !.live = @ \cup {q}])
    /\ UNCHANGED <<pc, vdev>>

\* files_destroy drops it; of a process without memory of its own, a kernel thread or
\* one whose exec failed, do_exit leaves the files_struct and its reference behind.
do_exit(p, mm) ==
    /\ pc = "run" /\ p \in x.live \ {1} /\ x.held = NoNode
    /\ Becomes(IF mm THEN [ref_dec(x, x.pwd[p]) EXCEPT !.pwd[p] = NoNode, !.live = @ \ {p}]
               ELSE [x EXCEPT !.live = @ \ {p}])
    /\ UNCHANGED <<pc, vdev>>

\* A call looks up a path and has the inode until it is done.
Lookup(p, path) ==
    /\ pc = "run" /\ p \in x.live /\ x.held = NoNode
    /\ LET y == vfs_lookup(x, p, path) IN x' = [y EXCEPT !.held = y.got, !.got = NoNode]
    /\ UNCHANGED <<pc, vdev>>

Done ==
    /\ x.held # NoNode
    /\ Becomes([ref_dec(x, x.held) EXCEPT !.held = NoNode])
    /\ UNCHANGED <<pc, vdev>>

sysfile_getcwd(p) ==
    /\ pc = "run" /\ p \in x.live /\ x.held = NoNode
    /\ Becomes(vfs_getcwd(x, p))
    /\ UNCHANGED <<pc, vdev>>

Next ==
    \/ dev_init_stdin \/ dev_init_stdout \/ dev_init_disk0 \/ sfs_mount \/ init_main
    \/ \E p, q \in 1 .. MaxProc : do_fork(p, q)
    \/ \E p \in 1 .. MaxProc : \/ \E mm \in BOOLEAN : do_exit(p, mm)
                               \/ \E path \in Path : Lookup(p, path)
                               \/ sysfile_getcwd(p)
    \/ Done

Spec == Init /\ [][Next]_vars
-----------------------------------------------------------------------------
Count(b) == IF b THEN 1 ELSE 0

\* Every reference has an owner: the device table, the boot file system, the
\* working directory of a files_struct or the call in progress, whatever form of path was looked
\* up and however the lookup failed.  So boot ends in the state Files starts from.
RefsOwned ==
    /\ \A n \in Node :
          x.ref[n] = Count(\E i \in DOMAIN vdev : vdev[i].name = n) + Count(x.bootfs = n)
                       + Cardinality({p \in 1 .. MaxProc : x.pwd[p] = n}) + Count(x.held = n)
    /\ pc = "run" => x.bootfs = "root" /\ \A p \in x.live : x.pwd[p] = "root"

\* A path leads where its form says: from the directory of the process, the boot
\* file system or a device, and nowhere else; no raw disk under a file system.
LookupsRight ==
    pc = "run" /\ x.held = NoNode =>
        \A p \in x.live, path \in Path :
            vfs_lookup(x, p, path).got =
                IF path.form = "device" /\ path.dev # "disk0"
                THEN IF path.dev = "stdin" /\ path.rest = "" THEN "stdin" ELSE NoNode
                ELSE CASE path.rest = "" -> "root"
                       [] path.rest = "file" -> "file"
                       [] path.rest = "missing" -> NoNode

=============================================================================
