------------------------------- MODULE MCVfs -------------------------------
(***************************************************************************)
(* The descriptors and what they lead to: Files, the VFS from boot on,     *)
(* pipes and the keyboard device, in one run.  The components share no     *)
(* variables: a behaviour is one of "part", the others stay as they were at*)
(* the start.                                                              *)
(***************************************************************************)
EXTENDS Files, TLC

CONSTANTS MaxProc,                                  \* VfsBoot
          User, NONE, Byte, PIPE_BUFFER_SIZE, MaxLen,   \* Pipe
          STDIN_BUFSIZE, Lengths, MaxTyped          \* StdinRing

VARIABLES part,
          boot, vdev, vfs,
          p_head, p_tail, p_buffer, p_read_queue, p_write_queue, sleepers, flags,
          exiting, at, left, got, cpu,
          buffer, p_rpos, p_wpos, typed, dropped, taken, reader, killed, wait_queue

bootvars == <<boot, vdev, vfs>>
pipevars == <<p_head, p_tail, p_buffer, p_read_queue, p_write_queue, sleepers, flags,
              exiting, at, left, got, cpu>>
keyvars == <<buffer, p_rpos, p_wpos, typed, dropped, taken, reader, killed, wait_queue>>

B == INSTANCE VfsBoot WITH pc <- boot, x <- vfs
Q == INSTANCE Pipe WITH Proc <- User, pc <- at, asleep <- sleepers
D == INSTANCE StdinRing WITH Reader <- User, got <- taken

ASSUME DevicesAllowed == B!BootAssumption /\ Q!PipeAssumption /\ D!StdinAssumption
-----------------------------------------------------------------------------
\* The calls of open that take each of the branches of vfs_open and vop_open.
Create == [ReadOnly EXCEPT !.acc = "RDWR", !.create = TRUE]

MCOpens ==
    {[path |-> "/", flags |-> ReadOnly],
     [path |-> "/", flags |-> [ReadOnly EXCEPT !.append = TRUE]],
     [path |-> "/", flags |-> [ReadOnly EXCEPT !.create = TRUE]],
     [path |-> "stdin:", flags |-> ReadOnly],
     [path |-> "stdin:", flags |-> [ReadOnly EXCEPT !.acc = "RDWR"]],
     [path |-> "missing", flags |-> ReadOnly],
     [path |-> "missing", flags |-> Create],
     [path |-> "file", flags |-> Create],
     [path |-> "file", flags |-> [Create EXCEPT !.excl = TRUE]],
     [path |-> "file", flags |-> [ReadOnly EXCEPT !.trunc = TRUE]],
     [path |-> "file", flags |-> [ReadOnly EXCEPT !.acc = "RDWR", !.append = TRUE]]}

\* Bounds: at most four descriptors, of at most two different inodes.
FewOpen ==
    LET held == {h \in Proc \X Fd : files[h[1]][h[2]].node # NULL}
    IN  /\ Cardinality(held) <= 4
        /\ Cardinality({files[h[1]][h[2]].node : h \in held}) <= 2

MCInit ==
    /\ part \in {"files", "boot", "pipe", "keyboard"}
    /\ Init /\ B!Init /\ Q!Init /\ D!Init
    /\ part # "pipe" => got = CHOOSE b \in Byte : TRUE

FilesStep == part = "files" /\ Next /\ UNCHANGED <<part, bootvars, pipevars, keyvars>>

BootStep == part = "boot" /\ B!Next /\ UNCHANGED <<part, vars, pipevars, keyvars>>

PipeStep == part = "pipe" /\ Q!Next /\ UNCHANGED <<part, vars, bootvars, keyvars>>

KeyboardStep == part = "keyboard" /\ D!Next /\ UNCHANGED <<part, vars, bootvars, pipevars>>

MCNext == FilesStep \/ BootStep \/ PipeStep \/ KeyboardStep

MCSpec == MCInit /\ [][MCNext]_<<part, vars, bootvars, pipevars, keyvars>>

\* The view leaves out what no step reads again: the bytes of the pipe outside
\* its contents, and the flags of a process that does not wait.  TLC keeps the
\* variables a view leaves out in a form it can store only if something compares
\* them: hence Evaluated.
Evaluated == LET rest == <<p_buffer, got, flags>> IN rest = rest

PipeShape ==
    <<p_head, p_tail, Q!Contents, p_read_queue, p_write_queue, sleepers, exiting, at, left, cpu,
      [p \in User |-> IF at[p] = "user" \/ cpu = p THEN "" ELSE flags[p]]>>

Shape == <<part, Evaluated, IF part = "pipe" THEN PipeShape ELSE <<vars, bootvars, keyvars>> >>

MCSymmetry == Permutations(Proc) \cup Permutations(Pipe) \cup Permutations(User)
-----------------------------------------------------------------------------
\* The asserts on descriptors and inodes hold, and an inode that the last
\* descriptor has left is written back.
FilesSound == AssertsHold /\ ClosedIsClean

\* vfs_init, the devices, vfs_mount and vfs_set_bootfs: the counts of the inodes
\* are those of their holders, and every lookup goes to the device or the file
\* system its path names.
VfsExact == part = "boot" => B!RefsOwned /\ B!LookupsRight

\* pipe_read and pipe_write keep their indices in the ring; a process sleeps only on
\* a pipe it cannot use, and is in the queue it will be woken from.
PipeLive == part = "pipe" => Q!TypeOK /\ Q!NoLostWakeup /\ Q!QueuesLive

\* pipe_read and pipe_write implement a bounded first-in first-out buffer.
ImplementsFifo == Q!F!Init /\ [][part = "pipe" => [Q!F!Next]_Q!F!vars]_pipevars

\* dev_stdin_read: every character typed is read once and in order as long as
\* the ring has room, and nobody sleeps while there is one to read.
KeyboardExact == part = "keyboard" => D!KeyboardExact

=============================================================================
