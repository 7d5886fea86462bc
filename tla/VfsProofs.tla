----------------------------- MODULE VfsProofs -----------------------------
(***************************************************************************)
(* The pipes, the keyboard and the VFS from boot on as MCVfs composes them *)
(* with the descriptor tables: its properties follow from the invariants   *)
(* of PipeProofs and DeviceProofs.                                         *)
(***************************************************************************)
EXTENDS MCVfs, TLAPS

\* Every leaf has time enough on a busy machine.
USE SMTT(20), ZenonT(30), SMTT(60), SMTT(61)

-----------------------------------------------------------------------------
(* Pipes, with the invariant of PipeProofs. *)

PP == INSTANCE PipeProofs WITH Proc <- User, pc <- at, asleep <- sleepers

\* The pipe of MCVfs is the one PipeProofs is about.
LEMMA PipeSame ==
    /\ Q!PipeAssumption => PP!PipeAssumption
    /\ Q!Init => PP!Init
    /\ Q!Next => PP!Next
<1>1. Q!PipeAssumption => PP!PipeAssumption
  BY DEF Q!PipeAssumption, PP!PipeAssumption
<1>2. Q!Init => PP!Init
  BY ZenonT(60) DEF Q!Init, PP!Init, Q!pipe_create_inode, PP!pipe_create_inode, Q!Index, PP!Index
<1>3. ASSUME NEW p \in User, Q!Run(p) PROVE PP!Run(p)
  BY <1>3, ZenonT(60)
     DEF Q!Run, PP!Run, Q!Return, PP!Return, Q!Awake, PP!Awake,
         Q!pipe_read_byte, PP!pipe_read_byte, Q!pipe_read_wait, PP!pipe_read_wait,
         Q!pipe_write_byte, PP!pipe_write_byte, Q!pipe_write_wait, PP!pipe_write_wait,
         Q!WakeQueue, PP!WakeQueue, Q!Wake, PP!Wake, Q!Sleep, PP!Sleep,
         Q!pipe_empty, PP!pipe_empty, Q!pipe_full, PP!pipe_full, Q!bufvars, PP!bufvars
<1>4. ASSUME NEW p \in User,
             Q!Call(p, "read") \/ Q!Call(p, "write") \/ Q!do_kill(p) \/ Q!Exit(p)
      PROVE  PP!Call(p, "read") \/ PP!Call(p, "write") \/ PP!do_kill(p) \/ PP!Exit(p)
  BY <1>4, ZenonT(60) DEF Q!Call, PP!Call, Q!do_kill, PP!do_kill, Q!Exit, PP!Exit, Q!bufvars, PP!bufvars
<1>5. Q!Next => PP!Next
  BY <1>3, <1>4, ZenonT(60) DEF Q!Next, PP!Next
<1> QED
  BY <1>1, <1>2, <1>5

\* A step of MCVfs is a step of the pipe or leaves it alone.
LEMMA PipeSteps ==
    ASSUME [MCNext]_<<part, vars, bootvars, pipevars, keyvars>>
    PROVE  [PP!Next]_(PP!vars)
<1>1. Q!Next \/ UNCHANGED pipevars
  BY DEF MCNext, FilesStep, BootStep, PipeStep, KeyboardStep
<1> QED
  BY <1>1, PipeSame DEF pipevars, PP!vars

\* Its initial state satisfies the invariant of PipeProofs and every step keeps it.
LEMMA PipeInvariant == MCSpec => []PP!Inv
<1>1. PP!PipeAssumption
  BY PipeSame, DevicesAllowed
<1>2. MCInit => PP!Inv
  BY <1>1, PipeSame, PP!InitInv DEF MCInit
<1>3. PP!Inv /\ [MCNext]_<<part, vars, bootvars, pipevars, keyvars>> => PP!Inv'
  BY <1>1, PipeSteps, PP!NextInv
<1> QED
  BY <1>2, <1>3, PTL DEF MCSpec

\* The indices of a pipe stay in its ring, every sleeper is in the queue it will be
\* woken from, and nobody sleeps on a pipe it could use.
THEOREM VfsPipeLive == MCSpec => []PipeLive
<1>1. PP!Inv => PipeLive
  <2> SUFFICES ASSUME PP!Inv PROVE PipeLive
    OBVIOUS
  <2>1. Q!TypeOK
    BY ZenonT(60) DEF PP!Inv, PP!TypeOK, Q!TypeOK, PP!Index, Q!Index
  <2>2. Q!NoLostWakeup
    BY ZenonT(60) DEF PP!Inv, PP!NoLostWakeup, Q!NoLostWakeup, PP!pipe_empty, Q!pipe_empty,
       PP!pipe_full, Q!pipe_full
  <2>3. Q!QueuesLive
    BY ZenonT(60) DEF PP!Inv, PP!QueuesLive, Q!QueuesLive
  <2> QED
    BY <2>1, <2>2, <2>3, ZenonT(60) DEF PipeLive
<1> QED
  BY <1>1, PipeInvariant, PTL


\* pipe_read and pipe_write are the Get and Put of a bounded first-in first-out
\* buffer, and nothing else a process does is a step of it.
THEOREM VfsImplementsFifo == MCSpec => ImplementsFifo
<1>1. PP!PipeAssumption
  BY PipeSame, DevicesAllowed
<1>2. Q!Contents = PP!Contents
  BY ZenonT(60) DEF Q!Contents, PP!Contents
<1>3. Q!Contents' = PP!Contents'
  BY ZenonT(60) DEF Q!Contents, PP!Contents
<1>4. MCInit => Q!F!Init
  <2> SUFFICES ASSUME MCInit PROVE Q!F!Init
    OBVIOUS
  <2>1. PP!F!Init
    BY <1>1, PipeSame, PP!InitFifo DEF MCInit
  <2> QED
    BY <1>2, <2>1 DEF PP!F!Init, Q!F!Init
<1>5. PP!Inv /\ [MCNext]_<<part, vars, bootvars, pipevars, keyvars>>
        => [part = "pipe" => [Q!F!Next]_(Q!F!vars)]_pipevars
  <2> SUFFICES ASSUME PP!Inv, [MCNext]_<<part, vars, bootvars, pipevars, keyvars>>
               PROVE  [Q!F!Next]_(Q!F!vars)
    OBVIOUS
  <2>1. [PP!F!Next]_(PP!F!vars)
    BY <1>1, PipeSteps, PP!NextFifo
  <2> QED
    BY <1>2, <1>3, <2>1
       DEF PP!F!Next, Q!F!Next, PP!F!Put, Q!F!Put, PP!F!Get, Q!F!Get, PP!F!vars, Q!F!vars
<1> QED
  BY <1>4, <1>5, PipeInvariant, PTL DEF MCSpec, ImplementsFifo

-----------------------------------------------------------------------------
(* The keyboard and the VFS from boot on, with the invariants of DeviceProofs. *)

DP == INSTANCE DeviceProofs WITH Reader <- User, got <- taken

\* The keyboard of MCVfs is the one DeviceProofs is about.
LEMMA KeyboardSame ==
    /\ D!StdinAssumption => DP!StdinAssumption
    /\ D!Init => DP!Init
    /\ D!Next => DP!Next
    /\ DP!KeyboardExact => D!KeyboardExact
<1>1. D!StdinAssumption => DP!StdinAssumption
  BY DEF D!StdinAssumption, DP!StdinAssumption
<1>2. D!Init => DP!Init
  BY ZenonT(60) DEF D!Init, DP!Init, D!Index, DP!Index, D!Idle, DP!Idle
<1>3. \A a, b : D!least(a, b) = DP!least(a, b)
  BY ZenonT(60) DEF D!least, DP!least
<1>4. ASSUME NEW r, NEW len, D!Fetch(r, len) PROVE DP!Fetch(r, len)
  BY <1>3, <1>4, ZenonT(60) DEF D!Fetch, DP!Fetch, D!Idle, DP!Idle, D!least, DP!least
<1>5. D!dev_stdin_write => DP!dev_stdin_write
  BY ZenonT(60) DEF D!dev_stdin_write, DP!dev_stdin_write, D!wakeup_queue, DP!wakeup_queue
<1>6. ASSUME NEW r, NEW len, D!dev_stdin_read(r, len) PROVE DP!dev_stdin_read(r, len)
  BY <1>4, <1>6, ZenonT(60) DEF D!dev_stdin_read, DP!dev_stdin_read
<1>7. ASSUME NEW r, D!Resume(r) \/ D!do_kill(r) PROVE DP!Resume(r) \/ DP!do_kill(r)
  BY <1>4, <1>7 DEF D!Resume, DP!Resume, D!do_kill, DP!do_kill, D!Idle, DP!Idle
<1>8. D!Next => DP!Next
  BY <1>5, <1>6, <1>7, ZenonT(60) DEF D!Next, DP!Next
<1>9. DP!KeyboardExact => D!KeyboardExact
  BY ZenonT(60) DEF DP!KeyboardExact, D!KeyboardExact, DP!Unread, D!Unread,
     DP!IsInjective, D!IsInjective
<1> QED
  BY <1>1, <1>2, <1>8, <1>9

\* Every character typed is read once and in order as long as the ring has room, and
\* nobody sleeps in dev_stdin_read while there is one to read.
THEOREM VfsKeyboardExact == MCSpec => []KeyboardExact
<1>1. DP!StdinAssumption
  BY KeyboardSame, DevicesAllowed
<1>2. MCInit => DP!Inv
  BY <1>1, KeyboardSame, DP!InitInv DEF MCInit
<1>3. DP!Inv /\ [MCNext]_<<part, vars, bootvars, pipevars, keyvars>> => DP!Inv'
  <2> SUFFICES ASSUME DP!Inv, [MCNext]_<<part, vars, bootvars, pipevars, keyvars>>
               PROVE  DP!Inv'
    OBVIOUS
  <2>1. D!Next \/ UNCHANGED keyvars
    BY DEF MCNext, FilesStep, BootStep, PipeStep, KeyboardStep
  <2>2. [DP!Next]_(DP!vars)
    BY <2>1, KeyboardSame DEF keyvars, DP!vars
  <2> QED
    BY <1>1, <2>2, DP!NextInv
<1>4. DP!Inv => KeyboardExact
  BY <1>1, KeyboardSame, DP!InvExact DEF KeyboardExact
<1> QED
  BY <1>2, <1>3, <1>4, PTL DEF MCSpec

\* The VFS of MCVfs is the one DeviceProofs is about.
LEMMA BootSame ==
    /\ B!BootAssumption => DP!B!BootAssumption
    /\ B!Init => DP!B!Init
    /\ B!Next => DP!B!Next
    /\ DP!B!RefsOwned => B!RefsOwned
    /\ DP!B!LookupsRight => B!LookupsRight
<1> USE DEF B!NoNode, DP!B!NoNode, B!Node, DP!B!Node, B!ref_inc, DP!B!ref_inc,
            B!ref_dec, DP!B!ref_dec, B!Got, DP!B!Got, B!Becomes, DP!B!Becomes
<1>1. B!BootAssumption => DP!B!BootAssumption
  BY DEF B!BootAssumption, DP!B!BootAssumption
<1>2. B!Init => DP!B!Init
  BY ZenonT(60) DEF B!Init, DP!B!Init
<1>3. \A name : B!Entries(name) = DP!B!Entries(name)
  BY ZenonT(60) DEF B!Entries, DP!B!Entries
<1>4. \A y, name : B!vfs_get_root(y, name) = DP!B!vfs_get_root(y, name)
  <2>1. \A T : B!Min(T) = DP!B!Min(T)
    BY ZenonT(60) DEF B!Min, DP!B!Min
  <2> QED
    BY <1>3, <2>1 DEF B!vfs_get_root, DP!B!vfs_get_root, B!sfs_get_root, DP!B!sfs_get_root
<1>5. \A y, p : B!vfs_get_curdir(y, p) = DP!B!vfs_get_curdir(y, p)
  BY ZenonT(60) DEF B!vfs_get_curdir, DP!B!vfs_get_curdir
<1>6. \A y, p, path : B!get_device(y, p, path) = DP!B!get_device(y, p, path)
  <2>1. \A y : B!vfs_get_bootfs(y) = DP!B!vfs_get_bootfs(y)
    BY ZenonT(60) DEF B!vfs_get_bootfs, DP!B!vfs_get_bootfs
  <2>2. \A y : B!ColonRoot(y) = DP!B!ColonRoot(y)
    BY ZenonT(60) DEF B!ColonRoot, DP!B!ColonRoot, B!sfs_get_root, DP!B!sfs_get_root
  <2> QED
    BY <1>4, <1>5, <2>1, <2>2, ZenonT(60) DEF B!get_device, DP!B!get_device
<1>7. \A y, p, path : B!vfs_lookup(y, p, path) = DP!B!vfs_lookup(y, p, path)
  <2>1. \A y, rest : B!Below(y, rest) = DP!B!Below(y, rest)
    BY ZenonT(60) DEF B!Below, DP!B!Below, B!vop_lookup, DP!B!vop_lookup
  <2> QED
    BY <1>6, <2>1 DEF B!vfs_lookup, DP!B!vfs_lookup
<1>8. \A y, p, name : B!vfs_set_bootfs(y, p, name) = DP!B!vfs_set_bootfs(y, p, name)
  <2>1. \A y, p, n : B!vfs_set_curdir(y, p, n) = DP!B!vfs_set_curdir(y, p, n)
    BY ZenonT(60) DEF B!vfs_set_curdir, DP!B!vfs_set_curdir
  <2>2. \A y, p, path : B!vfs_chdir(y, p, path) = DP!B!vfs_chdir(y, p, path)
    BY <1>7, <2>1 DEF B!vfs_chdir, DP!B!vfs_chdir
  <2>3. \A y, n : B!change_bootfs(y, n) = DP!B!change_bootfs(y, n)
    BY ZenonT(60) DEF B!change_bootfs, DP!B!change_bootfs
  <2> QED
    BY <1>5, <2>2, <2>3 DEF B!vfs_set_bootfs, DP!B!vfs_set_bootfs
<1>9. \A y, p : B!vfs_getcwd(y, p) = DP!B!vfs_getcwd(y, p)
  BY <1>5, ZenonT(60) DEF B!vfs_getcwd, DP!B!vfs_getcwd
<1>10. /\ B!dev_init_stdin => DP!B!dev_init_stdin
       /\ B!dev_init_stdout => DP!B!dev_init_stdout
       /\ B!dev_init_disk0 => DP!B!dev_init_disk0
  BY <1>3, ZenonT(60)
     DEF B!dev_init_stdin, DP!B!dev_init_stdin, B!dev_init_stdout, DP!B!dev_init_stdout,
         B!dev_init_disk0, DP!B!dev_init_disk0, B!add_dev, DP!B!add_dev,
         B!check_devname_conflict, DP!B!check_devname_conflict
<1>11. B!sfs_mount => DP!B!sfs_mount
  BY ZenonT(60) DEF B!sfs_mount, DP!B!sfs_mount
<1>12. B!init_main => DP!B!init_main
  BY <1>8, ZenonT(60) DEF B!init_main, DP!B!init_main
<1>13. \A p, q : B!do_fork(p, q) => DP!B!do_fork(p, q)
  BY ZenonT(60) DEF B!do_fork, DP!B!do_fork
<1>14. \A p, mm : B!do_exit(p, mm) => DP!B!do_exit(p, mm)
  BY ZenonT(60) DEF B!do_exit, DP!B!do_exit
<1>15. \A p, path : B!Lookup(p, path) => DP!B!Lookup(p, path)
  BY <1>7, ZenonT(60) DEF B!Lookup, DP!B!Lookup
<1>16. \A p : B!sysfile_getcwd(p) => DP!B!sysfile_getcwd(p)
  BY <1>9, ZenonT(60) DEF B!sysfile_getcwd, DP!B!sysfile_getcwd
<1>17. B!Done => DP!B!Done
  BY ZenonT(60) DEF B!Done, DP!B!Done
<1>18. B!Path = DP!B!Path
  BY ZenonT(60) DEF B!Path, DP!B!Path, B!Form, DP!B!Form
<1>19. B!Next => DP!B!Next
  BY <1>10, <1>11, <1>12, <1>13, <1>14, <1>15, <1>16, <1>17, <1>18, ZenonT(60) DEF B!Next, DP!B!Next
<1>20. DP!B!RefsOwned => B!RefsOwned
  <2>1. \A T : B!Cardinality(T) = DP!B!Cardinality(T)
    BY ZenonT(60) DEF B!Cardinality, DP!B!Cardinality
  <2> QED
    BY <2>1, ZenonT(60) DEF B!RefsOwned, DP!B!RefsOwned, B!Count, DP!B!Count
<1>21. DP!B!LookupsRight => B!LookupsRight
  BY <1>7, <1>18, ZenonT(60) DEF B!LookupsRight, DP!B!LookupsRight
<1> QED
  BY <1>1, <1>2, <1>19, <1>20, <1>21

\* From boot on, however many processes fork, exit, look up paths and ask for their
\* directory: every reference has its owner and every path leads where it says.
THEOREM VfsVfsExact == MCSpec => []VfsExact
<1>1. DP!B!BootAssumption
  BY BootSame, DevicesAllowed
<1>2. MCInit => DP!BootInv
  BY <1>1, BootSame, DP!BootInit DEF MCInit
<1>3. DP!BootInv /\ [MCNext]_<<part, vars, bootvars, pipevars, keyvars>> => DP!BootInv'
  <2> SUFFICES ASSUME DP!BootInv, [MCNext]_<<part, vars, bootvars, pipevars, keyvars>>
               PROVE  DP!BootInv'
    OBVIOUS
  <2>1. B!Next \/ UNCHANGED bootvars
    BY DEF MCNext, FilesStep, BootStep, PipeStep, KeyboardStep
  <2>2. [DP!B!Next]_(DP!B!vars)
    BY <2>1, BootSame DEF bootvars, DP!B!vars
  <2> QED
    BY <1>1, <2>2, DP!BootNext
<1>4. DP!BootInv => VfsExact
  BY <1>1, BootSame, DP!BootOwned, DP!BootLookups DEF VfsExact
<1> QED
  BY <1>2, <1>3, <1>4, PTL DEF MCSpec

=============================================================================
