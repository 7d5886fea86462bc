----------------------------- MODULE ProcTable -----------------------------
(***************************************************************************)
(* The process table of kern/process/proc.c: pids, the list of processes,  *)
(* the hash lists, and the pointers that tie a process to its parent, its  *)
(* youngest child and its siblings.  do_fork, do_exit and do_wait change   *)
(* them with interrupts off; the rest of these calls is in Process.        *)
(***************************************************************************)
EXTENDS Integers, Sequences, FiniteSets, SequencesExt

CONSTANTS
    NProc,          \* proc_structs
    MAX_PROCESS,
    MAX_PID,
    HASH_LIST_SIZE

\* The static_assert of get_pid.
PidAssumption == MAX_PID > MAX_PROCESS

VARIABLES
    state,                     \* "free", "live" or "zombie"
    pid,
    proc_list,                 \* the youngest first
    hash_list,                 \* one list per hash value
    parent, cptr, yptr, optr,  \* 0 is NIL
    nr_process,                \* idleproc counts, it is in no list
    last_pid, next_safe        \* the statics of get_pid

vars == <<state, pid, proc_list, hash_list, parent, cptr, yptr, optr, nr_process,
          last_pid, next_safe>>

Slot == 1 .. NProc
initproc == 1
NIL == 0
InTable(p) == state[p] # "free"

pid_hashfn(n) == n % HASH_LIST_SIZE

links == [cptr |-> cptr, yptr |-> yptr, optr |-> optr]

\* hash_proc and unhash_proc
Hashed(p, n) == [hash_list EXCEPT ![pid_hashfn(n)] = <<p>> \o @]
Unhashed(p) == [hash_list EXCEPT ![pid_hashfn(pid[p])] = SelectSeq(@, LAMBDA q : q # p)]

\* The scan of get_pid from entry i on: a pid that is taken moves last on, and
\* next_safe falls to the smallest pid in use above it; past next_safe the scan
\* starts again.
RECURSIVE Scan(_, _, _)
Scan(last, safe, i) ==
    IF i > Len(proc_list) THEN [last |-> last, safe |-> safe]
    ELSE LET n == pid[proc_list[i]]
         IN  IF n = last
             THEN IF last + 1 >= safe
                  THEN Scan(IF last + 1 >= MAX_PID THEN 1 ELSE last + 1, MAX_PID, 1)
                  ELSE Scan(last + 1, safe, i + 1)
             ELSE IF n > last /\ safe > n THEN Scan(last, n, i + 1)
             ELSE Scan(last, safe, i + 1)

\* Fault: next_safe is trusted after the pids have wrapped round.
get_pid_trusting ==
    IF last_pid + 1 >= MAX_PID THEN Scan(1, MAX_PID, 1)
    ELSE [last |-> last_pid + 1, safe |-> next_safe]

get_pid ==
    IF last_pid + 1 >= MAX_PID THEN Scan(1, MAX_PID, 1)
    ELSE IF last_pid + 1 >= next_safe THEN Scan(last_pid + 1, MAX_PID, 1)
    ELSE [last |-> last_pid + 1, safe |-> next_safe]

\* Put p at the head of the children of q (set_links, and the loop of do_exit).
Push(l, p, q) ==
    LET old == l.cptr[q]
        m == [l EXCEPT !.yptr[p] = NIL, !.optr[p] = old, !.cptr[q] = p]
    IN  IF old = NIL THEN m ELSE [m EXCEPT !.yptr[old] = p]

\* Fault: the younger sibling keeps its link.
UnlinkOneWay(l, p) ==
    LET m == IF l.optr[p] = NIL THEN l ELSE [l EXCEPT !.yptr[l.optr[p]] = l.yptr[p]]
    IN  IF l.yptr[p] # NIL THEN m ELSE [m EXCEPT !.cptr[parent[p]] = l.optr[p]]

\* remove_links: take p out of its siblings.
Unlink(l, p) ==
    LET m == IF l.optr[p] = NIL THEN l ELSE [l EXCEPT !.yptr[l.optr[p]] = l.yptr[p]]
    IN  IF l.yptr[p] # NIL THEN [m EXCEPT !.optr[l.yptr[p]] = l.optr[p]]
        ELSE [m EXCEPT !.cptr[parent[p]] = l.optr[p]]

\* The loop of do_exit: the children of p, from the youngest, go to initproc.
RECURSIVE Adopt(_, _)
Adopt(l, p) ==
    LET c == l.cptr[p]
    IN  IF c = NIL THEN l
        ELSE Adopt(Push([l EXCEPT !.cptr[p] = l.optr[c]], c, initproc), p)

Become(l) == cptr' = l.cptr /\ yptr' = l.yptr /\ optr' = l.optr

\* find_proc: the first process of its hash list with the pid, NIL if none.
find_proc(n) ==
    LET hits == SelectSeq(hash_list[pid_hashfn(n)], LAMBDA p : pid[p] = n)
    IN  IF n > 0 /\ n < MAX_PID /\ hits # <<>> THEN hits[1] ELSE NIL
-----------------------------------------------------------------------------
\* After proc_init: idleproc has created initproc.
Init ==
    /\ state = [p \in Slot |-> IF p = initproc THEN "live" ELSE "free"]
    /\ pid = [p \in Slot |-> IF p = initproc THEN 1 ELSE 0]
    /\ proc_list = <<initproc>>
    /\ hash_list = [h \in 0 .. HASH_LIST_SIZE - 1 |-> IF h = pid_hashfn(1) THEN <<initproc>> ELSE <<>>]
    /\ parent = [p \in Slot |-> NIL]
    /\ cptr = [p \in Slot |-> NIL] /\ yptr = cptr /\ optr = cptr
    /\ nr_process = 2
    /\ last_pid = 1 /\ next_safe = MAX_PID

\* A proc_struct is taken, named and linked; MAX_PROCESS is checked first.
do_fork(p) ==
    /\ state[p] = "live" /\ nr_process < MAX_PROCESS
    /\ \E q \in Slot :
        /\ state[q] = "free" /\ \A r \in Slot : r < q => InTable(r)
        /\ state' = [state EXCEPT ![q] = "live"]
        /\ parent' = [parent EXCEPT ![q] = p]
        /\ last_pid' = get_pid.last /\ next_safe' = get_pid.safe
        /\ pid' = [pid EXCEPT ![q] = last_pid']
        /\ hash_list' = Hashed(q, last_pid')
        /\ proc_list' = <<q>> \o proc_list
        /\ Become(Push(links, q, p))
        /\ nr_process' = nr_process + 1

do_exit(p) ==
    /\ p # initproc /\ state[p] = "live"
    /\ state' = [state EXCEPT ![p] = "zombie"]
    /\ parent' = [q \in Slot |-> IF InTable(q) /\ parent[q] = p THEN initproc ELSE parent[q]]
    /\ Become(Adopt(links, p))
    /\ UNCHANGED <<pid, proc_list, hash_list, nr_process, last_pid, next_safe>>

\* The zombie c of process p is reaped; its proc_struct is freed.
do_wait(p, c) ==
    /\ state[p] = "live" /\ state[c] = "zombie" /\ parent[c] = p
    /\ state' = [state EXCEPT ![c] = "free"]
    /\ hash_list' = Unhashed(c)
    /\ proc_list' = SelectSeq(proc_list, LAMBDA q : q # c)
    /\ LET l == Unlink(links, c)
       IN  Become([l EXCEPT !.yptr[c] = NIL, !.optr[c] = NIL])
    /\ pid' = [pid EXCEPT ![c] = 0] /\ parent' = [parent EXCEPT ![c] = NIL]
    /\ nr_process' = nr_process - 1
    /\ UNCHANGED <<last_pid, next_safe>>

Next == \/ \E p \in Slot : do_fork(p) \/ do_exit(p)
        \/ \E p, c \in Slot : do_wait(p, c)

Spec == Init /\ [][Next]_vars
-----------------------------------------------------------------------------
\* get_pid never hands out a pid in use, even after pids have wrapped around, and
\* find_proc finds exactly the process that has a pid.
PidsUnique ==
    /\ \A p \in Slot : InTable(p) => pid[p] \in 1 .. MAX_PID - 1 /\ find_proc(pid[p]) = p
    /\ \A n \in 0 .. MAX_PID : find_proc(n) # NIL => pid[find_proc(n)] = n
    /\ \A p \in Slot : InTable(p) => ~(pid[p] > last_pid /\ pid[p] < next_safe)

RECURSIVE Chain(_)
Chain(p) == IF p = NIL THEN <<>> ELSE <<p>> \o Chain(optr[p])

\* The pointers keep the family exact through fork, adoption and reaping: from
\* cptr along optr come exactly the children, youngest first, yptr leads back,
\* and nr_process counts the table and idleproc.
LinksExact ==
    /\ \A p \in Slot : InTable(p) =>
          LET kids == Chain(cptr[p])
          IN  /\ ToSet(kids) = {q \in Slot : InTable(q) /\ parent[q] = p}
              /\ \A i \in DOMAIN kids :
                    yptr[kids[i]] = IF i = 1 THEN NIL ELSE kids[i - 1]
    /\ ToSet(proc_list) = {p \in Slot : InTable(p)}
    /\ nr_process = Len(proc_list) + 1

=============================================================================
