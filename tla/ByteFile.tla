------------------------------ MODULE ByteFile ------------------------------
(***************************************************************************)
(* What SFS promises its users: a file is a string of bytes, and the only  *)
(* changes are a write at a position of an open descriptor, a seek past    *)
(* the end, which fills with zeros, and a truncating open.                 *)
(***************************************************************************)
EXTENDS Integers, Sequences, FiniteSetsExt

CONSTANTS File, Fd, NULL, Bytes, Lengths, SFS_MAX_FILE_SIZE

VARIABLES content, pos, of, stopped

vars == <<content, pos, of, stopped>>

Init == /\ content = [f \in File |-> <<>>] /\ pos = [d \in Fd |-> -1]
        /\ of = [d \in Fd |-> NULL] /\ stopped = FALSE

\* n copies of b at position p; the part between the end and p is zero.
Written(c, p, n, b) ==
    [i \in 1 .. Max({Len(c), p + n}) |->
        IF i \in p + 1 .. p + n THEN b ELSE IF i <= Len(c) THEN c[i] ELSE 0]

Others(f) == \A g \in File \ {f} : content'[g] = content[g]

\* All of it, or what fits on the disk; the position moves by as much.
Write(d) ==
    /\ pos[d] # -1 /\ of' = of /\ Others(of[d])
    /\ \E n \in 1 .. Max(Lengths), b \in Bytes :
          /\ content'[of[d]] = Written(content[of[d]], pos[d], n, b)
          /\ pos' = [pos EXCEPT ![d] = @ + n]

Move(d) ==
    /\ pos[d] # -1 /\ of' = of /\ Others(of[d])
    /\ pos' = [pos EXCEPT ![d] = pos'[d]] /\ pos'[d] \in 0 .. SFS_MAX_FILE_SIZE
    /\ \/ content'[of[d]] = content[of[d]]
       \/ /\ pos'[d] > Len(content[of[d]])
          /\ content'[of[d]] = Written(content[of[d]], pos'[d], 0, 0)

Open(d) ==
    /\ pos[d] = -1
    /\ \E f \in File :
          /\ of' = [of EXCEPT ![d] = f] /\ Others(f)
          /\ content'[f] \in {content[f], <<>>}
          /\ \E p \in {0, Len(content'[f])} : pos' = [pos EXCEPT ![d] = p]

Close(d) ==
    /\ pos' = [pos EXCEPT ![d] = -1]
    /\ of' = [of EXCEPT ![d] = NULL]
    /\ UNCHANGED content

Step == ~stopped /\ stopped' = FALSE
        /\ \E d \in Fd : Write(d) \/ Move(d) \/ Open(d) \/ Close(d)

\* The machine goes down, in good order or by a panic, or leaves
\* the promise.
Stop == stopped' = TRUE

Next == Step \/ Stop

Spec == Init /\ [][Next]_vars

=============================================================================
