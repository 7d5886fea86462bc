--------------------------- MODULE PrivateMemory ---------------------------
(***************************************************************************)
(* What the virtual memory promises: every process has memory of its own.  *)
(* flat[p][a] is the byte process p finds at address a, or Unmapped.  A    *)
(* step changes the memory of one process only; exec replaces it by the    *)
(* image of a program, fork copies it.                                     *)
(***************************************************************************)
EXTENDS Integers

CONSTANTS Proc, Addr, PGSIZE, Unmapped, Programs, Image(_)

VARIABLE flat

vars == flat

Blank == [a \in Addr |-> Unmapped]

Init == flat = [p \in Proc |-> Blank]

Exit(new) == new = Blank

Fork(old, new) == old = Blank /\ \E q \in Proc : new = flat[q]

\* The loaded bytes are those of the program; the rest of its pages is unspecified.
Exec(new) == \E prog \in Programs :
                /\ prog.magic
                /\ \A a \in DOMAIN Image(prog) : new[a] = Image(prog)[a]

\* One page appears.
Touch(old, new) ==
    \E a \in Addr : /\ old[a] = Unmapped
                    /\ \A b \in Addr : b \div PGSIZE # a \div PGSIZE => new[b] = old[b]

\* One byte of a page that is there changes.
Write(old, new) ==
    \E a \in Addr : old[a] # Unmapped /\ \A b \in Addr \ {a} : new[b] = old[b]

Step(old, new) ==
    Exit(new) \/ Fork(old, new) \/ Write(old, new) \/ Touch(old, new) \/ Exec(new)

One == \E p \in Proc : /\ \A q \in Proc \ {p} : flat'[q] = flat[q]
                       /\ Step(flat[p], flat'[p])

\* The machine stops.
Stop == flat' = [p \in Proc |-> Blank]

Next == One \/ Stop

Spec == Init /\ [][Next]_vars

=============================================================================
