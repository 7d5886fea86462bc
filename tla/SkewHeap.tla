------------------------------ MODULE SkewHeap ------------------------------
(***************************************************************************)
(* The skew heap of libs/skew_heap.h, with its pointers.  A memory h is a  *)
(* record of the fields left, right and parent of every node; less[a, b]   *)
(* says whether comp(a, b) is -1.                                          *)
(***************************************************************************)
LOCAL INSTANCE Naturals
LOCAL INSTANCE FiniteSets

CONSTANTS Node, NULL

\* A memory in which no node is linked.
Blank ==
    LET null == [n \in Node |-> NULL]
    IN  [left |-> null, right |-> null, parent |-> null]

skew_heap_init(h, a) ==
    [h EXCEPT !.left[a] = NULL, !.right[a] = NULL, !.parent[a] = NULL]

\* Fault: a child is not told its new parent.
SetNoParent(h, n, p) == h

SetParent(h, n, p) == IF n = NULL THEN h ELSE [h EXCEPT !.parent[n] = p]

\* The heap of a and b: the memory and the root.
RECURSIVE skew_heap_merge(_, _, _, _)
skew_heap_merge(h, a, b, less) ==
    IF a = NULL THEN [mem |-> h, root |-> b]
    ELSE IF b = NULL THEN [mem |-> h, root |-> a]
    ELSE LET top == IF less[a, b] THEN a ELSE b
             m == IF less[a, b]
                  THEN skew_heap_merge(h, h.right[a], b, less)
                  ELSE skew_heap_merge(h, a, h.right[b], less)
             swapped == [m.mem EXCEPT !.left[top] = m.root, !.right[top] = h.left[top]]
         IN  [mem |-> SetParent(swapped, m.root, top), root |-> top]

skew_heap_insert(h, a, b, less) == skew_heap_merge(skew_heap_init(h, b), a, b, less)

\* Takes b out of the heap with root a.
skew_heap_remove(h, a, b, less) ==
    LET p == h.parent[b]
        rep == skew_heap_merge(h, h.left[b], h.right[b], less)
        mem == SetParent(rep.mem, rep.root, p)
    IN  IF p = NULL THEN [mem |-> mem, root |-> rep.root]
        ELSE IF mem.left[p] = b
             THEN [mem |-> [mem EXCEPT !.left[p] = rep.root], root |-> a]
             ELSE [mem |-> [mem EXCEPT !.right[p] = rep.root], root |-> a]

-----------------------------------------------------------------------------
(* What a heap is. *)

\* The nodes of the tree under a, to a depth of at most d.
RECURSIVE Under(_, _, _)
Under(h, a, d) ==
    IF a = NULL \/ d = 0 THEN {}
    ELSE {a} \cup Under(h, h.left[a], d - 1) \cup Under(h, h.right[a], d - 1)

Nodes(h, a) == Under(h, a, Cardinality(Node) + 1)

\* The nodes under root form a tree, and the parent pointers agree with it.
IsTree(h, root) ==
    LET nodes == Nodes(h, root)
        Links(n) == {f \in {"left", "right"} \X nodes : h[f[1]][f[2]] = n}
    IN  \A n \in nodes :
            IF n = root
            THEN h.parent[n] = NULL /\ Links(n) = {}
            ELSE \E f \in Links(n) : Links(n) = {f} /\ h.parent[n] = f[2]

=============================================================================
