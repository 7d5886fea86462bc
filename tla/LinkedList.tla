----------------------------- MODULE LinkedList -----------------------------
(***************************************************************************)
(* The circular doubly linked lists of libs/list.h.  The links of all      *)
(* entries are a record l of two functions, prev and next.                 *)
(***************************************************************************)

list_init(l, elm) == [l EXCEPT !.prev[elm] = elm, !.next[elm] = elm]

\* The assignments in the order of __list_add: elm may be prev or next itself.
__list_add(l, elm, prev, next) ==
    LET linked == [l EXCEPT !.next[prev] = elm, !.prev[next] = elm]
    IN  [linked EXCEPT !.next[elm] = next, !.prev[elm] = prev]

__list_del(l, prev, next) == [l EXCEPT !.next[prev] = next, !.prev[next] = prev]

list_add_before(l, listelm, elm) == __list_add(l, elm, l.prev[listelm], listelm)

list_add(l, listelm, elm) == __list_add(l, elm, listelm, l.next[listelm])

list_del(l, listelm) == __list_del(l, l.prev[listelm], l.next[listelm])

list_del_init(l, listelm) == list_init(list_del(l, listelm), listelm)

list_empty(l, list) == l.next[list] = list

=============================================================================
