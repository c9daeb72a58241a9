----------------------------- MODULE KernelList ------------------------------
(***************************************************************************)
(* The doubly linked lists of include/rtservice.h, on which the ready      *)
(* queues, the waiting lists, the timer lists and the work lists are built.*)
(* A list is the sequence of its nodes from the head's next on.            *)
(***************************************************************************)
EXTENDS Naturals, Sequences

InList(l, x) == \E i \in 1 .. Len(l) : l[i] = x

\* No node is linked twice.
Once(l) == \A i, j \in 1 .. Len(l) : l[i] = l[j] => i = j

\* rt_list_remove: without effect on a node that is in no list.
rt_list_remove(l, x) ==
    IF InList(l, x)
    THEN LET i == CHOOSE j \in 1 .. Len(l) : l[j] = x
         IN  [j \in 1 .. Len(l) - 1 |-> IF j < i THEN l[j] ELSE l[j + 1]]
    ELSE l

\* A loop that stops at the first node whose place is in W, and inserts x before it
\* or, if there is none, before the head, that is at the end.
rt_list_insert_before(l, W, x) ==
    LET at == IF W = {} THEN Len(l) + 1 ELSE CHOOSE i \in W : \A j \in W : i <= j
    IN  [j \in 1 .. Len(l) + 1 |-> IF j < at THEN l[j] ELSE IF j = at THEN x ELSE l[j - 1]]
=============================================================================
