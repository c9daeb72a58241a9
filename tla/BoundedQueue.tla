---------------------------- MODULE BoundedQueue -----------------------------
(***************************************************************************)
(* What a mailbox and a message queue promise: a queue of at most Size     *)
(* values, first in first out, with a way to send to its front and to      *)
(* empty it.  Blocking, rings, lists and blocks are not mentioned.         *)
(***************************************************************************)
EXTENDS Naturals, Sequences

CONSTANTS Values, Size

VARIABLE queue

TypeOK == queue \in Seq(Values) /\ Len(queue) <= Size

Init == queue = << >>

Send(v) == Len(queue) < Size /\ queue' = Append(queue, v)

Urgent(v) == Len(queue) < Size /\ queue' = <<v>> \o queue

Receive == queue # << >> /\ queue' = Tail(queue)

Reset == queue' = << >>

Next == Receive \/ Reset \/ \E v \in Values : Send(v) \/ Urgent(v)

Spec == Init /\ [][Next]_queue
=============================================================================
