------------------------------- MODULE MCMutex -------------------------------
(* Three or four threads, each with a priority of its own. *)
EXTENDS Mutex

CONSTANTS t0, t1, t2, t3

Urgency == <<t0, t1, t2, t3>>

MCPriority == [t \in Threads |-> (CHOOSE i \in 1 .. 4 : Urgency[i] = t) - 1]
=============================================================================
