-------------------------------- MODULE MCIpc --------------------------------
(* Three threads, two works and a canceller, and small blocks of data.        *)
EXTENDS IpcObjects, TLC

CONSTANTS t1, t2, t3, w1, w2, c1

MCPriority == (t1 :> 1) @@ (t2 :> 2) @@ (t3 :> 2)

\* Two threads of the same priority are interchangeable.
MCSymmetry == Permutations({t2, t3})

\* One waiter takes what comes, one wants everything, one only looks.
MCRequests == {[set |-> {1, 2}, all |-> FALSE, clear |-> TRUE],
               [set |-> {1, 2}, all |-> TRUE, clear |-> TRUE],
               [set |-> {1}, all |-> FALSE, clear |-> FALSE]}

\* Blocks shorter than the ring buffer, as long and longer.
MCBlocks == UNION {[1 .. n -> {0, 1}] : n \in {1, 3, 4, 5}}
==============================================================================
