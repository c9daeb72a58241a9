------------------------------ MODULE SpinLock ------------------------------
(***************************************************************************)
(* What a kernel spinlock promises its callers, without tickets: requests  *)
(* queue up, the head of the queue enters, and leaving serves the next one.*)
(* TicketLock (libcpu/arm/cortex-a/cpu.c) is shown to implement it.        *)
(***************************************************************************)
EXTENDS Naturals, Sequences

CONSTANT CPUs

VARIABLES
    queue,      \* CPUs between their request and their release, oldest first
    entered     \* the head of the queue has left rt_hw_spin_lock

slVars == <<queue, entered>>

InQueue(c) == \E i \in 1..Len(queue) : queue[i] = c

Init == queue = << >> /\ entered = FALSE

Request(c) ==
    /\ ~InQueue(c)
    /\ queue' = Append(queue, c)
    /\ UNCHANGED entered

Enter(c) ==
    /\ queue # << >> /\ Head(queue) = c
    /\ ~entered
    /\ entered' = TRUE
    /\ UNCHANGED queue

Leave(c) ==
    /\ queue # << >> /\ Head(queue) = c
    /\ entered
    /\ queue' = Tail(queue)
    /\ entered' = FALSE

Next == \E c \in CPUs : Request(c) \/ Enter(c) \/ Leave(c)

Spec == Init /\ [][Next]_slVars
=============================================================================
