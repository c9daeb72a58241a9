----------------------------- MODULE TicketLock -----------------------------
(***************************************************************************)
(* The hardware spinlock of libcpu/arm/cortex-a/cpu.c: a ticket lock whose *)
(* two 16-bit halves (owner, next) wrap, taken with ldrex/strex and waited *)
(* for with wfe/sev.  _cpus_lock, every rt_spinlock and so every critical  *)
(* section of the SMP kernel rest on it.                                   *)
(***************************************************************************)
EXTENDS Naturals, Sequences, FiniteSets

CONSTANTS
    CPUs,
    TicketRange     \* 2^16: the tickets are unsigned short

ASSUME CpusFinite == IsFiniteSet(CPUs)
ASSUME TicketsSuffice == TicketRange \in Nat /\ Cardinality(CPUs) < TicketRange

VARIABLES
    owner,      \* lock->tickets.owner
    next,       \* lock->tickets.next
    lockval,    \* per CPU: the local copy [owner, next] of rt_hw_spin_lock
    tmp,        \* per CPU: the register of the read-modify-write owner++
    event,      \* per CPU: the event register that wfe waits for and sev sets
    pc

tlVars == <<owner, next, lockval, tmp, event, pc>>

Tickets == 0 .. TicketRange - 1

PCs == {"idle", "test", "wfe", "read", "held", "store", "sev"}

TypeOK ==
    /\ owner \in Tickets
    /\ next \in Tickets
    /\ lockval \in [CPUs -> [owner : Tickets, next : Tickets]]
    /\ tmp \in [CPUs -> Tickets]
    /\ event \in [CPUs -> BOOLEAN]
    /\ pc \in [CPUs -> PCs]

\* unsigned short arithmetic: the half-word wraps at 2^16.
Inc(t) == IF t = TicketRange - 1 THEN 0 ELSE t + 1

rt_hw_spin_lock_init ==
    /\ owner = 0
    /\ next = 0
    /\ lockval = [c \in CPUs |-> [owner |-> 0, next |-> 0]]
    /\ tmp = [c \in CPUs |-> 0]
    /\ event = [c \in CPUs |-> FALSE]
    /\ pc = [c \in CPUs |-> "idle"]

\* Mutant of take_ticket: a plain ldr / add / str may hand out a ticket twice.
take_ticket_no_strex(c) ==
    /\ pc[c] = "idle"
    /\ lockval' = [lockval EXCEPT ![c] = [owner |-> owner, next |-> next]]
    /\ next' \in {Inc(next), next}
    /\ pc' = [pc EXCEPT ![c] = "test"]
    /\ UNCHANGED <<owner, tmp, event>>

\* ldrex / add 1 << 16 / strex: one atomic step on the whole word, since a
\* store to it by another CPU in between makes strex fail and the loop repeat.
take_ticket(c) ==
    /\ pc[c] = "idle"
    /\ lockval' = [lockval EXCEPT ![c] = [owner |-> owner, next |-> next]]
    /\ next' = Inc(next)
    /\ pc' = [pc EXCEPT ![c] = "test"]
    /\ UNCHANGED <<owner, tmp, event>>

\* Mutant of test_owner: an ordering instead of an equality of wrapping tickets.
test_owner_leq(c) ==
    /\ pc[c] = "test"
    /\ pc' = [pc EXCEPT ![c] = IF lockval[c].next <= lockval[c].owner
                               THEN "held" ELSE "wfe"]
    /\ UNCHANGED <<owner, next, lockval, tmp, event>>

\* while (lockval.tickets.next != lockval.tickets.owner): on the local copy.
test_owner(c) ==
    /\ pc[c] = "test"
    /\ pc' = [pc EXCEPT ![c] = IF lockval[c].next = lockval[c].owner
                               THEN "held" ELSE "wfe"]
    /\ UNCHANGED <<owner, next, lockval, tmp, event>>

\* wfe returns at once, and clears the register, when an event is recorded.
wait_for_event(c) ==
    /\ pc[c] = "wfe"
    /\ event[c]
    /\ event' = [event EXCEPT ![c] = FALSE]
    /\ pc' = [pc EXCEPT ![c] = "read"]
    /\ UNCHANGED <<owner, next, lockval, tmp>>

\* Only the owner half is read again.
read_owner(c) ==
    /\ pc[c] = "read"
    /\ lockval' = [lockval EXCEPT ![c].owner = owner]
    /\ pc' = [pc EXCEPT ![c] = "test"]
    /\ UNCHANGED <<owner, next, tmp, event>>

\* rt_hw_spin_unlock: owner++ is a plain load and store, then sev.  The local
\* copies are dead after the store and go back to 0.
unlock_load(c) ==
    /\ pc[c] = "held"
    /\ tmp' = [tmp EXCEPT ![c] = owner]
    /\ pc' = [pc EXCEPT ![c] = "store"]
    /\ UNCHANGED <<owner, next, lockval, event>>

unlock_store(c) ==
    /\ pc[c] = "store"
    /\ owner' = Inc(tmp[c])
    /\ pc' = [pc EXCEPT ![c] = "sev"]
    /\ tmp' = [tmp EXCEPT ![c] = 0]
    /\ lockval' = [lockval EXCEPT ![c] = [owner |-> 0, next |-> 0]]
    /\ UNCHANGED <<next, event>>

\* Mutant of unlock_sev: sevl instead of sev, the event stays on this CPU.
unlock_sev_local(c) ==
    /\ pc[c] = "sev"
    /\ event' = [event EXCEPT ![c] = TRUE]
    /\ pc' = [pc EXCEPT ![c] = "idle"]
    /\ UNCHANGED <<owner, next, lockval, tmp>>

unlock_sev(c) ==
    /\ pc[c] = "sev"
    /\ event' = [d \in CPUs |-> TRUE]
    /\ pc' = [pc EXCEPT ![c] = "idle"]
    /\ UNCHANGED <<owner, next, lockval, tmp>>

Next ==
    \E c \in CPUs :
        \/ take_ticket(c) \/ test_owner(c) \/ wait_for_event(c) \/ read_owner(c)
        \/ unlock_load(c) \/ unlock_store(c) \/ unlock_sev(c)

\* Every step but the request is fair: a CPU keeps executing instructions, and
\* a section under a spinlock never blocks, so a holder reaches its unlock.
Fairness ==
    \A c \in CPUs :
        WF_tlVars(\/ test_owner(c) \/ wait_for_event(c) \/ read_owner(c)
                  \/ unlock_load(c) \/ unlock_store(c) \/ unlock_sev(c))

Spec == rt_hw_spin_lock_init /\ [][Next]_tlVars

FairSpec == Spec /\ Fairness

-----------------------------------------------------------------------------

\* c has a ticket that was not served to the end.
Active(c) == pc[c] \in {"test", "wfe", "read", "held", "store"}

\* c is past rt_hw_spin_lock and has not yet published its release.
Inside(c) == pc[c] \in {"held", "store"}

\* How many releases separate ticket t from being served, modulo the wrap.
Dist(t) == IF t >= owner THEN t - owner ELSE t + TicketRange - owner

(***************************************************************************)
(* At most one CPU is between rt_hw_spin_lock and the release of           *)
(* rt_hw_spin_unlock, although owner is compared in a stale local copy,    *)
(* incremented without an atomic instruction, and both counters wrap.      *)
(***************************************************************************)
MutualExclusion ==
    \A c, d \in CPUs : Inside(c) /\ Inside(d) => c = d

(***************************************************************************)
(* rt_hw_spin_lock returns: a CPU that took a ticket enters, so no sev is  *)
(* missed between the read of owner and the wfe.                           *)
(***************************************************************************)
LockReturns ==
    \A c \in CPUs : (pc[c] = "test") ~> Inside(c)

(***************************************************************************)
(* Why: the tickets not yet served are the ones from owner up to next, each*)
(* held by exactly one CPU; only the CPU whose ticket is owner can be      *)
(* inside, and a local copy that matches cannot be out of date, because    *)
(* only its own CPU could have moved owner on.  There are fewer CPUs than  *)
(* tickets, so next never runs into owner.                                 *)
(***************************************************************************)
TicketsDistinct ==
    \A c, d \in CPUs :
        Active(c) /\ Active(d) /\ lockval[c].next = lockval[d].next => c = d

TicketsOutstanding ==
    /\ \A c \in CPUs : Active(c) => Dist(lockval[c].next) < Dist(next)
    /\ \A t \in Tickets : Dist(t) < Dist(next) =>
            \E c \in CPUs : Active(c) /\ lockval[c].next = t

OwnerIsInside ==
    \A c \in CPUs :
        /\ Inside(c) => lockval[c].next = owner
        /\ pc[c] = "store" => tmp[c] = owner
        /\ pc[c] = "test" /\ lockval[c].next = lockval[c].owner
              => lockval[c].next = owner

TicketInv ==
    /\ TypeOK
    /\ TicketsDistinct
    /\ TicketsOutstanding
    /\ OwnerIsInside

\* The CPUs in the order of their tickets.
TicketQueue ==
    [i \in 1 .. Dist(next) |->
        CHOOSE c \in CPUs : Active(c) /\ Dist(lockval[c].next) = i - 1]

Abstract == INSTANCE SpinLock
                WITH queue <- TicketQueue,
                     entered <- \E c \in CPUs : Inside(c)

(***************************************************************************)
(* The ticket lock implements the first-come first-served SpinLock.        *)
(***************************************************************************)
ServesInOrder == Abstract!Spec
=============================================================================
