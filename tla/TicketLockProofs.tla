-------------------------- MODULE TicketLockProofs --------------------------
(***************************************************************************)
(* The ticket lock excludes and serves in the order of the requests, for   *)
(* any set of CPUs smaller than the range of the tickets.                  *)
(***************************************************************************)
EXTENDS TicketLock, FiniteSetTheorems, SequenceTheorems, TLAPS

(***************************************************************************)
(* Pigeonhole: n outstanding tickets need n CPUs, and the CPU that asks for*)
(* a ticket has none, so next does not catch up with owner.                *)
(***************************************************************************)
LEMMA NextNeverMeetsOwner ==
    ASSUME TicketInv, NEW c \in CPUs, ~Active(c)
    PROVE  Inc(next) # owner
  <1> SUFFICES ASSUME Inc(next) = owner PROVE FALSE
    OBVIOUS
  <1> DEFINE S == Tickets \ {next}
  <1> DEFINE T == CPUs \ {c}
  <1>t. TicketRange \in Nat /\ Cardinality(CPUs) < TicketRange /\ IsFiniteSet(CPUs)
    BY CpusFinite, TicketsSuffice
  <1>1. owner \in Tickets /\ next \in Tickets
    BY DEF TicketInv, TypeOK
  <1>2. \A t \in S : Dist(t) < Dist(next)
    BY <1>1, <1>t DEF Dist, Inc, Tickets
  <1>3. \A t \in S : \E d \in T : lockval[d].next = t
    BY <1>2 DEF TicketInv, TicketsOutstanding
  <1> DEFINE f == [t \in S |-> CHOOSE d \in T : lockval[d].next = t]
  <1>4. \A t \in S : f[t] \in T /\ lockval[f[t]].next = t
    BY <1>3
  <1>5. f \in Injection(S, T)
    <2>1. f \in [S -> T]
      BY <1>4
    <2>2. \A a, b \in S : f[a] = f[b] => a = b
      BY <1>4
    <2> QED
      BY <2>1, <2>2 DEF Injection, IsInjective
  <1>6. IsFiniteSet(T) /\ Cardinality(T) = Cardinality(CPUs) - 1
    BY <1>t, FS_RemoveElement
  <1>7. Cardinality(S) <= Cardinality(T)
    BY <1>5, <1>6, FS_Injection
  <1>8. IsFiniteSet(Tickets) /\ Cardinality(Tickets) = TicketRange
    <2>1. 0 \in Int /\ TicketRange - 1 \in Int /\ ~(0 > TicketRange - 1)
      BY <1>t, <1>1 DEF Tickets
    <2>2. /\ IsFiniteSet(0 .. TicketRange - 1)
          /\ Cardinality(0 .. TicketRange - 1) = (TicketRange - 1) - 0 + 1
      BY <2>1, FS_Interval
    <2> QED
      BY <2>2, <1>t DEF Tickets
  <1>9. Cardinality(S) = TicketRange - 1
    BY <1>8, <1>1, FS_RemoveElement
  <1>10. Cardinality(CPUs) \in Nat
    BY <1>t, FS_CardinalityType
  <1> QED
    BY <1>t, <1>6, <1>7, <1>9, <1>10

LEMMA TicketInvInit == rt_hw_spin_lock_init => TicketInv
  <1> SUFFICES ASSUME rt_hw_spin_lock_init PROVE TicketInv
    OBVIOUS
  <1>1. TicketRange \in Nat /\ TicketRange > 0
    BY CpusFinite, TicketsSuffice, FS_CardinalityType
  <1>2. 0 \in Tickets
    BY <1>1 DEF Tickets
  <1>3. TypeOK
    BY <1>2 DEF rt_hw_spin_lock_init, TypeOK, PCs
  <1>4. \A c \in CPUs : ~Active(c) /\ ~Inside(c) /\ pc[c] = "idle"
    BY DEF rt_hw_spin_lock_init, Active, Inside
  <1>5. \A t \in Tickets : ~(Dist(t) < Dist(next))
    BY <1>1 DEF rt_hw_spin_lock_init, Dist, Tickets
  <1> QED
    BY <1>3, <1>4, <1>5
    DEF TicketInv, TicketsDistinct, TicketsOutstanding, OwnerIsInside

(***************************************************************************)
(* Each step of the lock and unlock code preserves the invariant.          *)
(***************************************************************************)
LEMMA TicketInvStep == TicketInv /\ [Next]_tlVars => TicketInv'
  <1> SUFFICES ASSUME TicketInv, [Next]_tlVars PROVE TicketInv'
    OBVIOUS
  <1> USE DEF TicketInv
  <1>t. TicketRange \in Nat /\ TicketRange > 0
    BY CpusFinite, TicketsSuffice, FS_CardinalityType
  <1>ty. owner \in Tickets /\ next \in Tickets
         /\ lockval \in [CPUs -> [owner : Tickets, next : Tickets]]
    BY DEF TypeOK
  <1>inc. \A t \in Tickets : Inc(t) \in Tickets
    BY <1>t DEF Inc, Tickets
  <1>0. CASE UNCHANGED tlVars
    BY <1>0 DEF tlVars, TypeOK, TicketsDistinct, TicketsOutstanding, OwnerIsInside,
                Active, Inside, Dist
  <1>1. ASSUME NEW c \in CPUs, take_ticket(c) PROVE TicketInv'
    <2> USE <1>1 DEF take_ticket
    <2>1. ~Active(c)
      BY DEF Active
    <2>2. Inc(next) # owner
      BY <2>1, NextNeverMeetsOwner
    <2>3. TypeOK'
      BY <1>ty, <1>inc DEF TypeOK, PCs
    <2>4. /\ lockval'[c] = [owner |-> owner, next |-> next]
          /\ \A d \in CPUs : d # c => lockval'[d] = lockval[d] /\ pc'[d] = pc[d]
          /\ pc'[c] = "test"
      BY <1>ty DEF TypeOK
    <2>5. /\ Active(c)'
          /\ \A d \in CPUs : d # c => /\ Active(d)' <=> Active(d)
                                      /\ Inside(d)' <=> Inside(d)
          /\ ~Inside(c)'
      BY <2>4 DEF Active, Inside
    <2>6. /\ \A t \in Tickets : Dist(t)' = Dist(t)
          /\ Dist(next)' = Dist(next) + 1
          /\ \A t \in Tickets : Dist(t) = Dist(next) => t = next
          /\ \A t \in Tickets : Dist(t) \in Nat
      BY <2>2, <1>t, <1>ty DEF Dist, Inc, Tickets
    <2>7. TicketsDistinct'
      <3>1. \A d \in CPUs : d # c /\ Active(d) => lockval[d].next # next
        BY <2>6, <1>ty DEF TicketsOutstanding
      <3> QED
        BY <3>1, <2>4, <2>5 DEF TicketsDistinct
    <2>8. TicketsOutstanding'
      <3>1. ASSUME NEW d \in CPUs, Active(d)' PROVE Dist(lockval[d].next)' < Dist(next)'
        <4>1. CASE d = c
          BY <4>1, <2>4, <2>6, <1>ty DEF Dist
        <4>2. CASE d # c
          <5>1. Dist(lockval[d].next) < Dist(next)
            BY <4>2, <3>1, <2>5 DEF TicketsOutstanding
          <5>2. Dist(lockval[d].next)' = Dist(lockval[d].next)
            BY <4>2, <2>4, <2>6, <1>ty DEF Dist
          <5> QED
            BY <5>1, <5>2, <2>6, <1>ty
        <4> QED
          BY <4>1, <4>2
      <3>2. ASSUME NEW t \in Tickets, Dist(t)' < Dist(next)'
            PROVE  \E d \in CPUs : Active(d)' /\ lockval'[d].next = t
        <4>1. CASE t = next
          BY <4>1, <2>4, <2>5
        <4>2. CASE t # next
          <5>1. Dist(t) < Dist(next)
            BY <4>2, <3>2, <2>6, <1>ty
          <5>2. PICK d \in CPUs : Active(d) /\ lockval[d].next = t
            BY <5>1 DEF TicketsOutstanding
          <5> QED
            BY <5>2, <2>1, <2>4, <2>5
        <4> QED
          BY <4>1, <4>2
      <3> QED
        BY <3>1, <3>2 DEF TicketsOutstanding, Tickets
    <2>9. OwnerIsInside'
      BY <2>4, <2>5, <1>ty DEF OwnerIsInside, TypeOK, Inside
    <2> QED
      BY <2>3, <2>7, <2>8, <2>9
  <1>2. ASSUME NEW c \in CPUs,
               \/ test_owner(c) \/ wait_for_event(c) \/ read_owner(c)
               \/ unlock_load(c) \/ unlock_sev(c)
        PROVE  TicketInv'
    \* Steps on local copies and events: no ticket is given out or served.
    <2>1. TypeOK'
      BY ZenonT(60), <1>2, <1>ty DEF TypeOK, PCs, test_owner, wait_for_event, read_owner,
                         unlock_load, unlock_sev
    <2>2. /\ owner' = owner /\ next' = next
          /\ \A d \in CPUs : lockval'[d].next = lockval[d].next
          /\ \A d \in CPUs : Active(d)' <=> Active(d)
      BY <1>2, <1>ty DEF TypeOK, test_owner, wait_for_event, read_owner,
                         unlock_load, unlock_sev, Active
    <2>3. TicketsDistinct'
      BY <2>2 DEF TicketsDistinct
    <2>4. \A t \in Tickets : Dist(t)' = Dist(t)
      BY <2>2 DEF Dist
    <2>5. TicketsOutstanding'
      <3>1. Dist(next)' = Dist(next)
        BY <2>2 DEF Dist
      <3>2. \A d \in CPUs : Dist(lockval[d].next)' = Dist(lockval[d].next)
        BY <2>2 DEF Dist
      <3> QED
        BY <2>2, <2>4, <3>1, <3>2 DEF TicketsOutstanding, Tickets
    <2>6. OwnerIsInside'
      <3>1. CASE test_owner(c)
        BY <3>1, <2>2 DEF test_owner, OwnerIsInside, Inside, TypeOK
      <3>2. CASE wait_for_event(c)
        BY <3>2, <2>2 DEF wait_for_event, OwnerIsInside, Inside, TypeOK
      <3>3. CASE read_owner(c)
        BY <3>3, <2>2 DEF read_owner, OwnerIsInside, Inside, TypeOK
      <3>4. CASE unlock_load(c)
        BY <3>4, <2>2 DEF unlock_load, OwnerIsInside, Inside, TypeOK
      <3>5. CASE unlock_sev(c)
        BY <3>5, <2>2 DEF unlock_sev, OwnerIsInside, Inside, TypeOK
      <3> QED
        BY <1>2, <3>1, <3>2, <3>3, <3>4, <3>5
    <2> QED
      BY <2>1, <2>3, <2>5, <2>6
  <1>3. ASSUME NEW c \in CPUs, unlock_store(c) PROVE TicketInv'
    <2> USE <1>3 DEF unlock_store
    <2>1. owner' = Inc(owner) /\ next' = next
      BY DEF OwnerIsInside
    <2>2. TypeOK'
      BY <2>1, <1>t, <1>ty, <1>inc DEF TypeOK, PCs, Tickets
    <2>3. Active(c) /\ lockval[c].next = owner /\ Inside(c)
      BY DEF Active, OwnerIsInside, Inside
    <2>4. /\ ~Active(c)' /\ ~Inside(c)' /\ pc'[c] = "sev"
          /\ \A d \in CPUs : d # c =>
                /\ Active(d)' <=> Active(d)
                /\ Inside(d)' <=> Inside(d)
                /\ lockval'[d] = lockval[d]
                /\ pc'[d] = pc[d]
                /\ tmp'[d] = tmp[d]
      BY DEF TypeOK, Active, Inside
    \* No other CPU has the ticket that is served now.
    <2>5. \A d \in CPUs : d # c /\ Active(d) => lockval[d].next # owner
      BY <2>3 DEF TicketsDistinct
    <2>6. Dist(owner) = 0 /\ Dist(owner) < Dist(next)
      <3>1. Dist(owner) = 0
        BY <1>t, <1>ty DEF Dist, Tickets
      <3>2. Dist(lockval[c].next) < Dist(next)
        BY <2>3 DEF TicketsOutstanding
      <3> QED
        BY <3>1, <3>2, <2>3
    <2>7. /\ Dist(next)' = Dist(next) - 1
          /\ \A t \in Tickets : t # owner => Dist(t)' = Dist(t) - 1
          /\ Dist(owner)' \in Int
          /\ \A t \in Tickets : Dist(t) \in Nat /\ (Dist(t) = 0 => t = owner)
      BY <2>1, <2>6, <1>t, <1>ty DEF Dist, Inc, Tickets
    <2>8. TicketsDistinct'
      BY <2>4 DEF TicketsDistinct
    <2>9. TicketsOutstanding'
      <3>1. ASSUME NEW d \in CPUs, Active(d)' PROVE Dist(lockval[d].next)' < Dist(next)'
        <4>1. d # c /\ Active(d) /\ lockval'[d] = lockval[d]
          BY <3>1, <2>4
        <4>2. lockval[d].next # owner /\ lockval[d].next \in Tickets
          BY <4>1, <2>5, <1>ty
        <4>3. Dist(lockval[d].next) < Dist(next)
          BY <4>1 DEF TicketsOutstanding
        <4>4. Dist(lockval[d].next)' = Dist(lockval[d].next) - 1
          BY <4>1, <4>2, <2>7 DEF Dist
        <4> QED
          BY <4>2, <4>3, <4>4, <2>7, <1>ty
      <3>2. ASSUME NEW t \in Tickets, Dist(t)' < Dist(next)'
            PROVE  \E d \in CPUs : Active(d)' /\ lockval'[d].next = t
        <4>1. t # owner
          \* The ticket just served is now the farthest away.
          BY <3>2, <2>1, <1>t, <1>ty DEF Dist, Inc, Tickets
        <4>2. Dist(t) < Dist(next)
          BY <4>1, <3>2, <2>7, <1>ty
        <4>3. PICK d \in CPUs : Active(d) /\ lockval[d].next = t
          BY <4>2 DEF TicketsOutstanding
        <4> QED
          BY <4>1, <4>3, <2>3, <2>4
      <3> QED
        BY <3>1, <3>2 DEF TicketsOutstanding, Tickets
    <2>10. OwnerIsInside'
      <3>1. ASSUME NEW d \in CPUs, d # c
            PROVE  /\ ~Inside(d)
                   /\ ~(pc[d] = "test" /\ lockval[d].next = lockval[d].owner)
        BY <3>1, <2>3, <2>5 DEF OwnerIsInside, Active, Inside
      <3> QED
        BY <3>1, <2>4 DEF OwnerIsInside, Inside
    <2> QED
      BY <2>2, <2>8, <2>9, <2>10
  <1> QED
    BY <1>0, <1>1, <1>2, <1>3 DEF Next

(***************************************************************************)
(* The inductive invariant holds in every state of the ticket lock.        *)
(***************************************************************************)
THEOREM TicketInvariant == Spec => []TicketInv
  BY TicketInvInit, TicketInvStep, PTL DEF Spec

(***************************************************************************)
(* rt_hw_spin_lock excludes: for any number of CPUs below 2^16, at most one*)
(* is between rt_hw_spin_lock and the store of rt_hw_spin_unlock.          *)
(***************************************************************************)
THEOREM TicketLockExcludes == Spec => []MutualExclusion
  <1>1. TicketInv => MutualExclusion
    BY DEF TicketInv, OwnerIsInside, TicketsDistinct, MutualExclusion, Inside, Active
  <1> QED
    BY <1>1, TicketInvariant, PTL

(***************************************************************************)
(* rt_hw_spin_lock and rt_hw_spin_unlock keep every ticket and every local *)
(* copy in the range of an unsigned short.                                 *)
(***************************************************************************)
THEOREM TicketTypes == Spec => []TypeOK
  BY TicketInvariant, PTL DEF TicketInv

-----------------------------------------------------------------------------
(* The order of service *)

\* Distances from owner tell tickets apart, and each one below the range occurs.
LEMMA DistBijective ==
    ASSUME TypeOK
    PROVE  /\ \A t \in Tickets : Dist(t) \in 0 .. TicketRange - 1
           /\ \A t, u \in Tickets : Dist(t) = Dist(u) => t = u
           /\ \A k \in 0 .. TicketRange - 1 : \E t \in Tickets : Dist(t) = k
  <1>1. TicketRange \in Nat /\ TicketRange > 0
    BY CpusFinite, TicketsSuffice, FS_CardinalityType
  <1>2. owner \in Tickets
    BY DEF TypeOK
  <1>3. ASSUME NEW k \in 0 .. TicketRange - 1 PROVE \E t \in Tickets : Dist(t) = k
    <2> DEFINE u == IF owner + k < TicketRange THEN owner + k ELSE owner + k - TicketRange
    <2>1. u \in Tickets
      BY <1>1, <1>2 DEF Tickets
    <2>2. Dist(u) = k
      BY <1>1, <1>2 DEF Tickets, Dist
    <2> QED
      BY <2>1, <2>2
  <1> QED
    BY <1>1, <1>2, <1>3 DEF Dist, Tickets

\* c is the CPU at place i of the queue.
AtPlace(c, i) == Active(c) /\ Dist(lockval[c].next) = i - 1

\* The queue has one place for each ticket given out and not yet served, and
\* the CPU at a place is the only one whose ticket is that far from owner.
QueueInPlaces ==
    /\ Dist(next) \in Nat
    /\ TicketQueue \in Seq(CPUs) /\ Len(TicketQueue) = Dist(next)
    /\ \A i \in 1 .. Dist(next) :
          /\ TicketQueue[i] \in CPUs /\ AtPlace(TicketQueue[i], i)
          /\ \A c \in CPUs : AtPlace(c, i) => c = TicketQueue[i]
    /\ \A c \in CPUs : Active(c) => \E i \in 1 .. Dist(next) : AtPlace(c, i)

\* The invariant of the lock makes the queue well defined.
LEMMA QueuePlaces == TicketInv => QueueInPlaces
  <1> SUFFICES ASSUME TicketInv PROVE QueueInPlaces
    OBVIOUS
  <1> USE DEF TicketInv
  <1>1. Dist(next) \in 0 .. TicketRange - 1 /\ TicketRange \in Nat
    BY DistBijective, TicketsSuffice DEF TypeOK
  <1>2. ASSUME NEW i \in 1 .. Dist(next) PROVE \E c \in CPUs : AtPlace(c, i)
    <2>1. PICK t \in Tickets : Dist(t) = i - 1
      BY <1>1, DistBijective
    <2>2. PICK c \in CPUs : Active(c) /\ lockval[c].next = t
      BY <2>1, <1>1 DEF TicketsOutstanding
    <2> QED
      BY <2>1, <2>2 DEF AtPlace
  <1>3. ASSUME NEW i \in 1 .. Dist(next), NEW c \in CPUs, NEW d \in CPUs,
               AtPlace(c, i), AtPlace(d, i)
        PROVE  c = d
    <2>1. lockval[c].next \in Tickets /\ lockval[d].next \in Tickets
      BY DEF TypeOK
    <2>2. lockval[c].next = lockval[d].next
      BY <1>3, <2>1, DistBijective DEF AtPlace
    <2> QED
      BY <1>3, <2>2 DEF AtPlace, TicketsDistinct
  <1>4. \A i \in 1 .. Dist(next) : TicketQueue[i] \in CPUs /\ AtPlace(TicketQueue[i], i)
    BY <1>2 DEF TicketQueue, AtPlace
  <1>5. TicketQueue \in Seq(CPUs) /\ Len(TicketQueue) = Dist(next)
    <2>1. TicketQueue \in [1 .. Dist(next) -> CPUs]
      BY <1>4 DEF TicketQueue
    <2>2. Dist(next) \in Nat
      BY <1>1
    <2>3. TicketQueue \in Seq(CPUs)
      BY <2>1, <2>2, SeqDef
    <2>4. 1 .. Len(TicketQueue) = 1 .. Dist(next) /\ Len(TicketQueue) \in Nat
      BY <2>1, <2>3, LenProperties
    <2> QED
      BY <2>2, <2>3, <2>4
  <1>6. ASSUME NEW c \in CPUs, Active(c) PROVE \E i \in 1 .. Dist(next) : AtPlace(c, i)
    <2>1. Dist(lockval[c].next) \in 0 .. TicketRange - 1
      BY DistBijective DEF TypeOK
    <2>2. Dist(lockval[c].next) < Dist(next)
      BY <1>6 DEF TicketsOutstanding
    <2>3. Dist(lockval[c].next) + 1 \in 1 .. Dist(next)
      BY <2>1, <2>2, <1>1
    <2> QED
      BY <1>6, <2>1, <2>3 DEF AtPlace
  <1> QED
    BY <1>1, <1>3, <1>4, <1>5, <1>6 DEF QueueInPlaces

\* The head of the queue is the CPU whose ticket is owner.
LEMMA OwnerIsFirst ==
    ASSUME TicketInv, NEW c \in CPUs, Active(c), lockval[c].next = owner
    PROVE  TicketQueue # << >> /\ Head(TicketQueue) = c
  <1>1. Dist(owner) = 0
    BY CpusFinite, TicketsSuffice DEF TicketInv, TypeOK, Dist, Tickets
  <1>2. AtPlace(c, 1)
    BY <1>1 DEF AtPlace
  <1>3. 0 < Dist(next)
    BY <1>1 DEF TicketInv, TicketsOutstanding
  <1> QED
    BY <1>2, <1>3, QueuePlaces DEF QueueInPlaces

\* No ticket is given out or served.
SameTickets ==
    /\ owner' = owner /\ next' = next
    /\ \A c \in CPUs : /\ Active(c)' <=> Active(c)
                       /\ lockval'[c].next = lockval[c].next

\* Nothing happens to the queue if no ticket is given out or served.
LEMMA QueueStays ==
    ASSUME TicketInv, SameTickets
    PROVE  TicketQueue' = TicketQueue
  <1> USE DEF SameTickets
  <1>1. Dist(next)' = Dist(next) /\ \A c \in CPUs : Dist(lockval[c].next)' = Dist(lockval[c].next)
    BY DEF Dist
  <1>2. \A c \in CPUs, i \in 1 .. Dist(next) :
           (Active(c) /\ Dist(lockval[c].next) = i - 1)'
              <=> (Active(c) /\ Dist(lockval[c].next) = i - 1)
    BY <1>1
  <1>3. \A i \in 1 .. Dist(next) :
           (CHOOSE c \in CPUs : (Active(c) /\ Dist(lockval[c].next) = i - 1)')
             = (CHOOSE c \in CPUs : Active(c) /\ Dist(lockval[c].next) = i - 1)
    BY <1>2
  <1> QED
    BY <1>1, <1>3 DEF TicketQueue

\* At the start nobody has a ticket and nobody is inside.
LEMMA AbstractInit == rt_hw_spin_lock_init => Abstract!Init
  <1> SUFFICES ASSUME rt_hw_spin_lock_init PROVE Abstract!Init
    OBVIOUS
  <1>1. QueueInPlaces
    BY TicketInvInit, QueuePlaces
  <1>2. Dist(next) = 0
    BY DEF rt_hw_spin_lock_init, Dist
  <1>3. TicketQueue = << >>
    BY <1>1, <1>2 DEF QueueInPlaces
  <1>4. ~\E c \in CPUs : Inside(c)
    BY DEF rt_hw_spin_lock_init, Inside
  <1> QED
    BY <1>3, <1>4 DEF Abstract!Init

\* The atomic step on next is the request: it puts c at the end of the queue.
LEMMA AbstractRequest ==
    ASSUME TicketInv, TicketInv', QueueInPlaces', NEW c \in CPUs, take_ticket(c)
    PROVE  Abstract!Request(c)
  <1> USE DEF TicketInv
  <1>t. TicketRange \in Nat /\ TicketRange > 0
    BY CpusFinite, TicketsSuffice, FS_CardinalityType
  <1>ty. owner \in Tickets /\ next \in Tickets
         /\ lockval \in [CPUs -> [owner : Tickets, next : Tickets]]
    BY DEF TypeOK
  <1>1. ~Active(c)
    BY DEF take_ticket, Active
  <1>2. Inc(next) # owner
    BY <1>1, NextNeverMeetsOwner
  <1>3. /\ lockval'[c].next = next /\ Active(c)'
        /\ \A d \in CPUs : d # c => /\ lockval'[d] = lockval[d]
                                    /\ Active(d)' <=> Active(d)
        /\ \A d \in CPUs : Inside(d)' <=> Inside(d)
    BY <1>ty DEF take_ticket, TypeOK, Active, Inside
  <1>4. /\ \A t \in Tickets : Dist(t)' = Dist(t)
        /\ Dist(next)' = Dist(next) + 1
    BY <1>2, <1>t, <1>ty DEF take_ticket, Dist, Inc, Tickets
  <1>q. QueueInPlaces
    BY QueuePlaces
  <1> DEFINE Q == TicketQueue
  <1>n. PICK n \in Nat : n = Dist(next)
    BY <1>q DEF QueueInPlaces
  <1>5. Q \in Seq(CPUs) /\ Len(Q) = n
    BY <1>q, <1>n DEF QueueInPlaces
  <1>6. Q' \in Seq(CPUs) /\ Len(Q') = n + 1
    BY <1>4, <1>n DEF QueueInPlaces
  <1>7. ASSUME NEW i \in 1 .. n PROVE Q[i] # c /\ Q'[i] = Q[i]
    <2>1. PICK d \in CPUs : d = Q[i] /\ AtPlace(d, i)
      BY <1>q, <1>n DEF QueueInPlaces
    <2>2. d # c /\ Active(d) /\ lockval[d].next \in Tickets
      BY <2>1, <1>1, <1>ty DEF AtPlace
    <2>3. Dist(lockval[d].next)' = i - 1
      BY <2>1, <2>2, <1>3, <1>4 DEF Dist, AtPlace
    <2>4. AtPlace(d, i)'
      BY <2>2, <2>3, <1>3 DEF AtPlace
    <2>5. i \in 1 .. Dist(next)'
      BY <1>4, <1>n
    <2> QED
      BY <2>1, <2>2, <2>4, <2>5 DEF QueueInPlaces
  <1>8. Q'[n + 1] = c
    <2>1. Dist(lockval[c].next)' = (n + 1) - 1
      BY <1>3, <1>4, <1>n, <1>ty DEF Dist
    <2>2. AtPlace(c, n + 1)'
      BY <2>1, <1>3 DEF AtPlace
    <2>3. n + 1 \in 1 .. Dist(next)'
      BY <1>4, <1>n
    <2> QED
      BY <2>2, <2>3 DEF QueueInPlaces
  <1>9. Q' = Append(Q, c)
    <2>1. Append(Q, c) \in Seq(CPUs) /\ Len(Append(Q, c)) = n + 1
      BY <1>5, AppendProperties
    <2>2. \A i \in 1 .. n + 1 : Q'[i] = Append(Q, c)[i]
      <3> SUFFICES ASSUME NEW i \in 1 .. n + 1 PROVE Q'[i] = Append(Q, c)[i]
        OBVIOUS
      <3>1. CASE i = n + 1
        BY <3>1, <1>5, <1>8, AppendProperties
      <3>2. CASE i \in 1 .. n
        BY <3>2, <1>5, <1>7, AppendProperties
      <3> HIDE DEF Q
      <3> QED
        BY <3>1, <3>2, <1>5
    <2> HIDE DEF Q
    <2> QED
      BY <1>6, <2>1, <2>2, SeqEqual
  <1>10. ~Abstract!InQueue(c)
    BY <1>5, <1>7 DEF Abstract!InQueue
  <1> QED
    BY <1>3, <1>9, <1>10 DEF Abstract!Request

\* The store to owner is the release: the head of the queue leaves it.
LEMMA AbstractLeave ==
    ASSUME TicketInv, TicketInv', QueueInPlaces', NEW c \in CPUs, unlock_store(c)
    PROVE  Abstract!Leave(c)
  <1> USE DEF TicketInv
  <1>t. TicketRange \in Nat /\ TicketRange > 0
    BY CpusFinite, TicketsSuffice, FS_CardinalityType
  <1>ty. owner \in Tickets /\ next \in Tickets
         /\ lockval \in [CPUs -> [owner : Tickets, next : Tickets]]
    BY DEF TypeOK
  <1>1. owner' = Inc(owner) /\ next' = next
    BY DEF unlock_store, OwnerIsInside
  <1>2. Active(c) /\ Inside(c) /\ lockval[c].next = owner
    BY DEF unlock_store, Active, Inside, OwnerIsInside
  <1>3. Dist(owner) = 0 /\ Dist(owner) < Dist(next)
    <2>1. Dist(owner) = 0
      BY <1>t, <1>ty DEF Dist, Tickets
    <2>2. Dist(lockval[c].next) < Dist(next)
      BY <1>2 DEF TicketsOutstanding
    <2> QED
      BY <2>1, <2>2, <1>2
  <1>4. /\ Dist(next)' = Dist(next) - 1
        /\ \A t \in Tickets : t # owner => Dist(t)' = Dist(t) - 1
    BY <1>1, <1>3, <1>t, <1>ty DEF Dist, Inc, Tickets
  <1>5. /\ ~Inside(c)'
        /\ \A d \in CPUs : d # c => /\ lockval'[d] = lockval[d]
                                    /\ Active(d)' <=> Active(d)
                                    /\ Inside(d)' <=> Inside(d)
    BY <1>ty DEF unlock_store, TypeOK, Active, Inside
  <1>6. ~\E d \in CPUs : Inside(d)'
    <2>1. \A d \in CPUs : Inside(d) => d = c
      BY <1>2 DEF OwnerIsInside, TicketsDistinct, Inside, Active
    <2> QED
      BY <2>1, <1>5
  <1>q. QueueInPlaces
    BY QueuePlaces
  <1> DEFINE Q == TicketQueue
  <1>n. PICK n \in Nat : n = Dist(next)
    BY <1>q DEF QueueInPlaces
  <1>7. n > 0 /\ Q \in Seq(CPUs) /\ Len(Q) = n
    BY <1>q, <1>n, <1>3 DEF QueueInPlaces
  <1>8. Q # << >> /\ Head(Q) = c
    BY <1>2, OwnerIsFirst
  <1>9. Q' \in Seq(CPUs) /\ Len(Q') = n - 1
    BY <1>4, <1>n DEF QueueInPlaces
  <1>10. ASSUME NEW i \in 1 .. n - 1 PROVE Q'[i] = Q[i + 1]
    <2>1. i + 1 \in 1 .. n /\ i \in 1 .. Dist(next)' /\ (i + 1) - 1 = i /\ i # 0
      BY <1>4, <1>7, <1>n
    <2>2. PICK d \in CPUs : d = Q[i + 1] /\ AtPlace(d, i + 1)
      BY <1>q, <1>n, <2>1 DEF QueueInPlaces
    <2>3. Active(d) /\ Dist(lockval[d].next) = i
      BY <2>1, <2>2 DEF AtPlace
    <2>4. lockval[d].next # owner /\ d # c /\ lockval[d].next \in Tickets
      BY <2>1, <2>3, <1>2, <1>3, <1>ty
    <2>5. Dist(lockval[d].next)' = i - 1
      BY <2>3, <2>4, <1>4, <1>5 DEF Dist
    <2>6. AtPlace(d, i)'
      BY <2>3, <2>4, <2>5, <1>5 DEF AtPlace
    <2> QED
      BY <2>1, <2>2, <2>6 DEF QueueInPlaces
  <1>11. Q' = Tail(Q)
    <2>1. /\ Tail(Q) \in Seq(CPUs) /\ Len(Tail(Q)) = n - 1
          /\ \A i \in 1 .. n - 1 : Tail(Q)[i] = Q[i + 1]
      BY <1>7, <1>8, HeadTailProperties
    <2> HIDE DEF Q
    <2> QED
      BY <1>9, <1>10, <2>1, SeqEqual
  <1> QED
    BY <1>2, <1>6, <1>8, <1>11 DEF Abstract!Leave

\* The comparison that succeeds is the entry; the other steps change nothing
\* that a caller of the lock can see.
LEMMA AbstractEnter ==
    ASSUME TicketInv, NEW c \in CPUs,
           \/ test_owner(c) \/ wait_for_event(c) \/ read_owner(c)
           \/ unlock_load(c) \/ unlock_sev(c)
    PROVE  Abstract!Enter(c) \/ UNCHANGED Abstract!slVars
  <1> USE DEF TicketInv
  <1>ty. lockval \in [CPUs -> [owner : Tickets, next : Tickets]] /\ pc \in [CPUs -> PCs]
    BY DEF TypeOK
  <1>1. SameTickets
    BY <1>ty DEF SameTickets, test_owner, wait_for_event, read_owner, unlock_load, unlock_sev, Active
  <1>2. TicketQueue' = TicketQueue
    BY <1>1, QueueStays
  <1>3. CASE test_owner(c) /\ lockval[c].next = lockval[c].owner
    <2>1. pc[c] = "test" /\ lockval[c].next = owner /\ Active(c) /\ pc'[c] = "held"
      BY <1>3, <1>ty DEF test_owner, OwnerIsInside, Active
    <2>2. TicketQueue # << >> /\ Head(TicketQueue) = c
      BY <2>1, OwnerIsFirst
    <2>3. ~\E d \in CPUs : Inside(d)
      BY <2>1 DEF OwnerIsInside, TicketsDistinct, Inside, Active
    <2>4. \E d \in CPUs : Inside(d)'
      BY <2>1 DEF Inside
    <2> QED
      BY <1>2, <2>2, <2>3, <2>4 DEF Abstract!Enter
  <1>4. CASE ~(test_owner(c) /\ lockval[c].next = lockval[c].owner)
    <2>1. \A d \in CPUs : Inside(d)' <=> Inside(d)
      BY <1>4, <1>ty DEF test_owner, wait_for_event, read_owner, unlock_load, unlock_sev, Inside
    <2> QED
      BY <1>2, <2>1 DEF Abstract!slVars
  <1> QED
    BY <1>3, <1>4

(***************************************************************************)
(* rt_hw_spin_lock serves in the order of the requests: the ticket lock    *)
(* implements SpinLock, in which requests queue up, only the head enters   *)
(* and leaving serves the next one.  No bound on the number of CPUs but    *)
(* the range of the tickets.                                               *)
(***************************************************************************)
THEOREM TicketLockServesInOrder == Spec => ServesInOrder
  <1>1. TicketInv /\ TicketInv' /\ QueueInPlaces' /\ [Next]_tlVars
            => [Abstract!Next]_(Abstract!slVars)
    <2> SUFFICES ASSUME TicketInv, TicketInv', QueueInPlaces', [Next]_tlVars
                 PROVE  [Abstract!Next]_(Abstract!slVars)
      OBVIOUS
    <2>1. CASE UNCHANGED tlVars
      <3>1. TicketQueue' = TicketQueue
        <4>1. SameTickets
          BY <2>1 DEF SameTickets, tlVars, Active
        <4> QED
          BY <4>1, QueueStays
      <3>2. \A d \in CPUs : Inside(d)' <=> Inside(d)
        BY <2>1 DEF tlVars, Inside
      <3> QED
        BY <3>1, <3>2 DEF Abstract!slVars
    <2>2. ASSUME NEW c \in CPUs, take_ticket(c) PROVE Abstract!Next
      BY <2>2, AbstractRequest DEF Abstract!Next
    <2>3. ASSUME NEW c \in CPUs, unlock_store(c) PROVE Abstract!Next
      BY <2>3, AbstractLeave DEF Abstract!Next
    <2>4. ASSUME NEW c \in CPUs,
                 \/ test_owner(c) \/ wait_for_event(c) \/ read_owner(c)
                 \/ unlock_load(c) \/ unlock_sev(c)
          PROVE  [Abstract!Next]_(Abstract!slVars)
      BY <2>4, AbstractEnter DEF Abstract!Next
    <2> QED
      BY <2>1, <2>2, <2>3, <2>4 DEF Next
  <1> QED
    BY <1>1, AbstractInit, TicketInvariant, QueuePlaces, PTL
    DEF Spec, ServesInOrder, Abstract!Spec
=============================================================================
