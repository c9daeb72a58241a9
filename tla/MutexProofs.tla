----------------------------- MODULE MutexProofs -----------------------------
(***************************************************************************)
(* Proofs about the mutexes, for any sets of threads and mutexes and any   *)
(* priorities, when their users keep the discipline.                       *)
(***************************************************************************)
EXTENDS Mutex, KernelListProofs

-----------------------------------------------------------------------------
(* Priorities *)

\* Types of the constants.
LEMMA Priority ==
    /\ NoPrio \in Nat /\ \A p : p \in Prios <=> p \in Nat /\ p < NoPrio
    /\ \A p : p \in 0 .. NoPrio <=> p \in Nat /\ p <= NoPrio
    /\ \A t \in Threads : init_priority[t] \in Prios
    /\ None \notin Threads /\ None \notin Mutexes /\ None \notin Updates
  <1>1. NoPrio \in Nat /\ init_priority \in [Threads -> Prios] /\ None \notin Threads \cup Mutexes \cup Updates
    BY MutexAssumption
  <1>2. \A p : p \in Prios <=> p \in Nat /\ p < NoPrio
    BY <1>1 DEF Prios
  <1>3. \A p : p \in 0 .. NoPrio <=> p \in Nat /\ p <= NoPrio
    BY <1>1
  <1> QED
    BY <1>1, <1>2, <1>3

\* The change in progress is a record that is not RT_NULL.
LEMMA UpdateRecord ==
    /\ \A u \in Threads, p \in Prios :
          LET r == [thread |-> u, to |-> p]
          IN  r \in Updates /\ r # None /\ r.thread = u /\ r.to = p
    /\ \A r \in Updates : r.thread \in Threads /\ r.to \in Prios
  BY Priority DEF Updates

IsInherited(p, t, mp, T) ==
    /\ p = init_priority[t] \/ \E m \in T : p = mp[m]
    /\ p <= init_priority[t] /\ \A m \in T : p <= mp[m]

\* _thread_get_mutex_priority returns the most urgent of a thread's own priority and
\* those of its mutexes.
LEMMA InheritedIs ==
    ASSUME NEW t \in Threads, NEW mp \in [Mutexes -> 0 .. NoPrio], NEW T \in SUBSET Mutexes
    PROVE  inherited(t, mp, T) \in Prios /\ IsInherited(inherited(t, mp, T), t, mp, T)
  <1> DEFINE S == {init_priority[t]} \cup {mp[m] : m \in T}
  <1>1. init_priority[t] \in Nat /\ init_priority[t] < NoPrio /\ NoPrio \in Nat
    BY Priority
  <1>2. \A m \in T : mp[m] \in Nat
    OBVIOUS
  <1>3. S \in SUBSET Nat /\ S # {}
    BY <1>1, <1>2
  <1>4. \E p \in S : \A r \in S : p <= r
    BY <1>3, LeastExists
  <1>5. Least(S) \in S /\ \A r \in S : Least(S) <= r
    BY <1>4 DEF Least
  <1>6. inherited(t, mp, T) = Least(S)
    BY DEF inherited
  <1> DEFINE p == inherited(t, mp, T)
  <1>7. /\ p = init_priority[t] \/ \E m \in T : p = mp[m]
        /\ p <= init_priority[t] /\ \A m \in T : p <= mp[m]
    BY <1>5, <1>6
  <1>8. p \in Nat
    BY <1>3, <1>5, <1>6
  <1> HIDE DEF p
  <1>9. p \in Prios
    BY <1>1, <1>7, <1>8, Priority
  <1> QED
    BY <1>7, <1>9 DEF p, IsInherited

-----------------------------------------------------------------------------
(* The waiting lists together *)

\* The lists ll hold each thread once, in the list of the mutex that W says.
ListOf(r, W, m) ==
    /\ r \in Seq(Threads) /\ Once(r)
    /\ \A t : InList(r, t) <=> t \in Threads /\ W[t] = m

QueuesHold(ll, W) ==
    /\ ll \in [Mutexes -> Seq(Threads)]
    /\ \A m \in Mutexes : ListOf(ll[m], W, m)

\* V and W differ in the threads that wait for m only.
SameBut(m, V, W) == \A n \in Mutexes, t \in Threads : n # m => (V[t] = n <=> W[t] = n)

InOrderOf(ll, f) == \A m \in Mutexes : Sorted(ll[m], f)

Waitings == [Threads -> Mutexes \cup {None}]

IsFirst(p, m, f, W) ==
    /\ (p = NoPrio /\ \A t \in Threads : W[t] # m) \/ \E t \in Threads : W[t] = m /\ p = f[t]
    /\ \A t \in Threads : W[t] = m => p <= f[t]

\* One list is replaced.
LEMMA QueueReplaced ==
    ASSUME NEW ll, NEW W, QueuesHold(ll, W), NEW m \in Mutexes, NEW r, NEW V,
           ListOf(r, V, m), SameBut(m, V, W)
    PROVE  QueuesHold([ll EXCEPT ![m] = r], V)
  <1> DEFINE new == [ll EXCEPT ![m] = r]
  <1>1. ll \in [Mutexes -> Seq(Threads)] /\ r \in Seq(Threads)
    BY DEF QueuesHold, ListOf
  <1>2. new \in [Mutexes -> Seq(Threads)] /\ \A n \in Mutexes : new[n] = IF n = m THEN r ELSE ll[n]
    BY <1>1
  <1> HIDE DEF new
  <1>3. ASSUME NEW n \in Mutexes PROVE ListOf(new[n], V, n)
    <2>1. CASE n = m
      BY <1>2, <2>1
    <2>2. CASE n # m
      BY <1>2, <2>2 DEF QueuesHold, ListOf, SameBut
    <2> QED
      BY <2>1, <2>2
  <1>4. QueuesHold(new, V)
    BY <1>2, <1>3 DEF QueuesHold
  <1> QED
    BY <1>4 DEF new

\* The same for the order.
LEMMA OrderReplaced ==
    ASSUME NEW ll \in [Mutexes -> Seq(Threads)], NEW f, InOrderOf(ll, f), NEW m \in Mutexes,
           NEW r, Sorted(r, f)
    PROVE  InOrderOf([ll EXCEPT ![m] = r], f)
  <1>1. \A n \in Mutexes : [ll EXCEPT ![m] = r][n] = IF n = m THEN r ELSE ll[n]
    OBVIOUS
  <1> QED
    BY <1>1 DEF InOrderOf

\* Only the priorities of the threads that wait matter.
LEMMA OrderSame ==
    ASSUME NEW ll, NEW W, QueuesHold(ll, W), NEW f, NEW g, InOrderOf(ll, f),
           \A t \in Threads : W[t] # None => f[t] = g[t]
    PROVE  InOrderOf(ll, g)
  <1> SUFFICES ASSUME NEW m \in Mutexes PROVE Sorted(ll[m], g)
    BY DEF InOrderOf
  <1>1. /\ ll[m] \in Seq(Threads) /\ Sorted(ll[m], f)
        /\ \A t : InList(ll[m], t) => f[t] = g[t]
    BY Priority DEF QueuesHold, ListOf, InOrderOf
  <1> QED
    BY <1>1, SortedSame

\* _mutex_update_priority: the first waiter is the most urgent one.
LEMMA FirstIs ==
    ASSUME NEW ll, NEW W, QueuesHold(ll, W), NEW f \in [Threads -> Prios], InOrderOf(ll, f),
           NEW m \in Mutexes
    PROVE  /\ first_priority(ll[m], f) \in 0 .. NoPrio
           /\ IsFirst(first_priority(ll[m], f), m, f, W)
  <1> DEFINE l == ll[m]
             p == first_priority(l, f)
  <1>1. /\ l \in Seq(Threads) /\ Sorted(l, f)
        /\ \A t : InList(l, t) <=> t \in Threads /\ W[t] = m
    BY DEF QueuesHold, ListOf, InOrderOf
  <1>2. f \in [Threads -> Int] /\ \A t \in Threads : f[t] \in Nat /\ f[t] <= NoPrio
    BY Priority
  <1>3. CASE l = << >>
    <2>1. p = NoPrio
      BY <1>3 DEF first_priority
    <2>2. \A t \in Threads : W[t] # m
      BY <1>1, <1>3, NothingListed
    <2> QED
      BY <2>1, <2>2, Priority DEF IsFirst
  <1>4. CASE l # << >>
    <2>1. p = f[Head(l)]
      BY <1>4 DEF first_priority
    <2>2. InList(l, Head(l))
      BY <1>1, <1>4, TailOf
    <2>3. \A y : InList(l, y) => f[Head(l)] <= f[y]
      BY <1>1, <1>2, <1>4, SortedTail
    <2> HIDE DEF l, p
    <2>4. Head(l) \in Threads /\ W[Head(l)] = m
      BY <1>1, <2>2
    <2>5. p \in 0 .. NoPrio
      BY <1>2, <2>1, <2>4, Priority
    <2>6. IsFirst(p, m, f, W)
      BY <1>1, <2>1, <2>3, <2>4 DEF IsFirst
    <2> QED
      BY <2>5, <2>6 DEF p, l
  <1> QED
    BY <1>3, <1>4

\* A thread leaves its list.
LEMMA QueueLeft ==
    ASSUME NEW ll, NEW W \in Waitings, QueuesHold(ll, W), NEW t \in Threads,
           NEW m \in Mutexes, W[t] = m
    PROVE  /\ QueuesHold([ll EXCEPT ![m] = rt_list_remove(@, t)], [W EXCEPT ![t] = None])
           /\ \A f : InOrderOf(ll, f) => InOrderOf([ll EXCEPT ![m] = rt_list_remove(@, t)], f)
  <1> DEFINE r == rt_list_remove(ll[m], t)
             V == [W EXCEPT ![t] = None]
  <1>1. /\ ll \in [Mutexes -> Seq(Threads)] /\ ll[m] \in Seq(Threads) /\ Once(ll[m])
        /\ \A u : InList(ll[m], u) <=> u \in Threads /\ W[u] = m
    BY DEF QueuesHold, ListOf
  <1>2. r \in Seq(Threads) /\ Once(r) /\ ~InList(r, t)
        /\ \A y : y # t => (InList(r, y) <=> InList(ll[m], y))
    BY <1>1, RemovedMembers
  <1>3. \A u \in Threads : V[u] = IF u = t THEN None ELSE W[u]
    BY DEF Waitings
  <1>4. \A f : InOrderOf(ll, f) => Sorted(r, f)
    BY <1>1, SortedRemoved DEF InOrderOf
  <1>5. [ll EXCEPT ![m] = rt_list_remove(@, t)] = [ll EXCEPT ![m] = r]
    OBVIOUS
  <1> HIDE DEF r, V
  <1>6. ListOf(r, V, m)
    <2>1. ASSUME NEW y PROVE InList(r, y) <=> y \in Threads /\ V[y] = m
      BY SMTT(30), <1>1, <1>2, <1>3, Priority
    <2> QED
      BY <1>2, <2>1 DEF ListOf
  <1>7. SameBut(m, V, W)
    BY <1>3, Priority DEF SameBut
  <1>8. QueuesHold([ll EXCEPT ![m] = r], V)
    BY <1>6, <1>7, QueueReplaced
  <1>9. ASSUME NEW f, InOrderOf(ll, f) PROVE InOrderOf([ll EXCEPT ![m] = r], f)
    BY <1>1, <1>4, <1>9, OrderReplaced
  <1> QED
    BY <1>5, <1>8, <1>9 DEF V

\* A thread joins a list, at the place of its priority.
LEMMA QueueJoined ==
    ASSUME NEW ll, NEW W \in Waitings, QueuesHold(ll, W), NEW t \in Threads,
           W[t] = None, NEW m \in Mutexes, NEW f \in [Threads -> Prios]
    PROVE  /\ QueuesHold([ll EXCEPT ![m] = queued(@, t, f[t], f)], [W EXCEPT ![t] = m])
           /\ InOrderOf(ll, f) => InOrderOf([ll EXCEPT ![m] = queued(@, t, f[t], f)], f)
  <1> DEFINE A == {i \in 1 .. Len(ll[m]) : f[t] < f[ll[m][i]]}
             r == rt_list_insert_before(ll[m], A, t)
             V == [W EXCEPT ![t] = m]
  <1>1. /\ ll \in [Mutexes -> Seq(Threads)] /\ ll[m] \in Seq(Threads) /\ Once(ll[m])
        /\ \A u : InList(ll[m], u) <=> u \in Threads /\ W[u] = m
    BY DEF QueuesHold, ListOf
  <1>2. ~InList(ll[m], t) /\ A \in SUBSET (1 .. Len(ll[m]))
    BY <1>1, Priority
  <1>3. r \in Seq(Threads) /\ Once(r) /\ \A y : InList(r, y) <=> InList(ll[m], y) \/ y = t
    <2> HIDE DEF A
    <2> QED
      BY <1>1, <1>2, Inserted
  <1>4. \A u \in Threads : V[u] = IF u = t THEN m ELSE W[u]
    BY DEF Waitings
  <1>5. InOrderOf(ll, f) => Sorted(r, f)
    <2> SUFFICES ASSUME InOrderOf(ll, f) PROVE Sorted(r, f)
      OBVIOUS
    <2>1. f \in [Threads -> Int] /\ Sorted(ll[m], f)
      BY Priority DEF InOrderOf
    <2> QED
      BY <1>1, <2>1, SortedInserted
  <1>6. [ll EXCEPT ![m] = queued(@, t, f[t], f)] = [ll EXCEPT ![m] = r]
    BY DEF queued
  <1> HIDE DEF r, V, A
  <1>7. ListOf(r, V, m)
    BY <1>1, <1>3, <1>4 DEF ListOf
  <1>8. SameBut(m, V, W)
    BY <1>4, Priority DEF SameBut
  <1>9. QueuesHold([ll EXCEPT ![m] = r], V)
    BY <1>7, <1>8, QueueReplaced
  <1>10. ASSUME InOrderOf(ll, f) PROVE InOrderOf([ll EXCEPT ![m] = r], f)
    BY <1>1, <1>5, <1>10, OrderReplaced
  <1> QED
    BY <1>6, <1>9, <1>10 DEF V

\* The first thread of a list is taken out.
LEMMA QueueTaken ==
    ASSUME NEW ll, NEW W \in Waitings, QueuesHold(ll, W), NEW m \in Mutexes, ll[m] # << >>,
           NEW f \in [Threads -> Prios], InOrderOf(ll, f)
    PROVE  /\ Head(ll[m]) \in Threads /\ W[Head(ll[m])] = m
           /\ \A t \in Threads : W[t] = m => f[Head(ll[m])] <= f[t]
           /\ QueuesHold([ll EXCEPT ![m] = Tail(ll[m])], [W EXCEPT ![Head(ll[m])] = None])
           /\ InOrderOf([ll EXCEPT ![m] = Tail(ll[m])], f)
  <1> DEFINE h == Head(ll[m])
             r == Tail(ll[m])
             V == [W EXCEPT ![h] = None]
  <1>1. /\ ll \in [Mutexes -> Seq(Threads)] /\ ll[m] \in Seq(Threads) /\ Once(ll[m])
        /\ \A u : InList(ll[m], u) <=> u \in Threads /\ W[u] = m
        /\ Sorted(ll[m], f) /\ f \in [Threads -> Int]
    BY Priority DEF QueuesHold, ListOf, InOrderOf
  <1>2. /\ r \in Seq(Threads) /\ InList(ll[m], h) /\ Once(r) /\ ~InList(r, h)
        /\ \A y : InList(ll[m], y) <=> InList(r, y) \/ y = h
    BY <1>1, TailOf
  <1>3. Sorted(r, f) /\ \A y : InList(ll[m], y) => f[h] <= f[y]
    BY <1>1, SortedTail
  <1> HIDE DEF h, r
  <1>4. h \in Threads /\ W[h] = m /\ \A t \in Threads : W[t] = m => f[h] <= f[t]
    BY <1>1, <1>2, <1>3
  <1>5. \A u \in Threads : V[u] = IF u = h THEN None ELSE W[u]
    BY DEF Waitings
  <1> HIDE DEF V
  <1>6. ListOf(r, V, m)
    BY <1>1, <1>2, <1>5, Priority DEF ListOf
  <1>7. SameBut(m, V, W)
    BY <1>4, <1>5, Priority DEF SameBut
  <1>9. QueuesHold([ll EXCEPT ![m] = r], V)
    BY <1>6, <1>7, QueueReplaced
  <1>10. InOrderOf([ll EXCEPT ![m] = r], f)
    BY <1>1, <1>3, OrderReplaced
  <1> QED
    BY <1>4, <1>9, <1>10 DEF h, r, V

\* A thread whose priority changes is queued anew.
LEMMA QueueMoved ==
    ASSUME NEW ll, NEW W \in Waitings, QueuesHold(ll, W), NEW t \in Threads, NEW m \in Mutexes,
           W[t] = m, NEW f, InOrderOf(ll, f), NEW g \in [Threads -> Prios],
           \A u \in Threads : u # t => f[u] = g[u]
    PROVE  LET new == [ll EXCEPT ![m] = queued(rt_list_remove(ll[m], t), t, g[t], g)]
           IN  QueuesHold(new, W) /\ InOrderOf(new, g)
  <1> DEFINE mid == [ll EXCEPT ![m] = rt_list_remove(@, t)]
             V == [W EXCEPT ![t] = None]
             new == [ll EXCEPT ![m] = queued(rt_list_remove(ll[m], t), t, g[t], g)]
  <1>1. QueuesHold(mid, V) /\ InOrderOf(mid, f)
    BY QueueLeft
  <1>2. V \in Waitings /\ \A u \in Threads : V[u] = IF u = t THEN None ELSE W[u]
    BY DEF Waitings
  <1>3. ll \in [Mutexes -> Seq(Threads)]
    BY DEF QueuesHold
  <1>4. new = [mid EXCEPT ![m] = queued(@, t, g[t], g)]
    BY <1>3
  <1>5. [V EXCEPT ![t] = m] = W
    BY DEF Waitings
  <1> HIDE DEF mid, V, new
  <1>6. InOrderOf(mid, g)
    <2>1. \A u \in Threads : V[u] # None => f[u] = g[u]
      BY <1>2
    <2> QED
      BY <1>1, <2>1, OrderSame
  <1>6a. V[t] = None
    BY <1>2
  <1>7. /\ QueuesHold([mid EXCEPT ![m] = queued(@, t, g[t], g)], [V EXCEPT ![t] = m])
        /\ InOrderOf([mid EXCEPT ![m] = queued(@, t, g[t], g)], g)
    BY <1>1, <1>2, <1>6, <1>6a, QueueJoined
  <1> QED
    BY <1>4, <1>5, <1>7 DEF new

-----------------------------------------------------------------------------
(* The inductive invariant *)

\* The mutex in whose list each thread is.
waiting == [t \in Threads |-> IF pc[t] = "wait" THEN want[t] ELSE None]

\* The owner, the count and the list of taken mutexes.
OwnersAgree ==
    \A m \in Mutexes :
        /\ owner[m] = None <=> hold[m] = 0
        /\ owner[m] = None => \A t \in Threads : waiting[t] # m
        /\ \A t \in Threads : m \in taken[t] <=> owner[m] = t

\* A thread between two sections of rt_mutex_take or of its deletion.
WaiterAgrees(t) ==
    /\ pc[t] # "user" => /\ want[t] \in Mutexes
                         /\ pending_object[t] = want[t]
                         /\ owner[want[t]] \in Threads \ {t}
    /\ pc[t] \in {"wait", "dying"} => stat[t] = "SUSPEND"
    /\ pc[t] = "failed" => stat[t] = "READY"
    /\ pc[t] = "dying" => taken[t] = {}
    /\ timed[t] => pc[t] = "wait"
    /\ pc[t] = "user" /\ stat[t] = "SUSPEND" => pending_object[t] = None

\* The priority of a mutex is not below that of its waiters.
AsUrgentAsWaiters == \A t \in Threads : waiting[t] # None => mutex_priority[waiting[t]] <= prio[t]

\* The priority a thread has when the change in progress has got to it.
target(t) == IF update # None /\ update.thread = t THEN update.to ELSE prio[t]

OwnerInherits == \A t \in Threads : \A m \in taken[t] : target(t) <= mutex_priority[m]

\* With prompt every priority has its reason, but for the wait that has just ended.
OneLeaves ==
    \A t \in Threads : Leaving(t) => update = None /\ \A u \in Threads : Leaving(u) => u = t

MutexReason ==
    \A m \in Mutexes :
        \/ IsFirst(mutex_priority[m], m, prio, waiting)
        \/ \E t \in Threads : Leaving(t) /\ want[t] = m /\ mutex_priority[m] = prio[t]

ThreadReason == \A t \in Threads : IsInherited(target(t), t, mutex_priority, taken[t])

Structure ==
    /\ TypeOK /\ QueuesHold(suspend_thread, waiting) /\ OwnersAgree
    /\ \A t \in Threads : WaiterAgrees(t)
    /\ update # None => taken[update.thread] # {}
    /\ halted => Asserts

Inheritance ==
    /\ InOrderOf(suspend_thread, prio)
    /\ AsUrgentAsWaiters /\ OwnerInherits

Reasons == prompt => OneLeaves /\ MutexReason /\ ThreadReason

MutexInv == Structure /\ (halted \/ (Inheritance /\ Reasons))

\* Types of what the invariant speaks about.
LEMMA MutexTypes ==
    ASSUME Structure
    PROVE  /\ waiting \in Waitings
           /\ \A t \in Threads : waiting[t] = IF pc[t] = "wait" THEN want[t] ELSE None
           /\ \A t \in Threads, m \in Mutexes : waiting[t] = m <=> pc[t] = "wait" /\ want[t] = m
           /\ \A t \in Threads : prio[t] \in Nat /\ prio[t] < NoPrio
           /\ \A m \in Mutexes : mutex_priority[m] \in Nat /\ mutex_priority[m] <= NoPrio
           /\ \A t \in Threads : target(t) \in Nat /\ target(t) < NoPrio
           /\ \A t \in Threads : taken[t] \in SUBSET Mutexes
  <1>1. want \in [Threads -> Mutexes \cup {None}]
    BY DEF Structure, TypeOK
  <1>2. waiting \in Waitings
    BY <1>1 DEF waiting, Waitings
  <1>3. \A t \in Threads : waiting[t] = IF pc[t] = "wait" THEN want[t] ELSE None
    BY DEF waiting
  <1>4. \A t \in Threads, m \in Mutexes : waiting[t] = m <=> pc[t] = "wait" /\ want[t] = m
    BY <1>3, Priority
  <1>5. \A t \in Threads : prio[t] \in Prios
    BY DEF Structure, TypeOK
  <1>6. \A m \in Mutexes : mutex_priority[m] \in 0 .. NoPrio
    BY DEF Structure, TypeOK
  <1>7. \A t \in Threads : target(t) \in Prios
    BY <1>5, UpdateRecord DEF Structure, TypeOK, target
  <1>8. \A t \in Threads : taken[t] \in SUBSET Mutexes
    BY DEF Structure, TypeOK
  <1> QED
    BY <1>2, <1>3, <1>4, <1>5, <1>6, <1>7, <1>8, Priority

\* The invariant implies what the run checks.
LEMMA StructureMeans == Structure => TypeOK /\ OwnershipAgrees /\ EndsOneWay
  <1> SUFFICES ASSUME Structure PROVE TypeOK /\ OwnershipAgrees /\ EndsOneWay
    OBVIOUS
  <1>1. TypeOK /\ OwnersAgree /\ \A t \in Threads : WaiterAgrees(t)
    BY DEF Structure
  <1>2. \A m \in Mutexes : ListOf(suspend_thread[m], waiting, m)
    BY DEF Structure, QueuesHold
  <1>3. ASSUME NEW m \in Mutexes
        PROVE  /\ Once(suspend_thread[m])
               /\ owner[m] = None => suspend_thread[m] = << >>
               /\ \A t \in Threads : Waits(t, m) <=> waiting[t] = m
    <2>1. /\ suspend_thread[m] \in Seq(Threads) /\ Once(suspend_thread[m])
          /\ \A t : InList(suspend_thread[m], t) <=> t \in Threads /\ waiting[t] = m
      BY <1>2 DEF ListOf
    <2>2. suspend_thread[m] # << >> <=> \E t \in Threads : InList(suspend_thread[m], t)
      BY <2>1, EmptyOf
    <2> QED
      BY <1>1, <2>1, <2>2 DEF OwnersAgree, Waits
  <1>4. \A t \in Threads, m \in Mutexes : waiting[t] = m <=> pc[t] = "wait" /\ want[t] = m
    BY MutexTypes
  <1>5. OwnershipAgrees
    BY <1>1, <1>3, <1>4 DEF OwnershipAgrees, OwnersAgree, WaiterAgrees
  <1>6. EndsOneWay
    BY <1>1 DEF EndsOneWay, WaiterAgrees
  <1> QED
    BY <1>1, <1>5, <1>6

\* The priority of a thread from those of its mutexes is that from its waiters.
LEMMA ReasonIsWaiter ==
    ASSUME Structure, NEW t \in Threads, NEW S,
           S = {init_priority[t]} \cup {prio[w] : w \in {u \in Threads : \E m \in Mutexes :
                                                            owner[m] = t /\ waiting[u] = m}},
           \A m \in Mutexes : IsFirst(mutex_priority[m], m, prio, waiting),
           IsInherited(prio[t], t, mutex_priority, taken[t])
    PROVE  prio[t] = Least(S)
  <1> DEFINE p == prio[t]
  <1>1. /\ \A u \in Threads : prio[u] \in Nat /\ prio[u] < NoPrio
        /\ \A m \in Mutexes : mutex_priority[m] \in Nat
        /\ taken[t] \in SUBSET Mutexes
        /\ init_priority[t] \in Nat /\ init_priority[t] < NoPrio /\ NoPrio \in Nat
    BY MutexTypes, Priority
  <1>2. \A m \in Mutexes : m \in taken[t] <=> owner[m] = t
    BY DEF Structure, OwnersAgree
  <1>3. S \in SUBSET Nat
    BY <1>1
  <1>4. \A r \in S : p <= r
    <2> SUFFICES ASSUME NEW u \in Threads, NEW m \in Mutexes, owner[m] = t, waiting[u] = m
                 PROVE  p <= prio[u]
      BY DEF IsInherited
    <2>1. p <= mutex_priority[m] /\ mutex_priority[m] <= prio[u]
      BY <1>2 DEF IsInherited, IsFirst
    <2> QED
      BY <1>1, <2>1
  <1>5. p \in S
    <2>1. CASE p = init_priority[t]
      BY <2>1
    <2>2. ASSUME NEW m \in taken[t], p = mutex_priority[m] PROVE p \in S
      <3>1. m \in Mutexes /\ owner[m] = t /\ p # NoPrio
        BY <1>1, <1>2
      <3>2. \E u \in Threads : waiting[u] = m /\ p = prio[u]
        BY <2>2, <3>1 DEF IsFirst
      <3> QED
        BY <3>1, <3>2
    <2> QED
      BY <2>1, <2>2 DEF IsInherited
  <1>6. p \in Nat
    BY <1>1
  <1> HIDE DEF p
  <1>7. \E q \in S : \A r \in S : q <= r
    BY <1>4, <1>5
  <1>8. Least(S) \in S /\ \A r \in S : Least(S) <= r
    BY <1>7 DEF Least
  <1>9. p = Least(S)
    BY <1>3, <1>4, <1>5, <1>6, <1>8
  <1> QED
    BY <1>9 DEF p

\* And unless an assertion has failed the rest.
LEMMA InheritanceMeans ==
    MutexInv /\ ~halted => MostUrgentFirst /\ PriorityIsInherited /\ PriorityGoesBack
  <1> SUFFICES ASSUME MutexInv, ~halted PROVE MostUrgentFirst /\ PriorityIsInherited /\ PriorityGoesBack
    OBVIOUS
  <1>1. Structure /\ Inheritance /\ Reasons
    BY DEF MutexInv
  <1>2. \A m \in Mutexes, t \in Threads : Waits(t, m) <=> waiting[t] = m
    BY <1>1 DEF Structure, QueuesHold, ListOf, Waits
  <1>3. MostUrgentFirst
    BY <1>1 DEF Inheritance, InOrderOf, Sorted, MostUrgentFirst
  <1>4. PriorityIsInherited
    <2> SUFFICES ASSUME update = None, NEW t \in Threads, NEW m \in Mutexes, NEW w \in Threads,
                        owner[m] = t, Waits(w, m)
                 PROVE  prio[t] <= prio[w]
      BY DEF PriorityIsInherited
    <2>1. waiting[w] = m /\ m # None /\ m \in taken[t]
      BY <1>1, <1>2, Priority DEF Structure, OwnersAgree
    <2>2. target(t) <= mutex_priority[m] /\ target(t) = prio[t]
      BY <1>1, <2>1 DEF Inheritance, OwnerInherits, target
    <2>3. mutex_priority[m] <= prio[w]
      BY <1>1, <2>1 DEF Inheritance, AsUrgentAsWaiters
    <2>4. prio[t] \in Nat /\ prio[w] \in Nat /\ mutex_priority[m] \in Nat
      BY <1>1, MutexTypes
    <2> QED
      BY <2>2, <2>3, <2>4
  <1>5. PriorityGoesBack
    <2> SUFFICES ASSUME prompt, Settled, NEW t \in Threads
                 PROVE  prio[t] = Least({init_priority[t]} \cup
                            {prio[w] : w \in {u \in Threads : \E m \in Mutexes :
                                                  owner[m] = t /\ Waits(u, m)}})
      BY DEF PriorityGoesBack
    <2> DEFINE A == {u \in Threads : \E m \in Mutexes : owner[m] = t /\ Waits(u, m)}
               B == {u \in Threads : \E m \in Mutexes : owner[m] = t /\ waiting[u] = m}
               S == {init_priority[t]} \cup {prio[w] : w \in B}
    <2>1. A = B
      BY <1>2
    <2>2. \A m \in Mutexes : IsFirst(mutex_priority[m], m, prio, waiting)
      BY <1>1 DEF Reasons, MutexReason, Settled
    <2>3. IsInherited(prio[t], t, mutex_priority, taken[t])
      BY <1>1 DEF Reasons, ThreadReason, Settled, target
    <2>4. S = {init_priority[t]} \cup {prio[w] : w \in B}
      OBVIOUS
    <2>5. prio[t] = Least(S)
      <3> HIDE DEF S
      <3> QED
        BY <1>1, <2>2, <2>3, <2>4, ReasonIsWaiter
    <2> QED
      BY <2>1, <2>5
  <1> QED
    BY <1>3, <1>4, <1>5

\* It holds at first.
LEMMA MutexStarts == Init => MutexInv
  <1> SUFFICES ASSUME Init PROVE MutexInv
    OBVIOUS
  <1>0. NoPrio \in 0 .. NoPrio /\ 0 \in 0 .. MaxHold /\ init_priority \in [Threads -> Prios]
    BY Priority, MutexAssumption
  <1>1. TypeOK
    <2>1. suspend_thread \in [Mutexes -> Seq(Threads)]
      BY EmptySeq DEF Init
    <2> QED
      BY <1>0, <2>1, MutexAssumption DEF Init, TypeOK
  <1>2. waiting = [t \in Threads |-> None]
    BY DEF Init, waiting
  <1>3. \A m \in Mutexes, t \in Threads : waiting[t] # m
    BY <1>2, Priority
  <1>4. QueuesHold(suspend_thread, waiting)
    <2>1. ASSUME NEW m \in Mutexes PROVE ListOf(suspend_thread[m], waiting, m)
      <3>1. suspend_thread[m] = << >> /\ << >> \in Seq(Threads)
        BY EmptySeq DEF Init
      <3> QED
        BY <1>3, <3>1, NothingListed DEF ListOf
    <2> QED
      BY <1>1, <2>1 DEF QueuesHold, TypeOK
  <1>5. OwnersAgree
    BY <1>3, Priority DEF Init, OwnersAgree
  <1>6. \A t \in Threads : WaiterAgrees(t)
    BY DEF Init, WaiterAgrees
  <1>7. Structure
    BY <1>1, <1>4, <1>5, <1>6 DEF Structure, Init
  <1>8. InOrderOf(suspend_thread, prio)
    <2>1. Len(<< >>) = 0
      OBVIOUS
    <2> QED
      BY <2>1 DEF Init, InOrderOf, Sorted
  <1>9. AsUrgentAsWaiters /\ OwnerInherits
    BY <1>2 DEF Init, AsUrgentAsWaiters, OwnerInherits
  <1>10. OneLeaves /\ MutexReason
    BY <1>3 DEF Init, OneLeaves, MutexReason, IsFirst, Leaving
  <1>11. ThreadReason
    <2> SUFFICES ASSUME NEW t \in Threads
                 PROVE  IsInherited(target(t), t, mutex_priority, taken[t])
      BY DEF ThreadReason
    <2>1. target(t) = init_priority[t] /\ taken[t] = {} /\ init_priority[t] \in Nat
      BY Priority DEF Init, target
    <2> QED
      BY <2>1 DEF IsInherited
  <1> QED
    BY <1>7, <1>8, <1>9, <1>10, <1>11 DEF MutexInv, Inheritance, Reasons

-----------------------------------------------------------------------------
(* The steps that change no priority and no list *)

\* The parts of the invariant while no assertion has failed.
LEMMA Parts ==
    ASSUME MutexInv, ~halted
    PROVE  /\ Structure /\ TypeOK /\ QueuesHold(suspend_thread, waiting) /\ OwnersAgree
           /\ \A t \in Threads : WaiterAgrees(t)
           /\ update # None => taken[update.thread] # {}
           /\ InOrderOf(suspend_thread, prio) /\ AsUrgentAsWaiters /\ OwnerInherits
           /\ prompt => OneLeaves /\ MutexReason /\ ThreadReason
  BY DEF MutexInv, Structure, Inheritance, Reasons

\* What the priorities are computed from.
SamePriorities ==
    UNCHANGED <<owner, mutex_priority, suspend_thread, taken, prio, pc, want, update, prompt>>

\* rt_mutex_take and rt_mutex_release by the owner, the other waits.
LEMMA QuietKeeps ==
    ASSUME MutexInv, ~halted, SamePriorities, UNCHANGED <<pending_object, timed, halted>>,
           hold' \in [Mutexes -> 0 .. MaxHold],
           \A m \in Mutexes : hold'[m] = 0 <=> hold[m] = 0,
           stat' \in [Threads -> {"READY", "SUSPEND", "CLOSE"}],
           \A t \in Threads : stat'[t] # stat[t] =>
               pc[t] = "user" /\ (stat'[t] = "SUSPEND" => pending_object[t] = None)
    PROVE  MutexInv'
  <1>1. /\ owner' = owner /\ mutex_priority' = mutex_priority /\ suspend_thread' = suspend_thread
        /\ taken' = taken /\ prio' = prio /\ pc' = pc /\ want' = want /\ update' = update
        /\ prompt' = prompt /\ pending_object' = pending_object /\ timed' = timed /\ halted' = halted
    BY DEF SamePriorities
  <1>2. waiting' = waiting /\ (\A t : target(t)' = target(t)) /\ \A t : Leaving(t)' <=> Leaving(t)
    BY <1>1 DEF waiting, target, Leaving
  <1>3. TypeOK'
    BY <1>1, Parts DEF TypeOK
  <1>4. OwnersAgree'
    BY <1>1, <1>2, Parts DEF OwnersAgree
  <1>5. ASSUME NEW t \in Threads PROVE WaiterAgrees(t)'
    BY <1>1, Parts DEF WaiterAgrees
  <1>6. Structure'
    BY <1>1, <1>2, <1>3, <1>4, <1>5, Parts DEF Structure
  <1>7. Inheritance'
    BY <1>1, <1>2, Parts DEF Inheritance, AsUrgentAsWaiters, OwnerInherits
  <1>8. Reasons'
    BY <1>1, <1>2, Parts DEF Reasons, OneLeaves, MutexReason, ThreadReason
  <1> QED
    BY <1>6, <1>7, <1>8 DEF MutexInv

\* rt_mutex_take and rt_mutex_release that only count.
LEMMA CountSteps ==
    ASSUME MutexInv, prompt' = prompt, NEW t \in Threads, NEW m \in Mutexes,
           take_again(t, m) \/ release_again(t, m)
    PROVE  MutexInv'
  <1>0. ~halted
    BY DEF take_again, release_again, Runs, Free
  <1>1. /\ hold \in [Mutexes -> 0 .. MaxHold] /\ stat \in [Threads -> {"READY", "SUSPEND", "CLOSE"}]
        /\ hold[m] \in Nat /\ MaxHold \in Nat
    BY <1>0, Parts, MutexAssumption DEF TypeOK
  <1>2. /\ SamePriorities /\ UNCHANGED <<pending_object, timed, halted>>
    BY DEF take_again, release_again, SamePriorities
  <1>3. CASE take_again(t, m)
    <2>1. hold' = [hold EXCEPT ![m] = hold[m] + 1] /\ hold[m] < MaxHold /\ stat' = stat /\ owner[m] = t
      BY <1>3 DEF take_again
    <2>2. hold[m] # 0 /\ hold[m] + 1 \in 0 .. MaxHold
      BY <1>0, <1>1, <2>1, Parts, Priority DEF OwnersAgree
    <2>3. hold' \in [Mutexes -> 0 .. MaxHold] /\ \A n \in Mutexes : hold'[n] = 0 <=> hold[n] = 0
      BY <1>1, <2>1, <2>2
    <2> QED
      BY <1>0, <1>1, <1>2, <2>1, <2>3, QuietKeeps
  <1>4. CASE release_again(t, m)
    <2>1. hold' = [hold EXCEPT ![m] = hold[m] - 1] /\ hold[m] > 1 /\ stat' = stat
      BY <1>4 DEF release_again
    <2>2. hold[m] # 0 /\ hold[m] - 1 \in 0 .. MaxHold /\ hold[m] - 1 # 0
      BY <1>1, <2>1
    <2>3. hold' \in [Mutexes -> 0 .. MaxHold] /\ \A n \in Mutexes : hold'[n] = 0 <=> hold[n] = 0
      BY <1>1, <2>1, <2>2
    <2> QED
      BY <1>0, <1>1, <1>2, <2>1, <2>3, QuietKeeps
  <1> QED
    BY <1>3, <1>4

\* The waits for other things.
LEMMA OtherWaits ==
    ASSUME MutexInv, Disciplined, prompt' = prompt, NEW t \in Threads, sleep(t) \/ wakeup(t)
    PROVE  MutexInv'
  <1>0. ~halted
    BY DEF sleep, wakeup, Runs, Free
  <1>1. hold \in [Mutexes -> 0 .. MaxHold] /\ stat \in [Threads -> {"READY", "SUSPEND", "CLOSE"}]
    BY <1>0, Parts DEF TypeOK
  <1>2. SamePriorities /\ UNCHANGED <<pending_object, timed, halted>>
    BY DEF sleep, wakeup, SamePriorities
  <1>3. PICK x \in {"READY", "SUSPEND"} :
           /\ stat' = [stat EXCEPT ![t] = x] /\ hold' = hold /\ pc[t] = "user"
           /\ x = "SUSPEND" => pending_object[t] = None
    BY DEF sleep, wakeup
  <1>4. stat' \in [Threads -> {"READY", "SUSPEND", "CLOSE"}]
    BY <1>1, <1>3
  <1>5. \A u \in Threads : stat'[u] = IF u = t THEN x ELSE stat[u]
    BY <1>1, <1>3
  <1>6. \A u \in Threads : stat'[u] # stat[u] =>
           pc[u] = "user" /\ (stat'[u] = "SUSPEND" => pending_object[u] = None)
    BY <1>3, <1>5
  <1> QED
    BY <1>0, <1>1, <1>2, <1>3, <1>4, <1>6, QuietKeeps

\* take_free: a mutex that nobody has and nobody waits for.
LEMMA TakeFreeKeeps ==
    ASSUME MutexInv, prompt' = prompt, NEW t \in Threads, NEW m \in Mutexes, take_free(t, m)
    PROVE  MutexInv'
  <1>0. ~halted /\ update = None /\ pc[t] = "user" /\ owner[m] = None
        /\ (prompt => \A u \in Threads \ {t} : ~Leaving(u))
    BY DEF take_free, Runs, Free
  <1>1. /\ suspend_thread' = suspend_thread /\ prio' = prio /\ stat' = stat
        /\ pending_object' = pending_object /\ timed' = timed /\ pc' = pc /\ want' = want
        /\ update' = update /\ halted' = halted /\ prompt' = prompt
    BY DEF take_free
  <1>2. /\ owner' = [owner EXCEPT ![m] = t] /\ mutex_priority' = [mutex_priority EXCEPT ![m] = NoPrio]
        /\ hold' = [hold EXCEPT ![m] = 1] /\ taken' = [taken EXCEPT ![t] = taken[t] \cup {m}]
    BY DEF take_free
  <1>3. /\ owner \in [Mutexes -> Threads \cup {None}] /\ hold \in [Mutexes -> 0 .. MaxHold]
        /\ mutex_priority \in [Mutexes -> 0 .. NoPrio] /\ taken \in [Threads -> SUBSET Mutexes]
    BY <1>0, Parts DEF TypeOK
  <1>4. 1 \in 0 .. MaxHold /\ NoPrio \in 0 .. NoPrio /\ NoPrio \in Nat
    BY MutexAssumption
  <1>5. TypeOK'
    <2>1. owner' \in [Mutexes -> Threads \cup {None}] /\ hold' \in [Mutexes -> 0 .. MaxHold]
      BY <1>2, <1>3, <1>4
    <2>2. mutex_priority' \in [Mutexes -> 0 .. NoPrio] /\ taken' \in [Threads -> SUBSET Mutexes]
      BY <1>2, <1>3, <1>4
    <2> QED
      BY <1>0, <1>1, <2>1, <2>2, Parts DEF TypeOK
  <1>6. /\ \A n \in Mutexes : owner'[n] = IF n = m THEN t ELSE owner[n]
        /\ \A n \in Mutexes : hold'[n] = IF n = m THEN 1 ELSE hold[n]
    BY <1>2, <1>3
  <1>7. /\ \A n \in Mutexes : mutex_priority'[n] = IF n = m THEN NoPrio ELSE mutex_priority[n]
        /\ \A u \in Threads : taken'[u] = IF u = t THEN taken[u] \cup {m} ELSE taken[u]
    BY <1>2, <1>3
  <1>8. waiting' = waiting /\ (\A u : Leaving(u)' <=> Leaving(u)) /\ (\A u : target(u) = prio[u])
        /\ (\A u : target(u)' = prio[u])
    BY <1>0, <1>1 DEF waiting, Leaving, target
  <1>9. \A u \in Threads : waiting[u] # m /\ m \notin taken[u]
    BY <1>0, Parts, Priority DEF OwnersAgree
  <1>10. OwnersAgree'
    <2> SUFFICES ASSUME NEW n \in Mutexes
                 PROVE  /\ owner'[n] = None <=> hold'[n] = 0
                        /\ owner'[n] = None => \A u \in Threads : waiting'[u] # n
                        /\ \A u \in Threads : n \in taken'[u] <=> owner'[n] = u
      BY DEF OwnersAgree
    <2>1. /\ owner[n] = None <=> hold[n] = 0
          /\ owner[n] = None => \A u \in Threads : waiting[u] # n
          /\ \A u \in Threads : n \in taken[u] <=> owner[n] = u
      BY <1>0, Parts DEF OwnersAgree
    <2>1a. \A u \in Threads : n \in taken'[u] <=> n \in taken[u] \/ (u = t /\ n = m)
      BY <1>7
    <2>2. CASE n = m
      <3>1. owner'[n] = t /\ hold'[n] = 1 /\ owner'[n] # None
        BY <1>6, <2>2, Priority
      <3> QED
        BY <1>9, <2>1a, <2>2, <3>1
    <2>3. CASE n # m
      <3>1. owner'[n] = owner[n] /\ hold'[n] = hold[n] /\ waiting' = waiting
        BY <1>6, <1>8, <2>3
      <3> QED
        BY <2>1, <2>1a, <2>3, <3>1
    <2> QED
      BY <2>2, <2>3
  <1>11. ASSUME NEW u \in Threads PROVE WaiterAgrees(u)'
    <2>1. WaiterAgrees(u)
      BY <1>0, Parts
    <2>2. pc[u] # "user" => want[u] \in Mutexes /\ want[u] # m /\ u # t
      BY <1>0, <2>1, Priority DEF WaiterAgrees
    <2> QED
      BY <1>1, <1>6, <1>7, <2>1, <2>2 DEF WaiterAgrees
  <1>12. Structure'
    BY <1>0, <1>1, <1>5, <1>8, <1>10, <1>11, Parts DEF Structure
  <1>13. /\ \A u \in Threads : prio[u] \in Nat /\ prio[u] < NoPrio
         /\ \A u \in Threads : taken[u] \in SUBSET Mutexes
         /\ \A u \in Threads : waiting[u] \in Mutexes \cup {None}
    BY <1>0, Parts, MutexTypes DEF Waitings
  <1>14. AsUrgentAsWaiters'
    BY <1>0, <1>1, <1>7, <1>8, <1>9, <1>13, Parts DEF AsUrgentAsWaiters
  <1>15. OwnerInherits'
    <2> SUFFICES ASSUME NEW u \in Threads, NEW n \in taken'[u] PROVE prio[u] <= mutex_priority'[n]
      BY <1>8 DEF OwnerInherits
    <2>1. CASE n = m
      BY <1>4, <1>7, <1>13, <2>1
    <2>2. CASE n # m
      <3>1. n \in taken[u] /\ n \in Mutexes
        BY <1>7, <1>13, <2>2
      <3>2. target(u) <= mutex_priority[n]
        BY <1>0, <3>1, Parts DEF OwnerInherits
      <3> QED
        BY <1>7, <1>8, <2>2, <3>1, <3>2
    <2> QED
      BY <2>1, <2>2
  <1>16. ASSUME prompt PROVE OneLeaves' /\ MutexReason' /\ ThreadReason'
    <2>1. OneLeaves /\ MutexReason /\ ThreadReason
      BY <1>0, <1>16, Parts
    <2>2. OneLeaves'
      BY <1>1, <1>8, <2>1 DEF OneLeaves
    <2>3. ASSUME NEW n \in Mutexes
          PROVE  \/ IsFirst(mutex_priority'[n], n, prio, waiting)
                 \/ \E u \in Threads : Leaving(u) /\ want[u] = n /\ mutex_priority'[n] = prio[u]
      <3>1. CASE n = m
        BY <1>7, <1>9, <3>1 DEF IsFirst
      <3>2. CASE n # m
        BY <1>7, <2>1, <3>2 DEF MutexReason
      <3> QED
        BY <3>1, <3>2
    <2>4. MutexReason'
      BY <1>1, <1>8, <2>3 DEF MutexReason
    <2>5. ASSUME NEW u \in Threads PROVE IsInherited(prio[u], u, mutex_priority', taken'[u])
      <3>1. IsInherited(prio[u], u, mutex_priority, taken[u])
        BY <1>8, <2>1 DEF ThreadReason
      <3>2. \A n \in taken[u] : mutex_priority'[n] = mutex_priority[n]
        BY <1>7, <1>9, <1>13
      <3>3. prio[u] <= NoPrio /\ mutex_priority'[m] = NoPrio
        BY <1>4, <1>7, <1>13
      <3> QED
        BY <1>7, <3>1, <3>2, <3>3 DEF IsInherited
    <2>6. ThreadReason'
      BY <1>8, <2>5 DEF ThreadReason
    <2> QED
      BY <2>2, <2>4, <2>6
  <1> QED
    BY <1>0, <1>1, <1>12, <1>14, <1>15, <1>16, Parts DEF MutexInv, Inheritance, Reasons

-----------------------------------------------------------------------------
(* A wait that ends without the mutex *)

\* Who waits for what changes with one thread.
LEMMA WaitingChanges ==
    ASSUME Structure, NEW t \in Threads, \A u \in Threads : u # t => pc'[u] = pc[u] /\ want'[u] = want[u]
    PROVE  waiting' = [waiting EXCEPT ![t] = IF pc'[t] = "wait" THEN want'[t] ELSE None]
  <1>1. waiting' = [u \in Threads |-> IF pc'[u] = "wait" THEN want'[u] ELSE None]
    BY DEF waiting
  <1>2. waiting \in Waitings /\ \A u \in Threads : waiting[u] = IF pc[u] = "wait" THEN want[u] ELSE None
    BY MutexTypes
  <1> QED
    BY <1>1, <1>2 DEF Waitings

\* _thread_timeout and the first section of rt_thread_delete.
LEMMA LeaveKeeps ==
    ASSUME MutexInv, prompt' = prompt, NEW t \in Threads, Free(t), pc[t] = "wait",
           NEW x \in {"failed", "dying"}, x = "dying" => taken[t] = {},
           pc' = [pc EXCEPT ![t] = x],
           suspend_thread' = [suspend_thread EXCEPT ![want[t]] = rt_list_remove(@, t)],
           stat' = [stat EXCEPT ![t] = IF x = "failed" THEN "READY" ELSE "SUSPEND"],
           timed' = [timed EXCEPT ![t] = FALSE],
           UNCHANGED <<owner, hold, mutex_priority, taken, prio, pending_object, want, update, halted>>
    PROVE  MutexInv'
  <1> DEFINE m == want[t]
  <1>0. ~halted /\ update = None /\ (prompt => \A u \in Threads \ {t} : ~Leaving(u))
    BY DEF Free
  <1>1. /\ owner' = owner /\ hold' = hold /\ mutex_priority' = mutex_priority /\ taken' = taken
        /\ prio' = prio /\ pending_object' = pending_object /\ want' = want /\ update' = update
        /\ halted' = halted
    OBVIOUS
  <1>2. /\ pc \in [Threads -> {"user", "wait", "failed", "dying"}]
        /\ stat \in [Threads -> {"READY", "SUSPEND", "CLOSE"}]
        /\ timed \in [Threads -> BOOLEAN]
    BY <1>0, Parts DEF TypeOK
  <1>3. WaiterAgrees(t)
    BY <1>0, Parts
  <1>4. m \in Mutexes /\ waiting \in Waitings /\ waiting[t] = m
    BY <1>0, <1>3, Parts, MutexTypes DEF WaiterAgrees
  <1>5. /\ \A u \in Threads : pc'[u] = IF u = t THEN x ELSE pc[u]
        /\ \A u \in Threads : stat'[u] = IF u = t THEN (IF x = "failed" THEN "READY" ELSE "SUSPEND")
                                         ELSE stat[u]
    BY <1>2
  <1>6. \A u \in Threads : timed'[u] <=> timed[u] /\ u # t
    BY <1>2
  <1>7. waiting' = [waiting EXCEPT ![t] = None]
    <2>1. \A u \in Threads : u # t => pc'[u] = pc[u] /\ want'[u] = want[u]
      BY <1>1, <1>5
    <2>2. pc'[t] # "wait"
      BY <1>5
    <2>3. waiting' = [waiting EXCEPT ![t] = IF pc'[t] = "wait" THEN want'[t] ELSE None]
      BY <1>0, <2>1, Parts, WaitingChanges
    <2> QED
      BY <2>2, <2>3
  <1>8. \A u \in Threads : waiting'[u] = IF u = t THEN None ELSE waiting[u]
    BY <1>4, <1>7 DEF Waitings
  <1>9. /\ QueuesHold(suspend_thread', waiting')
        /\ InOrderOf(suspend_thread', prio)
    <2>1. /\ QueuesHold([suspend_thread EXCEPT ![m] = rt_list_remove(@, t)], [waiting EXCEPT ![t] = None])
          /\ InOrderOf([suspend_thread EXCEPT ![m] = rt_list_remove(@, t)], prio)
      <3> HIDE DEF m
      <3> QED
        BY <1>0, <1>4, Parts, QueueLeft
    <2> QED
      BY <1>7, <2>1
  <1>10. TypeOK'
    <2>1. pc' \in [Threads -> {"user", "wait", "failed", "dying"}]
      BY <1>2
    <2>2. stat' \in [Threads -> {"READY", "SUSPEND", "CLOSE"}] /\ timed' \in [Threads -> BOOLEAN]
      BY <1>2
    <2>3. suspend_thread' \in [Mutexes -> Seq(Threads)]
      BY <1>9 DEF QueuesHold
    <2> QED
      BY <1>0, <1>1, <2>1, <2>2, <2>3, Parts DEF TypeOK
  <1>11. OwnersAgree'
    <2>1. \A u \in Threads, n \in Mutexes : waiting'[u] = n => waiting[u] = n
      BY <1>8, Priority
    <2> QED
      BY <1>0, <1>1, <2>1, Parts DEF OwnersAgree
  <1>12. ASSUME NEW u \in Threads PROVE WaiterAgrees(u)'
    <2>1. WaiterAgrees(u)
      BY <1>0, Parts
    <2> QED
      BY <1>1, <1>5, <1>6, <2>1 DEF WaiterAgrees
  <1>13. Structure'
    BY <1>0, <1>1, <1>9, <1>10, <1>11, <1>12, Parts DEF Structure
  <1>14. \A u : target(u) = prio[u] /\ target(u)' = prio[u]
    BY <1>0, <1>1 DEF target
  <1>15. AsUrgentAsWaiters'
    BY <1>0, <1>1, <1>8, Parts DEF AsUrgentAsWaiters
  <1>16. OwnerInherits'
    BY <1>0, <1>1, <1>14, Parts DEF OwnerInherits
  <1>17. ASSUME prompt PROVE OneLeaves' /\ MutexReason' /\ ThreadReason'
    <2>1. OneLeaves /\ MutexReason /\ ThreadReason
      BY <1>0, <1>17, Parts
    <2>2. \A u \in Threads : ~Leaving(u) /\ (Leaving(u)' <=> u = t)
      BY <1>0, <1>5, <1>17 DEF Leaving
    <2>3. OneLeaves'
      BY <1>0, <1>1, <2>2 DEF OneLeaves
    <2>4. ASSUME NEW n \in Mutexes
          PROVE  \/ IsFirst(mutex_priority[n], n, prio, waiting')
                 \/ n = m /\ mutex_priority[n] = prio[t]
      <3>1. IsFirst(mutex_priority[n], n, prio, waiting)
        BY <2>1, <2>2 DEF MutexReason
      <3>2. \A u \in Threads : waiting'[u] = n <=> waiting[u] = n /\ u # t
        BY <1>8, Priority
      <3> QED
        BY <1>4, <3>1, <3>2 DEF IsFirst
    <2>5. MutexReason'
      BY <1>1, <2>2, <2>4 DEF MutexReason
    <2>6. ThreadReason'
      BY <1>1, <1>14, <2>1 DEF ThreadReason
    <2> QED
      BY <2>3, <2>5, <2>6
  <1> QED
    BY <1>1, <1>9, <1>13, <1>15, <1>16, <1>17 DEF MutexInv, Inheritance, Reasons

\* The two ways to leave.
LEMMA LeaveSteps ==
    ASSUME MutexInv, Disciplined, prompt' = prompt, NEW t \in Threads,
           thread_timeout(t) \/ rt_thread_delete(t)
    PROVE  MutexInv'
  <1>0. ~halted /\ Free(t)
    BY DEF thread_timeout, rt_thread_delete, Free
  <1>1. WaiterAgrees(t) /\ OwnersAgree
    BY <1>0, Parts
  <1>2. /\ stat \in [Threads -> {"READY", "SUSPEND", "CLOSE"}]
        /\ timed \in [Threads -> BOOLEAN] /\ taken[t] \in SUBSET Mutexes
    BY <1>0, Parts DEF TypeOK
  <1>3. CASE thread_timeout(t)
    <2>1. pc[t] = "wait"
      BY <1>1, <1>3 DEF thread_timeout, WaiterAgrees
    <2>2. /\ pc' = [pc EXCEPT ![t] = "failed"]
          /\ suspend_thread' = [suspend_thread EXCEPT ![want[t]] = rt_list_remove(@, t)]
          /\ stat' = [stat EXCEPT ![t] = "READY"] /\ timed' = [timed EXCEPT ![t] = FALSE]
          /\ UNCHANGED <<owner, hold, mutex_priority, taken, prio, pending_object, want, update, halted>>
      BY <1>3 DEF thread_timeout
    <2> QED
      BY <1>0, <2>1, <2>2, LeaveKeeps
  <1>4. CASE rt_thread_delete(t)
    <2>1. pc[t] = "wait" /\ stat[t] = "SUSPEND" /\ ~timed[t] /\ \A h \in Mutexes : owner[h] # t
      BY <1>1, <1>4 DEF rt_thread_delete, WaiterAgrees
    <2>2. taken[t] = {}
      BY <1>1, <1>2, <2>1 DEF OwnersAgree
    <2>3. stat = [stat EXCEPT ![t] = "SUSPEND"] /\ timed = [timed EXCEPT ![t] = FALSE]
      BY <1>2, <2>1
    <2>4. /\ pc' = [pc EXCEPT ![t] = "dying"]
          /\ suspend_thread' = [suspend_thread EXCEPT ![want[t]] = rt_list_remove(@, t)]
          /\ stat' = stat /\ timed' = timed
          /\ UNCHANGED <<owner, hold, mutex_priority, taken, prio, pending_object, want, update, halted>>
      BY <1>4 DEF rt_thread_delete
    <2> QED
      BY <1>0, <2>1, <2>2, <2>3, <2>4, LeaveKeeps
  <1> QED
    BY <1>3, <1>4

\* What a call of _thread_update_priority for thread o is about to do.
LEMMA Requested ==
    ASSUME NEW o \in Threads, NEW p \in Prios, NEW q \in Prios, prio'[o] = q,
           update' = IF p # q THEN [thread |-> o, to |-> p] ELSE None
    PROVE  /\ update' \in Updates \cup {None}
           /\ update' # None => update'.thread = o
           /\ target(o)' = p
           /\ \A u \in Threads : u # o => target(u)' = prio'[u]
  <1>1. LET r == [thread |-> o, to |-> p] IN r \in Updates /\ r # None /\ r.thread = o /\ r.to = p
    BY UpdateRecord
  <1>2. CASE p # q
    BY <1>1, <1>2 DEF target
  <1>3. CASE p = q
    BY <1>3 DEF target
  <1> QED
    BY <1>2, <1>3

\* The priority of the first waiter is one number.
LEMMA FirstIsOne ==
    ASSUME NEW m, NEW f \in [Threads -> Prios], NEW W, NEW p \in Nat, NEW q \in Nat,
           IsFirst(p, m, f, W), IsFirst(q, m, f, W)
    PROVE  p = q
  <1>1. \A t \in Threads : f[t] \in Nat
    BY Priority
  <1> QED
    BY <1>1 DEF IsFirst

\* rt_mutex_take after a timeout, and rt_mutex_drop_thread.
LEMMA WindUpKeeps ==
    ASSUME MutexInv, prompt' = prompt, NEW t \in Threads, Free(t), Leaving(t),
           left(t, want[t], suspend_thread[want[t]]),
           pc' = [pc EXCEPT ![t] = "user"], want' = [want EXCEPT ![t] = None],
           NEW y \in {"READY", "CLOSE"}, stat' = [stat EXCEPT ![t] = y],
           timed' = [timed EXCEPT ![t] = FALSE],
           NEW z \in Mutexes \cup {None}, pending_object' = [pending_object EXCEPT ![t] = z],
           UNCHANGED <<owner, hold, suspend_thread, taken, prio, halted>>
    PROVE  MutexInv'
  <1>0. ~halted /\ update = None /\ (prompt => \A u \in Threads \ {t} : ~Leaving(u))
    BY DEF Free
  <1>m. PICK m \in Mutexes : m = want[t]
    BY <1>0, Parts DEF Leaving, WaiterAgrees
  <1>o. PICK o \in Threads : o = owner[m]
    BY <1>0, <1>m, Parts DEF Leaving, WaiterAgrees
  <1> DEFINE v == first_priority(suspend_thread[m], prio)
             mp == [mutex_priority EXCEPT ![m] = v]
  <1>1. /\ owner' = owner /\ hold' = hold /\ suspend_thread' = suspend_thread /\ taken' = taken
        /\ prio' = prio /\ halted' = halted
    OBVIOUS
  <1>2. /\ pc \in [Threads -> {"user", "wait", "failed", "dying"}]
        /\ stat \in [Threads -> {"READY", "SUSPEND", "CLOSE"}]
        /\ timed \in [Threads -> BOOLEAN]
        /\ want \in [Threads -> Mutexes \cup {None}]
        /\ pending_object \in [Threads -> Mutexes \cup {None}]
        /\ mutex_priority \in [Mutexes -> 0 .. NoPrio]
        /\ prio \in [Threads -> Prios]
    BY <1>0, Parts DEF TypeOK
  <1>3. m \in Mutexes /\ o \in Threads /\ o # t
    BY <1>0, <1>m, <1>o, Parts DEF Leaving, WaiterAgrees
  <1>4. mutex_priority' = mp
        /\ IF prio[o] = prio[t]
           THEN update' = IF inherited(o, mp, taken[o]) # prio[o]
                          THEN [thread |-> o, to |-> inherited(o, mp, taken[o])] ELSE None
           ELSE update' = None
    BY <1>m, <1>o DEF left, request
  <1>5. v \in 0 .. NoPrio /\ IsFirst(v, m, prio, waiting)
    BY <1>0, <1>2, <1>3, Parts, FirstIs
  <1> HIDE DEF v
  <1>6. mp \in [Mutexes -> 0 .. NoPrio] /\ \A n \in Mutexes : mp[n] = IF n = m THEN v ELSE mutex_priority[n]
    BY <1>2, <1>3, <1>5
  <1> HIDE DEF mp
  <1>7. /\ \A u \in Threads : pc'[u] = IF u = t THEN "user" ELSE pc[u]
        /\ \A u \in Threads : want'[u] = IF u = t THEN None ELSE want[u]
    BY <1>2
  <1>8. /\ \A u \in Threads : stat'[u] = IF u = t THEN y ELSE stat[u]
        /\ \A u \in Threads : pending_object'[u] = IF u = t THEN z ELSE pending_object[u]
    BY <1>2
  <1>9. \A u \in Threads : timed'[u] <=> timed[u] /\ u # t
    BY <1>2
  <1>10. waiting' = waiting
    <2>1. waiting \in Waitings /\ waiting[t] = None
      BY <1>0, Parts, MutexTypes DEF Leaving
    <2>2. waiting' = [waiting EXCEPT ![t] = IF pc'[t] = "wait" THEN want'[t] ELSE None]
      <3>1. \A u \in Threads : u # t => pc'[u] = pc[u] /\ want'[u] = want[u]
        BY <1>7
      <3> QED
        BY <1>0, <3>1, Parts, WaitingChanges
    <2>3. waiting' = [waiting EXCEPT ![t] = None]
      BY <1>7, <2>2
    <2> QED
      BY <2>1, <2>3 DEF Waitings
  <1>p. PICK p : p = inherited(o, mp, taken[o])
    OBVIOUS
  <1>11. p \in Prios /\ IsInherited(p, o, mp, taken[o]) /\ taken[o] \in SUBSET Mutexes
    <2>1. taken[o] \in SUBSET Mutexes
      BY <1>0, <1>3, Parts, MutexTypes
    <2> QED
      BY <1>3, <1>6, <1>p, <2>1, InheritedIs
  <1>12. m \in taken[o] /\ \A u \in Threads : u # o => m \notin taken[u]
    BY <1>0, <1>3, <1>o, Parts DEF OwnersAgree
  <1>13. /\ update' \in Updates \cup {None}
         /\ update' # None => update'.thread = o
         /\ target(o)' = IF prio[o] = prio[t] THEN p ELSE prio[o]
         /\ \A u \in Threads : u # o => target(u)' = prio[u]
    <2>1. CASE prio[o] = prio[t]
      <3>1. update' = IF p # prio[o] THEN [thread |-> o, to |-> p] ELSE None
        BY <1>4, <1>p, <2>1
      <3>2. prio[o] \in Prios /\ prio'[o] = prio[o]
        BY <1>1, <1>2, <1>3
      <3>3. /\ update' \in Updates \cup {None}
            /\ update' # None => update'.thread = o
            /\ target(o)' = p
            /\ \A u \in Threads : u # o => target(u)' = prio'[u]
        BY <1>3, <1>11, <3>1, <3>2, Requested
      <3> QED
        BY <1>1, <2>1, <3>3
    <2>2. CASE prio[o] # prio[t]
      <3>1. update' = None
        BY <1>4, <2>2
      <3> QED
        BY <1>1, <2>2, <3>1 DEF target
    <2> QED
      BY <2>1, <2>2
  <1>14. TypeOK'
    <2>1. pc' \in [Threads -> {"user", "wait", "failed", "dying"}] /\ want' \in [Threads -> Mutexes \cup {None}]
      BY <1>2
    <2>2. stat' \in [Threads -> {"READY", "SUSPEND", "CLOSE"}] /\ timed' \in [Threads -> BOOLEAN]
      BY <1>2
    <2>3. pending_object' \in [Threads -> Mutexes \cup {None}]
      BY <1>2
    <2> QED
      BY <1>0, <1>1, <1>4, <1>6, <1>13, <2>1, <2>2, <2>3, Parts DEF TypeOK
  <1>15. OwnersAgree'
    BY <1>0, <1>1, <1>10, Parts DEF OwnersAgree
  <1>16. ASSUME NEW u \in Threads PROVE WaiterAgrees(u)'
    <2>1. WaiterAgrees(u)
      BY <1>0, Parts
    <2>2. CASE u = t
      BY <1>7, <1>8, <1>9, <2>2 DEF WaiterAgrees
    <2>3. CASE u # t
      BY <1>1, <1>7, <1>8, <1>9, <2>1, <2>3 DEF WaiterAgrees
    <2> QED
      BY <2>2, <2>3
  <1>17. Structure'
    BY <1>0, <1>1, <1>10, <1>12, <1>13, <1>14, <1>15, <1>16, Parts DEF Structure
  <1>18. /\ \A u \in Threads : prio[u] \in Nat /\ prio[u] < NoPrio /\ target(u) = prio[u]
         /\ \A n \in Mutexes : mutex_priority[n] \in Nat /\ mutex_priority[n] <= NoPrio
         /\ \A u \in Threads : taken[u] \in SUBSET Mutexes
         /\ NoPrio \in Nat /\ v \in Nat
    BY <1>0, <1>5, Parts, MutexTypes, Priority DEF target
  <1>19. mutex_priority[m] <= v
    <2>1. \A u \in Threads : waiting[u] = m => mutex_priority[m] <= prio[u]
      BY <1>0, <1>3, Parts, Priority DEF AsUrgentAsWaiters
    <2> QED
      BY <1>3, <1>5, <1>18, <2>1 DEF IsFirst
  <1>20. AsUrgentAsWaiters'
    <2> SUFFICES ASSUME NEW u \in Threads, waiting[u] # None PROVE mp[waiting[u]] <= prio[u]
      BY <1>1, <1>4, <1>10 DEF AsUrgentAsWaiters
    <2>1. waiting[u] \in Mutexes /\ mutex_priority[waiting[u]] <= prio[u]
      BY <1>0, Parts, MutexTypes DEF AsUrgentAsWaiters, Waitings
    <2> QED
      BY <1>5, <1>6, <2>1 DEF IsFirst
  <1>21. \A u \in Threads : \A n \in taken[u] : prio[u] <= mutex_priority[n]
    BY <1>0, <1>18, Parts DEF OwnerInherits
  <1>22. \A n \in taken[o] : prio[o] <= mp[n]
    <2> SUFFICES ASSUME NEW n \in taken[o] PROVE prio[o] <= mp[n]
      OBVIOUS
    <2>1. n \in Mutexes /\ prio[o] <= mutex_priority[n] /\ mutex_priority[n] <= mp[n]
      BY <1>3, <1>6, <1>18, <1>19, <1>21
    <2>2. prio[o] \in Nat /\ mutex_priority[n] \in Nat /\ mp[n] \in Nat
      BY <1>3, <1>6, <1>18, <2>1
    <2> QED
      BY <2>1, <2>2
  <1>23. ASSUME NEW u \in Threads, u # o, NEW n \in taken[u]
         PROVE  n \in Mutexes /\ mp[n] = mutex_priority[n]
    BY <1>6, <1>12, <1>18, <1>23
  <1>24. OwnerInherits'
    <2> SUFFICES ASSUME NEW u \in Threads, NEW n \in taken[u] PROVE target(u)' <= mp[n]
      BY <1>1, <1>4 DEF OwnerInherits
    <2>1. CASE u = o
      BY <1>11, <1>13, <1>22, <2>1 DEF IsInherited
    <2>2. CASE u # o
      BY <1>13, <1>21, <1>23, <2>2
    <2> QED
      BY <2>1, <2>2
  <1>25. ASSUME prompt PROVE OneLeaves' /\ MutexReason' /\ ThreadReason'
    <2>1. OneLeaves /\ MutexReason /\ ThreadReason
      BY <1>0, <1>25, Parts
    <2>2. \A u \in Threads : ~Leaving(u)' /\ (Leaving(u) => u = t)
      BY <1>0, <1>7, <1>25 DEF Leaving
    <2>3. OneLeaves'
      BY <2>2 DEF OneLeaves
    <2>4. ASSUME NEW n \in Mutexes
          PROVE  \/ IsFirst(mutex_priority[n], n, prio, waiting)
                 \/ n = m /\ mutex_priority[n] = prio[t]
      BY <1>m, <2>1, <2>2 DEF MutexReason
    <2>5. ASSUME NEW n \in Mutexes PROVE IsFirst(mp[n], n, prio, waiting)
      <3>1. CASE n = m
        BY <1>3, <1>5, <1>6, <3>1
      <3>2. CASE n # m
        BY <1>6, <2>4, <3>2
      <3> QED
        BY <3>1, <3>2
    <2>6. MutexReason'
      BY <1>1, <1>4, <1>10, <2>5 DEF MutexReason
    <2>7. \A u \in Threads : IsInherited(prio[u], u, mutex_priority, taken[u])
      BY <1>18, <2>1 DEF ThreadReason
    <2>8. ASSUME prio[o] # prio[t] PROVE IsInherited(prio[o], o, mp, taken[o])
      <3>1. IsInherited(prio[o], o, mutex_priority, taken[o])
        BY <1>3, <2>7
      <3>2. mutex_priority[m] = v \/ mutex_priority[m] = prio[t]
        <4>1. CASE IsFirst(mutex_priority[m], m, prio, waiting)
          BY <1>2, <1>3, <1>5, <1>18, <4>1, FirstIsOne
        <4> QED
          BY <1>3, <2>4, <4>1
      <3>3. prio[o] = init_priority[o] \/ \E n \in taken[o] : prio[o] = mp[n]
        <4>1. CASE prio[o] = init_priority[o]
          BY <4>1
        <4>2. ASSUME NEW n \in taken[o], prio[o] = mutex_priority[n] PROVE prio[o] = mp[n]
          <5>1. n \in Mutexes
            BY <1>11
          <5> QED
            BY <1>6, <2>8, <3>2, <4>2, <5>1
        <4> QED
          BY <3>1, <4>1, <4>2 DEF IsInherited
      <3>4. prio[o] <= init_priority[o]
        BY <3>1 DEF IsInherited
      <3> QED
        BY <1>22, <3>3, <3>4 DEF IsInherited
    <2>9. ASSUME NEW u \in Threads PROVE IsInherited(target(u)', u, mp, taken[u])
      <3>1. CASE u = o
        BY <1>11, <1>13, <2>8, <3>1
      <3>2. CASE u # o
        <4>1. target(u)' = prio[u] /\ IsInherited(prio[u], u, mutex_priority, taken[u])
          BY <1>13, <2>7, <3>2
        <4>2. \A n \in taken[u] : mp[n] = mutex_priority[n]
          BY <1>23, <3>2
        <4> QED
          BY <4>1, <4>2 DEF IsInherited
      <3> QED
        BY <3>1, <3>2
    <2>10. ThreadReason'
      BY <1>1, <1>4, <2>9 DEF ThreadReason
    <2> QED
      BY <2>3, <2>6, <2>10
  <1>26. InOrderOf(suspend_thread, prio)'
    BY <1>0, <1>1, Parts
  <1> QED
    BY <1>17, <1>20, <1>24, <1>25, <1>26 DEF MutexInv, Inheritance, Reasons

\* The two ways to wind up.
LEMMA WindUpSteps ==
    ASSUME MutexInv, prompt' = prompt, NEW t \in Threads,
           take_failed(t) \/ rt_mutex_drop_thread(t)
    PROVE  MutexInv'
  <1>0. ~halted /\ Free(t)
    BY DEF take_failed, rt_mutex_drop_thread, Runs, Free
  <1>1. WaiterAgrees(t)
    BY <1>0, Parts
  <1>2. /\ stat \in [Threads -> {"READY", "SUSPEND", "CLOSE"}]
        /\ timed \in [Threads -> BOOLEAN]
        /\ pending_object \in [Threads -> Mutexes \cup {None}]
    BY <1>0, Parts DEF TypeOK
  <1>3. CASE take_failed(t)
    <2>1. pc[t] = "failed" /\ stat[t] = "READY" /\ ~timed[t] /\ Leaving(t)
      BY <1>1, <1>3 DEF take_failed, WaiterAgrees, Leaving
    <2>2. /\ stat = [stat EXCEPT ![t] = "READY"] /\ timed = [timed EXCEPT ![t] = FALSE]
          /\ pending_object = [pending_object EXCEPT ![t] = pending_object[t]]
          /\ pending_object[t] \in Mutexes \cup {None}
      BY <1>2, <2>1
    <2>3. /\ left(t, want[t], suspend_thread[want[t]])
          /\ pc' = [pc EXCEPT ![t] = "user"] /\ want' = [want EXCEPT ![t] = None]
          /\ stat' = stat /\ timed' = timed /\ pending_object' = pending_object
          /\ UNCHANGED <<owner, hold, suspend_thread, taken, prio, halted>>
      BY <1>3 DEF take_failed
    <2> QED
      BY <1>0, <2>1, <2>2, <2>3, WindUpKeeps
  <1>4. CASE rt_mutex_drop_thread(t)
    <2>1. Leaving(t) /\ pending_object[t] = want[t]
      BY <1>1, <1>4 DEF rt_mutex_drop_thread, WaiterAgrees, Leaving
    <2>2. /\ left(t, want[t], suspend_thread[want[t]])
          /\ pc' = [pc EXCEPT ![t] = "user"] /\ want' = [want EXCEPT ![t] = None]
          /\ stat' = [stat EXCEPT ![t] = "CLOSE"] /\ timed' = [timed EXCEPT ![t] = FALSE]
          /\ pending_object' = [pending_object EXCEPT ![t] = None]
          /\ UNCHANGED <<owner, hold, suspend_thread, taken, prio, halted>>
      BY <1>4, <2>1 DEF rt_mutex_drop_thread
    <2> QED
      BY <1>0, <2>1, <2>2, WindUpKeeps
  <1> QED
    BY <1>3, <1>4

-----------------------------------------------------------------------------
(* A thread starts to wait *)

\* take_wait: the section of rt_mutex_take that suspends the caller.
LEMMA TakeWaitKeeps ==
    ASSUME MutexInv, prompt' = prompt, NEW t \in Threads, NEW m \in Mutexes,
           NEW timeout \in BOOLEAN, take_wait(t, m, timeout)
    PROVE  MutexInv'
  <1>0. ~halted /\ update = None /\ pc[t] = "user" /\ (prompt => \A u \in Threads \ {t} : ~Leaving(u))
    BY DEF take_wait, Runs, Free
  <1>1. /\ owner' = owner /\ hold' = hold /\ taken' = taken /\ prio' = prio /\ halted' = halted
    BY DEF take_wait
  <1>2. /\ pc \in [Threads -> {"user", "wait", "failed", "dying"}]
        /\ stat \in [Threads -> {"READY", "SUSPEND", "CLOSE"}]
        /\ timed \in [Threads -> BOOLEAN]
        /\ want \in [Threads -> Mutexes \cup {None}]
        /\ pending_object \in [Threads -> Mutexes \cup {None}]
        /\ mutex_priority \in [Mutexes -> 0 .. NoPrio]
        /\ prio \in [Threads -> Prios]
        /\ owner \in [Mutexes -> Threads \cup {None}]
    BY <1>0, Parts DEF TypeOK
  <1>o. PICK o \in Threads : o = owner[m] /\ o # t
    BY <1>2 DEF take_wait
  <1>p. PICK p \in Prios : p = prio[t]
    BY <1>2
  <1>3. /\ suspend_thread' = [suspend_thread EXCEPT ![m] = queued(@, t, prio[t], prio)]
        /\ stat' = [stat EXCEPT ![t] = "SUSPEND"]
        /\ pending_object' = [pending_object EXCEPT ![t] = m]
        /\ timed' = [timed EXCEPT ![t] = timeout]
        /\ pc' = [pc EXCEPT ![t] = "wait"]
        /\ want' = [want EXCEPT ![t] = m]
    BY DEF take_wait
  <1>4. /\ mutex_priority' = IF p < mutex_priority[m] THEN [mutex_priority EXCEPT ![m] = p]
                             ELSE mutex_priority
        /\ update' = IF p < mutex_priority[m] /\ p < prio[o] THEN [thread |-> o, to |-> p] ELSE None
    BY <1>o, <1>p DEF take_wait
  <1>5. p \in Nat /\ p < NoPrio /\ p \in 0 .. NoPrio /\ NoPrio \in Nat
    BY Priority
  <1>6. mutex_priority' \in [Mutexes -> 0 .. NoPrio]
    BY <1>2, <1>4, <1>5
  <1>7. \A n \in Mutexes : mutex_priority'[n] = IF n = m /\ p < mutex_priority[m] THEN p
                                                ELSE mutex_priority[n]
    <2>1. CASE p < mutex_priority[m]
      BY <1>2, <1>4, <2>1
    <2>2. CASE ~(p < mutex_priority[m])
      BY <1>4, <2>2
    <2> QED
      BY <2>1, <2>2
  <1>8. /\ \A u \in Threads : pc'[u] = IF u = t THEN "wait" ELSE pc[u]
        /\ \A u \in Threads : want'[u] = IF u = t THEN m ELSE want[u]
    BY <1>2, <1>3
  <1>9. /\ \A u \in Threads : stat'[u] = IF u = t THEN "SUSPEND" ELSE stat[u]
        /\ \A u \in Threads : pending_object'[u] = IF u = t THEN m ELSE pending_object[u]
    BY <1>2, <1>3
  <1>10. \A u \in Threads : u # t => timed'[u] = timed[u]
    BY <1>2, <1>3
  <1>11. waiting \in Waitings /\ waiting[t] = None
    BY <1>0, Parts, MutexTypes
  <1>12. waiting' = [waiting EXCEPT ![t] = m]
    <2>1. \A u \in Threads : u # t => pc'[u] = pc[u] /\ want'[u] = want[u]
      BY <1>8
    <2>2. waiting' = [waiting EXCEPT ![t] = IF pc'[t] = "wait" THEN want'[t] ELSE None]
      BY <1>0, <2>1, Parts, WaitingChanges
    <2> QED
      BY <1>8, <2>2
  <1>13. \A u \in Threads : waiting'[u] = IF u = t THEN m ELSE waiting[u]
    BY <1>11, <1>12 DEF Waitings
  <1>14. QueuesHold(suspend_thread', waiting') /\ InOrderOf(suspend_thread', prio)
    <2>1. QueuesHold(suspend_thread, waiting) /\ InOrderOf(suspend_thread, prio)
      BY <1>0, Parts
    <2>2. /\ QueuesHold([suspend_thread EXCEPT ![m] = queued(@, t, prio[t], prio)], [waiting EXCEPT ![t] = m])
          /\ InOrderOf([suspend_thread EXCEPT ![m] = queued(@, t, prio[t], prio)], prio)
      BY <1>2, <1>11, <2>1, QueueJoined
    <2> QED
      BY <1>3, <1>12, <2>2
  <1>15. prio[o] \in Nat /\ mutex_priority[m] \in Nat /\ \A u : target(u) = prio[u]
    BY <1>0, Parts, MutexTypes DEF target
  <1>16. /\ update' \in Updates \cup {None}
         /\ update' # None => update'.thread = o
         /\ target(o)' = IF p < mutex_priority[m] /\ p < prio[o] THEN p ELSE prio[o]
         /\ \A u \in Threads : u # o => target(u)' = prio[u]
    <2>1. CASE p < mutex_priority[m] /\ p < prio[o]
      <3>1. update' = [thread |-> o, to |-> p]
        BY <1>4, <2>1
      <3>2. update' \in Updates /\ update' # None /\ update'.thread = o /\ update'.to = p
        BY <3>1, UpdateRecord
      <3> QED
        BY <1>1, <2>1, <3>2 DEF target
    <2>2. CASE ~(p < mutex_priority[m] /\ p < prio[o])
      <3>1. update' = None
        BY <1>4, <2>2
      <3> QED
        BY <1>1, <2>2, <3>1 DEF target
    <2> QED
      BY <2>1, <2>2
  <1>17. TypeOK'
    <2>1. pc' \in [Threads -> {"user", "wait", "failed", "dying"}] /\ want' \in [Threads -> Mutexes \cup {None}]
      BY <1>2, <1>3
    <2>2. stat' \in [Threads -> {"READY", "SUSPEND", "CLOSE"}] /\ timed' \in [Threads -> BOOLEAN]
      BY <1>2, <1>3
    <2>3. pending_object' \in [Threads -> Mutexes \cup {None}]
      BY <1>2, <1>3
    <2>4. suspend_thread' \in [Mutexes -> Seq(Threads)]
      BY <1>14 DEF QueuesHold
    <2> QED
      BY <1>0, <1>1, <1>6, <1>16, <2>1, <2>2, <2>3, <2>4, Parts DEF TypeOK
  <1>18. m \in taken[o] /\ \A u \in Threads : u # o => m \notin taken[u]
    BY <1>0, <1>o, Parts DEF OwnersAgree
  <1>19. OwnersAgree'
    <2>1. owner[m] # None
      BY <1>o, Priority
    <2> QED
      BY <1>0, <1>1, <1>13, <2>1, Parts DEF OwnersAgree
  <1>20. ASSUME NEW u \in Threads PROVE WaiterAgrees(u)'
    <2>1. WaiterAgrees(u)
      BY <1>0, Parts
    <2>2. CASE u = t
      BY <1>1, <1>8, <1>9, <1>o, <2>2 DEF WaiterAgrees
    <2>3. CASE u # t
      BY <1>1, <1>8, <1>9, <1>10, <2>1, <2>3 DEF WaiterAgrees
    <2> QED
      BY <2>2, <2>3
  <1>21. Structure'
    <2>1. update' # None => taken'[update'.thread] # {}
      BY <1>1, <1>16, <1>18
    <2> QED
      BY <1>0, <1>1, <1>14, <1>17, <1>19, <1>20, <2>1, Parts DEF Structure
  <1>22. /\ \A u \in Threads : prio[u] \in Nat /\ prio[u] < NoPrio
         /\ \A n \in Mutexes : mutex_priority[n] \in Nat /\ mutex_priority[n] <= NoPrio
         /\ \A u \in Threads : taken[u] \in SUBSET Mutexes
         /\ \A u \in Threads : waiting[u] \in Mutexes \cup {None}
    BY <1>0, Parts, MutexTypes DEF Waitings
  <1>23. AsUrgentAsWaiters'
    <2> SUFFICES ASSUME NEW u \in Threads, waiting'[u] # None PROVE mutex_priority'[waiting'[u]] <= prio[u]
      BY <1>1 DEF AsUrgentAsWaiters
    <2>1. CASE u = t
      BY <1>5, <1>7, <1>13, <1>15, <1>p, <2>1
    <2>2. CASE u # t
      <3>1. waiting'[u] = waiting[u] /\ waiting[u] \in Mutexes /\ mutex_priority[waiting[u]] <= prio[u]
        BY <1>0, <1>13, <1>22, <2>2, Parts DEF AsUrgentAsWaiters
      <3>2. mutex_priority'[waiting[u]] = mutex_priority[waiting[u]]
            \/ (waiting[u] = m /\ p < mutex_priority[m] /\ mutex_priority'[waiting[u]] = p)
        BY <1>7, <3>1
      <3> QED
        BY <1>5, <1>15, <1>22, <3>1, <3>2
    <2> QED
      BY <2>1, <2>2
  <1>24. \A u \in Threads : \A n \in taken[u] : prio[u] <= mutex_priority[n]
    BY <1>0, <1>15, Parts DEF OwnerInherits
  <1>25. ASSUME NEW u \in Threads, u # o, NEW n \in taken[u]
         PROVE  n \in Mutexes /\ mutex_priority'[n] = mutex_priority[n]
    BY <1>7, <1>18, <1>22, <1>25
  <1>26. ASSUME NEW n \in taken[o]
         PROVE  target(o)' <= mutex_priority'[n]
    <2>1. n \in Mutexes /\ prio[o] <= mutex_priority[n] /\ mutex_priority[n] \in Nat
      BY <1>22, <1>24
    <2>2. CASE n = m
      BY <1>5, <1>7, <1>15, <1>16, <2>1, <2>2
    <2>3. CASE n # m
      BY <1>5, <1>7, <1>15, <1>16, <2>1, <2>3
    <2> QED
      BY <2>2, <2>3
  <1>27. OwnerInherits'
    <2> SUFFICES ASSUME NEW u \in Threads, NEW n \in taken[u] PROVE target(u)' <= mutex_priority'[n]
      BY <1>1 DEF OwnerInherits
    <2>1. CASE u = o
      BY <1>26, <2>1
    <2>2. CASE u # o
      BY <1>16, <1>24, <1>25, <2>2
    <2> QED
      BY <2>1, <2>2
  <1>28. ASSUME prompt PROVE OneLeaves' /\ MutexReason' /\ ThreadReason'
    <2>1. OneLeaves /\ MutexReason /\ ThreadReason
      BY <1>0, <1>28, Parts
    <2>2. \A u \in Threads : ~Leaving(u)' /\ ~Leaving(u)
      BY <1>0, <1>8, <1>28 DEF Leaving
    <2>3. OneLeaves'
      BY <2>2 DEF OneLeaves
    <2>4. \A n \in Mutexes : IsFirst(mutex_priority[n], n, prio, waiting)
      BY <2>1, <2>2 DEF MutexReason
    <2>5. ASSUME NEW n \in Mutexes PROVE IsFirst(mutex_priority'[n], n, prio, waiting')
      <3>1. CASE n = m
        <4>1. IsFirst(mutex_priority[m], m, prio, waiting)
          BY <2>4
        <4>2. waiting'[t] = m /\ \A u \in Threads : u # t => waiting'[u] = waiting[u]
          BY <1>13
        <4>3. CASE p < mutex_priority[m]
          <5>1. mutex_priority'[m] = p
            BY <1>7, <4>3
          <5> QED
            BY <1>5, <1>15, <1>22, <1>p, <3>1, <4>1, <4>2, <4>3, <5>1 DEF IsFirst
        <4>4. CASE ~(p < mutex_priority[m])
          <5>1. mutex_priority'[m] = mutex_priority[m] /\ mutex_priority[m] <= p /\ mutex_priority[m] # NoPrio
            BY <1>5, <1>7, <1>15, <4>4
          <5> QED
            BY <1>11, <1>p, <3>1, <4>1, <4>2, <5>1, Priority DEF IsFirst
        <4> QED
          BY <4>3, <4>4
      <3>2. CASE n # m
        <4>1. \A u \in Threads : waiting'[u] = n <=> waiting[u] = n
          BY <1>11, <1>13, <3>2, Priority
        <4> QED
          BY <1>7, <2>4, <3>2, <4>1 DEF IsFirst
      <3> QED
        BY <3>1, <3>2
    <2>6. MutexReason'
      BY <1>1, <2>5 DEF MutexReason
    <2>7. \A u \in Threads : IsInherited(prio[u], u, mutex_priority, taken[u])
      BY <1>15, <2>1 DEF ThreadReason
    <2>8. IsInherited(target(o)', o, mutex_priority', taken[o])
      <3>1. IsInherited(prio[o], o, mutex_priority, taken[o]) /\ init_priority[o] \in Nat
        BY <2>7, Priority
      <3>2. CASE p < mutex_priority[m] /\ p < prio[o]
        <4>1. target(o)' = p /\ mutex_priority'[m] = p
          BY <1>7, <1>16, <3>2
        <4>2. p <= init_priority[o]
          BY <1>5, <1>15, <3>1, <3>2 DEF IsInherited
        <4> QED
          BY <1>18, <1>26, <4>1, <4>2 DEF IsInherited
      <3>3. CASE ~(p < mutex_priority[m] /\ p < prio[o])
        <4>1. target(o)' = prio[o]
          BY <1>16, <3>3
        <4>2. ASSUME NEW n \in taken[o], prio[o] = mutex_priority[n] PROVE prio[o] = mutex_priority'[n]
          <5>1. n \in Mutexes
            BY <1>22
          <5> QED
            BY <1>7, <3>3, <4>2, <5>1
        <4> QED
          BY <1>26, <3>1, <4>1, <4>2 DEF IsInherited
      <3> QED
        BY <3>2, <3>3
    <2>9. ASSUME NEW u \in Threads PROVE IsInherited(target(u)', u, mutex_priority', taken[u])
      <3>1. CASE u = o
        BY <2>8, <3>1
      <3>2. CASE u # o
        <4>1. target(u)' = prio[u] /\ IsInherited(prio[u], u, mutex_priority, taken[u])
          BY <1>16, <2>7, <3>2
        <4>2. \A n \in taken[u] : mutex_priority'[n] = mutex_priority[n]
          BY <1>25, <3>2
        <4> QED
          BY <4>1, <4>2 DEF IsInherited
      <3> QED
        BY <3>1, <3>2
    <2>10. ThreadReason'
      BY <1>1, <2>9 DEF ThreadReason
    <2> QED
      BY <2>3, <2>6, <2>10
  <1>29. InOrderOf(suspend_thread, prio)'
    BY <1>1, <1>14
  <1> QED
    BY <1>21, <1>23, <1>27, <1>28, <1>29 DEF MutexInv, Inheritance, Reasons

-----------------------------------------------------------------------------
(* A change of priority goes along the chain *)

\* The change ends at a thread that is in no list, or at the assertion.
UpdateEnds ==
    /\ prio' = [prio EXCEPT ![update.thread] = update.to]
    /\ update' = None
    /\ halted' \in BOOLEAN /\ (halted' => Asserts)
    /\ halted' \/ waiting[update.thread] = None
    /\ UNCHANGED <<owner, hold, mutex_priority, suspend_thread, taken, stat, pending_object,
                   timed, pc, want>>

\* Thread u is queued anew for m, and o, the owner of m, is next.
UpdateGoesOn(u, m, o, p) ==
    /\ prio' = [prio EXCEPT ![u] = update.to]
    /\ halted' = halted
    /\ suspend_thread' = [suspend_thread EXCEPT
                            ![m] = queued(rt_list_remove(suspend_thread[m], u), u, prio'[u], prio')]
    /\ mutex_priority' = [mutex_priority EXCEPT ![m] = first_priority(suspend_thread'[m], prio')]
    /\ p = inherited(o, mutex_priority', taken[o])
    /\ update' = IF p # prio'[o] THEN [thread |-> o, to |-> p] ELSE None
    /\ UNCHANGED <<owner, hold, taken, stat, pending_object, timed, pc, want>>

\* _thread_update_priority of a thread that waits for no mutex, and the assertion.
LEMMA UpdateEndsKeeps ==
    ASSUME MutexInv, prompt' = prompt, ~halted, update # None, UpdateEnds
    PROVE  MutexInv'
  <1>0. /\ TypeOK /\ Structure /\ prio \in [Threads -> Prios] /\ update \in Updates
    BY Parts DEF TypeOK
  <1>u. PICK u \in Threads : u = update.thread
    BY <1>0, UpdateRecord
  <1>1. update.to \in Prios
    BY <1>0, UpdateRecord
  <1>2. /\ owner' = owner /\ hold' = hold /\ mutex_priority' = mutex_priority
        /\ suspend_thread' = suspend_thread /\ taken' = taken /\ stat' = stat
        /\ pending_object' = pending_object /\ timed' = timed /\ pc' = pc /\ want' = want
        /\ update' = None /\ halted' \in BOOLEAN /\ (halted' => Asserts)
    BY DEF UpdateEnds
  <1>3. prio' \in [Threads -> Prios] /\ \A v \in Threads : prio'[v] = IF v = u THEN update.to ELSE prio[v]
    BY <1>0, <1>1, <1>u DEF UpdateEnds
  <1>4. waiting' = waiting /\ \A v : Leaving(v)' <=> Leaving(v)
    BY <1>2 DEF waiting, Leaving
  <1>5. \A v \in Threads : target(v)' = target(v) /\ target(v)' = prio'[v]
    BY <1>2, <1>3, <1>u DEF target
  <1>6. Structure'
    <2>1. TypeOK'
      BY <1>0, <1>2, <1>3 DEF TypeOK
    <2>2. OwnersAgree'
      BY <1>2, <1>4, Parts DEF OwnersAgree
    <2>3. ASSUME NEW v \in Threads PROVE WaiterAgrees(v)'
      BY <1>2, Parts DEF WaiterAgrees
    <2> QED
      BY <1>2, <1>4, <2>1, <2>2, <2>3, Parts DEF Structure
  <1>7. ASSUME ~halted' PROVE Inheritance' /\ Reasons'
    <2>1. waiting[u] = None /\ \A v \in Threads : waiting[v] # None => prio[v] = prio'[v]
      BY <1>3, <1>7, <1>u DEF UpdateEnds
    <2>2. InOrderOf(suspend_thread, prio')
      <3>1. QueuesHold(suspend_thread, waiting) /\ InOrderOf(suspend_thread, prio)
        BY Parts
      <3> QED
        BY <2>1, <3>1, OrderSame
    <2>3. AsUrgentAsWaiters'
      BY <1>2, <1>4, <2>1, Parts DEF AsUrgentAsWaiters
    <2>4. OwnerInherits'
      BY <1>2, <1>5, Parts DEF OwnerInherits
    <2>5. ASSUME prompt PROVE OneLeaves' /\ MutexReason' /\ ThreadReason'
      <3>1. OneLeaves /\ MutexReason /\ ThreadReason
        BY <2>5, Parts
      <3>2. \A v \in Threads : ~Leaving(v)
        BY <3>1 DEF OneLeaves
      <3>3. OneLeaves'
        BY <1>4, <3>2 DEF OneLeaves
      <3>4. ASSUME NEW n \in Mutexes PROVE IsFirst(mutex_priority[n], n, prio', waiting)
        <4>1. IsFirst(mutex_priority[n], n, prio, waiting)
          BY <3>1, <3>2 DEF MutexReason
        <4> QED
          BY <2>1, <4>1, Priority DEF IsFirst
      <3>5. MutexReason'
        BY <1>2, <1>4, <3>4 DEF MutexReason
      <3>6. ThreadReason'
        BY <1>2, <1>5, <3>1 DEF ThreadReason
      <3> QED
        BY <3>3, <3>5, <3>6
    <2> QED
      BY <1>2, <2>2, <2>3, <2>4, <2>5 DEF Inheritance, Reasons
  <1> QED
    BY <1>6, <1>7 DEF MutexInv

\* _thread_update_priority of a thread that waits: it is queued anew.
LEMMA UpdateGoesOnKeeps ==
    ASSUME MutexInv, prompt' = prompt, ~halted, update # None,
           NEW u \in Threads, u = update.thread, NEW m \in Mutexes, waiting[u] = m,
           NEW o \in Threads, o = owner[m], o # u, NEW p, UpdateGoesOn(u, m, o, p)
    PROVE  MutexInv'
  <1>0. /\ TypeOK /\ Structure /\ prio \in [Threads -> Prios] /\ update \in Updates
        /\ mutex_priority \in [Mutexes -> 0 .. NoPrio] /\ waiting \in Waitings
        /\ QueuesHold(suspend_thread, waiting) /\ InOrderOf(suspend_thread, prio)
    BY Parts, MutexTypes DEF TypeOK
  <1>1. update.to \in Prios
    BY <1>0, UpdateRecord
  <1>2. /\ owner' = owner /\ hold' = hold /\ taken' = taken /\ stat' = stat
        /\ pending_object' = pending_object /\ timed' = timed /\ pc' = pc /\ want' = want
        /\ halted' = halted
    BY DEF UpdateGoesOn
  <1>3. prio' \in [Threads -> Prios] /\ \A v \in Threads : prio'[v] = IF v = u THEN update.to ELSE prio[v]
    BY <1>0, <1>1 DEF UpdateGoesOn
  <1>4. waiting' = waiting /\ \A v : Leaving(v)' <=> Leaving(v)
    BY <1>2 DEF waiting, Leaving
  <1>5. QueuesHold(suspend_thread', waiting) /\ InOrderOf(suspend_thread', prio')
    <2>1. \A v \in Threads : v # u => prio[v] = prio'[v]
      BY <1>3
    <2>2. LET new == [suspend_thread EXCEPT
                        ![m] = queued(rt_list_remove(suspend_thread[m], u), u, prio'[u], prio')]
          IN  QueuesHold(new, waiting) /\ InOrderOf(new, prio')
      BY SMTT(30), <1>0, <1>3, <2>1, QueueMoved
    <2> QED
      BY <2>2 DEF UpdateGoesOn
  <1>v. PICK v : v = first_priority(suspend_thread'[m], prio')
    OBVIOUS
  <1>6. v \in 0 .. NoPrio /\ IsFirst(v, m, prio', waiting)
    BY <1>3, <1>5, <1>v, FirstIs
  <1>7. /\ mutex_priority' \in [Mutexes -> 0 .. NoPrio]
        /\ \A n \in Mutexes : mutex_priority'[n] = IF n = m THEN v ELSE mutex_priority[n]
    BY <1>0, <1>6, <1>v DEF UpdateGoesOn
  <1>8. /\ m \in taken[o] /\ \A w \in Threads : w # o => m \notin taken[w]
        /\ \A w \in Threads : taken[w] \in SUBSET Mutexes
    BY <1>0, Parts, MutexTypes DEF OwnersAgree
  <1>9. p \in Prios /\ IsInherited(p, o, mutex_priority', taken[o])
    BY <1>7, <1>8, InheritedIs DEF UpdateGoesOn
  <1>10. /\ update' \in Updates \cup {None}
         /\ update' # None => update'.thread = o
         /\ target(o)' = p
         /\ \A w \in Threads : w # o => target(w)' = prio'[w]
    <2>q. PICK q \in Prios : q = prio'[o]
      BY <1>3
    <2>1. update' = IF p # q THEN [thread |-> o, to |-> p] ELSE None
      BY <2>q DEF UpdateGoesOn
    <2> QED
      BY <1>9, <2>q, <2>1, Requested
  <1>11. \A w \in Threads : w # o => target(w)' = target(w)
    BY <1>3, <1>10 DEF target
  <1>12. Structure'
    <2>0. suspend_thread' \in [Mutexes -> Seq(Threads)]
      BY <1>5 DEF QueuesHold
    <2>1. TypeOK'
      BY <1>0, <1>2, <1>3, <1>7, <1>10, <2>0 DEF TypeOK
    <2>2. OwnersAgree'
      BY <1>2, <1>4, Parts DEF OwnersAgree
    <2>3. ASSUME NEW w \in Threads PROVE WaiterAgrees(w)'
      BY <1>2, Parts DEF WaiterAgrees
    <2>4. update' # None => taken'[update'.thread] # {}
      BY <1>2, <1>8, <1>10
    <2> QED
      BY <1>2, <1>4, <1>5, <2>1, <2>2, <2>3, <2>4 DEF Structure
  <1>13. ASSUME NEW w \in Threads, w # o, NEW n \in taken[w]
         PROVE  mutex_priority'[n] = mutex_priority[n]
    BY <1>7, <1>8, <1>13
  <1>14. AsUrgentAsWaiters'
    <2> SUFFICES ASSUME NEW w \in Threads, waiting[w] # None PROVE mutex_priority'[waiting[w]] <= prio'[w]
      BY <1>4 DEF AsUrgentAsWaiters
    <2>1. waiting[w] \in Mutexes /\ mutex_priority[waiting[w]] <= prio[w]
      BY <1>0, Parts DEF AsUrgentAsWaiters, Waitings
    <2>2. CASE waiting[w] = m
      BY <1>6, <1>7, <2>2 DEF IsFirst
    <2>3. CASE waiting[w] # m
      BY <1>3, <1>7, <2>1, <2>3
    <2> QED
      BY <2>2, <2>3
  <1>15. OwnerInherits'
    <2> SUFFICES ASSUME NEW w \in Threads, NEW n \in taken[w] PROVE target(w)' <= mutex_priority'[n]
      BY <1>2 DEF OwnerInherits
    <2>1. CASE w = o
      BY <1>9, <1>10, <2>1 DEF IsInherited
    <2>2. CASE w # o
      BY <1>11, <1>13, <2>2, Parts DEF OwnerInherits
    <2> QED
      BY <2>1, <2>2
  <1>16. ASSUME prompt PROVE OneLeaves' /\ MutexReason' /\ ThreadReason'
    <2>1. OneLeaves /\ MutexReason /\ ThreadReason
      BY <1>16, Parts
    <2>2. \A w \in Threads : ~Leaving(w)
      BY <2>1 DEF OneLeaves
    <2>3. OneLeaves'
      BY <1>4, <2>2 DEF OneLeaves
    <2>4. ASSUME NEW n \in Mutexes PROVE IsFirst(mutex_priority'[n], n, prio', waiting)
      <3>1. CASE n = m
        BY <1>6, <1>7, <3>1
      <3>2. CASE n # m
        <4>1. IsFirst(mutex_priority[n], n, prio, waiting)
          BY <2>1, <2>2 DEF MutexReason
        <4>2. \A w \in Threads : waiting[w] = n => prio'[w] = prio[w]
          BY <1>3, <3>2
        <4> QED
          BY <1>7, <3>2, <4>1, <4>2 DEF IsFirst
      <3> QED
        BY <3>1, <3>2
    <2>5. MutexReason'
      BY <1>4, <2>4 DEF MutexReason
    <2>6. ASSUME NEW w \in Threads PROVE IsInherited(target(w)', w, mutex_priority', taken[w])
      <3>1. CASE w = o
        BY <1>9, <1>10, <3>1
      <3>2. CASE w # o
        <4>1. target(w)' = target(w) /\ IsInherited(target(w), w, mutex_priority, taken[w])
          BY <1>11, <2>1, <3>2 DEF ThreadReason
        <4>2. \A n \in taken[w] : mutex_priority'[n] = mutex_priority[n]
          BY <1>13, <3>2
        <4> QED
          BY <4>1, <4>2 DEF IsInherited
      <3> QED
        BY <3>1, <3>2
    <2>7. ThreadReason'
      BY <1>2, <2>6 DEF ThreadReason
    <2> QED
      BY <2>3, <2>5, <2>7
  <1> QED
    BY <1>5, <1>12, <1>14, <1>15, <1>16 DEF MutexInv, Inheritance, Reasons

\* The three cases together.
LEMMA UpdateKeeps ==
    ASSUME MutexInv, prompt' = prompt, thread_update_priority
    PROVE  MutexInv'
  <1>0. ~halted /\ update # None
    BY DEF thread_update_priority
  <1>1. /\ prio \in [Threads -> Prios] /\ update \in Updates /\ Asserts \in BOOLEAN
        /\ pc \in [Threads -> {"user", "wait", "failed", "dying"}]
        /\ mutex_priority \in [Mutexes -> 0 .. NoPrio]
        /\ suspend_thread \in [Mutexes -> Seq(Threads)]
    BY <1>0, Parts, MutexAssumption DEF TypeOK
  <1>u. PICK u \in Threads : u = update.thread
    BY <1>1, UpdateRecord
  <1>m. PICK m : m = pending_object[u]
    OBVIOUS
  <1>2. WaiterAgrees(u) /\ taken[u] # {}
    BY <1>0, <1>u, Parts
  <1>3. /\ prio' = [prio EXCEPT ![u] = update.to]
        /\ halted' = (stat[u] = "SUSPEND" /\ m # None /\ Asserts)
        /\ UNCHANGED <<owner, hold, taken, stat, pending_object, timed, pc, want>>
    BY <1>u, <1>m DEF thread_update_priority
  <1>4. stat[u] = "SUSPEND" /\ m # None => pc[u] = "wait" /\ want[u] = m /\ m \in Mutexes
    BY <1>1, <1>2, <1>m DEF WaiterAgrees
  <1>5. ~(stat[u] = "SUSPEND" /\ m # None) => waiting[u] = None
    BY <1>0, <1>2, <1>m, Parts, MutexTypes, Priority DEF WaiterAgrees
  <1>6. CASE ~(stat[u] = "SUSPEND" /\ m # None) \/ Asserts
    <2>1. update' = None /\ UNCHANGED <<suspend_thread, mutex_priority>>
      BY <1>6, <1>u, <1>m DEF thread_update_priority
    <2>2. halted' \in BOOLEAN /\ (halted' => Asserts) /\ (halted' \/ waiting[update.thread] = None)
      BY <1>1, <1>3, <1>5, <1>6, <1>u
    <2>3. /\ prio' = [prio EXCEPT ![update.thread] = update.to]
          /\ UNCHANGED <<owner, hold, mutex_priority, suspend_thread, taken, stat, pending_object,
                         timed, pc, want>>
      BY <1>3, <1>u, <2>1
    <2> QED
      BY <1>0, <2>1, <2>2, <2>3, UpdateEndsKeeps DEF UpdateEnds
  <1>7. CASE stat[u] = "SUSPEND" /\ m # None /\ ~Asserts
    <2>1. pc[u] = "wait" /\ want[u] = m /\ m \in Mutexes /\ waiting[u] = m
      BY <1>0, <1>4, <1>7, Parts, MutexTypes
    <2>o. PICK o \in Threads : o = owner[m] /\ o # u
      BY <1>2, <2>1 DEF WaiterAgrees
    <2>l. PICK l : l = queued(rt_list_remove(suspend_thread[m], u), u, prio'[u], prio')
      OBVIOUS
    <2>2. suspend_thread' = [suspend_thread EXCEPT ![m] = l]
      BY <1>3, <1>7, <1>u, <1>m, <2>l DEF thread_update_priority
    <2>3. suspend_thread'[m] = l
      BY <1>1, <2>1, <2>2
    <2>4. mutex_priority' = [mutex_priority EXCEPT ![m] = first_priority(l, prio')]
      BY <1>3, <1>7, <1>u, <1>m, <2>l DEF thread_update_priority
    <2>p. PICK p : p = inherited(o, mutex_priority', taken[o])
      OBVIOUS
    <2>5. update' = IF p # prio'[o] THEN [thread |-> o, to |-> p] ELSE None
      BY <1>3, <1>7, <1>u, <1>m, <2>l, <2>o, <2>p, <2>4 DEF thread_update_priority
    <2>6. halted' = halted
      BY <1>0, <1>3, <1>7, Parts DEF TypeOK
    <2>7. UpdateGoesOn(u, m, o, p)
      BY <1>3, <2>l, <2>2, <2>3, <2>4, <2>p, <2>5, <2>6 DEF UpdateGoesOn
    <2> QED
      BY <1>0, <1>u, <2>1, <2>o, <2>7, UpdateGoesOnKeeps
  <1> QED
    BY <1>6, <1>7

-----------------------------------------------------------------------------
(* rt_mutex_release *)

\* The priority that rt_mutex_release leaves a thread suits the mutexes it keeps.
LEMMA OwnPriority ==
    ASSUME MutexInv, ~halted, update = None, NEW t \in Threads, NEW m \in Mutexes, owner[m] = t
    PROVE  /\ own_priority(t, m) \in Prios
           /\ \A n \in taken[t] \ {m} : own_priority(t, m) <= mutex_priority[n]
           /\ prompt => IsInherited(own_priority(t, m), t, mutex_priority, taken[t] \ {m})
  <1>1. /\ mutex_priority \in [Mutexes -> 0 .. NoPrio] /\ prio[t] \in Prios
        /\ taken[t] \ {m} \in SUBSET Mutexes /\ target(t) = prio[t]
    BY Parts, MutexTypes DEF TypeOK, target
  <1>2. CASE prio[t] = mutex_priority[m]
    <2>1. own_priority(t, m) = inherited(t, mutex_priority, taken[t] \ {m})
      BY <1>2 DEF own_priority
    <2>2. /\ own_priority(t, m) \in Prios
          /\ IsInherited(own_priority(t, m), t, mutex_priority, taken[t] \ {m})
      BY <1>1, <2>1, InheritedIs
    <2> QED
      BY <2>2 DEF IsInherited
  <1>3. CASE prio[t] # mutex_priority[m]
    <2>1. own_priority(t, m) = prio[t]
      BY <1>3 DEF own_priority
    <2>2. \A n \in taken[t] : prio[t] <= mutex_priority[n]
      BY <1>1, Parts DEF OwnerInherits
    <2>3. prompt => IsInherited(prio[t], t, mutex_priority, taken[t])
      BY <1>1, Parts DEF ThreadReason
    <2> QED
      BY <1>1, <1>3, <2>1, <2>2, <2>3 DEF IsInherited
  <1> QED
    BY <1>2, <1>3

\* released: nobody waits, and no wait for the mutex is still to be wound up.
LEMMA ReleasedKeeps ==
    ASSUME MutexInv, Disciplined, prompt' = prompt, NEW t \in Threads, NEW m \in Mutexes,
           released(t, m)
    PROVE  MutexInv'
  <1>0. /\ ~halted /\ update = None /\ pc[t] = "user" /\ owner[m] = t /\ suspend_thread[m] = << >>
        /\ (prompt => \A u \in Threads \ {t} : ~Leaving(u))
        /\ \A u \in Threads : Leaving(u) => want[u] # m
    BY DEF released, Runs, Free, Over
  <1>1. /\ suspend_thread' = suspend_thread /\ stat' = stat /\ pending_object' = pending_object
        /\ timed' = timed /\ pc' = pc /\ want' = want /\ update' = update /\ halted' = halted
    BY DEF released
  <1>2. /\ owner \in [Mutexes -> Threads \cup {None}] /\ hold \in [Mutexes -> 0 .. MaxHold]
        /\ mutex_priority \in [Mutexes -> 0 .. NoPrio] /\ taken \in [Threads -> SUBSET Mutexes]
        /\ prio \in [Threads -> Prios]
    BY <1>0, Parts DEF TypeOK
  <1>x. PICK x : x = own_priority(t, m)
    OBVIOUS
  <1>3. /\ owner' = [owner EXCEPT ![m] = None] /\ hold' = [hold EXCEPT ![m] = 0]
        /\ mutex_priority' = [mutex_priority EXCEPT ![m] = NoPrio]
        /\ taken' = [taken EXCEPT ![t] = taken[t] \ {m}]
        /\ prio' = [prio EXCEPT ![t] = x]
    BY <1>x DEF released
  <1>4. /\ x \in Prios
        /\ \A n \in taken[t] \ {m} : x <= mutex_priority[n]
        /\ prompt => IsInherited(x, t, mutex_priority, taken[t] \ {m})
    BY <1>0, <1>x, OwnPriority
  <1>5. 0 \in 0 .. MaxHold /\ NoPrio \in 0 .. NoPrio
    BY MutexAssumption
  <1>6. TypeOK'
    <2>1. owner' \in [Mutexes -> Threads \cup {None}] /\ hold' \in [Mutexes -> 0 .. MaxHold]
      BY <1>2, <1>3, <1>5
    <2>2. mutex_priority' \in [Mutexes -> 0 .. NoPrio] /\ taken' \in [Threads -> SUBSET Mutexes]
      BY <1>2, <1>3, <1>5
    <2>3. prio' \in [Threads -> Prios]
      BY <1>2, <1>3, <1>4
    <2> QED
      BY <1>0, <1>1, <2>1, <2>2, <2>3, Parts DEF TypeOK
  <1>7. /\ \A n \in Mutexes : owner'[n] = IF n = m THEN None ELSE owner[n]
        /\ \A n \in Mutexes : hold'[n] = IF n = m THEN 0 ELSE hold[n]
    BY <1>2, <1>3
  <1>8. /\ \A n \in Mutexes : mutex_priority'[n] = IF n = m THEN NoPrio ELSE mutex_priority[n]
        /\ \A u \in Threads : taken'[u] = IF u = t THEN taken[t] \ {m} ELSE taken[u]
        /\ \A u \in Threads : prio'[u] = IF u = t THEN x ELSE prio[u]
    BY <1>2, <1>3
  <1>9. waiting' = waiting /\ (\A u : Leaving(u)' <=> Leaving(u)) /\ (\A u : target(u) = prio[u])
        /\ (\A u : target(u)' = prio'[u])
    BY <1>0, <1>1 DEF waiting, Leaving, target
  <1>10. \A u \in Threads : waiting[u] # m
    <2>1. ListOf(suspend_thread[m], waiting, m)
      BY <1>0, Parts DEF QueuesHold
    <2> QED
      BY <1>0, <2>1, NothingListed DEF ListOf
  <1>11. \A u \in Threads : u # t => m \notin taken[u]
    BY <1>0, Parts DEF OwnersAgree
  <1>12. OwnersAgree'
    <2> SUFFICES ASSUME NEW n \in Mutexes
                 PROVE  /\ owner'[n] = None <=> hold'[n] = 0
                        /\ owner'[n] = None => \A u \in Threads : waiting'[u] # n
                        /\ \A u \in Threads : n \in taken'[u] <=> owner'[n] = u
      BY DEF OwnersAgree
    <2>1. /\ owner[n] = None <=> hold[n] = 0
          /\ owner[n] = None => \A u \in Threads : waiting[u] # n
          /\ \A u \in Threads : n \in taken[u] <=> owner[n] = u
      BY <1>0, Parts DEF OwnersAgree
    <2>2. CASE n = m
      <3>1. owner'[n] = None /\ hold'[n] = 0
        BY <1>7, <2>2
      <3>2. \A u \in Threads : n \notin taken'[u]
        BY <1>8, <1>11, <2>2
      <3> QED
        BY <1>9, <1>10, <2>2, <3>1, <3>2, Priority
    <2>3. CASE n # m
      <3>1. owner'[n] = owner[n] /\ hold'[n] = hold[n] /\ waiting' = waiting
        BY <1>7, <1>9, <2>3
      <3>2. \A u \in Threads : n \in taken'[u] <=> n \in taken[u]
        BY <1>8, <2>3
      <3> QED
        BY <2>1, <3>1, <3>2
    <2> QED
      BY <2>2, <2>3
  <1>13. ASSUME NEW u \in Threads PROVE WaiterAgrees(u)'
    <2>1. WaiterAgrees(u) /\ pc[u] \in {"user", "wait", "failed", "dying"}
      BY <1>0, Parts DEF TypeOK
    <2>2. pc[u] # "user" => want[u] \in Mutexes /\ want[u] # m /\ u # t
      <3>1. CASE pc[u] = "wait"
        BY <1>0, <1>10, <2>1, <3>1, Parts, MutexTypes DEF WaiterAgrees
      <3>2. CASE Leaving(u)
        BY <1>0, <2>1, <3>2 DEF WaiterAgrees, Leaving
      <3> QED
        BY <2>1, <3>1, <3>2 DEF Leaving
    <2> QED
      BY <1>1, <1>7, <1>8, <2>1, <2>2 DEF WaiterAgrees
  <1>14. Structure'
    BY <1>0, <1>1, <1>6, <1>9, <1>12, <1>13, Parts DEF Structure
  <1>15. /\ \A u \in Threads : taken[u] \in SUBSET Mutexes
         /\ \A u \in Threads : waiting[u] \in Mutexes \cup {None}
         /\ waiting[t] = None
         /\ \A u \in Threads : waiting[u] # None => prio[u] = prio'[u]
    BY <1>0, <1>8, Parts, MutexTypes DEF Waitings
  <1>16. InOrderOf(suspend_thread, prio')
    <2>1. QueuesHold(suspend_thread, waiting) /\ InOrderOf(suspend_thread, prio)
      BY <1>0, Parts
    <2> QED
      BY <1>15, <2>1, OrderSame
  <1>17. AsUrgentAsWaiters'
    <2> SUFFICES ASSUME NEW u \in Threads, waiting[u] # None PROVE mutex_priority'[waiting[u]] <= prio'[u]
      BY <1>9 DEF AsUrgentAsWaiters
    <2>1. mutex_priority'[waiting[u]] = mutex_priority[waiting[u]] /\ prio'[u] = prio[u]
      BY <1>8, <1>10, <1>15
    <2> QED
      BY <1>0, <2>1, Parts DEF AsUrgentAsWaiters
  <1>18. ASSUME NEW u \in Threads, NEW n \in taken'[u]
         PROVE  n \in taken[u] /\ n \in Mutexes /\ n # m /\ mutex_priority'[n] = mutex_priority[n]
    <2>1. n \in taken[u] /\ n # m
      BY <1>8, <1>11
    <2> QED
      BY <1>8, <1>15, <2>1
  <1>19. OwnerInherits'
    <2> SUFFICES ASSUME NEW u \in Threads, NEW n \in taken'[u] PROVE prio'[u] <= mutex_priority'[n]
      BY <1>9 DEF OwnerInherits
    <2>1. n \in taken[u] /\ n \in Mutexes /\ n # m /\ mutex_priority'[n] = mutex_priority[n]
      BY <1>18
    <2>2. CASE u = t
      BY <1>4, <1>8, <2>1, <2>2
    <2>3. CASE u # t
      BY <1>0, <1>8, <1>9, <2>1, <2>3, Parts DEF OwnerInherits
    <2> QED
      BY <2>2, <2>3
  <1>20. ASSUME prompt PROVE OneLeaves' /\ MutexReason' /\ ThreadReason'
    <2>1. OneLeaves /\ MutexReason /\ ThreadReason
      BY <1>0, <1>20, Parts
    <2>2. OneLeaves' /\ \A u \in Threads : ~Leaving(u)
      BY <1>0, <1>1, <1>9, <1>20, <2>1 DEF OneLeaves, Leaving
    <2>3. ASSUME NEW n \in Mutexes PROVE IsFirst(mutex_priority'[n], n, prio', waiting)
      <3>1. CASE n = m
        BY <1>8, <1>10, <3>1 DEF IsFirst
      <3>2. CASE n # m
        <4>1. IsFirst(mutex_priority[n], n, prio, waiting)
          BY <2>1, <2>2 DEF MutexReason
        <4>2. \A u \in Threads : waiting[u] = n => prio'[u] = prio[u]
          BY <1>15, Priority
        <4> QED
          BY <1>8, <3>2, <4>1, <4>2 DEF IsFirst
      <3> QED
        BY <3>1, <3>2
    <2>4. MutexReason'
      BY <1>9, <2>3 DEF MutexReason
    <2>5. ASSUME NEW u \in Threads PROVE IsInherited(prio'[u], u, mutex_priority', taken'[u])
      <3>0. \A n \in taken'[u] : mutex_priority'[n] = mutex_priority[n]
        BY <1>18
      <3>1. IsInherited(prio'[u], u, mutex_priority, taken'[u])
        <4>1. CASE u = t
          BY <1>4, <1>8, <1>20, <4>1
        <4>2. CASE u # t
          BY <1>8, <1>9, <2>1, <4>2 DEF ThreadReason
        <4> QED
          BY <4>1, <4>2
      <3> QED
        BY <3>0, <3>1 DEF IsInherited
    <2>6. ThreadReason'
      BY <1>9, <2>5 DEF ThreadReason
    <2> QED
      BY <2>2, <2>4, <2>6
  <1> QED
    BY <1>1, <1>14, <1>16, <1>17, <1>19, <1>20 DEF MutexInv, Inheritance, Reasons

\* handed_over: the first waiter becomes the owner.
LEMMA HandedOverKeeps ==
    ASSUME MutexInv, prompt' = prompt, NEW t \in Threads, NEW m \in Mutexes, handed_over(t, m)
    PROVE  MutexInv'
  <1>0. /\ ~halted /\ update = None /\ pc[t] = "user" /\ owner[m] = t /\ hold[m] = 1
        /\ suspend_thread[m] # << >> /\ (prompt => \A u \in Threads \ {t} : ~Leaving(u))
    BY DEF handed_over, Runs, Free
  <1>1. hold' = hold /\ update' = update /\ halted' = halted
    BY DEF handed_over
  <1>2. /\ owner \in [Mutexes -> Threads \cup {None}] /\ taken \in [Threads -> SUBSET Mutexes]
        /\ mutex_priority \in [Mutexes -> 0 .. NoPrio] /\ prio \in [Threads -> Prios]
        /\ pc \in [Threads -> {"user", "wait", "failed", "dying"}]
        /\ stat \in [Threads -> {"READY", "SUSPEND", "CLOSE"}]
        /\ timed \in [Threads -> BOOLEAN]
        /\ want \in [Threads -> Mutexes \cup {None}]
        /\ pending_object \in [Threads -> Mutexes \cup {None}]
        /\ waiting \in Waitings
    BY <1>0, Parts, MutexTypes DEF TypeOK
  <1>u. PICK u : u = Head(suspend_thread[m])
    OBVIOUS
  <1>l. PICK l : l = [suspend_thread EXCEPT ![m] = Tail(suspend_thread[m])]
    OBVIOUS
  <1>3. /\ u \in Threads /\ waiting[u] = m
        /\ \A w \in Threads : waiting[w] = m => prio[u] <= prio[w]
        /\ QueuesHold(l, [waiting EXCEPT ![u] = None]) /\ InOrderOf(l, prio)
    <2>1. QueuesHold(suspend_thread, waiting) /\ InOrderOf(suspend_thread, prio)
      BY <1>0, Parts
    <2> QED
      BY ZenonT(60), <1>0, <1>2, <1>u, <1>l, <2>1, QueueTaken
  <1>4. pc[u] = "wait" /\ want[u] = m /\ u # t
    BY <1>0, <1>3, Parts, MutexTypes
  <1>x. PICK x : x = own_priority(t, m)
    OBVIOUS
  <1>v. PICK v : v = first_priority(l[m], prio)
    OBVIOUS
  <1>5. l[m] = Tail(suspend_thread[m])
    BY <1>0, <1>l, Parts DEF TypeOK
  <1>6. /\ prio' = [prio EXCEPT ![t] = x]
        /\ taken' = [taken EXCEPT ![t] = @ \ {m}, ![u] = @ \cup {m}]
        /\ suspend_thread' = l
        /\ owner' = [owner EXCEPT ![m] = u]
        /\ pending_object' = [pending_object EXCEPT ![u] = None]
        /\ timed' = [timed EXCEPT ![u] = FALSE]
        /\ stat' = [stat EXCEPT ![u] = "READY"]
        /\ pc' = [pc EXCEPT ![u] = "user"]
        /\ want' = [want EXCEPT ![u] = None]
        /\ mutex_priority' = [mutex_priority EXCEPT ![m] = v]
    BY <1>u, <1>l, <1>x, <1>v, <1>5 DEF handed_over, timer_stop
  <1>7. /\ \A w \in Threads : pc'[w] = IF w = u THEN "user" ELSE pc[w]
        /\ \A w \in Threads : want'[w] = IF w = u THEN None ELSE want[w]
        /\ \A w \in Threads : stat'[w] = IF w = u THEN "READY" ELSE stat[w]
    BY <1>2, <1>6
  <1>8. \A w \in Threads : pending_object'[w] = IF w = u THEN None ELSE pending_object[w]
    BY <1>2, <1>6
  <1>9. \A w \in Threads : timed'[w] <=> timed[w] /\ w # u
    BY <1>2, <1>6
  <1>10. waiting' = [waiting EXCEPT ![u] = None]
    <2>1. \A w \in Threads : w # u => pc'[w] = pc[w] /\ want'[w] = want[w]
      BY <1>7
    <2>2. waiting' = [waiting EXCEPT ![u] = IF pc'[u] = "wait" THEN want'[u] ELSE None]
      BY <1>0, <1>3, <2>1, Parts, WaitingChanges
    <2>3. pc'[u] # "wait"
      BY <1>3, <1>7
    <2> QED
      BY <2>2, <2>3
  <1>11. waiting' \in Waitings /\ \A w \in Threads : waiting'[w] = IF w = u THEN None ELSE waiting[w]
    BY <1>2, <1>10 DEF Waitings
  <1>12. v \in 0 .. NoPrio /\ IsFirst(v, m, prio, waiting')
    BY <1>2, <1>3, <1>10, <1>v, FirstIs
  <1>13. /\ x \in Prios
         /\ \A n \in taken[t] \ {m} : x <= mutex_priority[n]
         /\ prompt => IsInherited(x, t, mutex_priority, taken[t] \ {m})
    BY <1>0, <1>x, OwnPriority
  <1>14. /\ \A n \in Mutexes : owner'[n] = IF n = m THEN u ELSE owner[n]
         /\ \A n \in Mutexes : mutex_priority'[n] = IF n = m THEN v ELSE mutex_priority[n]
    BY <1>2, <1>6
  <1>15. /\ \A w \in Threads : prio'[w] = IF w = t THEN x ELSE prio[w]
         /\ taken'[t] = taken[t] \ {m} /\ taken'[u] = taken[u] \cup {m}
         /\ \A w \in Threads : w # t /\ w # u => taken'[w] = taken[w]
    BY <1>2, <1>3, <1>4, <1>6
  <1>16. TypeOK'
    <2>1. owner' \in [Mutexes -> Threads \cup {None}] /\ mutex_priority' \in [Mutexes -> 0 .. NoPrio]
      BY <1>2, <1>3, <1>6, <1>12
    <2>2. taken' \in [Threads -> SUBSET Mutexes] /\ prio' \in [Threads -> Prios]
      BY <1>2, <1>6, <1>13
    <2>3. pc' \in [Threads -> {"user", "wait", "failed", "dying"}] /\ want' \in [Threads -> Mutexes \cup {None}]
      BY <1>2, <1>6
    <2>4. stat' \in [Threads -> {"READY", "SUSPEND", "CLOSE"}] /\ timed' \in [Threads -> BOOLEAN]
      BY <1>2, <1>6
    <2>5. pending_object' \in [Threads -> Mutexes \cup {None}]
      BY <1>2, <1>6
    <2>6. suspend_thread' \in [Mutexes -> Seq(Threads)]
      BY <1>3, <1>6 DEF QueuesHold
    <2> QED
      BY <1>0, <1>1, <2>1, <2>2, <2>3, <2>4, <2>5, <2>6, Parts DEF TypeOK
  <1>17. (\A w \in Threads : m \in taken[w] <=> w = t) /\ \A w \in Threads : taken[w] \in SUBSET Mutexes
    BY <1>0, Parts, MutexTypes DEF OwnersAgree
  <1>18. OwnersAgree'
    <2> SUFFICES ASSUME NEW n \in Mutexes
                 PROVE  /\ owner'[n] = None <=> hold'[n] = 0
                        /\ owner'[n] = None => \A w \in Threads : waiting'[w] # n
                        /\ \A w \in Threads : n \in taken'[w] <=> owner'[n] = w
      BY DEF OwnersAgree
    <2>1. /\ owner[n] = None <=> hold[n] = 0
          /\ owner[n] = None => \A w \in Threads : waiting[w] # n
          /\ \A w \in Threads : n \in taken[w] <=> owner[n] = w
      BY <1>0, Parts DEF OwnersAgree
    <2>2. CASE n = m
      <3>1. owner'[n] = u /\ owner'[n] # None /\ hold'[n] # 0
        BY <1>0, <1>1, <1>3, <1>14, <2>2, Priority
      <3>2. ASSUME NEW w \in Threads PROVE n \in taken'[w] <=> w = u
        BY <1>3, <1>4, <1>15, <1>17, <2>2
      <3> QED
        BY <3>1, <3>2
    <2>3. CASE n # m
      <3>1. owner'[n] = owner[n] /\ hold' = hold
        BY <1>1, <1>14, <2>3
      <3>2. ASSUME NEW w \in Threads PROVE n \in taken'[w] <=> n \in taken[w]
        BY <1>15, <2>3
      <3>3. ASSUME NEW w \in Threads, waiting[w] # n PROVE waiting'[w] # n
        BY <1>11, <3>3, Priority
      <3> QED
        BY <2>1, <3>1, <3>2, <3>3
    <2> QED
      BY <2>2, <2>3
  <1>19. ASSUME NEW w \in Threads PROVE WaiterAgrees(w)'
    <2>1. WaiterAgrees(w)
      BY <1>0, Parts
    <2>2. CASE w = u
      BY <1>7, <1>8, <1>9, <2>2 DEF WaiterAgrees
    <2>3. CASE w # u
      <3>1. /\ pc'[w] = pc[w] /\ want'[w] = want[w] /\ stat'[w] = stat[w]
            /\ pending_object'[w] = pending_object[w] /\ (timed'[w] <=> timed[w])
        BY <1>7, <1>8, <1>9, <2>3
      <3>2. pc[w] # "user" => w # t /\ taken'[w] = taken[w]
        BY <1>0, <1>15, <2>3
      <3>3. pc[w] # "user" => owner'[want[w]] \in Threads \ {w}
        BY <1>3, <1>14, <2>1, <2>3 DEF WaiterAgrees
      <3> QED
        BY <2>1, <3>1, <3>2, <3>3 DEF WaiterAgrees
    <2> QED
      BY <2>2, <2>3
  <1>20. Structure'
    BY <1>0, <1>1, <1>3, <1>6, <1>10, <1>16, <1>18, <1>19, Parts DEF Structure
  <1>21. /\ waiting[t] = None /\ waiting'[t] = None
         /\ \A w \in Threads : waiting'[w] # None => waiting'[w] = waiting[w] /\ prio'[w] = prio[w]
    BY <1>0, <1>4, <1>11, <1>15, Parts, MutexTypes
  <1>22. InOrderOf(l, prio')
    <2>1. QueuesHold(l, waiting') /\ InOrderOf(l, prio)
      BY <1>3, <1>10
    <2>2. \A w \in Threads : waiting'[w] # None => prio[w] = prio'[w]
      BY <1>21
    <2> QED
      BY <2>1, <2>2, OrderSame
  <1>23. IsFirst(v, m, prio', waiting')
    <2>1. \A w \in Threads : waiting'[w] = m => prio'[w] = prio[w]
      BY <1>21, Priority
    <2> QED
      BY <1>12, <2>1 DEF IsFirst
  <1>24. AsUrgentAsWaiters'
    <2> SUFFICES ASSUME NEW w \in Threads, waiting'[w] # None PROVE mutex_priority'[waiting'[w]] <= prio'[w]
      BY DEF AsUrgentAsWaiters
    <2>1. waiting'[w] \in Mutexes /\ mutex_priority[waiting[w]] <= prio[w] /\ waiting'[w] = waiting[w]
          /\ prio'[w] = prio[w]
      BY <1>0, <1>11, <1>21, Parts DEF AsUrgentAsWaiters, Waitings
    <2>2. CASE waiting'[w] = m
      BY <1>14, <1>23, <2>2 DEF IsFirst
    <2>3. CASE waiting'[w] # m
      BY <1>14, <2>1, <2>3
    <2> QED
      BY <2>2, <2>3
  <1>25. /\ \A w : target(w) = prio[w] /\ target(w)' = prio'[w]
         /\ \A w \in Threads : \A n \in taken[w] : prio[w] <= mutex_priority[n]
    BY <1>0, <1>1, Parts DEF target, OwnerInherits
  <1>26. prio'[u] = prio[u] /\ prio[u] <= v
    <2>1. prio[u] \in Nat /\ prio[u] < NoPrio /\ NoPrio \in Nat
      BY <1>2, <1>3, Priority
    <2>2. \A w \in Threads : waiting'[w] = m => waiting[w] = m
      BY <1>21, Priority
    <2> QED
      BY <1>3, <1>4, <1>12, <1>15, <2>1, <2>2 DEF IsFirst
  <1>27. /\ \A n \in taken[t] \ {m} : mutex_priority'[n] = mutex_priority[n]
         /\ \A w \in Threads : w # t => \A n \in taken[w] : mutex_priority'[n] = mutex_priority[n]
         /\ mutex_priority'[m] = v
    BY <1>14, <1>17
  <1>28. OwnerInherits'
    <2> SUFFICES ASSUME NEW w \in Threads, NEW n \in taken'[w] PROVE prio'[w] <= mutex_priority'[n]
      BY <1>25 DEF OwnerInherits
    <2>1. CASE w = t
      BY <1>13, <1>15, <1>27, <2>1
    <2>2. CASE w = u
      BY <1>4, <1>15, <1>25, <1>26, <1>27, <2>2
    <2>3. CASE w # t /\ w # u
      BY <1>15, <1>25, <1>27, <2>3
    <2> QED
      BY <2>1, <2>2, <2>3
  <1>29. ASSUME prompt PROVE OneLeaves' /\ MutexReason' /\ ThreadReason'
    <2>1. OneLeaves /\ MutexReason /\ ThreadReason
      BY <1>0, <1>29, Parts
    <2>2. \A w \in Threads : ~Leaving(w)' /\ ~Leaving(w)
      BY <1>0, <1>7, <1>29 DEF Leaving
    <2>3. OneLeaves'
      BY <2>2 DEF OneLeaves
    <2>4. ASSUME NEW n \in Mutexes PROVE IsFirst(mutex_priority'[n], n, prio', waiting')
      <3>1. CASE n = m
        BY <1>23, <1>27, <3>1
      <3>2. CASE n # m
        <4>1. IsFirst(mutex_priority[n], n, prio, waiting)
          BY <2>1, <2>2 DEF MutexReason
        <4>2. \A w \in Threads : waiting'[w] = n <=> waiting[w] = n
          BY <1>3, <1>11, <3>2, Priority
        <4>3. \A w \in Threads : waiting'[w] = n => prio'[w] = prio[w]
          BY <1>21, Priority
        <4> QED
          BY <1>14, <3>2, <4>1, <4>2, <4>3 DEF IsFirst
      <3> QED
        BY <3>1, <3>2
    <2>5. MutexReason'
      BY <2>4 DEF MutexReason
    <2>6. \A w \in Threads : IsInherited(prio[w], w, mutex_priority, taken[w])
      BY <1>25, <2>1 DEF ThreadReason
    <2>7. ASSUME NEW w \in Threads PROVE IsInherited(prio'[w], w, mutex_priority', taken'[w])
      <3>1. CASE w = t
        <4>1. IsInherited(x, t, mutex_priority, taken[t] \ {m})
          BY <1>13, <1>29
        <4>2. IsInherited(x, t, mutex_priority', taken[t] \ {m})
          BY <1>27, <4>1 DEF IsInherited
        <4> QED
          BY <1>15, <3>1, <4>2
      <3>2. CASE w = u
        <4>1. IsInherited(prio[u], u, mutex_priority, taken[u])
          BY <1>3, <2>6
        <4>2. \A n \in taken[u] : mutex_priority'[n] = mutex_priority[n]
          BY <1>3, <1>4, <1>27
        <4>3. IsInherited(prio[u], u, mutex_priority', taken[u] \cup {m})
          BY <1>26, <1>27, <4>1, <4>2 DEF IsInherited
        <4> QED
          BY <1>15, <1>26, <3>2, <4>3
      <3>3. CASE w # t /\ w # u
        <4>1. taken'[w] = taken[w] /\ prio'[w] = prio[w] /\ \A n \in taken[w] : mutex_priority'[n] = mutex_priority[n]
          BY <1>15, <1>27, <3>3
        <4> QED
          BY <2>6, <4>1 DEF IsInherited
      <3> QED
        BY <3>1, <3>2, <3>3
    <2>8. ThreadReason'
      BY <1>25, <2>7 DEF ThreadReason
    <2> QED
      BY <2>3, <2>5, <2>8
  <1> QED
    BY <1>6, <1>20, <1>22, <1>24, <1>28, <1>29 DEF MutexInv, Inheritance, Reasons

-----------------------------------------------------------------------------
(* The theorems *)

\* Every step keeps the invariant.
LEMMA MutexSteps ==
    ASSUME Disciplined, MutexInv, [Next]_vars
    PROVE  MutexInv'
  <1>1. CASE UNCHANGED vars
    <2>1. /\ owner' = owner /\ hold' = hold /\ mutex_priority' = mutex_priority
          /\ suspend_thread' = suspend_thread /\ taken' = taken /\ prio' = prio /\ stat' = stat
          /\ pending_object' = pending_object /\ timed' = timed /\ pc' = pc /\ want' = want
          /\ update' = update /\ halted' = halted /\ prompt' = prompt
      BY <1>1 DEF vars
    <2>2. waiting' = waiting
      BY <2>1 DEF waiting
    <2>3. Structure'
      BY <2>1, <2>2 DEF MutexInv, Structure, TypeOK, OwnersAgree, WaiterAgrees
    <2>4. Inheritance => Inheritance'
      BY <2>1, <2>2 DEF Inheritance, AsUrgentAsWaiters, OwnerInherits, target
    <2>5. Reasons => Reasons'
      BY <2>1, <2>2 DEF Reasons, OneLeaves, MutexReason, ThreadReason, Leaving, target
    <2> QED
      BY <2>1, <2>3, <2>4, <2>5 DEF MutexInv
  <1>2. CASE Next
    <2>0. prompt' = prompt
      BY <1>2 DEF Next
    <2>1. CASE thread_update_priority
      BY <2>0, <2>1, UpdateKeeps
    <2>2. ASSUME NEW t \in Threads, thread_timeout(t) \/ rt_thread_delete(t) PROVE MutexInv'
      BY <2>0, <2>2, LeaveSteps
    <2>3. ASSUME NEW t \in Threads, take_failed(t) \/ rt_mutex_drop_thread(t) PROVE MutexInv'
      BY <2>0, <2>3, WindUpSteps
    <2>4. ASSUME NEW t \in Threads, sleep(t) \/ wakeup(t) PROVE MutexInv'
      BY <2>0, <2>4, OtherWaits
    <2>5. ASSUME NEW t \in Threads, NEW m \in Mutexes, take_again(t, m) \/ release_again(t, m)
          PROVE  MutexInv'
      BY <2>0, <2>5, CountSteps
    <2>6. ASSUME NEW t \in Threads, NEW m \in Mutexes, take_free(t, m) PROVE MutexInv'
      BY <2>0, <2>6, TakeFreeKeeps
    <2>7. ASSUME NEW t \in Threads, NEW m \in Mutexes, NEW timeout \in BOOLEAN, take_wait(t, m, timeout)
          PROVE  MutexInv'
      BY <2>0, <2>7, TakeWaitKeeps
    <2>8. ASSUME NEW t \in Threads, NEW m \in Mutexes, released(t, m) PROVE MutexInv'
      BY <2>0, <2>8, ReleasedKeeps
    <2>9. ASSUME NEW t \in Threads, NEW m \in Mutexes, handed_over(t, m) PROVE MutexInv'
      BY <2>0, <2>9, HandedOverKeeps
    <2> QED
      BY <1>2, <2>1, <2>2, <2>3, <2>4, <2>5, <2>6, <2>7, <2>8, <2>9 DEF Next
  <1> QED
    BY <1>1, <1>2

\* The inductive invariant, for any threads, mutexes and priorities.
LEMMA MutexInvariant == Disciplined => (Spec => []MutexInv)
  <1> SUFFICES ASSUME Disciplined PROVE Spec => []MutexInv
    OBVIOUS
  <1>1. MutexInv /\ [Next]_vars => MutexInv'
    BY MutexSteps
  <1> QED
    BY <1>1, MutexStarts, PTL DEF Spec

(***************************************************************************)
(* Type correctness of the mutexes and of the threads that use them; the   *)
(* count of rt_mutex_take stays within RT_MUTEX_HOLD_MAX.                  *)
(***************************************************************************)
THEOREM MutexKeepsTypes == Disciplined => (Spec => []TypeOK)
  <1>1. MutexInv => TypeOK
    BY DEF MutexInv, Structure
  <1> QED
    BY <1>1, MutexInvariant, PTL

(***************************************************************************)
(* owner, hold, taken_object_list and the waiting list of a mutex say the  *)
(* same at every step of rt_mutex_take, rt_mutex_release, a timeout and a  *)
(* deletion, whether or not the assertions are compiled in.                *)
(***************************************************************************)
THEOREM MutexOwnershipAgrees == Disciplined => (Spec => []OwnershipAgrees)
  <1>1. MutexInv => OwnershipAgrees
    BY StructureMeans DEF MutexInv
  <1> QED
    BY <1>1, MutexInvariant, PTL

(***************************************************************************)
(* A wait in rt_mutex_take ends by the hand-over or by the timeout, never  *)
(* by both.                                                                *)
(***************************************************************************)
THEOREM WaitsEndOneWay == Disciplined => (Spec => []EndsOneWay)
  <1>1. MutexInv => EndsOneWay
    BY StructureMeans DEF MutexInv
  <1> QED
    BY <1>1, MutexInvariant, PTL

\* Without assertions nothing halts.
LEMMA NeverHalted == MutexInv /\ ~Asserts => ~halted
  BY DEF MutexInv, Structure

(***************************************************************************)
(* The waiting lists stay in the order of the priorities, though          *)
(* _thread_update_priority changes the priorities of threads in them.      *)
(***************************************************************************)
THEOREM WaitersStaySorted == Disciplined /\ ~Asserts => (Spec => []MostUrgentFirst)
  <1> SUFFICES ASSUME Disciplined, ~Asserts PROVE Spec => []MostUrgentFirst
    OBVIOUS
  <1>1. MutexInv => MostUrgentFirst
    BY NeverHalted, InheritanceMeans
  <1> QED
    BY <1>1, MutexInvariant, PTL

(***************************************************************************)
(* Priority inheritance reaches the end of every chain: once no change is  *)
(* in progress, an owner is as urgent as every thread that waits for it.   *)
(***************************************************************************)
THEOREM OwnersInherit == Disciplined /\ ~Asserts => (Spec => []PriorityIsInherited)
  <1> SUFFICES ASSUME Disciplined, ~Asserts PROVE Spec => []PriorityIsInherited
    OBVIOUS
  <1>1. MutexInv => PriorityIsInherited
    BY NeverHalted, InheritanceMeans
  <1> QED
    BY <1>1, MutexInvariant, PTL

(***************************************************************************)
(* An inherited priority goes back when its wait is over: a thread has its *)
(* own priority or that of a thread that waits for one of its mutexes, if  *)
(* ended waits are wound up at once.                                       *)
(***************************************************************************)
THEOREM InheritanceEnds == Disciplined /\ ~Asserts => (Spec => []PriorityGoesBack)
  <1> SUFFICES ASSUME Disciplined, ~Asserts PROVE Spec => []PriorityGoesBack
    OBVIOUS
  <1>1. MutexInv => PriorityGoesBack
    BY NeverHalted, InheritanceMeans
  <1> QED
    BY <1>1, MutexInvariant, PTL
=============================================================================
