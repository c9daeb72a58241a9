--------------------------- MODULE SchedulerProofs ---------------------------
(***************************************************************************)
(* Proofs about the SMP scheduler, for any number of CPUs, threads and     *)
(* priorities, when threads are deleted with care.                         *)
(***************************************************************************)
EXTENDS Scheduler, KernelListProofs

-----------------------------------------------------------------------------
(* The ready queues *)

RqType == [Queues -> [list : [Prios -> Seq(Threads)], group : SUBSET Prios]]

\* A group bit is set exactly for a list that is not empty, and no thread is linked twice.
RqGood(r) ==
    \A q \in Queues, p \in Prios :
        /\ p \in r[q].group <=> r[q].list[p] # << >>
        /\ Once(r[q].list[p])

\* Thread u is in the list of queue q and priority p of r.
In(r, u, q, p) == InList(r[q].list[p], u)

\* An update of one list and of the group it belongs to.
relisted(r, q, p, l, g) == [r EXCEPT ![q].list[p] = l, ![q].group = g]

\* It leaves everything else alone.
LEMMA Relisted ==
    ASSUME NEW r \in RqType, NEW q \in Queues, NEW p \in Prios,
           NEW l \in Seq(Threads), NEW g \in SUBSET Prios
    PROVE  LET n == relisted(r, q, p, l, g)
           IN  /\ n \in RqType
               /\ n[q].list[p] = l /\ n[q].group = g
               /\ \A k \in Prios : k # p => n[q].list[k] = r[q].list[k]
               /\ \A k \in Queues : k # q => n[k] = r[k]
  <1> DEFINE n == relisted(r, q, p, l, g)
             m == [list |-> [r[q].list EXCEPT ![p] = l], group |-> g]
  <1>1. r[q] \in [list : [Prios -> Seq(Threads)], group : SUBSET Prios]
    BY DEF RqType
  <1>2. m \in [list : [Prios -> Seq(Threads)], group : SUBSET Prios]
    BY <1>1
  <1>3. m.list[p] = l /\ m.group = g /\ \A k \in Prios : k # p => m.list[k] = r[q].list[k]
    BY <1>1
  <1>4. n = [r EXCEPT ![q] = m]
    <2> DEFINE m1 == [r[q] EXCEPT !.list[p] = l]
               n1 == [r EXCEPT ![q] = m1]
    <2>1. m1 = [list |-> [r[q].list EXCEPT ![p] = l], group |-> r[q].group]
      <3>1. PICK L \in [Prios -> Seq(Threads)], G \in SUBSET Prios :
               r[q] = [list |-> L, group |-> G]
        BY <1>1
      <3>2. m1 = [list |-> [L EXCEPT ![p] = l], group |-> G]
        BY <3>1
      <3> QED
        BY <3>1, <3>2
    <2>2. [m1 EXCEPT !.group = g] = m
      <3> DEFINE L == [r[q].list EXCEPT ![p] = l]
      <3> HIDE DEF m1, L
      <3>1. m1 = [list |-> L, group |-> r[q].group]
        BY <2>1 DEF L
      <3>2. [m1 EXCEPT !.group = g] = [list |-> L, group |-> g]
        BY <3>1
      <3> QED
        BY <3>2 DEF L
    <2>3. n1[q] = m1 /\ DOMAIN n1 = Queues
      BY DEF RqType
    <2>4. n = [n1 EXCEPT ![q] = [n1[q] EXCEPT !.group = g]]
      BY DEF relisted
    <2> HIDE DEF m1, m
    <2>5. n = [n1 EXCEPT ![q] = m]
      BY <2>2, <2>3, <2>4
    <2> QED
      BY <2>5 DEF RqType
  <1> HIDE DEF n, m
  <1>5. n \in RqType /\ n[q] = m /\ \A k \in Queues : k # q => n[k] = r[k]
    BY <1>2, <1>4 DEF RqType
  <1> QED
    BY <1>3, <1>5 DEF n

\* rt_schedule_remove_thread takes the thread off its list and clears the bit of a
\* list it leaves empty.
LEMMA RemoveReady ==
    ASSUME NEW r \in RqType, RqGood(r), NEW t \in Threads, Bind[t] \in Queues, prio[t] \in Prios
    PROVE  LET n == remove_ready(r, t)
           IN  /\ n \in RqType /\ RqGood(n)
               /\ \A u \in Threads, q \in Queues, p \in Prios :
                     In(n, u, q, p) <=> In(r, u, q, p) /\ ~(u = t /\ q = Bind[t] /\ p = prio[t])
  <1> DEFINE n == remove_ready(r, t)
             b == Bind[t]
             k == prio[t]
             l == r[b].list[k]
             rest == rt_list_remove(l, t)
             g == IF rest = << >> THEN r[b].group \ {k} ELSE r[b].group
  <1>1. l \in Seq(Threads) /\ Once(l) /\ r[b].group \in SUBSET Prios
    BY DEF RqType, RqGood
  <1> HIDE DEF l
  <1>2. /\ rest \in Seq(Threads) /\ Once(rest)
        /\ \A y : InList(rest, y) <=> InList(l, y) /\ y # t
    BY <1>1, RemovedMembers
  <1>3. n = relisted(r, b, k, rest, g)
    BY DEF remove_ready, relisted, RqType, l
  <1> HIDE DEF n, rest
  <1>4. g \in SUBSET Prios
    BY <1>1
  <1>5. /\ n \in RqType
        /\ n[b].list[k] = rest /\ n[b].group = g
        /\ \A j \in Prios : j # k => n[b].list[j] = r[b].list[j]
        /\ \A j \in Queues : j # b => n[j] = r[j]
    <2> HIDE DEF g, b, k
    <2>1. b \in Queues /\ k \in Prios
      BY DEF b, k
    <2> QED
      BY <1>2, <1>3, <1>4, <2>1, Relisted
  <1>6. rest # << >> => l # << >>
    BY <1>1, <1>2, EmptyOf
  <1>7. RqGood(n)
    <2> SUFFICES ASSUME NEW q \in Queues, NEW p \in Prios
                 PROVE  (p \in n[q].group <=> n[q].list[p] # << >>) /\ Once(n[q].list[p])
      BY DEF RqGood
    <2>1. (p \in r[q].group <=> r[q].list[p] # << >>) /\ Once(r[q].list[p])
      BY DEF RqGood
    <2>2. CASE q = b /\ p = k
      BY <1>2, <1>5, <1>6, <2>1, <2>2 DEF l
    <2>3. CASE q # b
      BY <1>5, <2>1, <2>3
    <2>4. CASE q = b /\ p # k
      BY <1>5, <2>1, <2>4
    <2> QED
      BY <2>2, <2>3, <2>4
  <1>8. ASSUME NEW u \in Threads, NEW q \in Queues, NEW p \in Prios
        PROVE  In(n, u, q, p) <=> In(r, u, q, p) /\ ~(u = t /\ q = b /\ p = k)
    <2>1. CASE q = b /\ p = k
      BY <1>2, <1>5, <2>1 DEF In, l
    <2>2. CASE ~(q = b /\ p = k)
      <3>1. n[q].list[p] = r[q].list[p]
        BY <1>5, <2>2
      <3> QED
        BY <2>2, <3>1 DEF In
    <2> QED
      BY <2>1, <2>2
  <1> QED
    BY <1>5, <1>7, <1>8 DEF n

\* rt_schedule_insert_thread links the thread at one end of a list and sets its bit.
\* The bit of the list it is linked to need not have been right before.
LEMMA InsertReady ==
    ASSUME NEW r \in RqType, NEW t \in Threads, Bind[t] \in Queues, NEW p \in Prios,
           NEW yielded \in BOOLEAN,
           \A q \in Queues, k \in Prios :
              /\ (q # Bind[t] \/ k # p) => (k \in r[q].group <=> r[q].list[k] # << >>)
              /\ Once(r[q].list[k]),
           ~In(r, t, Bind[t], p)
    PROVE  LET n == insert_ready(r, t, p, yielded)
           IN  /\ n \in RqType /\ RqGood(n)
               /\ \A u \in Threads, q \in Queues, k \in Prios :
                     In(n, u, q, k) <=> In(r, u, q, k) \/ (u = t /\ q = Bind[t] /\ k = p)
  <1> DEFINE n == insert_ready(r, t, p, yielded)
             b == Bind[t]
             l == r[b].list[p]
             more == IF yielded THEN Append(l, t) ELSE <<t>> \o l
             g == r[b].group \cup {p}
  <1>1. l \in Seq(Threads) /\ Once(l) /\ r[b].group \in SUBSET Prios /\ ~InList(l, t)
    BY DEF RqType, In
  <1> HIDE DEF l
  <1>2. /\ more \in Seq(Threads) /\ Once(more)
        /\ \A y : InList(more, y) <=> InList(l, y) \/ y = t
    <2>1. CASE yielded
      BY <1>1, <2>1, Appended
    <2>2. CASE ~yielded
      BY <1>1, <2>2, Prepended
    <2> QED
      BY <2>1, <2>2
  <1>3. n = relisted(r, b, p, more, g)
    BY DEF insert_ready, relisted, RqType, l
  <1> HIDE DEF n, more
  <1>4. g \in SUBSET Prios
    BY <1>1
  <1>5. /\ n \in RqType
        /\ n[b].list[p] = more /\ n[b].group = g
        /\ \A j \in Prios : j # p => n[b].list[j] = r[b].list[j]
        /\ \A j \in Queues : j # b => n[j] = r[j]
    <2> HIDE DEF g, b
    <2>1. b \in Queues
      BY DEF b
    <2> QED
      BY <1>2, <1>3, <1>4, <2>1, Relisted
  <1>6. more # << >>
    BY <1>2, EmptyOf
  <1>7. RqGood(n)
    <2> SUFFICES ASSUME NEW q \in Queues, NEW k \in Prios
                 PROVE  (k \in n[q].group <=> n[q].list[k] # << >>) /\ Once(n[q].list[k])
      BY DEF RqGood
    <2>1. /\ (q # b \/ k # p) => (k \in r[q].group <=> r[q].list[k] # << >>)
          /\ Once(r[q].list[k])
      OBVIOUS
    <2>2. CASE q = b /\ k = p
      BY <1>2, <1>5, <1>6, <2>2
    <2>3. CASE q # b
      BY <1>5, <2>1, <2>3
    <2>4. CASE q = b /\ k # p
      BY <1>5, <2>1, <2>4
    <2> QED
      BY <2>2, <2>3, <2>4
  <1>8. ASSUME NEW u \in Threads, NEW q \in Queues, NEW k \in Prios
        PROVE  In(n, u, q, k) <=> In(r, u, q, k) \/ (u = t /\ q = b /\ k = p)
    <2>1. CASE q = b /\ k = p
      BY <1>2, <1>5, <2>1 DEF In, l
    <2>2. CASE ~(q = b /\ k = p)
      <3>1. n[q].list[k] = r[q].list[k]
        BY <1>5, <2>2
      <3> QED
        BY <2>2, <3>1 DEF In
    <2> QED
      BY <2>1, <2>2
  <1> QED
    BY <1>5, <1>7, <1>8 DEF n

-----------------------------------------------------------------------------
(* The inductive invariant *)

\* The threads the ready queues are to hold.
Waiting(t) == stat[t] = "READY" /\ ~BeingDeleted(t)

Listed ==
    \A t \in Threads, q \in Queues, p \in Prios :
        In(rq, t, q, p) <=> Waiting(t) /\ q = Bind[t] /\ p = prio[t]

\* A resume or a delete between its two sections has a target, and no two deletes
\* have the same.
CallsAgree ==
    /\ \A u \in Threads : pc[u] \in {"resume", "delete"} => target[u] \in Threads
    /\ \A u, v \in Threads :
          pc[u] = "delete" /\ pc[v] = "delete" /\ target[u] = target[v] => u = v

\* What a thread may be in: nothing ends the sleep of a thread that is being deleted,
\* and an idle thread neither sleeps nor changes its priority.
ThreadInv(t) ==
    /\ oncpu[t] # None /\ pc[t] # "sched" => stat[t] = "RUNNING"
    /\ timer[t] => stat[t] = "SUSPEND"
    /\ critical[t] > 0 => stat[t] = "RUNNING"
    /\ BeingDeleted(t) => /\ t \notin Idlers /\ oncpu[t] = None /\ ~timer[t]
                          /\ stat[t] \in {"INIT", "READY", "SUSPEND"}
    /\ BeingResumed(t) => /\ t \notin Idlers /\ ~BeingDeleted(t)
                          /\ stat[t] \in {"SUSPEND", "READY", "RUNNING"}
    /\ t \in Idlers => /\ prio[t] = IdlePrio /\ pc[t] = "user"
                       /\ stat[t] \in {"READY", "RUNNING"}

\* CPU c has a rescheduling ahead: requested, announced, left to a later caller, about
\* to be called or kept back by a critical section.
Reschedules(c) ==
    \/ irq_switch_flag[c] \/ ipi[c] \/ owed[c]
    \/ pc[current[c]] = "sched" \/ critical[current[c]] > 0

UrgentAt(c) ==
    current[c] # None /\ ~Reschedules(c) =>
        \A t \in Threads :
            Waiting(t) /\ Bind[t] \in {None, c} => prio[current[c]] <= prio[t]

\* Only a CPU that runs threads takes interrupts.
HandlersRun == \A c \in CPUs : irq[c] # "none" => current[c] # None

SchedInv ==
    /\ TypeOK
    /\ RqGood(rq) /\ Listed
    /\ OneCpuPerThread /\ HandlersRun
    /\ CallsAgree
    /\ \A t \in Threads : ThreadInv(t)
    /\ \A c \in CPUs : UrgentAt(c)

\* The invariant implies what the run checks.
LEMMA SchedInvMeans ==
    SchedInv => /\ TypeOK /\ QueuesHoldReady /\ OneCpuPerThread /\ BlockedDoNotRun
                /\ TimeoutFindsSuspended /\ HighestRuns /\ DeletedIsGone
  <1> SUFFICES ASSUME SchedInv
               PROVE  /\ TypeOK /\ QueuesHoldReady /\ OneCpuPerThread /\ BlockedDoNotRun
                      /\ TimeoutFindsSuspended /\ HighestRuns /\ DeletedIsGone
    OBVIOUS
  <1>1. QueuesHoldReady
    BY DEF SchedInv, RqGood, Listed, QueuesHoldReady, Occurs, In, Waiting
  <1>2. BlockedDoNotRun /\ TimeoutFindsSuspended
    BY DEF SchedInv, ThreadInv, BlockedDoNotRun, TimeoutFindsSuspended
  <1>3. DeletedIsGone
    BY DEF SchedInv, Listed, Waiting, DeletedIsGone, Occurs, In
  <1>4. ASSUME NEW c \in CPUs, Settled(c), NEW t \in Threads,
               stat[t] = "READY", ~BeingDeleted(t), Bind[t] \in {None, c}
        PROVE  prio[current[c]] <= prio[t]
    <2>1. ~Reschedules(c) /\ current[c] # None
      BY <1>4 DEF Settled, Reschedules
    <2> QED
      BY <1>4, <2>1 DEF SchedInv, UrgentAt, Waiting
  <1>5. HighestRuns
    BY <1>4 DEF HighestRuns
  <1> QED
    BY <1>1, <1>2, <1>3, <1>5 DEF SchedInv

\* Types of the constants.
LEMMA Constants ==
    /\ None \notin CPUs /\ None \notin Threads /\ None \in Queues
    /\ \A c \in CPUs : c \in Queues /\ Idle[c] \in Threads /\ Idle[c] \in Idlers
    /\ Idlers \subseteq Threads
    /\ \A t \in Threads : Bind[t] \in Queues
    /\ Prios \subseteq Nat /\ IdlePrio \in Prios /\ 0 \in Prios
    /\ \A p \in Prios : p <= IdlePrio /\ p < IdlePrio + 1
  BY SchedulerAssumption DEF Queues, Idlers, Prios

\* Types of the variables.
LEMMA Types ==
    ASSUME SchedInv
    PROVE  /\ rq \in RqType /\ RqGood(rq) /\ Listed /\ TypeOK
           /\ \A t \in Threads : prio[t] \in Prios /\ prio[t] \in Nat /\ yield[t] \in BOOLEAN
                                 /\ critical[t] \in Nat
           /\ \A c \in CPUs : current[c] # None => current[c] \in Threads
  <1>1. TypeOK /\ RqGood(rq) /\ Listed
    BY DEF SchedInv
  <1>2. rq \in RqType
    BY <1>1 DEF TypeOK, RqType
  <1>3. \A t \in Threads : prio[t] \in Prios /\ prio[t] \in Nat /\ yield[t] \in BOOLEAN
    BY <1>1, Constants DEF TypeOK
  <1>4. \A t \in Threads : critical[t] \in Nat
    BY <1>1, SchedulerAssumption DEF TypeOK
  <1>5. \A c \in CPUs : current[c] # None => current[c] \in Threads
    BY <1>1 DEF TypeOK
  <1> QED
    BY <1>1, <1>2, <1>3, <1>4, <1>5

\* __rt_ffs finds the lowest bit.
LEMMA FindsFirst ==
    ASSUME NEW g \in SUBSET Prios
    PROVE  /\ g = {} => ffs(g) = IdlePrio + 1
           /\ g # {} => ffs(g) \in g /\ \A p \in g : ffs(g) <= p
           /\ ffs(g) \in Nat
  <1>1. CASE g = {}
    BY <1>1, SchedulerAssumption DEF ffs
  <1>2. CASE g # {}
    <2>1. g \in SUBSET Nat
      BY Constants
    <2>2. \E x \in g : \A y \in g : x <= y
      BY <1>2, <2>1, LeastExists
    <2>3. ffs(g) \in g /\ \A p \in g : ffs(g) <= p
      BY <1>2, <2>2 DEF ffs
    <2> QED
      BY <1>2, <2>1, <2>3
  <1> QED
    BY <1>1, <1>2

\* _scheduler_get_highest_priority_thread finds a thread that may run on c, and none
\* that may is more urgent.
LEMMA HighestReady ==
    ASSUME SchedInv, NEW c \in CPUs, anything_ready(c)
    PROVE  LET h == highest_priority_thread(c)
           IN  /\ h \in Threads /\ Waiting(h) /\ Bind[h] \in {None, c}
               /\ prio[h] = highest_ready_priority(c)
               /\ \A u \in Threads : Waiting(u) /\ Bind[u] \in {None, c} => prio[h] <= prio[u]
  <1> DEFINE q == highest_queue(c)
             k == highest_ready_priority(c)
             h == highest_priority_thread(c)
             G(x) == rq[x].group
             l == rq[q].list[k]
  <1>0. c \in Queues /\ None \in Queues
    BY Constants
  <1>1. rq \in RqType /\ RqGood(rq) /\ Listed /\ \A u \in Threads : prio[u] \in Nat /\ prio[u] \in Prios
    BY Types
  <1>2. \A x \in {c, None} :
           /\ G(x) \in SUBSET Prios
           /\ G(x) = {} => ffs(G(x)) = IdlePrio + 1
           /\ G(x) # {} => ffs(G(x)) \in G(x) /\ \A p \in G(x) : ffs(G(x)) <= p
           /\ ffs(G(x)) \in Nat
    BY <1>0, <1>1, FindsFirst DEF RqType
  <1>3. q \in {c, None} /\ ffs(G(q)) <= ffs(G(c)) /\ ffs(G(q)) <= ffs(G(None)) /\ q \in Queues
    BY <1>0, <1>2 DEF highest_queue
  <1>4. k = ffs(G(q))
    BY DEF highest_ready_priority
  <1>5. G(q) # {}
    <2>1. G(c) # {} \/ G(None) # {}
      BY DEF anything_ready
    <2>2. \A p \in Prios : p < IdlePrio + 1 /\ p \in Nat
      BY Constants
    <2>3. IdlePrio + 1 \in Nat
      BY SchedulerAssumption
    <2> HIDE DEF G, q
    <2>4. SUFFICES ASSUME G(q) = {} PROVE FALSE
      OBVIOUS
    <2>5. ffs(G(q)) = IdlePrio + 1
      BY <1>2, <1>3, <2>4
    <2>6. CASE G(c) # {}
      <3>1. ffs(G(c)) < IdlePrio + 1 /\ ffs(G(c)) \in Nat
        BY <1>2, <2>2, <2>6
      <3> QED
        BY <1>3, <2>3, <2>5, <3>1
    <2>7. CASE G(None) # {}
      <3>1. ffs(G(None)) < IdlePrio + 1 /\ ffs(G(None)) \in Nat
        BY <1>2, <2>2, <2>7
      <3> QED
        BY <1>3, <2>3, <2>5, <3>1
    <2> QED
      BY <2>1, <2>6, <2>7
  <1>6. k \in Prios /\ k \in G(q)
    BY <1>2, <1>3, <1>4, <1>5
  <1>7. l \in Seq(Threads) /\ l # << >>
    <2> HIDE DEF q, k
    <2> QED
      BY <1>1, <1>3, <1>6 DEF RqType, RqGood
  <1>8. h = Head(l) /\ h \in Threads /\ InList(l, h)
    <2>1. h = Head(l)
      BY DEF highest_priority_thread
    <2> HIDE DEF h, l
    <2> QED
      BY <1>7, <2>1, TailOf
  <1>9. Waiting(h) /\ q = Bind[h] /\ k = prio[h]
    <2>1. In(rq, h, q, k)
      BY <1>8 DEF In
    <2> HIDE DEF h, q, k
    <2> QED
      BY <1>1, <1>3, <1>6, <1>8, <2>1 DEF Listed
  <1>10. ASSUME NEW u \in Threads, Waiting(u), Bind[u] \in {None, c}
         PROVE  k <= prio[u]
    <2>1. In(rq, u, Bind[u], prio[u]) /\ Bind[u] \in Queues
      BY <1>0, <1>1, <1>10 DEF Listed
    <2>2. rq[Bind[u]].list[prio[u]] \in Seq(Threads)
      BY <1>1, <2>1 DEF RqType
    <2>3. rq[Bind[u]].list[prio[u]] # << >>
      BY <2>1, <2>2, EmptyOf DEF In
    <2>4. prio[u] \in G(Bind[u])
      BY <1>1, <2>1, <2>3 DEF RqGood
    <2>5. ffs(G(Bind[u])) <= prio[u] /\ ffs(G(Bind[u])) \in Nat
      <3> HIDE DEF G
      <3> QED
        BY <1>2, <1>10, <2>4
    <2>6. k <= ffs(G(Bind[u])) /\ k \in Nat
      <3> HIDE DEF G, k, q
      <3> QED
        BY <1>2, <1>3, <1>4, <1>10
    <2> HIDE DEF G, k
    <2> QED
      BY <1>1, <2>5, <2>6
  <1> HIDE DEF h, k, q
  <1>11. \A u \in Threads : Waiting(u) /\ Bind[u] \in {None, c} => prio[h] <= prio[u]
    BY <1>9, <1>10
  <1>12. Bind[h] \in {None, c}
    BY <1>3, <1>9
  <1> QED
    BY <1>8, <1>9, <1>11, <1>12 DEF h, k

-----------------------------------------------------------------------------
(* The initial state *)

\* A list of one thread.
LEMMA OneListed ==
    ASSUME NEW x \in Threads
    PROVE  <<x>> \in Seq(Threads) /\ <<x>> # << >> /\ Once(<<x>>)
           /\ \A y : InList(<<x>>, y) <=> y = x
  <1>1. << >> \in Seq(Threads) /\ <<x>> = <<x>> \o << >>
    OBVIOUS
  <1>2. Once(<< >>) /\ \A y : ~InList(<< >>, y)
    BY NothingListed
  <1>3. <<x>> \in Seq(Threads) /\ Len(<<x>>) = 1 /\ <<x>>[1] = x /\ Len(<< >>) = 0
    OBVIOUS
  <1> DEFINE s == <<x>>
  <1> HIDE DEF s
  <1>4. s \in Seq(Threads) /\ Len(s) = 1 /\ s[1] = x /\ Len(<< >>) = 0
    BY <1>3 DEF s
  <1>5. s # << >>
    BY <1>4, EmptySeq
  <1>6. Once(s)
    BY <1>4 DEF Once
  <1>7. \A y : InList(s, y) <=> y = x
    BY <1>4 DEF InList
  <1> QED
    BY <1>4, <1>5, <1>6, <1>7 DEF s

\* The threads rtthread_startup makes ready differ in queue or priority.
LEMMA BootDiffers ==
    ASSUME NEW t \in BootReady, NEW u \in BootReady,
           Bind[t] = Bind[u], InitPrio[t] = InitPrio[u]
    PROVE  t = u
  <1>1. CASE t \in Idlers /\ u \in Idlers
    BY <1>1, SchedulerAssumption DEF Idlers
  <1>2. CASE t \in Idlers /\ u = Main
    BY <1>2, SchedulerAssumption DEF Idlers
  <1>3. CASE u \in Idlers /\ t = Main
    BY <1>3, SchedulerAssumption DEF Idlers
  <1> QED
    BY <1>1, <1>2, <1>3 DEF BootReady

\* The invariant holds when the scheduler is started.
LEMMA SchedInitially == Init => SchedInv
  <1> SUFFICES ASSUME Init PROVE SchedInv
    OBVIOUS
  <1> DEFINE Here(q, p) == {t \in BootReady : Bind[t] = q /\ prio[t] = p}
  <1>0. BootReady \subseteq Threads /\ prio = InitPrio /\ InitPrio \in [Threads -> Prios]
    BY SchedulerAssumption DEF BootReady, Idlers, Init
  <1>1. rq = [q \in Queues |->
                 [list |-> [p \in Prios |-> IF Here(q, p) = {} THEN << >>
                                            ELSE <<CHOOSE t \in Here(q, p) : TRUE>>],
                  group |-> {p \in Prios : Here(q, p) # {}}]]
    BY DEF Init
  <1>2. \A q \in Queues, p \in Prios :
           /\ rq[q].list[p] = IF Here(q, p) = {} THEN << >> ELSE <<CHOOSE t \in Here(q, p) : TRUE>>
           /\ p \in rq[q].group <=> Here(q, p) # {}
    BY <1>1
  <1>3. ASSUME NEW q \in Queues, NEW p \in Prios
        PROVE  /\ rq[q].list[p] \in Seq(Threads)
               /\ p \in rq[q].group <=> rq[q].list[p] # << >>
               /\ Once(rq[q].list[p])
               /\ \A t \in Threads : InList(rq[q].list[p], t) <=> t \in Here(q, p)
    <2>1. CASE Here(q, p) = {}
      <3>1. rq[q].list[p] = << >> /\ p \notin rq[q].group
        BY <1>2, <2>1
      <3>2. \A t \in Threads : t \notin Here(q, p)
        BY <2>1
      <3> HIDE DEF Here
      <3> QED
        BY <3>1, <3>2, NothingListed
    <2>2. CASE Here(q, p) # {}
      <3> DEFINE x == CHOOSE t \in Here(q, p) : TRUE
      <3>1. x \in Here(q, p)
        BY <2>2
      <3>2. x \in Threads /\ x \in BootReady /\ Bind[x] = q /\ InitPrio[x] = p
        BY <1>0, <3>1
      <3>3. rq[q].list[p] = <<x>> /\ p \in rq[q].group
        BY <1>2, <2>2
      <3> HIDE DEF x
      <3>4. \A t \in Threads : t \in Here(q, p) <=> t = x
        BY <1>0, <3>1, <3>2, BootDiffers
      <3> QED
        BY <3>2, <3>3, <3>4, OneListed
    <2> QED
      BY <2>1, <2>2
  <1>4. rq \in RqType
    <2> DEFINE L(q) == [p \in Prios |-> IF Here(q, p) = {} THEN << >>
                                        ELSE <<CHOOSE t \in Here(q, p) : TRUE>>]
               G(q) == {p \in Prios : Here(q, p) # {}}
    <2>1. ASSUME NEW q \in Queues
          PROVE  L(q) \in [Prios -> Seq(Threads)] /\ G(q) \in SUBSET Prios
      <3>1. \A p \in Prios : (IF Here(q, p) = {} THEN << >>
                              ELSE <<CHOOSE t \in Here(q, p) : TRUE>>) \in Seq(Threads)
        <4> SUFFICES ASSUME NEW p \in Prios
                     PROVE  (IF Here(q, p) = {} THEN << >>
                             ELSE <<CHOOSE t \in Here(q, p) : TRUE>>) \in Seq(Threads)
          OBVIOUS
        <4>1. rq[q].list[p] = IF Here(q, p) = {} THEN << >> ELSE <<CHOOSE t \in Here(q, p) : TRUE>>
          BY <1>2
        <4>2. rq[q].list[p] \in Seq(Threads)
          BY <1>3
        <4> HIDE DEF Here
        <4> QED
          BY <4>1, <4>2
      <3> QED
        BY <3>1
    <2>2. rq = [q \in Queues |-> [list |-> L(q), group |-> G(q)]]
      BY <1>1
    <2> HIDE DEF L, G
    <2> QED
      BY <2>1, <2>2 DEF RqType
  <1>5. RqGood(rq)
    BY <1>3 DEF RqGood
  <1>6. \A t \in Threads : ~BeingDeleted(t) /\ ~BeingResumed(t)
    BY DEF Init, BeingDeleted, BeingResumed
  <1>7. \A t \in Threads : stat[t] = IF t \in BootReady THEN "READY" ELSE "INIT"
    BY DEF Init
  <1>8. Listed
    <2> SUFFICES ASSUME NEW t \in Threads, NEW q \in Queues, NEW p \in Prios
                 PROVE  In(rq, t, q, p) <=> Waiting(t) /\ q = Bind[t] /\ p = prio[t]
      BY DEF Listed
    <2>1. In(rq, t, q, p) <=> t \in Here(q, p)
      BY <1>3 DEF In
    <2>2. Waiting(t) <=> t \in BootReady
      BY <1>6, <1>7 DEF Waiting
    <2> QED
      BY <2>1, <2>2
  <1>9. TypeOK
    <2>1. /\ stat \in [Threads -> Stats]
          /\ prio \in [Threads -> Prios]
          /\ rq \in [Queues -> [list : [Prios -> Seq(Threads)], group : SUBSET Prios]]
      BY <1>0, <1>4 DEF Init, Stats, RqType
    <2>2. /\ remaining_tick \in [Threads -> 1 .. InitTick]
          /\ critical \in [Threads -> 0 .. MaxCritical]
      BY SchedulerAssumption DEF Init
    <2> QED
      BY <2>1, <2>2 DEF Init, TypeOK
  <1>10. OneCpuPerThread /\ HandlersRun
    BY <1>7, SchedulerAssumption DEF Init, OneCpuPerThread, HandlersRun
  <1>11. CallsAgree
    BY DEF Init, CallsAgree
  <1>12. ASSUME NEW t \in Threads PROVE ThreadInv(t)
    <2>1. oncpu[t] = None /\ ~timer[t] /\ critical[t] = 0 /\ pc[t] = "user"
      BY DEF Init
    <2>2. t \in Idlers => prio[t] = IdlePrio /\ stat[t] = "READY"
      BY <1>0, <1>7, SchedulerAssumption DEF Idlers, BootReady
    <2> QED
      BY <1>6, <2>1, <2>2 DEF ThreadInv
  <1>13. \A c \in CPUs : UrgentAt(c)
    BY DEF Init, UrgentAt
  <1> QED
    BY <1>5, <1>8, <1>9, <1>10, <1>11, <1>12, <1>13 DEF SchedInv

-----------------------------------------------------------------------------
(* What a step does to the queues *)

\* The step begins and ends no delete.
SameDeletes == \A t \in Threads : BeingDeleted(t)' <=> BeingDeleted(t)

\* CPU c goes from its thread to thread `to`, which may be the same.
SwitchedTo(c, to) ==
    /\ \/ to = current[c] /\ stat[to] = "RUNNING"
       \/ to # current[c] /\ Waiting(to) /\ Bind[to] \in {None, c}
    /\ stat' = [u \in Threads |-> IF u = to THEN "RUNNING"
                                  ELSE IF u = current[c] /\ stat[u] = "RUNNING" THEN "READY"
                                  ELSE stat[u]]
    /\ oncpu' = [u \in Threads |-> IF u = to THEN c ELSE IF u = current[c] THEN None
                                   ELSE oncpu[u]]
    /\ current' = [current EXCEPT ![c] = to]
    /\ owed' = [owed EXCEPT ![c] = FALSE]
    /\ \A u \in Threads : Waiting(u)' /\ Bind[u] \in {None, c} => prio[to] <= prio[u]

\* Where a thread was before it was taken off or put into a queue, r being the queues
\* in between.
LEMMA TakenOff ==
    ASSUME SchedInv, NEW to \in Threads, Waiting(to), NEW r \in RqType, RqGood(r),
           \A u \in Threads, q \in Queues, p \in Prios :
              u = to => (In(r, u, q, p) <=> q = Bind[to] /\ p = prio[to])
    PROVE  /\ remove_ready(r, to) \in RqType /\ RqGood(remove_ready(r, to))
           /\ \A u \in Threads, q \in Queues, p \in Prios :
                 In(remove_ready(r, to), u, q, p) <=> In(r, u, q, p) /\ u # to
  <1>1. Bind[to] \in Queues /\ prio[to] \in Prios
    BY Constants, Types
  <1> DEFINE n == remove_ready(r, to)
  <1>2. /\ n \in RqType /\ RqGood(n)
        /\ \A u \in Threads, q \in Queues, p \in Prios :
              In(n, u, q, p) <=> In(r, u, q, p) /\ ~(u = to /\ q = Bind[to] /\ p = prio[to])
    BY <1>1, RemoveReady
  <1> HIDE DEF n
  <1>3. \A u \in Threads, q \in Queues, p \in Prios : In(n, u, q, p) <=> In(r, u, q, p) /\ u # to
    BY <1>2
  <1> QED
    BY <1>2, <1>3 DEF n

\* A thread that waits in no queue is put into its own.
LEMMA PutIn ==
    ASSUME SchedInv, NEW t \in Threads, ~Waiting(t), NEW y \in BOOLEAN
    PROVE  LET n == insert_ready(rq, t, prio[t], y)
           IN  /\ n \in RqType /\ RqGood(n)
               /\ \A u \in Threads, q \in Queues, p \in Prios :
                     In(n, u, q, p) <=> (Waiting(u) \/ u = t) /\ q = Bind[u] /\ p = prio[u]
  <1> DEFINE n == insert_ready(rq, t, prio[t], y)
  <1>1. Bind[t] \in Queues /\ prio[t] \in Prios /\ rq \in RqType /\ RqGood(rq) /\ Listed
    BY Constants, Types
  <1>2. ~In(rq, t, Bind[t], prio[t])
    BY <1>1 DEF Listed
  <1>3. \A q \in Queues, k \in Prios :
           /\ (q # Bind[t] \/ k # prio[t]) => (k \in rq[q].group <=> rq[q].list[k] # << >>)
           /\ Once(rq[q].list[k])
    BY <1>1 DEF RqGood
  <1>4. /\ n \in RqType /\ RqGood(n)
        /\ \A u \in Threads, q \in Queues, k \in Prios :
              In(n, u, q, k) <=> In(rq, u, q, k) \/ (u = t /\ q = Bind[t] /\ k = prio[t])
    BY <1>1, <1>2, <1>3, InsertReady
  <1> HIDE DEF n
  <1>5. \A u \in Threads, q \in Queues, p \in Prios :
           In(n, u, q, p) <=> (Waiting(u) \/ u = t) /\ q = Bind[u] /\ p = prio[u]
    BY <1>1, <1>4 DEF Listed
  <1> QED
    BY <1>4, <1>5 DEF n

\* The choice of rt_schedule and rt_scheduler_do_irq_switch.
LEMMA Switches ==
    ASSUME SchedInv, NEW c \in CPUs, current[c] # None, anything_ready(c),
           NEW y \in BOOLEAN, switch(c, y), prio' = prio, SameDeletes
    PROVE  /\ \E to \in Threads : SwitchedTo(c, to)
           /\ rq' \in RqType /\ RqGood(rq') /\ Listed'
           /\ ipi' \in [CPUs -> BOOLEAN]
           /\ \A d \in CPUs : ipi[d] => ipi'[d]
           /\ \A d \in CPUs, u \in Threads :
                 d # c /\ Waiting(u)' /\ ~Waiting(u) /\ Bind[u] \in {None, d} => ipi'[d]
  <1> DEFINE t == current[c]
             hp == highest_ready_priority(c)
             h == highest_priority_thread(c)
             keep == keeps_cpu(t, hp, y)
             to == IF keep THEN t ELSE h
             requeue == stat[t] = "RUNNING" /\ ~keep
             r == IF requeue THEN insert_ready(rq, t, prio[t], y) ELSE rq
  <1>1. /\ t \in Threads /\ rq \in RqType /\ RqGood(rq) /\ Listed
        /\ \A u \in Threads : prio[u] \in Nat /\ prio[u] \in Prios
        /\ TypeOK
    BY Types
  <1>2. oncpu[t] = c /\ c # None
    BY <1>1, Constants DEF SchedInv, OneCpuPerThread
  <1>3. ~Waiting(t)
    BY <1>1, <1>2 DEF SchedInv, OneCpuPerThread, Waiting
  <1>4. /\ h \in Threads /\ Waiting(h) /\ Bind[h] \in {None, c} /\ prio[h] = hp
        /\ \A u \in Threads : Waiting(u) /\ Bind[u] \in {None, c} => prio[h] <= prio[u]
    BY HighestReady
  <1>5. h # t
    BY <1>3, <1>4
  <1>6. /\ rq' = IF to # t THEN remove_ready(r, to) ELSE r
        /\ stat' = [u \in Threads |-> IF u = to THEN (IF to = t THEN stat[t] ELSE "RUNNING")
                                      ELSE IF u = t /\ requeue THEN "READY"
                                      ELSE stat[u]]
        /\ oncpu' = [u \in Threads |-> IF u = to THEN c ELSE IF u = t THEN None ELSE oncpu[u]]
        /\ ipi' = [d \in CPUs |-> ipi[d] \/ (requeue /\ d \in ipi_targets(c, t))]
        /\ current' = [current EXCEPT ![c] = to]
        /\ owed' = [owed EXCEPT ![c] = FALSE]
    BY DEF switch
  <1> HIDE DEF h, hp, t
  <1>7. keep => stat[t] = "RUNNING" /\ prio[t] <= hp
    BY <1>1, <1>4 DEF keeps_cpu
  <1>8. stat[t] = "RUNNING" /\ ~keep => hp <= prio[t]
    BY <1>1, <1>4 DEF keeps_cpu
  <1> HIDE DEF keep
  <1>9. CASE keep
    <2>1. to = t /\ ~requeue /\ r = rq
      BY <1>9
    <2>2. rq' = rq
      BY <1>6, <2>1
    <2>3. stat' = stat
      BY <1>1, <1>6, <2>1 DEF TypeOK
    <2>4. ipi' = ipi
      BY <1>1, <1>6, <2>1 DEF TypeOK
    <2>5. \A u \in Threads : Waiting(u)' <=> Waiting(u)
      BY <2>3 DEF Waiting, SameDeletes
    <2>6. Listed'
      BY <1>1, <2>2, <2>5 DEF Listed
    <2>7. \A u \in Threads : Waiting(u)' /\ Bind[u] \in {None, c} => prio[t] <= prio[u]
      BY <1>1, <1>4, <1>7, <1>9, <2>5
    <2>8. SwitchedTo(c, t)
      <3>1. stat' = [u \in Threads |-> IF u = t THEN "RUNNING"
                                       ELSE IF u = current[c] /\ stat[u] = "RUNNING" THEN "READY"
                                       ELSE stat[u]]
        BY <1>6, <1>7, <1>9, <2>1 DEF t
      <3>2. oncpu' = [u \in Threads |-> IF u = t THEN c ELSE IF u = current[c] THEN None
                                        ELSE oncpu[u]]
        BY <1>6, <2>1 DEF t
      <3> QED
        BY <1>6, <1>7, <1>9, <2>1, <2>7, <3>1, <3>2 DEF SwitchedTo, t
    <2> QED
      BY <1>1, <2>2, <2>4, <2>5, <2>6, <2>8 DEF TypeOK
  <1>10. CASE ~keep
    <2>1. to = h
      BY <1>10
    <2>2. stat' = [u \in Threads |-> IF u = h THEN "RUNNING"
                                     ELSE IF u = t /\ stat[u] = "RUNNING" THEN "READY"
                                     ELSE stat[u]]
      BY <1>5, <1>6, <1>10, <2>1
    <2>3. rq' = remove_ready(r, h)
      BY <1>5, <1>6, <2>1
    <2>4. /\ r \in RqType /\ RqGood(r)
          /\ \A u \in Threads, q \in Queues, p \in Prios :
                In(r, u, q, p) <=> (Waiting(u) \/ (u = t /\ stat[t] = "RUNNING"))
                                   /\ q = Bind[u] /\ p = prio[u]
      <3>1. CASE stat[t] = "RUNNING"
        BY <1>1, <1>3, <1>10, <3>1, PutIn
      <3>2. CASE stat[t] # "RUNNING"
        BY <1>1, <3>2 DEF Listed
      <3> QED
        BY <3>1, <3>2
    <2> HIDE DEF r
    <2>5. /\ rq' \in RqType /\ RqGood(rq')
          /\ \A u \in Threads, q \in Queues, p \in Prios :
                In(rq', u, q, p) <=> In(r, u, q, p) /\ u # h
      BY <1>4, <2>3, <2>4, TakenOff
    <2>6. ~BeingDeleted(t)
      BY <1>1, <1>2 DEF SchedInv, ThreadInv
    <2>7. \A u \in Threads :
             Waiting(u)' <=> u # h /\ (Waiting(u) \/ (u = t /\ stat[t] = "RUNNING"))
      BY <1>3, <2>2, <2>6 DEF Waiting, SameDeletes
    <2>8. Listed'
      BY <2>4, <2>5, <2>7 DEF Listed
    <2>9. \A u \in Threads : Waiting(u)' /\ Bind[u] \in {None, c} => prio[h] <= prio[u]
      BY <1>1, <1>4, <1>8, <1>10, <2>7
    <2>10. SwitchedTo(c, h)
      BY <1>4, <1>5, <1>6, <2>1, <2>2, <2>9 DEF SwitchedTo, t
    <2>11. ipi' \in [CPUs -> BOOLEAN] /\ \A d \in CPUs : ipi[d] => ipi'[d]
      BY <1>1, <1>6 DEF TypeOK
    <2>12. ASSUME NEW d \in CPUs, NEW u \in Threads, d # c, Waiting(u)', ~Waiting(u),
                  Bind[u] \in {None, d}
           PROVE  ipi'[d]
      <3>1. u = t /\ stat[t] = "RUNNING"
        BY <2>7, <2>12
      <3>2. d \in ipi_targets(c, t)
        BY <2>12, <3>1 DEF ipi_targets
      <3> QED
        BY <1>6, <1>10, <3>1, <3>2
    <2> QED
      BY <1>4, <2>5, <2>8, <2>10, <2>11, <2>12
  <1> QED
    BY <1>9, <1>10

\* The step begins and ends no resume.
SameResumes == \A t \in Threads : BeingResumed(t)' <=> BeingResumed(t)

\* A thread goes from one place to another, neither of which is between the two
\* sections of a resume or a delete.
LEMMA CallsStay ==
    ASSUME SchedInv, NEW u \in Threads, pc[u] \in {"user", "sched"},
           NEW x \in {"user", "sched"}, pc' = [pc EXCEPT ![u] = x] \/ pc' = pc, target' = target
    PROVE  /\ SameDeletes /\ SameResumes /\ CallsAgree'
           /\ pc' \in [Threads -> {"user", "sched", "resume", "delete"}]
           /\ \A v \in Threads : v # u => pc'[v] = pc[v]
  <1>1. pc \in [Threads -> {"user", "sched", "resume", "delete"}] /\ CallsAgree
    BY DEF SchedInv, TypeOK
  <1>2. \A v \in Threads : /\ pc'[v] = "delete" <=> pc[v] = "delete"
                           /\ pc'[v] = "resume" <=> pc[v] = "resume"
                           /\ v # u => pc'[v] = pc[v]
    BY <1>1
  <1>3. SameDeletes
    BY <1>2 DEF SameDeletes, BeingDeleted
  <1>4. SameResumes
    BY <1>2 DEF SameResumes, BeingResumed
  <1>5. CallsAgree'
    BY <1>1, <1>2 DEF CallsAgree
  <1> QED
    BY <1>1, <1>2, <1>3, <1>4, <1>5

\* The idle thread of a CPU is on it or ready.
LEMMA IdleReady ==
    ASSUME SchedInv, NEW c \in CPUs, current[c] # Idle[c]
    PROVE  anything_ready(c)
  <1> DEFINE i == Idle[c]
  <1>1. i \in Threads /\ i \in Idlers /\ Bind[i] = c /\ c \in Queues /\ c # None
    BY Constants, SchedulerAssumption
  <1>2. ThreadInv(i) /\ OneCpuPerThread /\ rq \in RqType /\ RqGood(rq) /\ Listed
    BY <1>1, Types DEF SchedInv
  <1>3. oncpu[i] = None \/ oncpu[i] = c
    BY <1>1, <1>2 DEF OneCpuPerThread
  <1>4. oncpu[i] # c
    BY <1>1, <1>2 DEF OneCpuPerThread
  <1>5. stat[i] = "READY" /\ ~BeingDeleted(i) /\ prio[i] = IdlePrio
    BY <1>1, <1>2, <1>3, <1>4 DEF ThreadInv, OneCpuPerThread
  <1>6. In(rq, i, c, IdlePrio) /\ IdlePrio \in Prios
    BY <1>1, <1>2, <1>5, Constants DEF Listed, Waiting
  <1>7. rq[c].list[IdlePrio] \in Seq(Threads)
    BY <1>1, <1>2, <1>6 DEF RqType
  <1>8. rq[c].list[IdlePrio] # << >>
    <2> HIDE DEF i
    <2> QED
      BY <1>1, <1>6, <1>7, EmptyOf DEF In
  <1>9. IdlePrio \in rq[c].group
    BY <1>1, <1>2, <1>6, <1>8 DEF RqGood
  <1> QED
    BY <1>9 DEF anything_ready

\* A step that leaves the threads where they are.
LEMMA Bookkeeping ==
    ASSUME SchedInv, UNCHANGED <<stat, oncpu, prio, timer, rq, current>>,
           TypeOK', CallsAgree', SameDeletes, SameResumes,
           \A t \in Threads : /\ pc[t] = "sched" /\ pc'[t] # "sched" => stat[t] = "RUNNING"
                              /\ critical'[t] > 0 => stat[t] = "RUNNING"
                              /\ t \in Idlers => pc'[t] = "user",
           \A d \in CPUs : irq'[d] # "none" => current[d] # None,
           \A d \in CPUs : current[d] # None /\ Reschedules(d) =>
              \/ Reschedules(d)'
              \/ \A u \in Threads : Waiting(u) => Bind[u] \notin {None, d}
    PROVE  SchedInv'
  <1>1. \A t \in Threads : Waiting(t)' <=> Waiting(t)
    BY DEF Waiting, SameDeletes
  <1>2. RqGood(rq)' /\ Listed'
    BY <1>1 DEF SchedInv, RqGood, Listed
  <1>3. OneCpuPerThread' /\ HandlersRun'
    BY DEF SchedInv, OneCpuPerThread, HandlersRun
  <1>4. ASSUME NEW t \in Threads PROVE ThreadInv(t)'
    <2>1. ThreadInv(t)
      BY DEF SchedInv
    <2> QED
      BY <2>1 DEF ThreadInv, SameDeletes, SameResumes
  <1>5. ASSUME NEW d \in CPUs PROVE UrgentAt(d)'
    <2>1. UrgentAt(d)
      BY DEF SchedInv
    <2> QED
      BY <1>1, <2>1 DEF UrgentAt
  <1> QED
    BY <1>2, <1>3, <1>4, <1>5 DEF SchedInv

\* A switch on CPU c, made where the thread is not in a critical section.
LEMMA SwitchKeeps ==
    ASSUME SchedInv, NEW c \in CPUs, current[c] # None, anything_ready(c),
           NEW y \in BOOLEAN, switch(c, y),
           critical[current[c]] = 0,
           UNCHANGED <<prio, timer, critical, target>>,
           \/ pc' = pc
           \/ pc[current[c]] = "sched" /\ pc' = [pc EXCEPT ![current[c]] = "user"],
           remaining_tick' \in [Threads -> 1 .. InitTick],
           irq' \in [CPUs -> {"none", "tick", "leave"}],
           irq_switch_flag' \in [CPUs -> BOOLEAN],
           \A d \in CPUs : d # c => irq_switch_flag'[d] = irq_switch_flag[d] /\ irq'[d] = irq[d]
    PROVE  SchedInv'
  <1> DEFINE t == current[c]
  <1>0. t \in Threads /\ TypeOK /\ OneCpuPerThread /\ CallsAgree
    BY Types DEF SchedInv
  <1>1. /\ SameDeletes /\ SameResumes /\ CallsAgree'
        /\ pc' \in [Threads -> {"user", "sched", "resume", "delete"}]
        /\ \A v \in Threads : v # t => pc'[v] = pc[v]
    <2>1. CASE pc' = pc
      <3>1. SameDeletes /\ SameResumes /\ CallsAgree'
        BY <1>0, <2>1 DEF SameDeletes, SameResumes, BeingDeleted, BeingResumed, CallsAgree
      <3> QED
        BY <1>0, <2>1, <3>1 DEF TypeOK
    <2>2. CASE pc[t] = "sched" /\ pc' = [pc EXCEPT ![t] = "user"]
      BY <1>0, <2>2, CallsStay
    <2> QED
      BY <2>1, <2>2
  <1>2. /\ rq' \in RqType /\ RqGood(rq') /\ Listed'
        /\ ipi' \in [CPUs -> BOOLEAN]
        /\ \A d \in CPUs : ipi[d] => ipi'[d]
        /\ \A d \in CPUs, u \in Threads :
              d # c /\ Waiting(u)' /\ ~Waiting(u) /\ Bind[u] \in {None, d} => ipi'[d]
    BY <1>1, Switches
  <1>3. PICK to \in Threads : SwitchedTo(c, to)
    BY <1>1, Switches
  <1>4. /\ \/ to = t /\ stat[to] = "RUNNING"
           \/ to # t /\ Waiting(to) /\ Bind[to] \in {None, c}
        /\ stat' = [u \in Threads |-> IF u = to THEN "RUNNING"
                                      ELSE IF u = t /\ stat[u] = "RUNNING" THEN "READY"
                                      ELSE stat[u]]
        /\ oncpu' = [u \in Threads |-> IF u = to THEN c ELSE IF u = t THEN None ELSE oncpu[u]]
        /\ current' = [current EXCEPT ![c] = to]
        /\ owed' = [owed EXCEPT ![c] = FALSE]
        /\ \A u \in Threads : Waiting(u)' /\ Bind[u] \in {None, c} => prio[to] <= prio[u]
    BY <1>3 DEF SwitchedTo
  <1>5. oncpu[t] = c /\ c # None /\ ~Waiting(t)
    BY <1>0, Constants DEF OneCpuPerThread, Waiting
  <1>6. TypeOK'
    <2>1. stat' \in [Threads -> Stats] /\ oncpu' \in [Threads -> CPUs \cup {None}]
      BY <1>0, <1>4 DEF TypeOK, Stats
    <2>2. current' \in [CPUs -> Threads \cup {None}] /\ owed' \in [CPUs -> BOOLEAN]
      BY <1>0, <1>4 DEF TypeOK
    <2>3. yield' \in [Threads -> BOOLEAN]
      BY <1>0 DEF switch, TypeOK
    <2>4. /\ prio' \in [Threads -> Prios] /\ timer' \in [Threads -> BOOLEAN]
          /\ critical' \in [Threads -> 0 .. MaxCritical]
          /\ target' \in [Threads -> Threads \cup {None}]
      BY <1>0 DEF TypeOK
    <2> QED
      BY <1>1, <1>2, <2>1, <2>2, <2>3, <2>4 DEF TypeOK, RqType
  <1>7. to # t => stat[to] = "READY" /\ oncpu[to] = None /\ ~BeingDeleted(to)
    BY <1>0, <1>4 DEF Waiting, OneCpuPerThread
  <1>8. OneCpuPerThread'
    <2>1. ASSUME NEW d \in CPUs, NEW u \in Threads PROVE current'[d] = u <=> oncpu'[u] = d
      <3>1. current[d] = u <=> oncpu[u] = d
        BY <1>0 DEF OneCpuPerThread
      <3>2. current'[d] = IF d = c THEN to ELSE current[d]
        BY <1>0, <1>4 DEF TypeOK
      <3>3. oncpu'[u] = IF u = to THEN c ELSE IF u = t THEN None ELSE oncpu[u]
        BY <1>4
      <3>4. d # None
        BY Constants
      <3> QED
        BY <1>5, <1>7, <3>1, <3>2, <3>3, <3>4
    <2>2. ASSUME NEW u \in Threads
          PROVE  /\ stat'[u] = "RUNNING" => oncpu'[u] # None
                 /\ stat'[u] \in {"INIT", "READY"} => oncpu'[u] = None
                 /\ oncpu'[u] # None /\ Bind[u] # None => oncpu'[u] = Bind[u]
      <3>1. /\ stat[u] = "RUNNING" => oncpu[u] # None
            /\ stat[u] \in {"INIT", "READY"} => oncpu[u] = None
            /\ oncpu[u] # None /\ Bind[u] # None => oncpu[u] = Bind[u]
        BY <1>0 DEF OneCpuPerThread
      <3>2. CASE u = to
        BY <1>4, <1>5, <3>1, <3>2
      <3>3. CASE u # to /\ u = t
        BY <1>4, <3>1, <3>3
      <3>4. CASE u # to /\ u # t
        BY <1>4, <3>1, <3>4
      <3> QED
        BY <3>2, <3>3, <3>4
    <2> QED
      BY <2>1, <2>2 DEF OneCpuPerThread
  <1>9. ASSUME NEW u \in Threads PROVE ThreadInv(u)'
    <2>1. ThreadInv(u) /\ ThreadInv(t)
      BY <1>0 DEF SchedInv
    <2>2. /\ stat'[u] = IF u = to THEN "RUNNING"
                        ELSE IF u = t /\ stat[u] = "RUNNING" THEN "READY" ELSE stat[u]
          /\ oncpu'[u] = IF u = to THEN c ELSE IF u = t THEN None ELSE oncpu[u]
      BY <1>4
    <2>3. (BeingDeleted(u)' <=> BeingDeleted(u)) /\ (BeingResumed(u)' <=> BeingResumed(u))
      BY <1>1 DEF SameDeletes, SameResumes
    <2>4. u \in Idlers => pc'[u] = "user"
      <3>1. u \in Idlers => pc[u] = "user"
        BY <2>1 DEF ThreadInv
      <3> QED
        BY <1>0, <3>1 DEF TypeOK
    <2>5. CASE u = to
      <3>1. ~BeingDeleted(u) /\ ~timer[u]
        <4>1. CASE to = t
          BY <1>4, <1>5, <2>1, <2>5, <4>1 DEF ThreadInv
        <4>2. CASE to # t
          BY <1>7, <2>1, <2>5, <4>2 DEF ThreadInv
        <4> QED
          BY <4>1, <4>2
      <3> QED
        BY <2>1, <2>2, <2>3, <2>4, <2>5, <3>1 DEF ThreadInv
    <2>6. CASE u # to /\ u = t
      <3>1. ~BeingDeleted(u) /\ critical[u] = 0
        BY <1>5, <2>1, <2>6 DEF ThreadInv
      <3>2. ~(critical[u] > 0)
        BY <3>1
      <3> HIDE DEF t
      <3> QED
        BY <2>1, <2>2, <2>3, <2>4, <2>6, <3>1, <3>2 DEF ThreadInv
    <2>7. CASE u # to /\ u # t
      <3> HIDE DEF t
      <3>1. stat'[u] = stat[u] /\ oncpu'[u] = oncpu[u] /\ pc'[u] = pc[u]
        BY <1>1, <2>2, <2>7
      <3> QED
        BY <2>1, <2>3, <2>4, <3>1 DEF ThreadInv
    <2> QED
      BY <2>5, <2>6, <2>7
  <1>10. ASSUME NEW d \in CPUs PROVE UrgentAt(d)'
    <2>1. UrgentAt(d)
      BY DEF SchedInv
    <2>2. current'[d] = IF d = c THEN to ELSE current[d]
      BY <1>0, <1>4 DEF TypeOK
    <2>3. CASE d = c
      BY <1>4, <2>2, <2>3 DEF UrgentAt
    <2>4. CASE d # c
      <3>1. current'[d] = current[d] /\ (current[d] # None => current[d] \in Threads /\ current[d] # t)
        BY <1>0, <1>5, <2>2, <2>4 DEF TypeOK, OneCpuPerThread
      <3>2. owed'[d] = owed[d] /\ irq_switch_flag'[d] = irq_switch_flag[d] /\ (ipi[d] => ipi'[d])
        BY <1>0, <1>2, <1>4, <2>4 DEF TypeOK
      <3>3. current[d] # None => (Reschedules(d) => Reschedules(d)')
        <4> HIDE DEF t
        <4> QED
          BY <1>1, <3>1, <3>2 DEF Reschedules
      <3>4. ASSUME current[d] # None, ~Reschedules(d)', NEW u \in Threads, Waiting(u)',
                   Bind[u] \in {None, d}
            PROVE  prio[current[d]] <= prio[u]
        <4>1. ~ipi'[d]
          BY <3>4 DEF Reschedules
        <4>2. Waiting(u)
          BY <1>2, <2>4, <3>4, <4>1
        <4> QED
          BY <2>1, <3>3, <3>4, <4>2 DEF UrgentAt
      <3> QED
        BY <3>1, <3>4 DEF UrgentAt
    <2> QED
      BY <2>3, <2>4
  <1>11. HandlersRun'
    <2> SUFFICES ASSUME NEW d \in CPUs, irq'[d] # "none" PROVE current'[d] # None
      BY DEF HandlersRun
    <2>1. current'[d] = IF d = c THEN to ELSE current[d]
      BY <1>0, <1>4 DEF TypeOK
    <2>2. to # None
      BY Constants
    <2> QED
      BY <2>1, <2>2 DEF SchedInv, HandlersRun
  <1> QED
    BY <1>1, <1>2, <1>6, <1>8, <1>9, <1>10, <1>11 DEF SchedInv

-----------------------------------------------------------------------------
(* The steps that switch *)

\* When no bit is set no thread waits for the CPU.
LEMMA NothingReady ==
    ASSUME SchedInv, NEW c \in CPUs, ~anything_ready(c), NEW u \in Threads, Waiting(u)
    PROVE  Bind[u] \notin {None, c}
  <1> SUFFICES ASSUME Bind[u] \in {None, c} PROVE FALSE
    OBVIOUS
  <1>1. rq \in RqType /\ RqGood(rq) /\ Listed /\ prio[u] \in Prios /\ Bind[u] \in Queues
    BY Types, Constants
  <1>2. In(rq, u, Bind[u], prio[u])
    BY <1>1 DEF Listed
  <1>3. rq[Bind[u]].list[prio[u]] \in Seq(Threads)
    BY <1>1 DEF RqType
  <1>4. rq[Bind[u]].list[prio[u]] # << >>
    BY <1>2, <1>3, EmptyOf DEF In
  <1>5. rq[Bind[u]].group # {}
    BY <1>1, <1>4 DEF RqGood
  <1> QED
    BY <1>5 DEF anything_ready

\* rt_schedule
LEMMA ScheduleKeeps ==
    ASSUME SchedInv, NEW c \in CPUs, rt_schedule(c)
    PROVE  SchedInv'
  <1> DEFINE t == current[c]
  <1>1. t # None /\ t \in Threads /\ pc[t] = "sched"
    BY Types DEF rt_schedule, InThread
  <1>2. /\ pc' = [pc EXCEPT ![t] = "user"]
        /\ UNCHANGED <<prio, remaining_tick, timer, critical, target, irq, irq_switch_flag>>
    BY DEF rt_schedule
  <1>3. ThreadInv(t) /\ TypeOK /\ yield[t] \in BOOLEAN /\ critical[t] \in Nat
    BY <1>1, Types DEF SchedInv
  <1>4. t # Idle[c] /\ t \notin Idlers
    BY <1>1, <1>3, Constants DEF ThreadInv
  <1>5. anything_ready(c)
    BY <1>4, IdleReady
  <1>6. CASE critical[t] = 0
    <2>1. switch(c, yield[t])
      BY <1>5, <1>6 DEF rt_schedule
    <2>2. /\ remaining_tick' \in [Threads -> 1 .. InitTick]
          /\ irq' \in [CPUs -> {"none", "tick", "leave"}]
          /\ irq_switch_flag' \in [CPUs -> BOOLEAN]
      BY <1>2, <1>3 DEF TypeOK
    <2> QED
      BY <1>1, <1>2, <1>3, <1>5, <1>6, <2>1, <2>2, SwitchKeeps
  <1>7. CASE critical[t] # 0
    <2>1. no_switch
      BY <1>7 DEF rt_schedule
    <2>2. critical[t] > 0
      BY <1>3, <1>7
    <2>3. /\ SameDeletes /\ SameResumes /\ CallsAgree'
          /\ pc' \in [Threads -> {"user", "sched", "resume", "delete"}]
          /\ \A v \in Threads : v # t => pc'[v] = pc[v]
      BY <1>1, <1>2, CallsStay
    <2>4. TypeOK'
      BY <1>2, <1>3, <2>1, <2>3 DEF TypeOK, no_switch
    <2>5. ASSUME NEW u \in Threads
          PROVE  /\ pc[u] = "sched" /\ pc'[u] # "sched" => stat[u] = "RUNNING"
                 /\ critical'[u] > 0 => stat[u] = "RUNNING"
                 /\ u \in Idlers => pc'[u] = "user"
      <3>1. ThreadInv(u)
        BY DEF SchedInv
      <3> HIDE DEF t
      <3> QED
        BY <1>2, <1>4, <2>2, <2>3, <3>1 DEF ThreadInv
    <2>6. ASSUME NEW d \in CPUs, current[d] # None, Reschedules(d) PROVE Reschedules(d)'
      <3>1. CASE current[d] = t
        BY <1>2, <2>1, <2>2, <3>1 DEF Reschedules, no_switch
      <3>2. CASE current[d] # t
        <4>1. pc'[current[d]] = pc[current[d]]
          BY <2>3, <2>6, <3>2, Types
        <4> HIDE DEF t
        <4> QED
          BY <1>2, <2>1, <2>6, <4>1 DEF Reschedules, no_switch
      <3> QED
        BY <3>1, <3>2
    <2>7. \A d \in CPUs : irq'[d] # "none" => current[d] # None
      BY <1>2 DEF SchedInv, HandlersRun
    <2> QED
      BY <1>2, <2>1, <2>3, <2>4, <2>5, <2>6, <2>7, Bookkeeping DEF no_switch
  <1> QED
    BY <1>6, <1>7

\* rt_thread_yield
LEMMA YieldKeeps ==
    ASSUME SchedInv, NEW c \in CPUs, rt_thread_yield(c)
    PROVE  SchedInv'
  <1> DEFINE t == current[c]
  <1>1. t # None /\ t \in Threads /\ t \notin Idlers /\ critical[t] = 0
    BY Types DEF rt_thread_yield, AppCalls, Calls, InThread
  <1>2. anything_ready(c)
    BY <1>1, IdleReady, Constants
  <1>3. switch(c, TRUE)
    BY <1>2 DEF rt_thread_yield
  <1>4. /\ remaining_tick' = [remaining_tick EXCEPT ![t] = InitTick]
        /\ UNCHANGED <<prio, timer, critical, pc, target, irq, irq_switch_flag>>
    BY DEF rt_thread_yield
  <1>5. TypeOK /\ InitTick \in 1 .. InitTick
    BY Types, SchedulerAssumption
  <1>6. /\ remaining_tick' \in [Threads -> 1 .. InitTick]
        /\ irq' \in [CPUs -> {"none", "tick", "leave"}]
        /\ irq_switch_flag' \in [CPUs -> BOOLEAN]
    BY <1>4, <1>5 DEF TypeOK
  <1> QED
    BY <1>1, <1>2, <1>3, <1>4, <1>6, SwitchKeeps

\* rt_interrupt_leave and rt_scheduler_do_irq_switch
LEMMA IrqSwitchKeeps ==
    ASSUME SchedInv, NEW c \in CPUs, rt_scheduler_do_irq_switch(c)
    PROVE  SchedInv'
  <1> DEFINE t == current[c]
             armed == irq_switch_flag[c] /\ critical[t] = 0
  <1>1. /\ irq[c] = "leave"
        /\ irq' = [irq EXCEPT ![c] = "none"]
        /\ irq_switch_flag' = [irq_switch_flag EXCEPT ![c] = @ /\ ~armed]
        /\ IF armed /\ anything_ready(c) THEN switch(c, yield[t]) ELSE no_switch
        /\ UNCHANGED <<prio, remaining_tick, timer, critical, pc, target>>
    BY DEF rt_scheduler_do_irq_switch
  <1>2. t # None
    BY <1>1 DEF SchedInv, HandlersRun
  <1>3. t \in Threads /\ TypeOK /\ yield[t] \in BOOLEAN /\ critical[t] \in Nat
    BY <1>2, Types
  <1>4. /\ remaining_tick' \in [Threads -> 1 .. InitTick]
        /\ irq' \in [CPUs -> {"none", "tick", "leave"}]
        /\ irq_switch_flag' \in [CPUs -> BOOLEAN]
    BY <1>1, <1>3 DEF TypeOK
  <1>5. \A d \in CPUs : d # c => irq_switch_flag'[d] = irq_switch_flag[d] /\ irq'[d] = irq[d]
    BY <1>1, <1>3 DEF TypeOK
  <1>6. irq_switch_flag'[c] = (irq_switch_flag[c] /\ ~armed)
    BY <1>1, <1>3 DEF TypeOK
  <1>7. CASE armed /\ anything_ready(c)
    BY <1>1, <1>2, <1>3, <1>4, <1>5, <1>7, SwitchKeeps
  <1>8. CASE ~(armed /\ anything_ready(c))
    <2>1. no_switch
      BY <1>1, <1>8
    <2>2. TypeOK'
      BY <1>1, <1>3, <1>4, <2>1 DEF TypeOK, no_switch
    <2>3. SameDeletes /\ SameResumes /\ CallsAgree'
      BY <1>1 DEF SchedInv, SameDeletes, SameResumes, BeingDeleted, BeingResumed, CallsAgree
    <2>4. ASSUME NEW u \in Threads
          PROVE  /\ pc[u] = "sched" /\ pc'[u] # "sched" => stat[u] = "RUNNING"
                 /\ critical'[u] > 0 => stat[u] = "RUNNING"
                 /\ u \in Idlers => pc'[u] = "user"
      BY <1>1 DEF SchedInv, ThreadInv
    <2>5. ASSUME NEW d \in CPUs, current[d] # None, Reschedules(d)
          PROVE  \/ Reschedules(d)'
                 \/ \A u \in Threads : Waiting(u) => Bind[u] \notin {None, d}
      <3>1. CASE d = c /\ armed
        BY <1>8, <3>1, NothingReady
      <3>2. CASE d = c /\ ~armed
        BY <1>1, <1>6, <2>1, <2>5, <3>2 DEF Reschedules, no_switch
      <3>3. CASE d # c
        BY <1>1, <1>5, <2>1, <2>5, <3>3 DEF Reschedules, no_switch
      <3> QED
        BY <3>1, <3>2, <3>3
    <2>6. \A d \in CPUs : irq'[d] # "none" => current[d] # None
      BY <1>2, <1>5 DEF SchedInv, HandlersRun
    <2> QED
      BY <1>1, <2>1, <2>2, <2>3, <2>4, <2>5, <2>6, Bookkeeping DEF no_switch
  <1> QED
    BY <1>7, <1>8

\* rt_system_scheduler_start
LEMMA StartKeeps ==
    ASSUME SchedInv, NEW c \in CPUs, rt_system_scheduler_start(c)
    PROVE  SchedInv'
  <1> DEFINE to == highest_priority_thread(c)
  <1>1. /\ current[c] = None
        /\ oncpu' = [oncpu EXCEPT ![to] = c]
        /\ rq' = remove_ready(rq, to)
        /\ stat' = [stat EXCEPT ![to] = "RUNNING"]
        /\ current' = [current EXCEPT ![c] = to]
        /\ UNCHANGED <<yield, prio, remaining_tick, timer, critical, pc, target, irq,
                       irq_switch_flag, ipi, owed>>
    BY DEF rt_system_scheduler_start
  <1>2. anything_ready(c)
    <2>1. Idle[c] # None
      BY Constants
    <2> QED
      BY <1>1, <2>1, IdleReady
  <1>3. /\ to \in Threads /\ Waiting(to) /\ Bind[to] \in {None, c}
        /\ \A u \in Threads : Waiting(u) /\ Bind[u] \in {None, c} => prio[to] <= prio[u]
    BY <1>2, HighestReady
  <1> HIDE DEF to
  <1>4. /\ TypeOK /\ OneCpuPerThread /\ HandlersRun /\ CallsAgree
        /\ rq \in RqType /\ RqGood(rq) /\ Listed
    BY Types DEF SchedInv
  <1>5. SameDeletes /\ SameResumes /\ CallsAgree'
    BY <1>1, <1>4 DEF SameDeletes, SameResumes, BeingDeleted, BeingResumed, CallsAgree
  <1>6. \A u \in Threads : /\ stat'[u] = IF u = to THEN "RUNNING" ELSE stat[u]
                           /\ oncpu'[u] = IF u = to THEN c ELSE oncpu[u]
    BY <1>1, <1>4 DEF TypeOK
  <1>7. \A d \in CPUs : current'[d] = IF d = c THEN to ELSE current[d]
    BY <1>1, <1>4 DEF TypeOK
  <1>8. \A u \in Threads : Waiting(u)' <=> Waiting(u) /\ u # to
    BY <1>5, <1>6 DEF Waiting, SameDeletes
  <1>9. rq' \in RqType /\ RqGood(rq)' /\ Listed'
    <2>1. \A u \in Threads, q \in Queues, p \in Prios :
             u = to => (In(rq, u, q, p) <=> q = Bind[to] /\ p = prio[to])
      BY <1>3, <1>4 DEF Listed
    <2>2. /\ rq' \in RqType /\ RqGood(rq')
          /\ \A u \in Threads, q \in Queues, p \in Prios :
                In(rq', u, q, p) <=> In(rq, u, q, p) /\ u # to
      BY <1>1, <1>3, <1>4, <2>1, TakenOff
    <2>3. Listed'
      BY <1>1, <1>4, <1>8, <2>2 DEF Listed
    <2> QED
      BY <2>2, <2>3
  <1>10. TypeOK'
    <2>1. /\ stat' \in [Threads -> Stats] /\ oncpu' \in [Threads -> CPUs \cup {None}]
          /\ current' \in [CPUs -> Threads \cup {None}]
      BY <1>1, <1>3, <1>4 DEF TypeOK, Stats
    <2> QED
      BY <1>1, <1>4, <1>9, <2>1 DEF TypeOK, RqType
  <1>11. stat[to] = "READY" /\ oncpu[to] = None /\ ~BeingDeleted(to)
    BY <1>3, <1>4 DEF Waiting, OneCpuPerThread
  <1>12. OneCpuPerThread'
    <2>1. ASSUME NEW d \in CPUs, NEW u \in Threads PROVE current'[d] = u <=> oncpu'[u] = d
      <3>1. (current[d] = u <=> oncpu[u] = d) /\ d # None /\ u # None
        BY <1>4, Constants DEF OneCpuPerThread
      <3> QED
        BY <1>1, <1>6, <1>7, <1>11, <3>1
    <2>2. ASSUME NEW u \in Threads
          PROVE  /\ stat'[u] = "RUNNING" => oncpu'[u] # None
                 /\ stat'[u] \in {"INIT", "READY"} => oncpu'[u] = None
                 /\ oncpu'[u] # None /\ Bind[u] # None => oncpu'[u] = Bind[u]
      <3>1. /\ stat[u] = "RUNNING" => oncpu[u] # None
            /\ stat[u] \in {"INIT", "READY"} => oncpu[u] = None
            /\ oncpu[u] # None /\ Bind[u] # None => oncpu[u] = Bind[u]
            /\ c # None
        BY <1>4, Constants DEF OneCpuPerThread
      <3> QED
        BY <1>3, <1>6, <3>1
    <2> QED
      BY <2>1, <2>2 DEF OneCpuPerThread
  <1>13. ASSUME NEW u \in Threads PROVE ThreadInv(u)'
    <2>1. ThreadInv(u)
      BY DEF SchedInv
    <2>2. (BeingDeleted(u)' <=> BeingDeleted(u)) /\ (BeingResumed(u)' <=> BeingResumed(u))
      BY <1>5 DEF SameDeletes, SameResumes
    <2>3. CASE u = to
      BY <1>1, <1>6, <1>11, <2>1, <2>2, <2>3 DEF ThreadInv
    <2>4. CASE u # to
      BY <1>1, <1>6, <2>1, <2>2, <2>4 DEF ThreadInv
    <2> QED
      BY <2>3, <2>4
  <1>14. ASSUME NEW d \in CPUs PROVE UrgentAt(d)'
    <2>1. CASE d = c
      BY <1>1, <1>3, <1>7, <1>8, <2>1 DEF UrgentAt
    <2>2. CASE d # c
      <3>1. UrgentAt(d) /\ current'[d] = current[d] /\ (Reschedules(d)' <=> Reschedules(d))
        BY <1>1, <1>7, <2>2 DEF SchedInv, Reschedules
      <3> QED
        BY <1>1, <1>8, <3>1 DEF UrgentAt
    <2> QED
      BY <2>1, <2>2
  <1>15. HandlersRun'
    BY <1>1, <1>3, <1>4, <1>7, Constants DEF HandlersRun
  <1> QED
    BY <1>5, <1>9, <1>10, <1>12, <1>13, <1>14, <1>15 DEF SchedInv

-----------------------------------------------------------------------------
(* The steps that move no thread *)

\* rt_enter_critical and rt_exit_critical
LEMMA CriticalKeeps ==
    ASSUME SchedInv, NEW c \in CPUs, rt_enter_critical(c) \/ rt_exit_critical(c)
    PROVE  SchedInv'
  <1> DEFINE t == current[c]
  <1>1. t # None /\ t \in Threads /\ t \notin Idlers /\ pc[t] = "user"
    BY Types DEF rt_enter_critical, rt_exit_critical, Calls, InThread
  <1>2. TypeOK /\ ThreadInv(t) /\ oncpu[t] = c /\ c # None /\ critical[t] \in Nat
    BY <1>1, Types, Constants DEF SchedInv, OneCpuPerThread
  <1>3. stat[t] = "RUNNING"
    BY <1>1, <1>2 DEF ThreadInv
  <1>4. PICK x \in {"user", "sched"} :
           /\ pc' = [pc EXCEPT ![t] = x] \/ pc' = pc
           /\ critical'[t] > 0 \/ pc' = [pc EXCEPT ![t] = "sched"]
           /\ critical' \in [Threads -> 0 .. MaxCritical]
           /\ \A u \in Threads : u # t => critical'[u] = critical[u]
           /\ UNCHANGED <<stat, yield, oncpu, prio, remaining_tick, timer, target, rq,
                          current, irq, irq_switch_flag, ipi, owed>>
    <2>0. critical \in [Threads -> 0 .. MaxCritical] /\ MaxCritical \in Nat
      BY <1>2, SchedulerAssumption DEF TypeOK
    <2>1. CASE rt_enter_critical(c)
      <3>1. critical' = [critical EXCEPT ![t] = critical[t] + 1] /\ critical[t] < MaxCritical
        BY <2>1 DEF rt_enter_critical
      <3>2. critical[t] + 1 \in 0 .. MaxCritical /\ critical[t] + 1 > 0
        BY <1>2, <2>0, <3>1
      <3>3. /\ critical' \in [Threads -> 0 .. MaxCritical]
            /\ \A u \in Threads : u # t => critical'[u] = critical[u]
            /\ critical'[t] = critical[t] + 1
        <4> HIDE DEF t
        <4> QED
          BY <1>1, <2>0, <3>1, <3>2
      <3> QED
        BY <2>1, <3>2, <3>3 DEF rt_enter_critical
    <2>2. CASE rt_exit_critical(c)
      <3>1. critical' = [critical EXCEPT ![t] = critical[t] - 1] /\ critical[t] > 0
        BY <2>2 DEF rt_exit_critical
      <3>2. critical[t] - 1 \in 0 .. MaxCritical /\ (critical[t] # 1 => critical[t] - 1 > 0)
        BY <1>2, <2>0, <3>1, <1>1
      <3>3. /\ critical' \in [Threads -> 0 .. MaxCritical]
            /\ \A u \in Threads : u # t => critical'[u] = critical[u]
            /\ critical'[t] = critical[t] - 1
        <4> HIDE DEF t
        <4> QED
          BY <1>1, <2>0, <3>1, <3>2
      <3>4. CASE critical[t] = 1
        <4>1. pc' = [pc EXCEPT ![t] = "sched"]
          BY <2>2, <3>4 DEF rt_exit_critical
        <4> QED
          BY <2>2, <3>3, <4>1 DEF rt_exit_critical
      <3>5. CASE critical[t] # 1
        <4>1. pc' = [pc EXCEPT ![t] = "user"]
          BY <2>2, <3>5 DEF rt_exit_critical
        <4> QED
          BY <2>2, <3>2, <3>3, <3>5, <4>1 DEF rt_exit_critical
      <3> QED
        BY <3>4, <3>5
    <2> QED
      BY <2>1, <2>2
  <1>5. /\ SameDeletes /\ SameResumes /\ CallsAgree'
        /\ pc' \in [Threads -> {"user", "sched", "resume", "delete"}]
        /\ \A v \in Threads : v # t => pc'[v] = pc[v]
    BY <1>1, <1>4, CallsStay
  <1>6. TypeOK'
    BY <1>2, <1>4, <1>5 DEF TypeOK
  <1>7. ASSUME NEW u \in Threads
        PROVE  /\ pc[u] = "sched" /\ pc'[u] # "sched" => stat[u] = "RUNNING"
               /\ critical'[u] > 0 => stat[u] = "RUNNING"
               /\ u \in Idlers => pc'[u] = "user"
    <2>1. ThreadInv(u)
      BY DEF SchedInv
    <2> HIDE DEF t
    <2> QED
      BY <1>1, <1>3, <1>4, <1>5, <2>1 DEF ThreadInv
  <1>8. ASSUME NEW d \in CPUs, current[d] # None, Reschedules(d)
        PROVE  Reschedules(d)'
    <2>1. CASE current[d] = t
      <3>1. pc'[t] = "sched" \/ critical'[t] > 0
        BY <1>1, <1>2, <1>4 DEF TypeOK
      <3> QED
        BY <1>4, <2>1, <3>1 DEF Reschedules
    <2>2. CASE current[d] # t
      <3>1. current[d] \in Threads
        BY <1>8, Types
      <3> HIDE DEF t
      <3> QED
        BY <1>4, <1>5, <1>8, <2>2, <3>1 DEF Reschedules
    <2> QED
      BY <2>1, <2>2
  <1>9. \A d \in CPUs : irq'[d] # "none" => current[d] # None
    BY <1>4 DEF SchedInv, HandlersRun
  <1> QED
    BY <1>4, <1>5, <1>6, <1>7, <1>8, <1>9, Bookkeeping

\* rt_tick_increase, rt_timer_check when no timer is due, rt_scheduler_ipi_handler
LEMMA HandlerKeeps ==
    ASSUME SchedInv, NEW c \in CPUs,
           rt_tick_increase(c) \/ rt_timer_check(c) \/ rt_scheduler_ipi_handler(c)
    PROVE  SchedInv'
  <1>0. TypeOK /\ HandlersRun
    BY DEF SchedInv
  <1>1. current[c] # None /\ current[c] \in Threads
    <2>1. current[c] # None
      BY <1>0 DEF rt_tick_increase, rt_timer_check, rt_scheduler_ipi_handler, Interrupts, HandlersRun
    <2> QED
      BY <2>1, Types
  <1>2. UNCHANGED <<stat, oncpu, prio, timer, critical, pc, target, rq, current, owed>>
    BY DEF rt_tick_increase, rt_timer_check, rt_scheduler_ipi_handler
  <1>11. /\ irq' \in [CPUs -> {"none", "tick", "leave"}]
         /\ \A d \in CPUs : d # c => irq'[d] = irq[d]
    BY <1>0 DEF rt_tick_increase, rt_timer_check, rt_scheduler_ipi_handler, TypeOK
  <1>3. irq_switch_flag' \in [CPUs -> BOOLEAN] /\ ipi' \in [CPUs -> BOOLEAN]
    BY <1>0 DEF rt_tick_increase, rt_timer_check, rt_scheduler_ipi_handler, TypeOK
  <1>4. \A d \in CPUs : /\ irq_switch_flag[d] => irq_switch_flag'[d]
                        /\ ipi[d] => ipi'[d] \/ irq_switch_flag'[d]
    BY <1>0 DEF rt_tick_increase, rt_timer_check, rt_scheduler_ipi_handler, TypeOK
  <1>5. yield' \in [Threads -> BOOLEAN] /\ remaining_tick' \in [Threads -> 1 .. InitTick]
    <2>1. CASE rt_tick_increase(c)
      <3> DEFINE t == current[c]
      <3>1. time_slice(t)
        BY <2>1 DEF rt_tick_increase
      <3>2. /\ yield \in [Threads -> BOOLEAN]
            /\ remaining_tick \in [Threads -> 1 .. InitTick] /\ InitTick \in Nat \ {0}
        BY <1>0, SchedulerAssumption DEF TypeOK
      <3> HIDE DEF t
      <3>3. yield' \in [Threads -> BOOLEAN]
        BY <3>1, <3>2 DEF time_slice
      <3> DEFINE n == IF remaining_tick[t] = 1 THEN InitTick ELSE remaining_tick[t] - 1
      <3>4. t \in Threads
        BY <1>1 DEF t
      <3>5. n \in 1 .. InitTick
        BY <3>2, <3>4
      <3>6. remaining_tick' = [remaining_tick EXCEPT ![t] = n]
        BY <3>1 DEF time_slice
      <3> HIDE DEF n
      <3> QED
        BY <3>2, <3>3, <3>5, <3>6
    <2>2. CASE ~rt_tick_increase(c)
      BY <1>0, <2>2 DEF rt_timer_check, rt_scheduler_ipi_handler, TypeOK
    <2> QED
      BY <2>1, <2>2
  <1>6. TypeOK'
    BY <1>0, <1>2, <1>3, <1>5, <1>11 DEF TypeOK
  <1>7. SameDeletes /\ SameResumes /\ CallsAgree'
    BY <1>2 DEF SchedInv, SameDeletes, SameResumes, BeingDeleted, BeingResumed, CallsAgree
  <1>8. ASSUME NEW u \in Threads
        PROVE  /\ pc[u] = "sched" /\ pc'[u] # "sched" => stat[u] = "RUNNING"
               /\ critical'[u] > 0 => stat[u] = "RUNNING"
               /\ u \in Idlers => pc'[u] = "user"
    BY <1>2 DEF SchedInv, ThreadInv
  <1>9. ASSUME NEW d \in CPUs, current[d] # None, Reschedules(d)
        PROVE  Reschedules(d)'
    <2>1. /\ irq_switch_flag[d] => irq_switch_flag'[d]
          /\ ipi[d] => ipi'[d] \/ irq_switch_flag'[d]
      BY <1>4
    <2>2. owed' = owed /\ pc' = pc /\ critical' = critical /\ current' = current
      BY <1>2
    <2> QED
      BY <1>9, <2>1, <2>2, Zenon DEF Reschedules
  <1>10. \A d \in CPUs : irq'[d] # "none" => current[d] # None
    BY <1>0, <1>1, <1>11 DEF HandlersRun
  <1> QED
    BY <1>2, <1>6, <1>7, <1>8, <1>9, <1>10, Bookkeeping

-----------------------------------------------------------------------------
(* The steps that make a thread ready *)

\* An update of a list alone.
LEMMA ListOnly ==
    ASSUME NEW r \in RqType, NEW q \in Queues, NEW p \in Prios, NEW l \in Seq(Threads)
    PROVE  [r EXCEPT ![q].list[p] = l] = relisted(r, q, p, l, r[q].group)
  <1> DEFINE m1 == [r[q] EXCEPT !.list[p] = l]
             n1 == [r EXCEPT ![q] = m1]
             g == r[q].group
  <1>1. PICK L \in [Prios -> Seq(Threads)], G \in SUBSET Prios :
           r[q] = [list |-> L, group |-> G]
    BY DEF RqType
  <1>2. G = g
    BY <1>1
  <1>3. m1 = [list |-> [L EXCEPT ![p] = l], group |-> G]
    BY <1>1
  <1>4. [m1 EXCEPT !.group = G] = m1
    <2> DEFINE L2 == [L EXCEPT ![p] = l]
    <2> HIDE DEF m1, L2
    <2>1. m1 = [list |-> L2, group |-> G]
      BY <1>3 DEF L2
    <2> QED
      BY <2>1
  <1>5. relisted(r, q, p, l, g) = [n1 EXCEPT ![q] = [n1[q] EXCEPT !.group = g]]
    BY DEF relisted
  <1>6. [r EXCEPT ![q].list[p] = l] = n1
    OBVIOUS
  <1> HIDE DEF m1
  <1>7. n1[q] = m1 /\ n1 = [n1 EXCEPT ![q] = m1]
    BY DEF RqType
  <1> HIDE DEF n1, g
  <1> QED
    BY <1>2, <1>4, <1>5, <1>6, <1>7 DEF n1, g

\* rt_thread_resume unlinks the thread before it inserts it, and leaves the bit alone.
unlinked(t) == [rq EXCEPT ![Bind[t]].list[prio[t]] = rt_list_remove(@, t)]

\* What the unlinking does.
LEMMA Unlinked ==
    ASSUME SchedInv, NEW t \in Threads
    PROVE  /\ unlinked(t) \in RqType
           /\ \A q \in Queues, k \in Prios :
                 /\ (q # Bind[t] \/ k # prio[t] \/ ~Waiting(t)) =>
                       (k \in unlinked(t)[q].group <=> unlinked(t)[q].list[k] # << >>)
                 /\ Once(unlinked(t)[q].list[k])
           /\ \A u \in Threads, q \in Queues, p \in Prios :
                 In(unlinked(t), u, q, p) <=> In(rq, u, q, p) /\ u # t
  <1> DEFINE n == unlinked(t)
             b == Bind[t]
             k == prio[t]
             l == rq[b].list[k]
             g == rq[b].group
             rest == rt_list_remove(l, t)
  <1>1. b \in Queues /\ k \in Prios /\ rq \in RqType /\ RqGood(rq) /\ Listed
    BY Types, Constants
  <1> HIDE DEF b, k
  <1>2. l \in Seq(Threads) /\ Once(l) /\ g \in SUBSET Prios
    BY <1>1 DEF RqType, RqGood
  <1>3. n = relisted(rq, b, k, rest, g)
    <2>1. n = [rq EXCEPT ![b].list[k] = rest]
      BY DEF unlinked, b, k
    <2>2. rest \in Seq(Threads)
      <3> HIDE DEF l
      <3> QED
        BY <1>2, RemovedMembers
    <2> HIDE DEF n, rest
    <2> QED
      BY <1>1, <2>1, <2>2, ListOnly
  <1> HIDE DEF l, g
  <1>4. /\ rest \in Seq(Threads) /\ Once(rest)
        /\ \A y : InList(rest, y) <=> InList(l, y) /\ y # t
    BY <1>2, RemovedMembers
  <1> HIDE DEF n, rest
  <1>5. /\ n \in RqType
        /\ n[b].list[k] = rest /\ n[b].group = g
        /\ \A j \in Prios : j # k => n[b].list[j] = rq[b].list[j]
        /\ \A j \in Queues : j # b => n[j] = rq[j]
    BY <1>1, <1>2, <1>3, <1>4, Relisted
  <1>6. In(rq, t, b, k) <=> Waiting(t)
    BY <1>1 DEF Listed, b, k
  <1>7. ~Waiting(t) => (rest # << >> <=> l # << >>)
    BY <1>2, <1>4, <1>6, EmptyOf DEF In, l
  <1>8. ASSUME NEW q \in Queues, NEW j \in Prios
        PROVE  /\ (q # b \/ j # k \/ ~Waiting(t)) => (j \in n[q].group <=> n[q].list[j] # << >>)
               /\ Once(n[q].list[j])
    <2>1. (j \in rq[q].group <=> rq[q].list[j] # << >>) /\ Once(rq[q].list[j])
      BY <1>1 DEF RqGood
    <2>2. CASE q = b /\ j = k
      BY <1>4, <1>5, <1>7, <2>1, <2>2 DEF l, g
    <2>3. CASE q # b
      BY <1>5, <2>1, <2>3
    <2>4. CASE q = b /\ j # k
      BY <1>5, <2>1, <2>4 DEF g
    <2> QED
      BY <2>2, <2>3, <2>4
  <1>9. ASSUME NEW u \in Threads, NEW q \in Queues, NEW p \in Prios
        PROVE  In(n, u, q, p) <=> In(rq, u, q, p) /\ u # t
    <2>1. CASE q = b /\ p = k
      BY <1>4, <1>5, <2>1 DEF In, l
    <2>2. CASE ~(q = b /\ p = k)
      <3>1. n[q].list[p] = rq[q].list[p]
        BY <1>5, <2>2
      <3>2. u = t => ~In(rq, u, q, p)
        BY <1>1, <2>2 DEF Listed, b, k
      <3> QED
        BY <3>1, <3>2 DEF In
    <2> QED
      BY <2>1, <2>2
  <1> QED
    BY <1>5, <1>8, <1>9 DEF n, b, k

\* rt_schedule_insert_thread, of a thread that waits nowhere or that was unlinked first.
LEMMA Inserts ==
    ASSUME SchedInv, NEW c \in CPUs, NEW t \in Threads,
           ~BeingDeleted(t), NEW r, insert_thread(c, r, t),
           (r = rq /\ ~Waiting(t)) \/ r = unlinked(t),
           UNCHANGED <<prio, oncpu>>, SameDeletes
    PROVE  /\ rq' \in RqType /\ RqGood(rq)' /\ Listed'
           /\ stat' = [stat EXCEPT ![t] = IF oncpu[t] # None THEN "RUNNING" ELSE "READY"]
           /\ ipi' \in [CPUs -> BOOLEAN]
           /\ \A d \in CPUs : ipi[d] => ipi'[d]
           /\ \A d \in CPUs, u \in Threads :
                 d # c /\ Waiting(u)' /\ ~Waiting(u) /\ Bind[u] \in {None, d} => ipi'[d]
  <1>0. /\ TypeOK /\ rq \in RqType /\ RqGood(rq) /\ Listed /\ OneCpuPerThread
        /\ Bind[t] \in Queues /\ prio[t] \in Prios /\ yield[t] \in BOOLEAN
    BY Types, Constants DEF SchedInv
  <1>1. /\ r \in RqType
        /\ \A q \in Queues, k \in Prios :
              /\ (q # Bind[t] \/ k # prio[t] \/ ~Waiting(t)) => (k \in r[q].group <=> r[q].list[k] # << >>)
              /\ Once(r[q].list[k])
        /\ \A u \in Threads, q \in Queues, p \in Prios :
              In(r, u, q, p) <=> In(rq, u, q, p) /\ u # t
    <2>1. CASE r = rq /\ ~Waiting(t)
      BY <1>0, <2>1 DEF RqGood, Listed
    <2>2. CASE r = unlinked(t)
      BY <2>2, Unlinked
    <2> QED
      BY <2>1, <2>2
  <1>2. CASE oncpu[t] # None
    <2>1. stat' = [stat EXCEPT ![t] = "RUNNING"] /\ rq' = r /\ ipi' = ipi
      BY <1>2 DEF insert_thread
    <2>2. ~Waiting(t)
      BY <1>0, <1>2 DEF Waiting, OneCpuPerThread
    <2>3. \A u \in Threads : Waiting(u)' <=> Waiting(u)
      <3>1. \A u \in Threads : stat'[u] = IF u = t THEN "RUNNING" ELSE stat[u]
        BY <1>0, <2>1 DEF TypeOK
      <3> QED
        BY <2>2, <3>1 DEF Waiting, SameDeletes
    <2>4. RqGood(rq)'
      BY <1>1, <2>1, <2>2 DEF RqGood
    <2>5. Listed'
      BY <1>0, <1>1, <2>1, <2>2, <2>3 DEF Listed
    <2>6. ipi' \in [CPUs -> BOOLEAN]
      BY <1>0, <2>1 DEF TypeOK
    <2> QED
      BY <1>1, <1>2, <2>1, <2>3, <2>4, <2>5, <2>6
  <1>3. CASE oncpu[t] = None
    <2>1. /\ stat' = [stat EXCEPT ![t] = "READY"]
          /\ rq' = insert_ready(r, t, prio[t], yield[t])
          /\ ipi' = [d \in CPUs |-> ipi[d] \/ d \in ipi_targets(c, t)]
      BY <1>3 DEF insert_thread
    <2>2. \A q \in Queues, k \in Prios :
             /\ (q # Bind[t] \/ k # prio[t]) => (k \in r[q].group <=> r[q].list[k] # << >>)
             /\ Once(r[q].list[k])
      BY <1>1
    <2>3. ~In(r, t, Bind[t], prio[t])
      BY <1>0, <1>1
    <2>4. /\ rq' \in RqType /\ RqGood(rq')
          /\ \A u \in Threads, q \in Queues, k \in Prios :
                In(rq', u, q, k) <=> In(r, u, q, k) \/ (u = t /\ q = Bind[t] /\ k = prio[t])
      BY <1>0, <1>1, <2>1, <2>2, <2>3, InsertReady
    <2>5. \A u \in Threads : Waiting(u)' <=> Waiting(u) \/ u = t
      <3>1. \A u \in Threads : stat'[u] = IF u = t THEN "READY" ELSE stat[u]
        BY <1>0, <2>1 DEF TypeOK
      <3> QED
        BY <3>1 DEF Waiting, SameDeletes
    <2>6. Listed'
      BY <1>0, <1>1, <2>4, <2>5 DEF Listed
    <2>7. ipi' \in [CPUs -> BOOLEAN] /\ \A d \in CPUs : ipi[d] => ipi'[d]
      BY <1>0, <2>1 DEF TypeOK
    <2>8. ASSUME NEW d \in CPUs, NEW u \in Threads, d # c, Waiting(u)', ~Waiting(u),
                 Bind[u] \in {None, d}
          PROVE  ipi'[d]
      <3>1. u = t
        BY <2>5, <2>8
      <3>2. d \in ipi_targets(c, t)
        BY <2>8, <3>1 DEF ipi_targets
      <3> QED
        BY <2>1, <3>2
    <2> QED
      BY <1>3, <2>1, <2>4, <2>6, <2>7, <2>8
  <1> QED
    BY <1>2, <1>3

\* A step that makes thread t ready, or lets it go on running.
LEMMA InsertKeeps ==
    ASSUME SchedInv, NEW c \in CPUs, NEW t \in Threads,
           ~BeingDeleted(t), NEW r, insert_thread(c, r, t),
           (r = rq /\ ~Waiting(t)) \/ r = unlinked(t),
           UNCHANGED <<yield, oncpu, prio, remaining_tick, critical, current>>,
           timer' \in [Threads -> BOOLEAN], ~timer'[t],
           \A u \in Threads : u # t => timer'[u] = timer[u],
           pc' \in [Threads -> {"user", "sched", "resume", "delete"}],
           target' \in [Threads -> Threads \cup {None}],
           irq' \in [CPUs -> {"none", "tick", "leave"}],
           irq_switch_flag' \in [CPUs -> BOOLEAN], owed' \in [CPUs -> BOOLEAN],
           CallsAgree', SameDeletes, \A u \in Threads : BeingResumed(u)' => BeingResumed(u),
           \A u \in Threads : /\ pc[u] = "sched" => pc'[u] = "sched"
                              /\ u \in Idlers => pc'[u] = "user",
           \A d \in CPUs : /\ irq'[d] # "none" => current[d] # None
                           /\ irq_switch_flag[d] => irq_switch_flag'[d]
                           /\ owed[d] => owed'[d],
           irq_switch_flag'[c] \/ owed'[c] \/ pc'[current[c]] = "sched"
    PROVE  SchedInv'
  <1>0. TypeOK /\ OneCpuPerThread
    BY DEF SchedInv
  <1>1. /\ rq' \in RqType /\ RqGood(rq)' /\ Listed'
        /\ stat' = [stat EXCEPT ![t] = IF oncpu[t] # None THEN "RUNNING" ELSE "READY"]
        /\ ipi' \in [CPUs -> BOOLEAN]
        /\ \A d \in CPUs : ipi[d] => ipi'[d]
        /\ \A d \in CPUs, u \in Threads :
              d # c /\ Waiting(u)' /\ ~Waiting(u) /\ Bind[u] \in {None, d} => ipi'[d]
    BY Inserts
  <1>2. \A u \in Threads : stat'[u] = IF u = t THEN IF oncpu[t] # None THEN "RUNNING" ELSE "READY"
                                      ELSE stat[u]
    BY <1>0, <1>1 DEF TypeOK
  <1>3. TypeOK'
    <2>1. stat' \in [Threads -> Stats]
      BY <1>0, <1>1 DEF TypeOK, Stats
    <2> QED
      BY <1>0, <1>1, <2>1 DEF TypeOK, RqType
  <1>4. OneCpuPerThread'
    BY <1>0, <1>2 DEF OneCpuPerThread
  <1>5. HandlersRun'
    BY DEF HandlersRun
  <1>6. ASSUME NEW u \in Threads PROVE ThreadInv(u)'
    <2>1. ThreadInv(u)
      BY DEF SchedInv
    <2>2. (BeingDeleted(u)' <=> BeingDeleted(u)) /\ (BeingResumed(u)' => BeingResumed(u))
      BY DEF SameDeletes
    <2>3. /\ pc[u] = "sched" => pc'[u] = "sched"
          /\ u \in Idlers => pc'[u] = "user"
      OBVIOUS
    <2>4. CASE u = t
      <3>1. stat'[t] = IF oncpu[t] # None THEN "RUNNING" ELSE "READY"
        BY <1>2
      <3>2. critical[t] > 0 => oncpu[t] # None
        BY <1>0, <2>1, <2>4 DEF ThreadInv, OneCpuPerThread
      <3> QED
        BY <2>1, <2>2, <2>3, <2>4, <3>1, <3>2 DEF ThreadInv
    <2>5. CASE u # t
      <3>1. stat'[u] = stat[u] /\ timer'[u] = timer[u]
        BY <1>2, <2>5
      <3> QED
        BY <2>1, <2>2, <2>3, <3>1 DEF ThreadInv
    <2> QED
      BY <2>4, <2>5
  <1>7. ASSUME NEW d \in CPUs PROVE UrgentAt(d)'
    <2>1. CASE d = c
      <3>1. Reschedules(c)'
        BY DEF Reschedules
      <3> QED
        BY <2>1, <3>1 DEF UrgentAt
    <2>2. CASE d # c
      <3>1. UrgentAt(d)
        BY DEF SchedInv
      <3>2. current[d] # None /\ Reschedules(d) => Reschedules(d)'
        <4> SUFFICES ASSUME current[d] # None, Reschedules(d) PROVE Reschedules(d)'
          OBVIOUS
        <4>1. current[d] \in Threads
          BY Types
        <4>2. pc[current[d]] = "sched" => pc'[current[d]] = "sched"
          BY <4>1
        <4>3. /\ irq_switch_flag[d] => irq_switch_flag'[d]
              /\ owed[d] => owed'[d]
              /\ ipi[d] => ipi'[d]
          BY <1>1
        <4> QED
          BY <4>2, <4>3 DEF Reschedules
      <3>3. ASSUME current[d] # None, ~Reschedules(d)', NEW u \in Threads, Waiting(u)',
                   Bind[u] \in {None, d}
            PROVE  prio[current[d]] <= prio[u]
        <4>1. ~ipi'[d]
          BY <3>3 DEF Reschedules
        <4>2. Waiting(u)
          BY <1>1, <2>2, <3>3, <4>1
        <4> QED
          BY <3>1, <3>2, <3>3, <4>2 DEF UrgentAt
      <3> QED
        BY <3>3 DEF UrgentAt
    <2> QED
      BY <2>1, <2>2
  <1> QED
    BY <1>1, <1>3, <1>4, <1>5, <1>6, <1>7 DEF SchedInv

\* rt_thread_startup, and an IPC call that wakes a waiter
LEMMA WakeupKeeps ==
    ASSUME SchedInv, CarefulEnd, NEW c \in CPUs, NEW t \in Threads,
           rt_thread_startup(c, t) \/ ipc_wakeup(c, t)
    PROVE  SchedInv'
  <1> DEFINE self == current[c]
  <1>1. self # None /\ self \in Threads /\ self \notin Idlers /\ pc[self] = "user"
    BY Types DEF rt_thread_startup, ipc_wakeup, Calls, InThread
  <1>2. /\ ~BeingDeleted(t) /\ stat[t] \in {"INIT", "SUSPEND"} /\ insert_thread(c, rq, t)
        /\ pc' = [pc EXCEPT ![self] = "sched"]
        /\ UNCHANGED <<yield, oncpu, prio, remaining_tick, critical, target, current, irq,
                       irq_switch_flag, owed>>
    BY DEF rt_thread_startup, ipc_wakeup, wake, Touchable
  <1>3. TypeOK /\ ThreadInv(t)
    BY DEF SchedInv
  <1>4. ~Waiting(t)
    BY <1>2 DEF Waiting
  <1>5. /\ timer' \in [Threads -> BOOLEAN] /\ ~timer'[t]
        /\ \A u \in Threads : u # t => timer'[u] = timer[u]
    <2>1. CASE rt_thread_startup(c, t)
      <3>1. timer' = timer /\ stat[t] = "INIT"
        BY <2>1 DEF rt_thread_startup
      <3>2. ~timer[t]
        BY <1>3, <3>1 DEF ThreadInv
      <3> QED
        BY <1>3, <3>1, <3>2 DEF TypeOK
    <2>2. CASE ipc_wakeup(c, t)
      BY <1>3, <2>2 DEF ipc_wakeup, wake, TypeOK
    <2> QED
      BY <2>1, <2>2
  <1>6. /\ SameDeletes /\ SameResumes /\ CallsAgree'
        /\ pc' \in [Threads -> {"user", "sched", "resume", "delete"}]
        /\ \A v \in Threads : v # self => pc'[v] = pc[v]
    BY <1>1, <1>2, CallsStay
  <1>7. pc'[self] = "sched"
    BY <1>1, <1>2, <1>3 DEF TypeOK
  <1> HIDE DEF self
  <1>8. ASSUME NEW u \in Threads
        PROVE  /\ pc[u] = "sched" => pc'[u] = "sched"
               /\ u \in Idlers => pc'[u] = "user"
    <2>1. ThreadInv(u)
      BY DEF SchedInv
    <2> QED
      BY <1>1, <1>6, <1>7, <2>1 DEF ThreadInv
  <1>9. /\ target' \in [Threads -> Threads \cup {None}]
        /\ irq' \in [CPUs -> {"none", "tick", "leave"}]
        /\ irq_switch_flag' \in [CPUs -> BOOLEAN] /\ owed' \in [CPUs -> BOOLEAN]
    BY <1>2, <1>3 DEF TypeOK
  <1>10. \A d \in CPUs : /\ irq'[d] # "none" => current[d] # None
                         /\ irq_switch_flag[d] => irq_switch_flag'[d]
                         /\ owed[d] => owed'[d]
    BY <1>2 DEF SchedInv, HandlersRun
  <1>11. \A u \in Threads : BeingResumed(u)' => BeingResumed(u)
    BY <1>6 DEF SameResumes
  <1>12. pc'[current[c]] = "sched"
    BY <1>7 DEF self
  <1>13. UNCHANGED <<yield, oncpu, prio, remaining_tick, critical, current>>
    BY <1>2
  <1> QED
    BY <1>2, <1>4, <1>5, <1>6, <1>8, <1>9, <1>10, <1>11, <1>12, <1>13, InsertKeeps

\* _thread_timeout, and a device interrupt that wakes a waiter
LEMMA InterruptWakeKeeps ==
    ASSUME SchedInv, NEW c \in CPUs, NEW t \in Threads,
           thread_timeout(c, t) \/ device_isr(c, t)
    PROVE  SchedInv'
  <1>0. TypeOK /\ HandlersRun /\ ThreadInv(t)
    BY DEF SchedInv
  <1>1. current[c] # None
    BY <1>0 DEF thread_timeout, device_isr, Interrupts, HandlersRun
  <1>2. /\ insert_thread(c, rq, t)
        /\ timer' = [timer EXCEPT ![t] = FALSE]
        /\ irq_switch_flag' = [irq_switch_flag EXCEPT ![c] = TRUE]
        /\ UNCHANGED <<yield, oncpu, prio, remaining_tick, critical, pc, target, current, owed>>
    BY DEF thread_timeout, device_isr, wake
  <1>3. stat[t] = "SUSPEND" /\ ~BeingDeleted(t)
    BY <1>0 DEF thread_timeout, device_isr, wake, ThreadInv
  <1>4. ~Waiting(t)
    BY <1>3 DEF Waiting
  <1>5. /\ irq' \in [CPUs -> {"none", "tick", "leave"}]
        /\ \A d \in CPUs : d # c => irq'[d] = irq[d]
    BY <1>0 DEF thread_timeout, device_isr, TypeOK
  <1>6. /\ timer' \in [Threads -> BOOLEAN] /\ ~timer'[t]
        /\ \A u \in Threads : u # t => timer'[u] = timer[u]
    BY <1>0, <1>2 DEF TypeOK
  <1>7. /\ irq_switch_flag' \in [CPUs -> BOOLEAN]
        /\ irq_switch_flag'[c]
        /\ \A d \in CPUs : irq_switch_flag[d] => irq_switch_flag'[d]
    BY <1>0, <1>2 DEF TypeOK
  <1>8. SameDeletes /\ CallsAgree' /\ \A u \in Threads : BeingResumed(u)' => BeingResumed(u)
    BY <1>2 DEF SchedInv, SameDeletes, BeingDeleted, BeingResumed, CallsAgree
  <1>9. /\ pc' \in [Threads -> {"user", "sched", "resume", "delete"}]
        /\ target' \in [Threads -> Threads \cup {None}] /\ owed' \in [CPUs -> BOOLEAN]
    BY <1>0, <1>2 DEF TypeOK
  <1>10. ASSUME NEW u \in Threads
         PROVE  /\ pc[u] = "sched" => pc'[u] = "sched"
                /\ u \in Idlers => pc'[u] = "user"
    BY <1>2 DEF SchedInv, ThreadInv
  <1>11. \A d \in CPUs : /\ irq'[d] # "none" => current[d] # None
                         /\ irq_switch_flag[d] => irq_switch_flag'[d]
                         /\ owed[d] => owed'[d]
    <2> SUFFICES ASSUME NEW d \in CPUs
                 PROVE  /\ irq'[d] # "none" => current[d] # None
                        /\ irq_switch_flag[d] => irq_switch_flag'[d]
                        /\ owed[d] => owed'[d]
      OBVIOUS
    <2>1. irq'[d] # "none" => current[d] # None
      BY <1>0, <1>1, <1>5 DEF HandlersRun
    <2> QED
      BY <1>2, <1>7, <2>1
  <1>12. /\ UNCHANGED <<yield, oncpu, prio, remaining_tick, critical, current>>
         /\ insert_thread(c, rq, t)
    BY <1>2
  <1>13. irq_switch_flag'[c] \/ owed'[c] \/ pc'[current[c]] = "sched"
    BY <1>7
  <1> QED
    BY <1>3, <1>4, <1>5, <1>6, <1>7, <1>8, <1>9, <1>10, <1>11, <1>12, <1>13, InsertKeeps

\* rt_thread_resume before its section
LEMMA ResumeKeeps ==
    ASSUME SchedInv, CarefulEnd, NEW c \in CPUs, NEW t \in Threads, rt_thread_resume(c, t)
    PROVE  SchedInv'
  <1> DEFINE self == current[c]
  <1>1. self # None /\ self \in Threads /\ self \notin Idlers /\ pc[self] = "user"
    BY Types DEF rt_thread_resume, Calls, InThread
  <1>2. /\ stat[t] = "SUSPEND" /\ ~BeingDeleted(t)
        /\ pc' = [pc EXCEPT ![self] = "resume"]
        /\ target' = [target EXCEPT ![self] = t]
        /\ UNCHANGED <<stat, yield, oncpu, prio, remaining_tick, timer, critical, rq,
                       current, irq, irq_switch_flag, ipi, owed>>
    BY DEF rt_thread_resume, Touchable
  <1>3. TypeOK /\ CallsAgree /\ OneCpuPerThread /\ HandlersRun /\ RqGood(rq) /\ Listed
    BY DEF SchedInv
  <1>4. \A u \in Threads : /\ pc'[u] = IF u = self THEN "resume" ELSE pc[u]
                           /\ target'[u] = IF u = self THEN t ELSE target[u]
    BY <1>2, <1>3 DEF TypeOK
  <1> HIDE DEF self
  <1>5. SameDeletes
    BY <1>1, <1>4 DEF SameDeletes, BeingDeleted
  <1>6. \A u \in Threads : BeingResumed(u)' => BeingResumed(u) \/ u = t
    BY <1>4 DEF BeingResumed
  <1>7. CallsAgree'
    BY <1>3, <1>4 DEF CallsAgree
  <1>8. TypeOK'
    <2>1. /\ pc' \in [Threads -> {"user", "sched", "resume", "delete"}]
          /\ target' \in [Threads -> Threads \cup {None}]
      BY <1>2, <1>3 DEF TypeOK
    <2> QED
      BY <1>2, <1>3, <2>1 DEF TypeOK
  <1>9. \A u \in Threads : Waiting(u)' <=> Waiting(u)
    BY <1>2, <1>5 DEF Waiting, SameDeletes
  <1>10. RqGood(rq)' /\ Listed' /\ OneCpuPerThread' /\ HandlersRun'
    BY <1>2, <1>3, <1>9 DEF RqGood, Listed, OneCpuPerThread, HandlersRun
  <1>11. ASSUME NEW u \in Threads PROVE ThreadInv(u)'
    <2>1. ThreadInv(u) /\ ThreadInv(t) /\ (BeingDeleted(u)' <=> BeingDeleted(u))
      BY <1>5 DEF SchedInv, SameDeletes
    <2>2. pc'[u] = IF u = self THEN "resume" ELSE pc[u]
      BY <1>4
    <2>3. BeingResumed(u)' => BeingResumed(u) \/ u = t
      BY <1>6
    <2> QED
      BY <1>1, <1>2, <2>1, <2>2, <2>3 DEF ThreadInv
  <1>12. ASSUME NEW d \in CPUs PROVE UrgentAt(d)'
    <2>1. UrgentAt(d)
      BY DEF SchedInv
    <2>2. current[d] # None /\ Reschedules(d) => Reschedules(d)'
      <3> SUFFICES ASSUME current[d] # None, Reschedules(d) PROVE Reschedules(d)'
        OBVIOUS
      <3>1. current[d] \in Threads
        BY Types
      <3>2. pc[current[d]] = "sched" => pc'[current[d]] = "sched"
        BY <1>1, <1>4, <3>1
      <3> QED
        BY <1>2, <3>2 DEF Reschedules
    <2> QED
      BY <1>2, <1>9, <2>1, <2>2 DEF UrgentAt
  <1> QED
    BY <1>7, <1>8, <1>10, <1>11, <1>12 DEF SchedInv

\* The section of rt_thread_resume
LEMMA ResumeLockedKeeps ==
    ASSUME SchedInv, NEW c \in CPUs, rt_thread_resume_locked(c)
    PROVE  SchedInv'
  <1> DEFINE self == current[c]
             t == target[self]
  <1>1. self # None /\ self \in Threads /\ pc[self] = "resume"
    BY Types DEF rt_thread_resume_locked, InThread
  <1>2. TypeOK /\ CallsAgree /\ ThreadInv(self)
    BY <1>1 DEF SchedInv
  <1>3. t \in Threads /\ BeingResumed(t) /\ self \notin Idlers
    BY <1>1, <1>2 DEF CallsAgree, BeingResumed, ThreadInv
  <1>4. ~BeingDeleted(t)
    BY <1>3 DEF SchedInv, ThreadInv
  <1>5. /\ timer' = [timer EXCEPT ![t] = FALSE]
        /\ insert_thread(c, unlinked(t), t)
        /\ pc' = [pc EXCEPT ![self] = "user"]
        /\ target' = [target EXCEPT ![self] = None]
        /\ owed' = [owed EXCEPT ![c] = TRUE]
        /\ UNCHANGED <<yield, oncpu, prio, remaining_tick, critical, current, irq,
                       irq_switch_flag>>
    BY DEF rt_thread_resume_locked, unlinked
  <1> HIDE DEF t, self
  <1>6. \A u \in Threads : /\ pc'[u] = IF u = self THEN "user" ELSE pc[u]
                           /\ target'[u] = IF u = self THEN None ELSE target[u]
    BY <1>2, <1>5 DEF TypeOK
  <1>7. SameDeletes
    BY <1>1, <1>6 DEF SameDeletes, BeingDeleted
  <1>8. \A u \in Threads : BeingResumed(u)' => BeingResumed(u)
    BY <1>6 DEF BeingResumed
  <1>9. CallsAgree'
    BY <1>2, <1>6 DEF CallsAgree
  <1>10. /\ pc' \in [Threads -> {"user", "sched", "resume", "delete"}]
         /\ target' \in [Threads -> Threads \cup {None}]
         /\ owed' \in [CPUs -> BOOLEAN] /\ owed'[c]
         /\ irq' \in [CPUs -> {"none", "tick", "leave"}]
         /\ irq_switch_flag' \in [CPUs -> BOOLEAN]
    BY <1>2, <1>5 DEF TypeOK
  <1>11. /\ timer' \in [Threads -> BOOLEAN] /\ ~timer'[t]
         /\ \A u \in Threads : u # t => timer'[u] = timer[u]
    BY <1>2, <1>3, <1>5 DEF TypeOK
  <1>12. ASSUME NEW u \in Threads
         PROVE  /\ pc[u] = "sched" => pc'[u] = "sched"
                /\ u \in Idlers => pc'[u] = "user"
    <2>1. ThreadInv(u)
      BY DEF SchedInv
    <2> QED
      BY <1>1, <1>6, <2>1 DEF ThreadInv
  <1>13. \A d \in CPUs : /\ irq'[d] # "none" => current[d] # None
                         /\ irq_switch_flag[d] => irq_switch_flag'[d]
                         /\ owed[d] => owed'[d]
    BY <1>2, <1>5 DEF SchedInv, HandlersRun, TypeOK
  <1>14. /\ UNCHANGED <<yield, oncpu, prio, remaining_tick, critical, current>>
         /\ insert_thread(c, unlinked(t), t)
    BY <1>5
  <1>15. irq_switch_flag'[c] \/ owed'[c] \/ pc'[current[c]] = "sched"
    BY <1>10
  <1> QED
    BY <1>3, <1>4, <1>7, <1>8, <1>9, <1>10, <1>11, <1>12, <1>13, <1>14, <1>15, InsertKeeps

\* RT_THREAD_CTRL_CHANGE_PRIORITY
LEMMA PriorityKeeps ==
    ASSUME SchedInv, CarefulEnd, NEW c \in CPUs, NEW t \in Threads, NEW p \in NewPrios,
           change_priority(c, t, p)
    PROVE  SchedInv'
  <1>0. /\ TypeOK /\ CallsAgree /\ OneCpuPerThread /\ HandlersRun
        /\ rq \in RqType /\ RqGood(rq) /\ Listed
        /\ Bind[t] \in Queues /\ prio[t] \in Prios /\ yield[t] \in BOOLEAN /\ p \in Prios
    BY Types, Constants, SchedulerAssumption DEF SchedInv
  <1>1. /\ t \notin Idlers /\ ~BeingDeleted(t)
        /\ prio' = [prio EXCEPT ![t] = p]
        /\ owed' = [d \in CPUs |-> owed[d] \/ d = c \/ d = oncpu[t]]
        /\ UNCHANGED <<stat, yield, oncpu, remaining_tick, timer, critical, pc, target,
                       current, irq, irq_switch_flag>>
    BY DEF change_priority, Touchable
  <1>2. SameDeletes /\ SameResumes /\ CallsAgree'
    BY <1>0, <1>1 DEF SameDeletes, SameResumes, BeingDeleted, BeingResumed, CallsAgree
  <1>3. \A u \in Threads : Waiting(u)' <=> Waiting(u)
    BY <1>1, <1>2 DEF Waiting, SameDeletes
  <1>4. Waiting(t) <=> stat[t] = "READY"
    BY <1>1 DEF Waiting
  <1>5. \A u \in Threads : prio'[u] = IF u = t THEN p ELSE prio[u]
    BY <1>0, <1>1 DEF TypeOK
  <1>6. /\ rq' \in RqType /\ RqGood(rq)' /\ Listed'
        /\ ipi' \in [CPUs -> BOOLEAN] /\ \A d \in CPUs : ipi[d] => ipi'[d]
        /\ \A d \in CPUs : d # c /\ Waiting(t) /\ Bind[t] \in {None, d} => ipi'[d]
    <2>1. CASE stat[t] = "READY"
      <3> DEFINE r == remove_ready(rq, t)
      <3>1. /\ rq' = insert_ready(r, t, p, yield[t])
            /\ ipi' = [d \in CPUs |-> ipi[d] \/ d \in ipi_targets(c, t)]
        BY <2>1 DEF change_priority
      <3>2. \A u \in Threads, q \in Queues, k \in Prios :
               u = t => (In(rq, u, q, k) <=> q = Bind[t] /\ k = prio[t])
        BY <1>0, <1>4, <2>1 DEF Listed
      <3>3. /\ r \in RqType /\ RqGood(r)
            /\ \A u \in Threads, q \in Queues, k \in Prios :
                  In(r, u, q, k) <=> In(rq, u, q, k) /\ u # t
        BY <1>0, <1>4, <2>1, <3>2, TakenOff
      <3> HIDE DEF r
      <3>4. ~In(r, t, Bind[t], p)
        BY <1>0, <3>3
      <3>5. \A q \in Queues, k \in Prios :
               /\ (q # Bind[t] \/ k # p) => (k \in r[q].group <=> r[q].list[k] # << >>)
               /\ Once(r[q].list[k])
        BY <3>3 DEF RqGood
      <3>6. /\ rq' \in RqType /\ RqGood(rq')
            /\ \A u \in Threads, q \in Queues, k \in Prios :
                  In(rq', u, q, k) <=> In(r, u, q, k) \/ (u = t /\ q = Bind[t] /\ k = p)
        BY <1>0, <3>1, <3>3, <3>4, <3>5, InsertReady
      <3>7. Listed'
        BY <1>0, <1>3, <1>4, <1>5, <2>1, <3>3, <3>6 DEF Listed
      <3>8. ipi' \in [CPUs -> BOOLEAN] /\ \A d \in CPUs : ipi[d] => ipi'[d]
        BY <1>0, <3>1 DEF TypeOK
      <3>9. \A d \in CPUs : d # c /\ Bind[t] \in {None, d} => ipi'[d]
        BY <3>1 DEF ipi_targets
      <3> QED
        BY <3>6, <3>7, <3>8, <3>9
    <2>2. CASE stat[t] # "READY"
      <3>1. rq' = rq /\ ipi' = ipi
        BY <2>2 DEF change_priority
      <3>2. Listed'
        BY <1>0, <1>3, <1>4, <1>5, <2>2, <3>1 DEF Listed
      <3>3. ipi' \in [CPUs -> BOOLEAN]
        BY <1>0, <3>1 DEF TypeOK
      <3> QED
        BY <1>0, <1>4, <2>2, <3>1, <3>2, <3>3
    <2> QED
      BY <2>1, <2>2
  <1>7. TypeOK'
    <2>1. prio' \in [Threads -> Prios] /\ owed' \in [CPUs -> BOOLEAN]
      BY <1>0, <1>1 DEF TypeOK
    <2> QED
      BY <1>0, <1>1, <1>6, <2>1 DEF TypeOK, RqType
  <1>8. OneCpuPerThread' /\ HandlersRun'
    BY <1>0, <1>1 DEF OneCpuPerThread, HandlersRun
  <1>9. ASSUME NEW u \in Threads PROVE ThreadInv(u)'
    <2>1. /\ ThreadInv(u) /\ (BeingDeleted(u)' <=> BeingDeleted(u))
          /\ (BeingResumed(u)' <=> BeingResumed(u))
          /\ (u \in Idlers => prio'[u] = prio[u])
      BY <1>1, <1>2, <1>5 DEF SchedInv, SameDeletes, SameResumes
    <2> QED
      BY <1>1, <2>1 DEF ThreadInv
  <1>10. \A d \in CPUs : owed'[d] <=> (owed[d] \/ d = c \/ d = oncpu[t])
    BY <1>1
  <1>11. ASSUME NEW d \in CPUs PROVE UrgentAt(d)'
    <2>1. SUFFICES ASSUME current[d] # None, ~Reschedules(d)', NEW u \in Threads, Waiting(u)',
                          Bind[u] \in {None, d}
                   PROVE  prio'[current[d]] <= prio'[u]
      BY <1>1 DEF UrgentAt
    <2>2. ~owed'[d] /\ ~ipi'[d] /\ Waiting(u)
      BY <1>3, <2>1 DEF Reschedules
    <2>3. d # c /\ oncpu[t] # d
      BY <1>10, <2>2
    <2>4. current[d] \in Threads /\ current[d] # t
      BY <1>0, <2>1, <2>3, Types DEF OneCpuPerThread
    <2>5. u # t
      BY <1>6, <2>1, <2>2, <2>3
    <2>6. ~Reschedules(d)
      <3>1. (owed[d] => owed'[d]) /\ (ipi[d] => ipi'[d])
        BY <1>6, <1>10
      <3> QED
        BY <1>1, <2>1, <3>1 DEF Reschedules
    <2>7. prio[current[d]] <= prio[u]
      BY <2>1, <2>2, <2>6 DEF SchedInv, UrgentAt
    <2> QED
      BY <1>5, <2>4, <2>5, <2>7
  <1> QED
    BY <1>2, <1>6, <1>7, <1>8, <1>9, <1>11 DEF SchedInv

-----------------------------------------------------------------------------
(* The steps that stop a thread *)

\* The thread of CPU c suspends itself or ends, and is about to call rt_schedule.
LEMMA StopKeeps ==
    ASSUME SchedInv, NEW c \in CPUs, AppCalls(c),
           NEW s \in {"SUSPEND", "CLOSE"}, s = "CLOSE" => ~BeingResumed(current[c]),
           rq' = remove_ready(rq, current[c]),
           stat' = [stat EXCEPT ![current[c]] = s],
           NEW b \in BOOLEAN, s = "CLOSE" => ~b,
           timer' = [timer EXCEPT ![current[c]] = b],
           yield' \in [Threads -> BOOLEAN],
           pc' = [pc EXCEPT ![current[c]] = "sched"],
           UNCHANGED <<oncpu, prio, remaining_tick, critical, target, current, irq,
                       irq_switch_flag, ipi, owed>>
    PROVE  SchedInv'
  <1> DEFINE t == current[c]
  <1>1. t # None /\ t \in Threads /\ t \notin Idlers /\ pc[t] = "user" /\ critical[t] = 0
    BY Types DEF AppCalls, Calls, InThread
  <1>2. /\ TypeOK /\ OneCpuPerThread /\ HandlersRun /\ ThreadInv(t)
        /\ rq \in RqType /\ RqGood(rq) /\ Listed /\ Bind[t] \in Queues /\ prio[t] \in Prios
    BY <1>1, Types, Constants DEF SchedInv
  <1>3. oncpu[t] = c /\ c # None
    BY <1>1, <1>2, Constants DEF OneCpuPerThread
  <1>4. stat[t] = "RUNNING" /\ ~BeingDeleted(t)
    BY <1>1, <1>2, <1>3 DEF ThreadInv
  <1>5. /\ SameDeletes /\ SameResumes /\ CallsAgree'
        /\ pc' \in [Threads -> {"user", "sched", "resume", "delete"}]
        /\ \A v \in Threads : v # t => pc'[v] = pc[v]
    BY <1>1, CallsStay
  <1>6. \A u \in Threads : /\ stat'[u] = IF u = t THEN s ELSE stat[u]
                           /\ timer'[u] = IF u = t THEN b ELSE timer[u]
    BY <1>2 DEF TypeOK
  <1>7. pc'[t] = "sched"
    BY <1>1, <1>2 DEF TypeOK
  <1>8. \A u \in Threads : Waiting(u)' <=> Waiting(u)
    <2> HIDE DEF t
    <2> QED
      BY <1>4, <1>5, <1>6 DEF Waiting, SameDeletes
  <1>9. rq' \in RqType /\ RqGood(rq)' /\ Listed'
    <2>1. /\ rq' \in RqType /\ RqGood(rq')
          /\ \A u \in Threads, q \in Queues, p \in Prios :
                In(rq', u, q, p) <=> In(rq, u, q, p) /\ ~(u = t /\ q = Bind[t] /\ p = prio[t])
      BY <1>1, <1>2, RemoveReady
    <2>2. ~Waiting(t)
      BY <1>4 DEF Waiting
    <2> HIDE DEF t
    <2>3. Listed'
      BY <1>2, <1>8, <2>1, <2>2 DEF Listed
    <2> QED
      BY <2>1, <2>3
  <1>10. TypeOK'
    <2>1. stat' \in [Threads -> Stats] /\ timer' \in [Threads -> BOOLEAN]
      BY <1>2 DEF TypeOK, Stats
    <2> QED
      BY <1>2, <1>5, <1>9, <2>1 DEF TypeOK, RqType
  <1>11. HandlersRun'
    BY <1>2 DEF HandlersRun
  <1> HIDE DEF t
  <1>12. OneCpuPerThread'
    BY <1>2, <1>6 DEF OneCpuPerThread
  <1>13. ASSUME NEW u \in Threads PROVE ThreadInv(u)'
    <2>1. /\ ThreadInv(u) /\ (BeingDeleted(u)' <=> BeingDeleted(u))
          /\ (BeingResumed(u)' <=> BeingResumed(u))
      BY <1>5 DEF SchedInv, SameDeletes, SameResumes
    <2>2. CASE u = t
      <3>1. stat'[t] = s /\ timer'[t] = b /\ pc'[t] = "sched" /\ ~(critical[t] > 0)
        BY <1>1, <1>6, <1>7
      <3>2. s = "CLOSE" => ~BeingResumed(t)
        BY DEF t
      <3> QED
        BY <1>1, <1>4, <2>1, <2>2, <3>1, <3>2 DEF ThreadInv
    <2>3. CASE u # t
      <3>1. stat'[u] = stat[u] /\ timer'[u] = timer[u] /\ pc'[u] = pc[u]
        BY <1>5, <1>6, <2>3
      <3> QED
        BY <2>1, <3>1 DEF ThreadInv
    <2> QED
      BY <2>2, <2>3
  <1>14. ASSUME NEW d \in CPUs PROVE UrgentAt(d)'
    <2>1. UrgentAt(d)
      BY DEF SchedInv
    <2>2. current[d] # None /\ Reschedules(d) => Reschedules(d)'
      <3> SUFFICES ASSUME current[d] # None, Reschedules(d) PROVE Reschedules(d)'
        OBVIOUS
      <3>1. current[d] \in Threads
        BY Types
      <3>2. pc[current[d]] = "sched" => pc'[current[d]] = "sched"
        BY <1>5, <1>7, <3>1
      <3> QED
        BY <3>2 DEF Reschedules
    <2> QED
      BY <1>8, <2>1, <2>2 DEF UrgentAt
  <1> QED
    BY <1>5, <1>9, <1>10, <1>11, <1>12, <1>13, <1>14 DEF SchedInv

\* rt_thread_suspend, with or without a timeout
LEMMA SuspendKeeps ==
    ASSUME SchedInv, NEW c \in CPUs, NEW timed \in BOOLEAN, rt_thread_suspend(c, timed)
    PROVE  SchedInv'
  <1> DEFINE t == current[c]
  <1>1. /\ AppCalls(c)
        /\ timer' = [timer EXCEPT ![t] = timed]
        /\ pc' = [pc EXCEPT ![t] = "sched"]
        /\ UNCHANGED <<yield, oncpu, prio, remaining_tick, critical, target, current,
                       irq, irq_switch_flag, ipi, owed>>
    BY DEF rt_thread_suspend
  <1>2. t # None /\ t \in Threads /\ pc[t] = "user"
    BY <1>1, Types DEF AppCalls, Calls, InThread
  <1>3. stat[t] = "RUNNING"
    BY <1>2, Constants DEF SchedInv, ThreadInv, OneCpuPerThread
  <1>4. rq' = remove_ready(rq, t) /\ stat' = [stat EXCEPT ![t] = "SUSPEND"]
    BY <1>3 DEF rt_thread_suspend
  <1>5. yield' \in [Threads -> BOOLEAN]
    BY <1>1 DEF SchedInv, TypeOK
  <1> QED
    BY <1>1, <1>4, <1>5, StopKeeps

\* _thread_exit
LEMMA ExitKeeps ==
    ASSUME SchedInv, CarefulEnd, NEW c \in CPUs, thread_exit(c)
    PROVE  SchedInv'
  <1> DEFINE t == current[c]
  <1>1. /\ AppCalls(c) /\ ~BeingResumed(t)
        /\ rq' = remove_ready(rq, t)
        /\ timer' = [timer EXCEPT ![t] = FALSE]
        /\ stat' = [stat EXCEPT ![t] = "CLOSE"]
        /\ pc' = [pc EXCEPT ![t] = "sched"]
        /\ UNCHANGED <<oncpu, prio, remaining_tick, critical, target, current, irq,
                       irq_switch_flag, ipi, owed>>
    BY DEF thread_exit, May_end
  <1>2. yield' \in [Threads -> BOOLEAN]
    BY DEF thread_exit, SchedInv, TypeOK
  <1> QED
    BY <1>1, <1>2, StopKeeps

\* rt_thread_delete and rt_thread_detach, first section
LEMMA DeleteKeeps ==
    ASSUME SchedInv, CarefulEnd, NEW c \in CPUs, NEW t \in Threads, rt_thread_delete(c, t)
    PROVE  SchedInv'
  <1> DEFINE self == current[c]
  <1>1. self # None /\ self \in Threads /\ self \notin Idlers /\ pc[self] = "user"
    BY Types DEF rt_thread_delete, May_delete, Calls, InThread
  <1>2. /\ stat[t] # "CLOSE" /\ t \notin Idlers /\ ~BeingResumed(t) /\ ~BeingDeleted(t)
        /\ oncpu[t] = None /\ ~timer[t]
        /\ rq' = IF stat[t] = "INIT" THEN rq ELSE remove_ready(rq, t)
        /\ pc' = [pc EXCEPT ![self] = "delete"]
        /\ target' = [target EXCEPT ![self] = t]
        /\ UNCHANGED <<stat, yield, oncpu, prio, remaining_tick, timer, critical, current,
                       irq, irq_switch_flag, ipi, owed>>
    BY DEF rt_thread_delete, May_delete, May_end
  <1>3. /\ TypeOK /\ CallsAgree /\ OneCpuPerThread /\ HandlersRun
        /\ rq \in RqType /\ RqGood(rq) /\ Listed /\ Bind[t] \in Queues /\ prio[t] \in Prios
    BY Types, Constants DEF SchedInv
  <1>4. \A u \in Threads : /\ pc'[u] = IF u = self THEN "delete" ELSE pc[u]
                           /\ target'[u] = IF u = self THEN t ELSE target[u]
    BY <1>2, <1>3 DEF TypeOK
  <1>5. stat[t] \in {"INIT", "READY", "SUSPEND"}
    BY <1>2, <1>3 DEF OneCpuPerThread, TypeOK, Stats
  <1> HIDE DEF self
  <1>6. \A u \in Threads : BeingDeleted(u)' <=> BeingDeleted(u) \/ u = t
    BY <1>1, <1>4 DEF BeingDeleted
  <1>7. SameResumes
    BY <1>1, <1>4 DEF SameResumes, BeingResumed
  <1>8. CallsAgree'
    <2>1. \A u \in Threads : pc[u] = "delete" => target[u] # t
      BY <1>2 DEF BeingDeleted
    <2> QED
      BY <1>3, <1>4, <2>1 DEF CallsAgree
  <1>9. \A u \in Threads : Waiting(u)' <=> Waiting(u) /\ u # t
    BY <1>2, <1>6 DEF Waiting
  <1>10. rq' \in RqType /\ RqGood(rq)' /\ Listed'
    <2>1. CASE stat[t] = "INIT"
      <3>1. rq' = rq /\ ~Waiting(t)
        BY <1>2, <2>1 DEF Waiting
      <3>2. Listed'
        BY <1>2, <1>3, <1>9, <3>1 DEF Listed
      <3> QED
        BY <1>3, <3>1, <3>2
    <2>2. CASE stat[t] # "INIT"
      <3>1. /\ rq' \in RqType /\ RqGood(rq')
            /\ \A u \in Threads, q \in Queues, p \in Prios :
                  In(rq', u, q, p) <=> In(rq, u, q, p) /\ ~(u = t /\ q = Bind[t] /\ p = prio[t])
        BY <1>2, <1>3, <2>2, RemoveReady
      <3>2. Listed'
        BY <1>2, <1>3, <1>9, <3>1 DEF Listed
      <3> QED
        BY <3>1, <3>2
    <2> QED
      BY <2>1, <2>2
  <1>11. TypeOK'
    <2>1. /\ pc' \in [Threads -> {"user", "sched", "resume", "delete"}]
          /\ target' \in [Threads -> Threads \cup {None}]
      BY <1>2, <1>3 DEF TypeOK
    <2> QED
      BY <1>2, <1>3, <1>10, <2>1 DEF TypeOK, RqType
  <1>12. OneCpuPerThread' /\ HandlersRun'
    BY <1>2, <1>3 DEF OneCpuPerThread, HandlersRun
  <1>13. ASSUME NEW u \in Threads PROVE ThreadInv(u)'
    <2>1. /\ ThreadInv(u) /\ (BeingDeleted(u)' <=> BeingDeleted(u) \/ u = t)
          /\ (BeingResumed(u)' <=> BeingResumed(u))
          /\ pc'[u] = IF u = self THEN "delete" ELSE pc[u]
      BY <1>4, <1>6, <1>7 DEF SchedInv, SameResumes
    <2> QED
      BY <1>1, <1>2, <1>5, <2>1 DEF ThreadInv
  <1>14. ASSUME NEW d \in CPUs PROVE UrgentAt(d)'
    <2>1. UrgentAt(d)
      BY DEF SchedInv
    <2>2. current[d] # None /\ Reschedules(d) => Reschedules(d)'
      <3> SUFFICES ASSUME current[d] # None, Reschedules(d) PROVE Reschedules(d)'
        OBVIOUS
      <3>1. current[d] \in Threads
        BY Types
      <3>2. pc[current[d]] = "sched" => pc'[current[d]] = "sched"
        BY <1>1, <1>4, <3>1
      <3> QED
        BY <1>2, <3>2 DEF Reschedules
    <2> QED
      BY <1>2, <1>9, <2>1, <2>2 DEF UrgentAt
  <1> QED
    BY <1>8, <1>10, <1>11, <1>12, <1>13, <1>14 DEF SchedInv

\* Second section
LEMMA DeleteLockedKeeps ==
    ASSUME SchedInv, NEW c \in CPUs, NEW resched \in BOOLEAN, rt_thread_delete_locked(c, resched)
    PROVE  SchedInv'
  <1> DEFINE self == current[c]
             t == target[self]
             x == IF resched THEN "sched" ELSE "user"
  <1>1. self # None /\ self \in Threads /\ pc[self] = "delete"
    BY Types DEF rt_thread_delete_locked, InThread
  <1>2. TypeOK /\ CallsAgree /\ OneCpuPerThread /\ HandlersRun /\ RqGood(rq) /\ Listed
    BY DEF SchedInv
  <1>3. t \in Threads /\ BeingDeleted(t)
    BY <1>1, <1>2 DEF CallsAgree, BeingDeleted
  <1>4. /\ timer' = [timer EXCEPT ![t] = FALSE]
        /\ stat' = [stat EXCEPT ![t] = "CLOSE"]
        /\ yield' = [yield EXCEPT ![t] = FALSE]
        /\ pc' = [pc EXCEPT ![self] = x]
        /\ target' = [target EXCEPT ![self] = None]
        /\ UNCHANGED <<oncpu, prio, remaining_tick, critical, rq, current, irq,
                       irq_switch_flag, ipi, owed>>
    BY DEF rt_thread_delete_locked
  <1>5. x \in {"user", "sched"}
    OBVIOUS
  <1>6. \A u \in Threads : pc[u] = "delete" /\ target[u] = t => u = self
    BY <1>1, <1>2 DEF CallsAgree
  <1> HIDE DEF t, self, x
  <1>7. \A u \in Threads : /\ pc'[u] = IF u = self THEN x ELSE pc[u]
                           /\ target'[u] = IF u = self THEN None ELSE target[u]
                           /\ stat'[u] = IF u = t THEN "CLOSE" ELSE stat[u]
                           /\ timer'[u] = IF u = t THEN FALSE ELSE timer[u]
    BY <1>2, <1>4 DEF TypeOK
  <1>8. target[self] = t
    BY DEF t
  <1>9. \A u \in Threads : BeingDeleted(u)' <=> BeingDeleted(u) /\ u # t
    BY <1>1, <1>5, <1>6, <1>7, <1>8 DEF BeingDeleted
  <1>10. SameResumes
    BY <1>1, <1>5, <1>7 DEF SameResumes, BeingResumed
  <1>11. CallsAgree'
    <2>1. \A u \in Threads : pc'[u] \in {"resume", "delete"} =>
             u # self /\ pc'[u] = pc[u] /\ target'[u] = target[u]
      BY <1>5, <1>7
    <2> QED
      BY <1>2, <2>1 DEF CallsAgree
  <1>12. TypeOK'
    <2>1. /\ pc' \in [Threads -> {"user", "sched", "resume", "delete"}]
          /\ target' \in [Threads -> Threads \cup {None}]
          /\ stat' \in [Threads -> Stats] /\ timer' \in [Threads -> BOOLEAN]
          /\ yield' \in [Threads -> BOOLEAN]
      BY <1>2, <1>4, <1>5 DEF TypeOK, Stats
    <2> QED
      BY <1>2, <1>4, <2>1 DEF TypeOK
  <1>13. \A u \in Threads : Waiting(u)' <=> Waiting(u)
    BY <1>3, <1>7, <1>9 DEF Waiting
  <1>14. RqGood(rq)' /\ Listed' /\ HandlersRun'
    BY <1>2, <1>4, <1>13 DEF RqGood, Listed, HandlersRun
  <1>15. ThreadInv(t) /\ ThreadInv(self)
    BY <1>1, <1>3 DEF SchedInv
  <1>16. OneCpuPerThread'
    BY <1>2, <1>4, <1>7 DEF OneCpuPerThread
  <1>17. ~(critical[t] > 0)
    BY <1>3, <1>15 DEF ThreadInv
  <1>18. ASSUME NEW u \in Threads PROVE ThreadInv(u)'
    <2>1. /\ ThreadInv(u) /\ (BeingDeleted(u)' <=> BeingDeleted(u) /\ u # t)
          /\ (BeingResumed(u)' <=> BeingResumed(u))
          /\ pc'[u] = IF u = self THEN x ELSE pc[u]
          /\ stat'[u] = IF u = t THEN "CLOSE" ELSE stat[u]
          /\ timer'[u] = IF u = t THEN FALSE ELSE timer[u]
      BY <1>7, <1>9, <1>10 DEF SchedInv, SameResumes
    <2>2. CASE u = t
      BY <1>1, <1>3, <1>4, <1>15, <1>17, <2>1, <2>2 DEF ThreadInv
    <2>3. CASE u # t
      BY <1>1, <1>4, <1>5, <1>15, <2>1, <2>3 DEF ThreadInv
    <2> QED
      BY <2>2, <2>3
  <1>19. ASSUME NEW d \in CPUs PROVE UrgentAt(d)'
    <2>1. UrgentAt(d)
      BY DEF SchedInv
    <2>2. current[d] # None /\ Reschedules(d) => Reschedules(d)'
      <3> SUFFICES ASSUME current[d] # None, Reschedules(d) PROVE Reschedules(d)'
        OBVIOUS
      <3>1. current[d] \in Threads
        BY Types
      <3>2. pc[current[d]] = "sched" => pc'[current[d]] = "sched"
        BY <1>1, <1>7, <3>1
      <3> QED
        BY <1>4, <3>2 DEF Reschedules
    <2> QED
      BY <1>4, <1>13, <2>1, <2>2 DEF UrgentAt
  <1> QED
    BY <1>11, <1>12, <1>14, <1>16, <1>18, <1>19 DEF SchedInv

-----------------------------------------------------------------------------
(* The theorems *)

\* Every step of a system whose threads end with care keeps the invariant.
LEMMA SchedStep ==
    ASSUME SchedInv, CarefulEnd, [Next]_vars
    PROVE  SchedInv'
  <1>1. CASE UNCHANGED vars
    <2>1. UNCHANGED <<stat, yield, oncpu, prio, remaining_tick, timer, critical, pc, target,
                      rq, current, irq, irq_switch_flag, ipi, owed>>
      BY <1>1 DEF vars
    <2> QED
      BY <2>1 DEF SchedInv, TypeOK, RqGood, Listed, OneCpuPerThread, HandlersRun, CallsAgree,
           ThreadInv, UrgentAt, Reschedules, Waiting, BeingDeleted, BeingResumed
  <1>2. ASSUME NEW c \in CPUs,
               \/ rt_system_scheduler_start(c)
               \/ rt_schedule(c)
               \/ rt_thread_yield(c)
               \/ \E timed \in BOOLEAN : rt_thread_suspend(c, timed)
               \/ rt_thread_resume_locked(c)
               \/ rt_enter_critical(c) \/ rt_exit_critical(c)
               \/ thread_exit(c)
               \/ \E resched \in BOOLEAN : rt_thread_delete_locked(c, resched)
               \/ rt_tick_increase(c) \/ rt_timer_check(c)
               \/ rt_scheduler_ipi_handler(c)
               \/ rt_scheduler_do_irq_switch(c)
        PROVE  SchedInv'
    BY <1>2, StartKeeps, ScheduleKeeps, YieldKeeps, SuspendKeeps, ResumeLockedKeeps,
       CriticalKeeps, ExitKeeps, DeleteLockedKeeps, HandlerKeeps, IrqSwitchKeeps
  <1>3. ASSUME NEW c \in CPUs, NEW t \in Threads,
               \/ rt_thread_startup(c, t)
               \/ ipc_wakeup(c, t)
               \/ rt_thread_resume(c, t)
               \/ rt_thread_delete(c, t)
               \/ thread_timeout(c, t)
               \/ device_isr(c, t)
               \/ \E p \in NewPrios : change_priority(c, t, p)
        PROVE  SchedInv'
    BY <1>3, WakeupKeeps, ResumeKeeps, DeleteKeeps, InterruptWakeKeeps, PriorityKeeps
  <1> QED
    BY <1>1, <1>2, <1>3 DEF Next

\* The invariant holds throughout.
LEMMA SchedInvariant == CarefulEnd => (Spec => []SchedInv)
  <1> SUFFICES ASSUME CarefulEnd PROVE Spec => []SchedInv
    OBVIOUS
  <1>1. Init => SchedInv
    BY SchedInitially
  <1>2. SchedInv /\ [Next]_vars => SchedInv'
    BY SchedStep
  <1> QED
    BY <1>1, <1>2, PTL DEF Spec

(***************************************************************************)
(* The ready queues, group bits and thread fields stay well typed.         *)
(***************************************************************************)
THEOREM SchedulerTypes == CarefulEnd => (Spec => []TypeOK)
  <1>1. SchedInv => TypeOK
    BY SchedInvMeans
  <1> QED
    BY <1>1, SchedInvariant, PTL

(***************************************************************************)
(* The ready queues of scheduler.c hold exactly the READY threads, each    *)
(* once and where its binding and priority say, with the right group bits, *)
(* for any number of CPUs and threads.                                     *)
(***************************************************************************)
THEOREM ReadyQueuesAreExact == CarefulEnd => (Spec => []QueuesHoldReady)
  <1>1. SchedInv => QueuesHoldReady
    BY SchedInvMeans
  <1> QED
    BY <1>1, SchedInvariant, PTL

(***************************************************************************)
(* A thread runs on one CPU at a time, and oncpu, current_thread and the   *)
(* RUNNING state agree on which.                                           *)
(***************************************************************************)
THEOREM ThreadsRunOnOneCpu == CarefulEnd => (Spec => []OneCpuPerThread)
  <1>1. SchedInv => OneCpuPerThread
    BY SchedInvMeans
  <1> QED
    BY <1>1, SchedInvariant, PTL

(***************************************************************************)
(* A blocking call returns only after the thread was made runnable again.  *)
(***************************************************************************)
THEOREM BlockedStayBlocked == CarefulEnd => (Spec => []BlockedDoNotRun)
  <1>1. SchedInv => BlockedDoNotRun
    BY SchedInvMeans
  <1> QED
    BY <1>1, SchedInvariant, PTL

(***************************************************************************)
(* The assertion of _thread_timeout holds: its thread is suspended.        *)
(***************************************************************************)
THEOREM TimeoutAssertionHolds == CarefulEnd => (Spec => []TimeoutFindsSuspended)
  <1>1. SchedInv => TimeoutFindsSuspended
    BY SchedInvMeans
  <1> QED
    BY <1>1, SchedInvariant, PTL

(***************************************************************************)
(* A CPU that has no rescheduling ahead runs something at least as urgent  *)
(* as every thread that is ready for it.                                   *)
(***************************************************************************)
THEOREM MostUrgentRuns == CarefulEnd => (Spec => []HighestRuns)
  <1>1. SchedInv => HighestRuns
    BY SchedInvMeans
  <1> QED
    BY <1>1, SchedInvariant, PTL

(***************************************************************************)
(* A deleted thread is in no ready queue.                                  *)
(***************************************************************************)
THEOREM DeletedThreadsAreGone == CarefulEnd => (Spec => []DeletedIsGone)
  <1>1. SchedInv => DeletedIsGone
    BY SchedInvMeans
  <1> QED
    BY <1>1, SchedInvariant, PTL

\* A switch moves only a thread outside critical sections and a ready one.
LEMMA SwitchLeavesCritical ==
    ASSUME SchedInv, NEW c \in CPUs, current[c] # None, anything_ready(c),
           NEW y \in BOOLEAN, switch(c, y), critical[current[c]] = 0,
           NEW t \in Threads, critical[t] > 0
    PROVE  oncpu'[t] = oncpu[t]
  <1> DEFINE h == highest_priority_thread(c)
             keep == keeps_cpu(current[c], highest_ready_priority(c), y)
             to == IF keep THEN current[c] ELSE h
  <1>1. oncpu' = [u \in Threads |-> IF u = to THEN c ELSE IF u = current[c] THEN None ELSE oncpu[u]]
    BY DEF switch
  <1>2. Waiting(h)
    BY HighestReady
  <1>3. stat[t] = "RUNNING" /\ t # current[c]
    BY DEF SchedInv, ThreadInv
  <1> HIDE DEF h, keep
  <1>4. t # h
    BY <1>2, <1>3 DEF Waiting
  <1> QED
    BY <1>1, <1>3, <1>4

\* No step takes a thread in a critical section off its CPU.
LEMMA CriticalStep ==
    ASSUME SchedInv, Next, NEW t \in Threads, critical[t] > 0
    PROVE  oncpu'[t] = oncpu[t]
  <1>1. PICK c \in CPUs :
           \/ rt_system_scheduler_start(c)
           \/ rt_schedule(c)
           \/ rt_thread_yield(c)
           \/ rt_scheduler_do_irq_switch(c)
           \/ oncpu' = oncpu
    <2>1. ASSUME NEW c \in CPUs,
                 \/ \E timed \in BOOLEAN : rt_thread_suspend(c, timed)
                 \/ rt_thread_resume_locked(c)
                 \/ rt_enter_critical(c) \/ rt_exit_critical(c)
                 \/ thread_exit(c)
                 \/ \E resched \in BOOLEAN : rt_thread_delete_locked(c, resched)
                 \/ rt_tick_increase(c) \/ rt_timer_check(c)
                 \/ rt_scheduler_ipi_handler(c)
          PROVE  oncpu' = oncpu
      BY <2>1, Zenon DEF rt_thread_suspend, rt_thread_resume_locked, rt_enter_critical,
         rt_exit_critical, thread_exit, rt_thread_delete_locked, rt_tick_increase,
         rt_timer_check, rt_scheduler_ipi_handler
    <2>2. ASSUME NEW c \in CPUs, NEW u \in Threads,
                 \/ rt_thread_startup(c, u)
                 \/ ipc_wakeup(c, u)
                 \/ rt_thread_resume(c, u)
                 \/ rt_thread_delete(c, u)
                 \/ thread_timeout(c, u)
                 \/ device_isr(c, u)
                 \/ \E p \in NewPrios : change_priority(c, u, p)
          PROVE  oncpu' = oncpu
      BY <2>2, Zenon DEF rt_thread_startup, ipc_wakeup, rt_thread_resume, rt_thread_delete,
         thread_timeout, device_isr, change_priority
    <2> QED
      BY <2>1, <2>2 DEF Next
  <1>2. TypeOK /\ stat[t] = "RUNNING"
    BY DEF SchedInv, ThreadInv
  <1>3. CASE rt_system_scheduler_start(c)
    <2> DEFINE to == highest_priority_thread(c)
    <2>1. current[c] = None /\ oncpu' = [oncpu EXCEPT ![to] = c]
      BY <1>3 DEF rt_system_scheduler_start
    <2>2. Waiting(to)
      BY <2>1, IdleReady, HighestReady, Constants
    <2> HIDE DEF to
    <2>3. t # to
      BY <1>2, <2>2 DEF Waiting
    <2> QED
      BY <1>2, <2>1, <2>3 DEF TypeOK
  <1>4. CASE rt_schedule(c)
    <2>1. current[c] # None
      BY <1>4 DEF rt_schedule, InThread
    <2>2. CASE critical[current[c]] = 0 /\ anything_ready(c)
      <3>1. switch(c, yield[current[c]]) /\ yield[current[c]] \in BOOLEAN
        BY <1>4, <2>1, <2>2, Types DEF rt_schedule
      <3> QED
        BY <2>1, <2>2, <3>1, SwitchLeavesCritical
    <2>3. CASE ~(critical[current[c]] = 0 /\ anything_ready(c))
      BY <1>4, <2>3 DEF rt_schedule, no_switch
    <2> QED
      BY <2>2, <2>3
  <1>5. CASE rt_thread_yield(c)
    <2>1. current[c] # None /\ critical[current[c]] = 0
      BY <1>5 DEF rt_thread_yield, AppCalls, Calls, InThread
    <2>2. CASE anything_ready(c)
      <3>1. switch(c, TRUE)
        BY <1>5, <2>2 DEF rt_thread_yield
      <3> QED
        BY <2>1, <2>2, <3>1, SwitchLeavesCritical
    <2>3. CASE ~anything_ready(c)
      BY <1>5, <2>3 DEF rt_thread_yield
    <2> QED
      BY <2>2, <2>3
  <1>6. CASE rt_scheduler_do_irq_switch(c)
    <2> DEFINE armed == irq_switch_flag[c] /\ critical[current[c]] = 0
    <2>1. irq[c] = "leave"
          /\ IF armed /\ anything_ready(c) THEN switch(c, yield[current[c]]) ELSE no_switch
      BY <1>6 DEF rt_scheduler_do_irq_switch
    <2>2. current[c] # None
      BY <2>1 DEF SchedInv, HandlersRun
    <2>3. CASE armed /\ anything_ready(c)
      <3>1. switch(c, yield[current[c]]) /\ yield[current[c]] \in BOOLEAN
        BY <2>1, <2>2, <2>3, Types
      <3> QED
        BY <2>2, <2>3, <3>1, SwitchLeavesCritical
    <2>4. CASE ~(armed /\ anything_ready(c))
      BY <2>1, <2>4 DEF no_switch
    <2> QED
      BY <2>3, <2>4
  <1> QED
    BY <1>1, <1>3, <1>4, <1>5, <1>6

(***************************************************************************)
(* rt_enter_critical keeps the thread on its CPU, whatever the interrupts  *)
(* and the other CPUs ask for.                                             *)
(***************************************************************************)
THEOREM CriticalSectionsStay == CarefulEnd => (Spec => CriticalStays)
  <1> SUFFICES ASSUME CarefulEnd PROVE Spec => CriticalStays
    OBVIOUS
  <1>1. Spec => []SchedInv
    BY SchedInvariant
  <1>2. SchedInv /\ [Next]_vars =>
           [\A t \in Threads : critical[t] > 0 => oncpu'[t] = oncpu[t]]_vars
    BY CriticalStep
  <1> QED
    BY <1>1, <1>2, PTL DEF Spec, CriticalStays

\* A switch runs only a thread that was running or ready.
LEMMA SwitchLeavesEnded ==
    ASSUME SchedInv, NEW c \in CPUs, current[c] # None, anything_ready(c),
           NEW y \in BOOLEAN, switch(c, y), NEW t \in Threads, stat[t] = "CLOSE"
    PROVE  stat'[t] = "CLOSE"
  <1> DEFINE h == highest_priority_thread(c)
             keep == keeps_cpu(current[c], highest_ready_priority(c), y)
             to == IF keep THEN current[c] ELSE h
             requeue == stat[current[c]] = "RUNNING" /\ ~keep
  <1>1. stat' = [u \in Threads |->
                   IF u = to THEN (IF to = current[c] THEN stat[current[c]] ELSE "RUNNING")
                   ELSE IF u = current[c] /\ requeue THEN "READY"
                   ELSE stat[u]]
    BY DEF switch
  <1>2. Waiting(h)
    BY HighestReady
  <1> HIDE DEF h, keep
  <1>3. t # h
    BY <1>2 DEF Waiting
  <1> QED
    BY <1>1, <1>3

\* An insertion of a thread that has not ended leaves those that have alone.
LEMMA InsertLeavesEnded ==
    ASSUME TypeOK, NEW c \in CPUs, NEW r, NEW u \in Threads, insert_thread(c, r, u),
           stat[u] # "CLOSE", NEW t \in Threads, stat[t] = "CLOSE"
    PROVE  stat'[t] = "CLOSE"
  BY DEF insert_thread, TypeOK

\* No step changes the state of a thread that has ended.
LEMMA EndedStep ==
    ASSUME SchedInv, Next, NEW t \in Threads, stat[t] = "CLOSE"
    PROVE  stat'[t] = "CLOSE"
  <1>0. /\ TypeOK /\ CallsAgree /\ HandlersRun
        /\ \A u \in Threads : ThreadInv(u)
    BY DEF SchedInv
  <1>1. ASSUME NEW c \in CPUs, rt_system_scheduler_start(c)
        PROVE  stat'[t] = "CLOSE"
    <2> DEFINE to == highest_priority_thread(c)
    <2>1. current[c] = None /\ stat' = [stat EXCEPT ![to] = "RUNNING"]
      BY <1>1 DEF rt_system_scheduler_start
    <2>2. Waiting(to)
      BY <2>1, IdleReady, HighestReady, Constants
    <2> HIDE DEF to
    <2>3. t # to
      BY <2>2 DEF Waiting
    <2> QED
      BY <1>0, <2>1, <2>3 DEF TypeOK
  <1>2. ASSUME NEW c \in CPUs, rt_schedule(c)
        PROVE  stat'[t] = "CLOSE"
    <2>1. current[c] # None
      BY <1>2 DEF rt_schedule, InThread
    <2>2. CASE critical[current[c]] = 0 /\ anything_ready(c)
      <3>1. switch(c, yield[current[c]]) /\ yield[current[c]] \in BOOLEAN
        BY <1>2, <2>1, <2>2, Types DEF rt_schedule
      <3> QED
        BY <2>1, <2>2, <3>1, SwitchLeavesEnded
    <2>3. CASE ~(critical[current[c]] = 0 /\ anything_ready(c))
      BY <1>2, <2>3 DEF rt_schedule, no_switch
    <2> QED
      BY <2>2, <2>3
  <1>3. ASSUME NEW c \in CPUs, rt_thread_yield(c)
        PROVE  stat'[t] = "CLOSE"
    <2>1. current[c] # None
      BY <1>3 DEF rt_thread_yield, AppCalls, Calls, InThread
    <2>2. CASE anything_ready(c)
      <3>1. switch(c, TRUE)
        BY <1>3, <2>2 DEF rt_thread_yield
      <3> QED
        BY <2>1, <2>2, <3>1, SwitchLeavesEnded
    <2>3. CASE ~anything_ready(c)
      BY <1>3, <2>3 DEF rt_thread_yield
    <2> QED
      BY <2>2, <2>3
  <1>4. ASSUME NEW c \in CPUs, rt_scheduler_do_irq_switch(c)
        PROVE  stat'[t] = "CLOSE"
    <2> DEFINE armed == irq_switch_flag[c] /\ critical[current[c]] = 0
    <2>1. irq[c] = "leave"
          /\ IF armed /\ anything_ready(c) THEN switch(c, yield[current[c]]) ELSE no_switch
      BY <1>4 DEF rt_scheduler_do_irq_switch
    <2>2. current[c] # None
      BY <1>0, <2>1 DEF HandlersRun
    <2>3. CASE armed /\ anything_ready(c)
      <3>1. switch(c, yield[current[c]]) /\ yield[current[c]] \in BOOLEAN
        BY <2>1, <2>2, <2>3, Types
      <3> QED
        BY <2>2, <2>3, <3>1, SwitchLeavesEnded
    <2>4. CASE ~(armed /\ anything_ready(c))
      BY <2>1, <2>4 DEF no_switch
    <2> QED
      BY <2>3, <2>4
  <1>5. ASSUME NEW c \in CPUs, rt_thread_resume_locked(c)
        PROVE  stat'[t] = "CLOSE"
    <2> DEFINE u == target[current[c]]
    <2>1. /\ current[c] \in Threads /\ pc[current[c]] = "resume"
          /\ \E r : insert_thread(c, r, u)
      BY <1>5, Types DEF rt_thread_resume_locked, InThread
    <2>2. u \in Threads /\ BeingResumed(u)
      BY <1>0, <2>1 DEF CallsAgree, BeingResumed
    <2>3. stat[u] # "CLOSE"
      BY <1>0, <2>2 DEF ThreadInv
    <2> QED
      BY <1>0, <2>1, <2>2, <2>3, InsertLeavesEnded
  <1>6. ASSUME NEW c \in CPUs, NEW u \in Threads,
               \/ rt_thread_startup(c, u) \/ ipc_wakeup(c, u)
               \/ thread_timeout(c, u) \/ device_isr(c, u)
        PROVE  stat'[t] = "CLOSE"
    <2>1. insert_thread(c, rq, u) /\ (stat[u] \in {"INIT", "SUSPEND"} \/ timer[u])
      BY <1>6 DEF rt_thread_startup, ipc_wakeup, thread_timeout, device_isr, wake
    <2>2. stat[u] # "CLOSE"
      BY <1>0, <2>1 DEF ThreadInv
    <2> QED
      BY <1>0, <2>1, <2>2, InsertLeavesEnded
  <1>7. ASSUME NEW c \in CPUs,
               \/ \E timed \in BOOLEAN : rt_thread_suspend(c, timed)
               \/ thread_exit(c)
               \/ \E resched \in BOOLEAN : rt_thread_delete_locked(c, resched)
        PROVE  stat'[t] = "CLOSE"
    BY <1>0, <1>7 DEF rt_thread_suspend, thread_exit, rt_thread_delete_locked, TypeOK
  <1>8. ASSUME NEW c \in CPUs,
               \/ rt_enter_critical(c) \/ rt_exit_critical(c)
               \/ rt_tick_increase(c) \/ rt_timer_check(c)
               \/ rt_scheduler_ipi_handler(c)
        PROVE  stat'[t] = "CLOSE"
    <2>1. stat' = stat
      BY <1>8, Zenon DEF rt_enter_critical, rt_exit_critical, rt_tick_increase,
         rt_timer_check, rt_scheduler_ipi_handler
    <2> QED
      BY <2>1
  <1>9. ASSUME NEW c \in CPUs, NEW u \in Threads,
               \/ rt_thread_resume(c, u) \/ rt_thread_delete(c, u)
               \/ \E p \in NewPrios : change_priority(c, u, p)
        PROVE  stat'[t] = "CLOSE"
    <2>1. stat' = stat
      BY <1>9, Zenon DEF rt_thread_resume, rt_thread_delete, change_priority
    <2> QED
      BY <2>1
  <1> QED
    BY <1>1, <1>2, <1>3, <1>4, <1>5, <1>6, <1>7, <1>8, <1>9 DEF Next

(***************************************************************************)
(* A thread that has exited or was deleted is never made ready, woken or   *)
(* run again, whatever was under way about it.                             *)
(***************************************************************************)
THEOREM EndedThreadsStayEnded == CarefulEnd => (Spec => EndedStaysEnded)
  <1> SUFFICES ASSUME CarefulEnd PROVE Spec => EndedStaysEnded
    OBVIOUS
  <1>1. Spec => []SchedInv
    BY SchedInvariant
  <1>2. SchedInv /\ [Next]_vars =>
           [\A t \in Threads : stat[t] = "CLOSE" => stat'[t] = "CLOSE"]_vars
    BY EndedStep
  <1> QED
    BY <1>1, <1>2, PTL DEF Spec, EndedStaysEnded
=============================================================================
