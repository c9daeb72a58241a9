------------------------------ MODULE IpcProofs ------------------------------
(***************************************************************************)
(* Proofs about the objects that threads block on, for any threads,        *)
(* timeouts, priorities and sizes.                                         *)
(***************************************************************************)
EXTENDS IpcObjects, DriversIpcProofs, FiniteSetTheorems

-----------------------------------------------------------------------------
(* The threads in their calls *)

SendCalls == {"mb_send", "mq_send", "dq_push"}

RecvCalls == {"take", "recv", "mb_recv", "mq_recv", "alloc", "comp_wait", "dq_pop"}

\* The stages of the calls of an object of kind k.
StagesOf(k) ==
    {"user"} \cup
    CASE k = "semaphore" -> {"take"}
      [] k = "event" -> {"recv"}
      [] k = "mailbox" -> {"mb_send", "mb_recv"}
      [] k = "msgqueue" -> {"mq_send", "mq_recv", "fill", "fill_urgent", "drain"}
      [] k = "mempool" -> {"alloc", "again"}
      [] k = "completion" -> {"comp_wait"}
      [] k = "dataqueue" -> {"dq_push", "dq_pop"}
      [] OTHER -> {}

\* What is left of a timeout is left of the budget.
InBudget(r) ==
    /\ r.left # None => r.left <= r.budget
    /\ r.timeout # Forever => r.timeout <= r.spent + r.budget
    /\ r.pc = "again" /\ r.timeout # Forever => r.timeout <= r.budget

\* A thread in a call of an object of kind k.
ThreadOK(r, k) ==
    /\ r \in Records /\ r.pc \in StagesOf(k)
    /\ r.stat = "SUSPEND" => r.pc \in SendCalls \cup RecvCalls /\ r.error = "EOK"
    /\ r.stat = "READY" => r.left = None
    /\ k # "dataqueue" => InBudget(r)

\* The list that the thread is in.
Nowhere == "none"

place(r) == IF r.stat = "READY" THEN Nowhere
            ELSE IF r.pc \in SendCalls THEN Senders ELSE Receivers

places == [t \in Threads |-> place(th[t])]

\* The lists ll hold each thread once, in the list that W says.
ListIs(r, W, k) ==
    /\ r \in Seq(Threads) /\ Once(r)
    /\ \A t : InList(r, t) <=> t \in Threads /\ W[t] = k

Listed(ll, W) ==
    /\ ll \in [Lists -> Seq(Threads)]
    /\ \A k \in Lists : ListIs(ll[k], W, k)

IpcInv ==
    /\ flag \in Flags
    /\ th \in [Threads -> Records] /\ \A t \in Threads : ThreadOK(th[t], object)
    /\ Listed(waiting, places)

\* The places.
LEMMA PlaceIs ==
    ASSUME NEW r \in Records
    PROVE  /\ place(r) \in Lists \cup {Nowhere}
           /\ place(r) = Nowhere <=> r.stat = "READY"
           /\ r.stat = "SUSPEND" => place(r) \in Lists
           /\ Nowhere \notin Lists /\ Receivers \in Lists /\ Senders \in Lists
           /\ Receivers # Senders
  BY DEF place, Records, Lists, Nowhere, Senders, Receivers

\* Types of the constants.
LEMMA IpcConstants ==
    /\ IsFiniteSet(Threads) /\ None \notin Threads /\ None \notin Nat /\ Forever \notin Nat
    /\ \A T \in Timeouts : T \in Nat \/ T = Forever
  BY IpcAssumption

\* The fields of a record.
LEMMA RecordFields ==
    ASSUME NEW r \in Records
    PROVE  /\ r.pc \in Stages /\ r.stat \in {"READY", "SUSPEND"}
           /\ r.error \in {"EOK", "ETIMEOUT", "ERROR"}
           /\ r.left \in Nat \/ r.left = None
           /\ r.timeout \in Nat \/ r.timeout = Forever
           /\ r.spent \in Nat /\ r.budget \in Nat
  BY DEF Records

\* A thread outside of every call.
LEMMA OutsideOK ==
    ASSUME NEW k
    PROVE  /\ ThreadOK(Outside, k) /\ place(Outside) = Nowhere
           /\ Outside.pc = "user" /\ Outside.stat = "READY" /\ Outside.error = "EOK"
  <1>1. "user" \in StagesOf(k)
    BY DEF StagesOf
  <1>2. /\ Outside \in Records /\ Outside.pc = "user" /\ Outside.stat = "READY" /\ Outside.left = None
        /\ Outside.timeout = 0 /\ Outside.spent = 0 /\ Outside.budget = 0 /\ Outside.error = "EOK"
    BY DEF Outside, Records, Stages
  <1>3. InBudget(Outside)
    BY <1>2 DEF InBudget
  <1> QED
    BY <1>1, <1>2, <1>3 DEF ThreadOK, place

\* A stage without a wait.
LEMMA StageOK ==
    ASSUME NEW pc \in Stages, NEW k, pc \in StagesOf(k), pc # "again"
    PROVE  LET r == [Outside EXCEPT !.pc = pc]
           IN  ThreadOK(r, k) /\ r.stat = "READY" /\ r.pc = pc /\ r.error = "EOK"
  <1> DEFINE r == [Outside EXCEPT !.pc = pc]
  <1>2. /\ r \in Records /\ r.pc = pc /\ r.stat = "READY" /\ r.left = None
        /\ r.timeout = 0 /\ r.spent = 0 /\ r.budget = 0 /\ r.error = "EOK"
    BY DEF Outside, Records
  <1> HIDE DEF r
  <1>3. InBudget(r)
    BY <1>2 DEF InBudget
  <1>4. ThreadOK(r, k)
    BY <1>2, <1>3 DEF ThreadOK
  <1> QED
    BY <1>2, <1>4 DEF r

\* A thread that suspends itself.
LEMMA SuspendedOK ==
    ASSUME NEW pc \in SendCalls \cup RecvCalls, NEW k, pc \in StagesOf(k), NEW T,
           T \in Nat \/ T = Forever, NEW b \in Nat, k # "dataqueue" /\ T # Forever => T <= b
    PROVE  LET r == Suspended(pc, T, b)
           IN  /\ ThreadOK(r, k) /\ r.pc = pc /\ r.stat = "SUSPEND"
               /\ place(r) = IF pc \in SendCalls THEN Senders ELSE Receivers
  <1> DEFINE r == Suspended(pc, T, b)
  <1>1. pc \in Stages /\ pc # "again"
    BY DEF SendCalls, RecvCalls, Stages
  <1>2. /\ r \in Records /\ r.pc = pc /\ r.stat = "SUSPEND" /\ r.error = "EOK"
        /\ r.left = (IF T # Forever THEN T ELSE None)
        /\ r.timeout = T /\ r.spent = 0 /\ r.budget = b
    BY <1>1 DEF Suspended, Records, Finite
  <1> HIDE DEF r
  <1>3. k # "dataqueue" => InBudget(r)
    BY <1>1, <1>2 DEF InBudget
  <1>4. ThreadOK(r, k)
    BY <1>2, <1>3 DEF ThreadOK
  <1>5. place(r) = IF pc \in SendCalls THEN Senders ELSE Receivers
    BY <1>2 DEF place
  <1> QED
    BY <1>2, <1>4, <1>5 DEF r

\* A thread that is woken.
LEMMA WokenOK ==
    ASSUME NEW k, NEW u, ThreadOK(th[u], k)
    PROVE  /\ ThreadOK(Woken(u), k)
           /\ Woken(u).pc = th[u].pc /\ Woken(u).stat = "READY" /\ Woken(u).error = th[u].error
  <1>r. PICK r : r = th[u]
    OBVIOUS
  <1>w. PICK w : w = Woken(u)
    OBVIOUS
  <1>0. r \in Records /\ ThreadOK(r, k) /\ w = [r EXCEPT !.stat = "READY", !.left = None]
    BY <1>r, <1>w DEF ThreadOK, Woken
  <1>1. /\ w \in Records /\ w.pc = r.pc /\ w.stat = "READY" /\ w.error = r.error /\ w.left = None
        /\ w.timeout = r.timeout /\ w.spent = r.spent /\ w.budget = r.budget
    BY <1>0 DEF Records
  <1>2. ThreadOK(w, k)
    BY <1>0, <1>1 DEF ThreadOK, InBudget
  <1> QED
    BY <1>r, <1>w, <1>1, <1>2

\* A thread that is woken with an error.
Faulted(u, e) == [Woken(u) EXCEPT !.error = e]

\* Such a thread has ended its wait.
LEMMA ErrorOK ==
    ASSUME NEW k, NEW u, ThreadOK(th[u], k), NEW e \in {"EOK", "ETIMEOUT", "ERROR"}
    PROVE  /\ ThreadOK(Faulted(u, e), k) /\ Faulted(u, e).pc = th[u].pc
           /\ Faulted(u, e).stat = "READY" /\ Faulted(u, e).error = e
  <1>x. PICK x : x = Faulted(u, e)
    OBVIOUS
  <1>w. PICK w : w = Woken(u)
    OBVIOUS
  <1>0. w \in Records /\ ThreadOK(w, k) /\ w.stat = "READY" /\ w.pc = th[u].pc
    BY <1>w, WokenOK DEF ThreadOK
  <1>1. x = [w EXCEPT !.error = e]
    BY <1>w, <1>x DEF Faulted
  <1>2. /\ x \in Records /\ x.pc = w.pc /\ x.stat = "READY" /\ x.error = e /\ x.left = w.left
        /\ x.timeout = w.timeout /\ x.spent = w.spent /\ x.budget = w.budget
    BY <1>0, <1>1 DEF Records
  <1>3. ThreadOK(x, k)
    BY <1>0, <1>2 DEF ThreadOK, InBudget
  <1> QED
    BY <1>x, <1>0, <1>2, <1>3

\* What is left when a call waits again is within the budget.
LEMMA RemainingOK ==
    ASSUME NEW t, NEW k, ThreadOK(th[t], k)
    PROVE  /\ Remaining(t) \in Nat \/ Remaining(t) = Forever
           /\ k # "dataqueue" /\ Remaining(t) # Forever => Remaining(t) <= th[t].budget
  <1>1. /\ th[t].timeout \in Nat \/ th[t].timeout = Forever
        /\ th[t].spent \in Nat /\ th[t].budget \in Nat
    BY RecordFields DEF ThreadOK
  <1>2. k # "dataqueue" /\ th[t].timeout # Forever => th[t].timeout <= th[t].spent + th[t].budget
    BY DEF ThreadOK, InBudget
  <1> QED
    BY <1>1, <1>2, IpcConstants DEF Remaining, Finite, Minus

\* A tick.
LEMMA TickedOK ==
    ASSUME NEW t, NEW k, ThreadOK(th[t], k), th[t].left # 0
    PROVE  /\ ThreadOK(ticked(t), k)
           /\ ticked(t).pc = th[t].pc /\ ticked(t).stat = th[t].stat
           /\ ticked(t).error = th[t].error
  <1>1. CASE ~Counts(t)
    BY <1>1 DEF ticked
  <1>2. CASE Counts(t)
    <2> DEFINE r == th[t]
               w == ticked(t)
    <2>1. /\ r \in Records
          /\ r.left \in Nat \/ r.left = None
          /\ r.timeout \in Nat \/ r.timeout = Forever
          /\ r.spent \in Nat /\ r.budget \in Nat
      BY RecordFields DEF ThreadOK
    <2>2. r.timeout \in Nat \ {0}
      BY <1>2, <2>1 DEF Counts
    <2>3. w = [r EXCEPT !.left = IF @ = None THEN None ELSE @ - 1,
                        !.spent = IF @ < r.timeout THEN @ + 1 ELSE @,
                        !.budget = IF r.pc = "again" THEN @ ELSE Minus(@, 1)]
      BY <1>2 DEF ticked
    <2>3a. r.left # None => r.left - 1 \in Nat
      BY <2>1, IpcConstants
    <2>3b. Minus(r.budget, 1) \in Nat /\ Minus(r.budget, 1) = IF r.budget = 0 THEN 0 ELSE r.budget - 1
      BY <2>1 DEF Minus
    <2>4. /\ w \in Records /\ w.pc = r.pc /\ w.stat = r.stat /\ w.error = r.error
          /\ w.left = IF r.left = None THEN None ELSE r.left - 1
          /\ w.timeout = r.timeout
          /\ w.spent = IF r.spent < r.timeout THEN r.spent + 1 ELSE r.spent
          /\ w.budget = IF r.pc = "again" THEN r.budget ELSE Minus(r.budget, 1)
      <3>a. PICK a \in Nat \cup {None} : a = IF r.left = None THEN None ELSE r.left - 1
        BY <2>3a
      <3>s. PICK s \in Nat : s = IF r.spent < r.timeout THEN r.spent + 1 ELSE r.spent
        BY <2>1, <2>2
      <3>b. PICK b \in Nat : b = IF r.pc = "again" THEN r.budget ELSE Minus(r.budget, 1)
        BY <2>1, <2>3b
      <3>1. w = [r EXCEPT !.left = a, !.spent = s, !.budget = b]
        BY <2>3, <3>a, <3>s, <3>b
      <3> HIDE DEF r, w
      <3>2. /\ w \in Records /\ w.pc = r.pc /\ w.stat = r.stat /\ w.error = r.error
            /\ w.left = a /\ w.timeout = r.timeout /\ w.spent = s /\ w.budget = b
        BY <2>1, <3>1 DEF Records
      <3> QED
        BY <3>2, <3>a, <3>s, <3>b
    <2>5. r.left # None => r.left \in Nat \ {0} /\ r.pc # "again"
      BY <2>1, IpcConstants DEF ThreadOK, SendCalls, RecvCalls, Records
    <2>6. /\ r.stat = "SUSPEND" => r.pc \in SendCalls \cup RecvCalls /\ r.error = "EOK"
          /\ r.stat = "READY" => r.left = None
          /\ r.pc \in StagesOf(k)
          /\ k # "dataqueue" => InBudget(r)
      BY DEF ThreadOK
    <2> HIDE DEF r, w
    <2>7. k # "dataqueue" => InBudget(w)
      <3> SUFFICES ASSUME InBudget(r) PROVE InBudget(w)
        BY <2>6
      <3>1. w.left # None => w.left <= w.budget
        BY <2>1, <2>3b, <2>4, <2>5, IpcConstants DEF InBudget
      <3>2. w.timeout # Forever => w.timeout <= w.spent + w.budget
        BY <2>1, <2>2, <2>3b, <2>4 DEF InBudget
      <3>3. w.pc = "again" /\ w.timeout # Forever => w.timeout <= w.budget
        BY <2>1, <2>2, <2>4 DEF InBudget
      <3> QED
        BY <3>1, <3>2, <3>3 DEF InBudget
    <2>8. ThreadOK(w, k)
      BY <2>4, <2>6, <2>7 DEF ThreadOK
    <2> QED
      BY <2>4, <2>8 DEF r, w
  <1> QED
    BY <1>1, <1>2

-----------------------------------------------------------------------------
(* The waiting lists *)

Places == [Threads -> Lists \cup {Nowhere}]

Members(r) == {t \in Threads : InList(r, t)}

\* The places of the threads.
LEMMA PlacesAre ==
    ASSUME IpcInv
    PROVE  /\ places \in Places
           /\ \A t \in Threads : places[t] = place(th[t])
           /\ \A t \in Threads : places[t] = Nowhere <=> th[t].stat = "READY"
           /\ \A t \in Threads : th[t].stat = "READY" \/ th[t].stat = "SUSPEND"
  <1>1. \A t \in Threads : th[t] \in Records
    BY DEF IpcInv
  <1>2. \A t \in Threads : place(th[t]) \in Lists \cup {Nowhere}
    BY <1>1, PlaceIs
  <1>3. \A t \in Threads : place(th[t]) = Nowhere <=> th[t].stat = "READY"
    BY <1>1, PlaceIs
  <1>4. \A t \in Threads : th[t].stat = "READY" \/ th[t].stat = "SUSPEND"
    BY <1>1, RecordFields
  <1> QED
    BY <1>2, <1>3, <1>4 DEF places, Places

\* One thread changes.
LEMMA PlacesChange ==
    ASSUME IpcInv, NEW t \in Threads, NEW r, th' = [th EXCEPT ![t] = r]
    PROVE  places' = [places EXCEPT ![t] = place(r)]
  <1>1. th \in [Threads -> Records]
    BY DEF IpcInv
  <1>2. th'[t] = r /\ \A u \in Threads : u # t => th'[u] = th[u]
    BY <1>1
  <1>3. places \in [Threads -> Lists \cup {Nowhere}] /\ \A u \in Threads : places[u] = place(th[u])
    BY PlacesAre DEF Places
  <1>4. places' = [u \in Threads |-> place(th'[u])]
    BY DEF places
  <1>5. ASSUME NEW u \in Threads PROVE place(th'[u]) = [places EXCEPT ![t] = place(r)][u]
    BY <1>2, <1>3
  <1> QED
    BY <1>3, <1>4, <1>5

\* A thread joins list k, which becomes r.
LEMMA Joins ==
    ASSUME NEW ll, NEW W \in Places, Listed(ll, W), NEW t \in Threads, W[t] = Nowhere,
           NEW k \in Lists, NEW r \in Seq(Threads), Once(ll[k]) /\ ~InList(ll[k], t) => Once(r),
           \A y : InList(r, y) <=> InList(ll[k], y) \/ y = t
    PROVE  Listed([ll EXCEPT ![k] = r], [W EXCEPT ![t] = k])
  <1> DEFINE new == [ll EXCEPT ![k] = r]
             V == [W EXCEPT ![t] = k]
  <1>1. ll \in [Lists -> Seq(Threads)] /\ \A j \in Lists : ListIs(ll[j], W, j)
    BY DEF Listed
  <1>2. new \in [Lists -> Seq(Threads)] /\ \A j \in Lists : new[j] = IF j = k THEN r ELSE ll[j]
    BY <1>1
  <1>3. \A u \in Threads : V[u] = IF u = t THEN k ELSE W[u]
    BY DEF Places
  <1>4. Nowhere \notin Lists
    BY DEF Nowhere, Lists, Senders, Receivers
  <1> HIDE DEF new, V
  <1>5. ASSUME NEW j \in Lists PROVE ListIs(new[j], V, j)
    <2>1. CASE j = k
      <3>1. Once(ll[k]) /\ \A y : InList(ll[k], y) <=> y \in Threads /\ W[y] = k
        BY <1>1 DEF ListIs
      <3>2. ~InList(ll[k], t)
        BY <1>4, <3>1
      <3>3. ASSUME NEW y PROVE InList(r, y) <=> y \in Threads /\ V[y] = k
        BY <1>3, <3>1
      <3> QED
        BY <1>2, <2>1, <3>1, <3>2, <3>3 DEF ListIs
    <2>2. CASE j # k
      BY <1>1, <1>2, <1>3, <1>4, <2>2 DEF ListIs
    <2> QED
      BY <2>1, <2>2
  <1>6. Listed(new, V)
    BY <1>2, <1>5 DEF Listed
  <1> QED
    BY <1>6 DEF new, V

\* A thread leaves list k, which becomes r.
LEMMA Leaves ==
    ASSUME NEW ll, NEW W \in Places, Listed(ll, W), NEW t \in Threads,
           NEW k \in Lists, W[t] = k, NEW r \in Seq(Threads), Once(r),
           \A y : InList(r, y) <=> InList(ll[k], y) /\ y # t
    PROVE  Listed([ll EXCEPT ![k] = r], [W EXCEPT ![t] = Nowhere])
  <1> DEFINE new == [ll EXCEPT ![k] = r]
             V == [W EXCEPT ![t] = Nowhere]
  <1>1. ll \in [Lists -> Seq(Threads)] /\ \A j \in Lists : ListIs(ll[j], W, j)
    BY DEF Listed
  <1>2. new \in [Lists -> Seq(Threads)] /\ \A j \in Lists : new[j] = IF j = k THEN r ELSE ll[j]
    BY <1>1
  <1>3. \A u \in Threads : V[u] = IF u = t THEN Nowhere ELSE W[u]
    BY DEF Places
  <1>4. Nowhere \notin Lists
    BY DEF Nowhere, Lists, Senders, Receivers
  <1> HIDE DEF new, V
  <1>5. ASSUME NEW j \in Lists PROVE ListIs(new[j], V, j)
    <2>1. CASE j = k
      <3>1. \A y : InList(ll[k], y) <=> y \in Threads /\ W[y] = k
        BY <1>1 DEF ListIs
      <3>2. ASSUME NEW y PROVE InList(r, y) <=> y \in Threads /\ V[y] = k
        BY <1>3, <1>4, <3>1
      <3>3. new[j] = r
        BY <1>2, <2>1
      <3>4. ListIs(r, V, k)
        BY <3>2 DEF ListIs
      <3> QED
        BY <2>1, <3>3, <3>4
    <2>2. CASE j # k
      <3>1. new[j] = ll[j] /\ ListIs(ll[j], W, j)
        BY <1>1, <1>2, <2>2
      <3>2. ASSUME NEW y PROVE y \in Threads /\ V[y] = j <=> y \in Threads /\ W[y] = j
        BY <1>3, <1>4, <2>2
      <3> QED
        BY <3>1, <3>2 DEF ListIs
    <2> QED
      BY <2>1, <2>2
  <1>6. Listed(new, V)
    BY <1>2, <1>5 DEF Listed
  <1> QED
    BY <1>6 DEF new, V

\* _ipc_list_suspend.
LEMMA Enqueued ==
    ASSUME NEW l \in Seq(Threads), NEW t \in Threads
    PROVE  LET r == enqueued(l, t)
           IN  /\ r \in Seq(Threads)
               /\ \A y : InList(r, y) <=> InList(l, y) \/ y = t
               /\ Once(l) /\ ~InList(l, t) => Once(r)
  <1> DEFINE A == {i \in 1 .. Len(l) : flag = "PRIO" /\ priority[t] < priority[l[i]]}
  <1>1. enqueued(l, t) = rt_list_insert_before(l, A, t)
    BY DEF enqueued
  <1>2. A \in SUBSET (1 .. Len(l))
    OBVIOUS
  <1> HIDE DEF A
  <1> QED
    BY <1>1, <1>2, Inserted

-----------------------------------------------------------------------------
(* What a section does to the threads *)

\* One thread goes on, without waiting.
GoesOn(t, r) ==
    /\ th[t].stat = "READY"
    /\ th' = [th EXCEPT ![t] = r] /\ UNCHANGED <<flag, waiting>>

\* Such a step leaves every other thread and the lists as they are.
LEMMA GoesOnKeeps ==
    ASSUME IpcInv, object' = object, NEW t \in Threads, NEW r, GoesOn(t, r), ThreadOK(r, object),
           r.stat = "READY"
    PROVE  IpcInv' /\ places' = places
  <1>1. th \in [Threads -> Records] /\ r \in Records
    BY DEF IpcInv, ThreadOK
  <1>2. /\ th' \in [Threads -> Records] /\ \A u \in Threads : th'[u] = IF u = t THEN r ELSE th[u]
        /\ flag' = flag /\ waiting' = waiting
    BY <1>1 DEF GoesOn
  <1>3. \A u \in Threads : ThreadOK(th'[u], object')
    BY <1>2 DEF IpcInv
  <1>4. places' = places
    <2>1. place(r) = Nowhere /\ place(th[t]) = Nowhere
      BY DEF place, GoesOn
    <2> QED
      BY <1>2, <2>1 DEF places
  <1> QED
    BY <1>2, <1>3, <1>4 DEF IpcInv

\* One thread suspends itself in list l.
Sleeps(t, l, r, q) ==
    /\ th[t].stat = "READY"
    /\ th' = [th EXCEPT ![t] = r]
    /\ waiting' = [waiting EXCEPT ![l] = q] /\ flag' = flag

\* The list of a thread that blocks keeps its members.
JoinedBy(q, l, t) ==
    /\ q \in Seq(Threads)
    /\ \A y : InList(q, y) <=> InList(l, y) \/ y = t
    /\ Once(l) /\ ~InList(l, t) => Once(q)

\* Such a step adds the thread to one list and keeps the others.
LEMMA SleepsKeeps ==
    ASSUME IpcInv, object' = object, NEW t \in Threads, NEW r, NEW l \in Lists, NEW q,
           Sleeps(t, l, r, q), JoinedBy(q, waiting[l], t), ThreadOK(r, object), place(r) = l
    PROVE  IpcInv'
  <1>1. th \in [Threads -> Records] /\ r \in Records
    BY DEF IpcInv, ThreadOK
  <1>2. /\ th' \in [Threads -> Records] /\ \A u \in Threads : th'[u] = IF u = t THEN r ELSE th[u]
        /\ flag' = flag /\ waiting' = [waiting EXCEPT ![l] = q]
    BY <1>1 DEF Sleeps
  <1>3. \A u \in Threads : ThreadOK(th'[u], object')
    BY <1>2 DEF IpcInv
  <1>4. places \in Places /\ places[t] = Nowhere /\ Listed(waiting, places)
    BY PlacesAre DEF IpcInv, Sleeps
  <1>5. places' = [places EXCEPT ![t] = l]
    <2>1. th' = [th EXCEPT ![t] = r]
      BY DEF Sleeps
    <2> QED
      BY <2>1, PlacesChange
  <1>6. Listed([waiting EXCEPT ![l] = q], [places EXCEPT ![t] = l])
    <2>1. /\ q \in Seq(Threads) /\ (Once(waiting[l]) /\ ~InList(waiting[l], t) => Once(q))
          /\ \A y : InList(q, y) <=> InList(waiting[l], y) \/ y = t
      BY DEF JoinedBy
    <2> QED
      BY <1>4, <2>1, Joins
  <1> QED
    BY <1>2, <1>3, <1>5, <1>6 DEF IpcInv

\* The first waiter of a list, before and after it is woken.
LEMMA FirstWaiter ==
    ASSUME IpcInv, NEW l \in Lists, waiting[l] # << >>
    PROVE  LET h == Head(waiting[l])
           IN  /\ h \in Threads /\ th[h].stat = "SUSPEND" /\ th[h].error = "EOK" /\ place(th[h]) = l
               /\ ThreadOK(Woken(h), object)
               /\ Woken(h).pc = th[h].pc /\ Woken(h).stat = "READY" /\ Woken(h).error = "EOK"
  <1> DEFINE h == Head(waiting[l])
  <1>1. /\ waiting[l] \in Seq(Threads)
        /\ \A t : InList(waiting[l], t) <=> t \in Threads /\ places[t] = l
    BY DEF IpcInv, Listed, ListIs
  <1>2. InList(waiting[l], h)
    BY <1>1, TailOf
  <1> HIDE DEF h
  <1>3. h \in Threads /\ places[h] = l
    BY <1>1, <1>2
  <1>4. place(th[h]) = l /\ th[h].stat = "SUSPEND"
    <2>1. Nowhere \notin Lists
      BY DEF Nowhere, Lists, Senders, Receivers
    <2> QED
      BY <1>3, <2>1, PlacesAre
  <1>5. ThreadOK(th[h], object) /\ th[h].error = "EOK"
    BY <1>3, <1>4 DEF IpcInv, ThreadOK
  <1>6. ThreadOK(Woken(h), object) /\ Woken(h).pc = th[h].pc /\ Woken(h).stat = "READY"
        /\ Woken(h).error = "EOK"
    BY <1>5, WokenOK
  <1> QED
    BY <1>3, <1>4, <1>5, <1>6 DEF h

\* The same waits as now, whatever other threads have done.
SameWaits(th0) ==
    /\ th0 \in [Threads -> Records] /\ \A t \in Threads : ThreadOK(th0[t], object)
    /\ \A t \in Threads : th0[t] = th[t] \/ (th[t].stat = "READY" /\ th0[t].stat = "READY")

\* A call returns.
LEMMA ReturnedSame ==
    ASSUME IpcInv, NEW t \in Threads, th[t].stat = "READY"
    PROVE  SameWaits(Returned(t)) /\ SameWaits(th)
  <1>1. th \in [Threads -> Records] /\ \A u \in Threads : ThreadOK(th[u], object)
    BY DEF IpcInv
  <1>2. ThreadOK(Outside, object) /\ Outside.stat = "READY" /\ Outside \in Records
    BY OutsideOK DEF ThreadOK
  <1>3. Returned(t) \in [Threads -> Records]
        /\ \A u \in Threads : Returned(t)[u] = IF u = t THEN Outside ELSE th[u]
    BY <1>1, <1>2 DEF Returned
  <1> QED
    BY <1>1, <1>2, <1>3 DEF SameWaits

\* Then every thread is where it was.
LEMMA SamePlaces ==
    ASSUME IpcInv, NEW th0, SameWaits(th0)
    PROVE  \A t \in Threads : place(th0[t]) = places[t]
  <1> SUFFICES ASSUME NEW t \in Threads PROVE place(th0[t]) = places[t]
    OBVIOUS
  <1>1. places[t] = place(th[t])
    BY PlacesAre
  <1>2. th[t].stat = "READY" /\ th0[t].stat = "READY" => place(th[t]) = place(th0[t])
    BY DEF place
  <1> QED
    BY <1>1, <1>2 DEF SameWaits

\* _ipc_list_resume.
LEMMA FirstResumedKeeps ==
    ASSUME IpcInv, object' = object, NEW th0, SameWaits(th0), NEW l \in Lists, first_resumed(th0, l)
    PROVE  IpcInv'
  <1>0. /\ flag' = flag /\ flag \in Flags /\ th0 \in [Threads -> Records]
        /\ \A t \in Threads : ThreadOK(th0[t], object)
        /\ Listed(waiting, places) /\ places \in Places
    BY PlacesAre DEF first_resumed, SameWaits, IpcInv
  <1>1. CASE waiting[l] = << >>
    <2>1. th' = th0 /\ waiting' = waiting
      BY <1>1 DEF first_resumed
    <2>2. places' = places
      <3>1. places' = [t \in Threads |-> place(th0[t])]
        BY <2>1 DEF places
      <3> QED
        BY <1>0, <3>1, SamePlaces DEF Places
    <2> QED
      BY <1>0, <2>1, <2>2 DEF IpcInv
  <1>2. CASE waiting[l] # << >>
    <2>h. PICK h : h = Head(waiting[l])
      OBVIOUS
    <2>w. PICK w : w = Woken(h)
      OBVIOUS
    <2>1. /\ th' = [th0 EXCEPT ![h] = w]
          /\ waiting' = [waiting EXCEPT ![l] = Tail(waiting[l])]
      BY <1>2, <2>h, <2>w DEF first_resumed
    <2>2. h \in Threads /\ place(th[h]) = l /\ ThreadOK(w, object) /\ w.stat = "READY" /\ w \in Records
      BY <1>2, <2>h, <2>w, FirstWaiter DEF ThreadOK
    <2>3. th' \in [Threads -> Records] /\ th'[h] = w /\ \A t \in Threads : t # h => th'[t] = th0[t]
      BY <1>0, <2>1, <2>2
    <2>4. \A t \in Threads : ThreadOK(th'[t], object')
      BY <1>0, <2>2, <2>3
    <2>5. places' = [places EXCEPT ![h] = Nowhere]
      <3>1. places' = [t \in Threads |-> place(th'[t])]
        BY DEF places
      <3>2. place(w) = Nowhere
        BY <2>2 DEF place
      <3>3. ASSUME NEW t \in Threads PROVE place(th'[t]) = IF t = h THEN Nowhere ELSE places[t]
        BY <2>3, <3>2, SamePlaces
      <3>4. places' = [t \in Threads |-> IF t = h THEN Nowhere ELSE places[t]]
        BY <3>1, <3>3
      <3> QED
        BY <1>0, <3>4 DEF Places
    <2>6. Listed(waiting', places')
      <3>1. waiting[l] \in Seq(Threads) /\ Once(waiting[l])
        BY <1>0 DEF Listed, ListIs
      <3>2. /\ Tail(waiting[l]) \in Seq(Threads) /\ Once(Tail(waiting[l]))
            /\ ~InList(Tail(waiting[l]), h)
            /\ \A y : InList(waiting[l], y) <=> InList(Tail(waiting[l]), y) \/ y = h
        BY <1>2, <2>h, <3>1, TailOf
      <3>3. \A y : InList(Tail(waiting[l]), y) <=> InList(waiting[l], y) /\ y # h
        BY <3>2
      <3>4. places[h] = l
        BY <2>2, PlacesAre
      <3>5. Listed([waiting EXCEPT ![l] = Tail(waiting[l])], [places EXCEPT ![h] = Nowhere])
        BY <1>0, <2>2, <3>2, <3>3, <3>4, Leaves
      <3> QED
        BY <2>1, <2>5, <3>5
    <2> QED
      BY <1>0, <2>3, <2>4, <2>6 DEF IpcInv
  <1> QED
    BY <1>1, <1>2

\* Nobody waits any more.
LEMMA NobodyListed ==
    ASSUME NEW W \in Places, \A t \in Threads : W[t] = Nowhere
    PROVE  Listed([k \in Lists |-> << >>], W)
  <1>1. Nowhere \notin Lists /\ << >> \in Seq(Threads)
    BY EmptySeq DEF Nowhere, Lists, Senders, Receivers
  <1>2. ASSUME NEW k \in Lists PROVE ListIs(<< >>, W, k)
    BY <1>1, NothingListed DEF ListIs
  <1>3. [k \in Lists |-> << >>] \in [Lists -> Seq(Threads)]
    BY <1>1
  <1> QED
    BY <1>2, <1>3 DEF Listed

\* _ipc_list_resume_all on both lists.
LEMMA ResumeAllKeeps ==
    ASSUME IpcInv, object' = object, resume_all
    PROVE  /\ IpcInv'
           /\ \A t \in Threads :
                 IF th[t].stat = "READY" THEN th'[t] = th[t]
                 ELSE th'[t].stat = "READY" /\ th'[t].error = "ERROR" /\ th'[t].pc = th[t].pc
           /\ waiting' = [k \in Lists |-> << >>]
  <1>1. /\ th' = [t \in Threads |-> IF \E l \in Lists : InList(waiting[l], t)
                                    THEN Faulted(t, "ERROR") ELSE th[t]]
        /\ waiting' = [k \in Lists |-> << >>] /\ flag' = flag
    BY DEF resume_all, Faulted
  <1>2. \A t \in Threads : ThreadOK(th[t], object)
    BY DEF IpcInv
  <1>3. ASSUME NEW t \in Threads PROVE (\E l \in Lists : InList(waiting[l], t)) <=> th[t].stat = "SUSPEND"
    <2>1. \A l \in Lists : InList(waiting[l], t) <=> places[t] = l
      BY DEF IpcInv, Listed, ListIs
    <2>2. places[t] \in Lists \cup {Nowhere} /\ Nowhere \notin Lists
      BY PlacesAre DEF Places, Nowhere, Lists, Senders, Receivers
    <2> QED
      BY <2>1, <2>2, PlacesAre
  <1>4. ASSUME NEW t \in Threads
        PROVE  LET w == Faulted(t, "ERROR")
               IN  ThreadOK(w, object) /\ w.pc = th[t].pc /\ w.stat = "READY" /\ w.error = "ERROR"
    BY <1>2, ErrorOK
  <1>5. ASSUME NEW t \in Threads
        PROVE  /\ IF th[t].stat = "READY" THEN th'[t] = th[t]
                  ELSE th'[t].stat = "READY" /\ th'[t].error = "ERROR" /\ th'[t].pc = th[t].pc
               /\ ThreadOK(th'[t], object) /\ th'[t].stat = "READY"
    <2>1. CASE th[t].stat = "READY"
      <3>1. th'[t] = th[t]
        BY <1>1, <1>3, <2>1
      <3> QED
        BY <1>2, <2>1, <3>1
    <2>2. CASE th[t].stat # "READY"
      <3>1. th[t].stat = "SUSPEND"
        BY <2>2, PlacesAre
      <3>2. th'[t] = Faulted(t, "ERROR")
        BY <1>1, <1>3, <3>1
      <3> QED
        BY <1>4, <2>2, <3>2
    <2> QED
      BY <2>1, <2>2
  <1>6. th' \in [Threads -> Records]
    <2>1. \A t \in Threads : th'[t] \in Records
      BY <1>5 DEF ThreadOK
    <2> QED
      BY <1>1, <2>1
  <1>7. places' \in Places /\ \A t \in Threads : places'[t] = Nowhere
    <2>1. \A t \in Threads : place(th'[t]) = Nowhere
      BY <1>5 DEF place
    <2>2. places' = [t \in Threads |-> place(th'[t])]
      BY DEF places
    <2> QED
      BY <2>1, <2>2 DEF Places
  <1>8. Listed(waiting', places')
    BY <1>1, <1>7, NobodyListed
  <1> QED
    BY <1>1, <1>5, <1>6, <1>8 DEF IpcInv

\* _thread_timeout.
LEMMA TimeoutKeeps ==
    ASSUME IpcInv, object' = object, NEW t \in Threads, thread_timeout(t)
    PROVE  /\ IpcInv' /\ th[t].stat = "SUSPEND"
           /\ th'[t].stat = "READY" /\ th'[t].error = "ETIMEOUT" /\ th'[t].pc = th[t].pc
           /\ \A u \in Threads : u # t => th'[u] = th[u]
           /\ \A k \in Lists : waiting[k] = << >> => waiting'[k] = << >>
  <1>w. PICK w : w = Faulted(t, "ETIMEOUT")
    OBVIOUS
  <1>1. /\ th[t].left = 0 /\ th' = [th EXCEPT ![t] = w] /\ flag' = flag
        /\ waiting' = [k \in Lists |-> rt_list_remove(waiting[k], t)]
    BY <1>w DEF thread_timeout, Faulted
  <1>2. ThreadOK(th[t], object) /\ th \in [Threads -> Records]
    BY DEF IpcInv
  <1>3. th[t].stat = "SUSPEND"
    BY <1>1, <1>2, PlacesAre, IpcConstants DEF ThreadOK
  <1>4. ThreadOK(w, object) /\ w.pc = th[t].pc /\ w.stat = "READY" /\ w.error = "ETIMEOUT" /\ w \in Records
    <2>1. ThreadOK(w, object) /\ w.pc = th[t].pc /\ w.stat = "READY" /\ w.error = "ETIMEOUT"
      BY <1>w, <1>2, ErrorOK
    <2> QED
      BY <2>1 DEF ThreadOK
  <1>5. th' \in [Threads -> Records] /\ th'[t] = w /\ \A u \in Threads : u # t => th'[u] = th[u]
    BY <1>1, <1>2, <1>4
  <1>6. places' = [places EXCEPT ![t] = Nowhere]
    <2>1. place(w) = Nowhere
      BY <1>4 DEF place
    <2> QED
      BY <1>1, <2>1, PlacesChange
  <1>7. /\ \A u \in Threads : places'[u] = IF u = t THEN Nowhere ELSE places[u]
        /\ Nowhere \notin Lists
    BY <1>6, PlacesAre DEF Places, Nowhere, Lists, Senders, Receivers
  <1>8. ASSUME NEW k \in Lists
        PROVE  /\ ListIs(rt_list_remove(waiting[k], t), places', k)
               /\ waiting[k] = << >> => rt_list_remove(waiting[k], t) = << >>
    <2> DEFINE r == rt_list_remove(waiting[k], t)
    <2>1. /\ waiting[k] \in Seq(Threads) /\ Once(waiting[k])
          /\ \A u : InList(waiting[k], u) <=> u \in Threads /\ places[u] = k
      BY DEF IpcInv, Listed, ListIs
    <2>2. /\ r \in Seq(Threads) /\ Once(r) /\ ~InList(r, t)
          /\ (~InList(waiting[k], t) => r = waiting[k])
          /\ \A y : y # t => (InList(r, y) <=> InList(waiting[k], y))
      BY <2>1, RemovedMembers
    <2> HIDE DEF r
    <2>3. ListIs(r, places', k)
      BY <1>7, <2>1, <2>2 DEF ListIs
    <2>4. waiting[k] = << >> => r = << >>
      BY <2>2, NothingListed
    <2> QED
      BY <2>3, <2>4 DEF r
  <1>9. Listed(waiting', places')
    <2>1. \A k \in Lists : waiting'[k] = rt_list_remove(waiting[k], t)
      BY <1>1
    <2>2. \A k \in Lists : waiting'[k] \in Seq(Threads)
      BY <1>8, <2>1 DEF ListIs
    <2> QED
      BY <1>1, <1>8, <2>1, <2>2 DEF Listed
  <1>10. \A u \in Threads : ThreadOK(th'[u], object')
    BY <1>4, <1>5 DEF IpcInv
  <1>11. IpcInv'
    BY <1>1, <1>5, <1>9, <1>10 DEF IpcInv
  <1>12. \A k \in Lists : waiting[k] = << >> => waiting'[k] = << >>
    BY <1>1, <1>8
  <1> QED
    BY <1>3, <1>4, <1>5, <1>11, <1>12

\* rt_tick_increase.
LEMMA TickKeeps ==
    ASSUME IpcInv, object' = object, rt_tick_increase
    PROVE  /\ IpcInv' /\ waiting' = waiting
           /\ \A t \in Threads : /\ th'[t].pc = th[t].pc /\ th'[t].stat = th[t].stat
                                 /\ th'[t].error = th[t].error
  <1>1. /\ \A t \in Threads : th[t].left # 0
        /\ th' = [t \in Threads |-> ticked(t)] /\ flag' = flag /\ waiting' = waiting
    BY DEF rt_tick_increase
  <1>2. \A t \in Threads : ThreadOK(th[t], object)
    BY DEF IpcInv
  <1>3. ASSUME NEW t \in Threads
        PROVE  /\ ThreadOK(th'[t], object)
               /\ th'[t].pc = th[t].pc /\ th'[t].stat = th[t].stat /\ th'[t].error = th[t].error
    <2>1. th'[t] = ticked(t)
      BY <1>1
    <2> QED
      BY <1>1, <1>2, <2>1, TickedOK
  <1>4. th' \in [Threads -> Records]
    <2>1. \A t \in Threads : th'[t] \in Records
      BY <1>3 DEF ThreadOK
    <2> QED
      BY <1>1, <2>1
  <1>5. places' = places
    <2>1. \A t \in Threads : place(th'[t]) = place(th[t])
      BY <1>3 DEF place
    <2> QED
      BY <2>1 DEF places
  <1> QED
    BY <1>1, <1>3, <1>4, <1>5 DEF IpcInv

-----------------------------------------------------------------------------
(* What a section does to the threads that were woken and have not looked *)

AwakeIn(f, pc) ==
    {t \in Threads : f[t].pc = pc /\ f[t].stat = "READY" /\ f[t].error = "EOK"}

\* The woken threads are finitely many; how their number changes.
LEMMA WokenCount ==
    ASSUME NEW pc, NEW f
    PROVE  /\ AwakeIn(f, pc) \in SUBSET Threads /\ IsFiniteSet(AwakeIn(f, pc))
           /\ Cardinality(AwakeIn(f, pc)) \in Nat
           /\ \A t : Cardinality(AwakeIn(f, pc) \ {t})
                        = IF t \in AwakeIn(f, pc) THEN Cardinality(AwakeIn(f, pc)) - 1
                          ELSE Cardinality(AwakeIn(f, pc))
           /\ \A t : t \notin AwakeIn(f, pc) =>
                 Cardinality(AwakeIn(f, pc) \cup {t}) = Cardinality(AwakeIn(f, pc)) + 1
           /\ Cardinality(AwakeIn(f, pc)) = 0 <=> AwakeIn(f, pc) = {}
  <1> DEFINE A == AwakeIn(f, pc)
  <1>1. A \in SUBSET Threads
    BY DEF AwakeIn
  <1> HIDE DEF A
  <1>2. IsFiniteSet(A)
    BY <1>1, IpcConstants, FS_Subset
  <1>3. Cardinality(A) \in Nat
    BY <1>2, FS_CardinalityType
  <1>4. ASSUME NEW t PROVE Cardinality(A \ {t}) = IF t \in A THEN Cardinality(A) - 1 ELSE Cardinality(A)
    BY <1>2, FS_RemoveElement
  <1>5. ASSUME NEW t, t \notin A PROVE Cardinality(A \cup {t}) = Cardinality(A) + 1
    BY <1>2, <1>5, FS_AddElement
  <1>6. Cardinality(A) = 0 <=> A = {}
    BY <1>2, FS_EmptySet
  <1> QED
    BY <1>1, <1>2, <1>3, <1>4, <1>5, <1>6 DEF A

\* WokenIn is about the threads as they are.
LEMMA WokenIs ==
    ASSUME NEW pc
    PROVE  WokenIn(pc) = AwakeIn(th, pc) /\ WokenIn(pc)' = AwakeIn(th', pc)
  BY DEF WokenIn, Resumed, AwakeIn

\* One thread becomes r.
LEMMA AwakeAfter ==
    ASSUME IpcInv, NEW t \in Threads, NEW r, NEW pc, th' = [th EXCEPT ![t] = r]
    PROVE  /\ r.pc = pc /\ r.stat = "READY" /\ r.error = "EOK" => WokenIn(pc)' = WokenIn(pc) \cup {t}
           /\ r.pc # pc \/ r.stat # "READY" \/ r.error # "EOK" => WokenIn(pc)' = WokenIn(pc) \ {t}
  <1>0. th \in [Threads -> Records]
    BY DEF IpcInv
  <1>1. th'[t] = r /\ \A u \in Threads : u # t => th'[u] = th[u]
    BY <1>0
  <1>2. WokenIn(pc) = AwakeIn(th, pc) /\ WokenIn(pc)' = AwakeIn(th', pc)
    BY WokenIs
  <1>3. CASE r.pc = pc /\ r.stat = "READY" /\ r.error = "EOK"
    BY <1>1, <1>2, <1>3 DEF AwakeIn
  <1>4. CASE ~(r.pc = pc /\ r.stat = "READY" /\ r.error = "EOK")
    BY <1>1, <1>2, <1>4 DEF AwakeIn
  <1> QED
    BY <1>3, <1>4

\* The threads of which each is as it was or was and is not awake in a call.
LEMMA AwakeSame ==
    ASSUME NEW f, NEW g, NEW pc,
           \A t \in Threads : (t \in AwakeIn(f, pc)) <=> (t \in AwakeIn(g, pc))
    PROVE  AwakeIn(f, pc) = AwakeIn(g, pc)
  BY DEF AwakeIn

\* A call that returns.
LEMMA Returns ==
    ASSUME IpcInv, object' = object, NEW t \in Threads, th[t].stat = "READY", th' = Returned(t),
           flag' = flag, waiting' = waiting
    PROVE  /\ IpcInv'
           /\ \A pc : pc # "user" => WokenIn(pc)' = WokenIn(pc) \ {t}
  <1>1. GoesOn(t, Outside)
    BY DEF GoesOn, Returned
  <1>2. IpcInv'
    BY <1>1, GoesOnKeeps, OutsideOK
  <1>3. ASSUME NEW pc, pc # "user" PROVE WokenIn(pc)' = WokenIn(pc) \ {t}
    <2>o. PICK o : o = Outside
      OBVIOUS
    <2>1. th' = [th EXCEPT ![t] = o]
      BY <2>o DEF Returned
    <2>2. o.pc # pc \/ o.stat # "READY" \/ o.error # "EOK"
      BY <1>3, <2>o, OutsideOK
    <2>3. o.pc # pc \/ o.stat # "READY" \/ o.error # "EOK" => WokenIn(pc)' = WokenIn(pc) \ {t}
      BY <2>1, AwakeAfter
    <2> QED
      BY <2>2, <2>3
  <1> QED
    BY <1>2, <1>3

\* A call that blocks in list l, which becomes q.
LEMMA Waits ==
    ASSUME IpcInv, object' = object, NEW t \in Threads, NEW l \in Lists, NEW q,
           JoinedBy(q, waiting[l], t), NEW c \in SendCalls \cup RecvCalls, c \in StagesOf(object),
           l = IF c \in SendCalls THEN Senders ELSE Receivers, NEW T, T \in Nat \/ T = Forever,
           NEW b \in Nat, object # "dataqueue" /\ T # Forever => T <= b,
           Sleeps(t, l, Suspended(c, T, b), q)
    PROVE  /\ IpcInv'
           /\ \A k \in Lists : k # l => waiting'[k] = waiting[k]
           /\ \A pc : WokenIn(pc)' = WokenIn(pc) \ {t}
  <1>r. PICK r : r = Suspended(c, T, b)
    OBVIOUS
  <1>1. ThreadOK(r, object) /\ r.pc = c /\ r.stat = "SUSPEND" /\ place(r) = l
    BY <1>r, SuspendedOK
  <1>2. IpcInv'
    BY <1>r, <1>1, SleepsKeeps
  <1>3. \A k \in Lists : k # l => waiting'[k] = waiting[k]
    BY DEF Sleeps, IpcInv, Listed
  <1>4. ASSUME NEW pc PROVE WokenIn(pc)' = WokenIn(pc) \ {t}
    <2>1. th' = [th EXCEPT ![t] = r]
      BY <1>r DEF Sleeps
    <2>2. r.stat # "READY"
      BY <1>1
    <2> QED
      BY <2>1, <2>2, AwakeAfter
  <1> QED
    BY <1>2, <1>3, <1>4

\* Threads woken for what a section has put in: the first waiter of list l, if there is one.
LEMMA Hands ==
    ASSUME IpcInv, object' = object, NEW th0, SameWaits(th0), NEW l \in Lists, first_resumed(th0, l)
    PROVE  /\ IpcInv'
           /\ \A k \in Lists : k # l => waiting'[k] = waiting[k]
           /\ waiting[l] = << >> =>
                 waiting' = waiting /\ \A pc : WokenIn(pc)' = AwakeIn(th0, pc)
           /\ waiting[l] # << >> =>
                 LET h == Head(waiting[l])
                 IN  /\ waiting'[l] = Tail(waiting[l])
                     /\ \A pc : h \notin AwakeIn(th0, pc)
                     /\ \A pc : pc = th[h].pc => WokenIn(pc)' = AwakeIn(th0, pc) \cup {h}
                     /\ \A pc : pc # th[h].pc => WokenIn(pc)' = AwakeIn(th0, pc)
  <1>1. IpcInv'
    BY FirstResumedKeeps
  <1>2. waiting \in [Lists -> Seq(Threads)] /\ th0 \in [Threads -> Records]
    BY DEF IpcInv, Listed, SameWaits
  <1>3. \A pc : WokenIn(pc)' = AwakeIn(th', pc)
    BY WokenIs
  <1>4. CASE waiting[l] = << >>
    <2>1. th' = th0 /\ waiting' = waiting
      BY <1>4 DEF first_resumed
    <2> QED
      BY <1>1, <1>3, <1>4, <2>1
  <1>5. CASE waiting[l] # << >>
    <2>h. PICK h : h = Head(waiting[l])
      OBVIOUS
    <2>w. PICK w : w = Woken(h)
      OBVIOUS
    <2>1. /\ th' = [th0 EXCEPT ![h] = w]
          /\ waiting' = [waiting EXCEPT ![l] = Tail(waiting[l])]
      BY <1>5, <2>h, <2>w DEF first_resumed
    <2>2. h \in Threads /\ th[h].stat = "SUSPEND" /\ w.pc = th[h].pc /\ w.stat = "READY" /\ w.error = "EOK"
      BY <1>5, <2>h, <2>w, FirstWaiter
    <2>3. th0[h] = th[h] /\ th0[h].stat # "READY"
      BY <2>2 DEF SameWaits
    <2>4. th'[h] = w /\ \A u \in Threads : u # h => th'[u] = th0[u]
      BY <1>2, <2>1, <2>2
    <2>5. \A pc : h \notin AwakeIn(th0, pc)
      BY <2>3 DEF AwakeIn
    <2>6. ASSUME NEW pc, pc = th[h].pc PROVE AwakeIn(th', pc) = AwakeIn(th0, pc) \cup {h}
      BY <2>2, <2>4, <2>6 DEF AwakeIn
    <2>7. ASSUME NEW pc, pc # th[h].pc PROVE AwakeIn(th', pc) = AwakeIn(th0, pc)
      BY <2>2, <2>3, <2>4, <2>7 DEF AwakeIn
    <2>8. waiting'[l] = Tail(waiting[l]) /\ \A k \in Lists : k # l => waiting'[k] = waiting[k]
      BY <1>2, <2>1
    <2>9. /\ \A pc : pc = th[h].pc => WokenIn(pc)' = AwakeIn(th0, pc) \cup {h}
          /\ \A pc : pc # th[h].pc => WokenIn(pc)' = AwakeIn(th0, pc)
      BY <1>3, <2>6, <2>7
    <2> QED
      BY <1>1, <1>5, <2>h, <2>5, <2>8, <2>9
  <1> QED
    BY <1>4, <1>5

\* The threads that have returned are not awake in a call.
LEMMA ReturnedAwake ==
    ASSUME IpcInv, NEW t \in Threads, NEW pc, pc # "user"
    PROVE  AwakeIn(Returned(t), pc) = AwakeIn(th, pc) \ {t}
  <1>1. th \in [Threads -> Records] /\ Outside.pc # pc
    BY OutsideOK DEF IpcInv
  <1>2. Returned(t)[t] = Outside /\ \A u \in Threads : u # t => Returned(t)[u] = th[u]
    BY <1>1 DEF Returned
  <1> QED
    BY <1>1, <1>2 DEF AwakeIn

\* What happens whatever the object is.
LEMMA IpcStepKeeps ==
    ASSUME IpcInv, object' = object, IpcStep
    PROVE  /\ IpcInv'
           /\ \A k \in Lists : waiting[k] = << >> => waiting'[k] = << >>
           /\ \A pc : pc # "user" => WokenIn(pc)' = WokenIn(pc)
  <1>1. CASE rt_tick_increase
    <2>1. /\ IpcInv' /\ waiting' = waiting
          /\ \A t \in Threads : /\ th'[t].pc = th[t].pc /\ th'[t].stat = th[t].stat
                                /\ th'[t].error = th[t].error
      BY <1>1, TickKeeps
    <2>2. \A pc : WokenIn(pc)' = WokenIn(pc)
      BY <2>1 DEF WokenIn, Resumed
    <2> QED
      BY <2>1, <2>2
  <1>2. ASSUME NEW t \in Threads, thread_timeout(t) 
        PROVE  /\ IpcInv'
               /\ \A k \in Lists : waiting[k] = << >> => waiting'[k] = << >>
               /\ \A pc : pc # "user" => WokenIn(pc)' = WokenIn(pc)
    <2>1. /\ IpcInv' /\ th[t].stat = "SUSPEND"
          /\ th'[t].stat = "READY" /\ th'[t].error = "ETIMEOUT" /\ th'[t].pc = th[t].pc
          /\ \A u \in Threads : u # t => th'[u] = th[u]
          /\ \A k \in Lists : waiting[k] = << >> => waiting'[k] = << >>
      BY <1>2, TimeoutKeeps
    <2>2. \A pc : WokenIn(pc)' = WokenIn(pc)
      BY <2>1 DEF WokenIn, Resumed
    <2> QED
      BY <2>1, <2>2
  <1>3. ASSUME NEW t \in Threads, gives_up(t) 
        PROVE  /\ IpcInv'
               /\ \A k \in Lists : waiting[k] = << >> => waiting'[k] = << >>
               /\ \A pc : pc # "user" => WokenIn(pc)' = WokenIn(pc)
    <2>1. /\ th[t].stat = "READY" /\ th[t].error # "EOK" /\ th' = Returned(t)
          /\ flag' = flag /\ waiting' = waiting
      BY <1>3 DEF gives_up, Failed
    <2>2. IpcInv' /\ \A pc : pc # "user" => WokenIn(pc)' = WokenIn(pc) \ {t}
      BY <2>1, Returns
    <2>3. \A pc : t \notin WokenIn(pc)
      BY <2>1 DEF WokenIn, Resumed
    <2> QED
      BY <2>1, <2>2, <2>3
  <1> QED
    BY <1>1, <1>2, <1>3 DEF IpcStep

\* A reset.
LEMMA ResetKeeps ==
    ASSUME IpcInv, object' = object, resume_all
    PROVE  /\ IpcInv'
           /\ \A k \in Lists : waiting'[k] = << >>
           /\ \A pc : WokenIn(pc)' = WokenIn(pc)
  <1>1. /\ IpcInv' /\ waiting' = [k \in Lists |-> << >>]
        /\ \A t \in Threads :
              IF th[t].stat = "READY" THEN th'[t] = th[t]
              ELSE th'[t].stat = "READY" /\ th'[t].error = "ERROR" /\ th'[t].pc = th[t].pc
    BY ResumeAllKeeps
  <1>2. \A pc : WokenIn(pc)' = WokenIn(pc)
    BY <1>1 DEF WokenIn, Resumed
  <1> QED
    BY <1>1, <1>2

\* A thread that is not in a call that can block is ready.
LEMMA OutsideReady ==
    ASSUME IpcInv, NEW t \in Threads, th[t].pc \notin SendCalls \cup RecvCalls
    PROVE  th[t].stat = "READY"
  BY PlacesAre DEF IpcInv, ThreadOK

\* A thread that calls.
LEMMA CallerReady ==
    ASSUME IpcInv, NEW t \in Threads, Calls(t)
    PROVE  th[t].stat = "READY" /\ \A pc : pc # "user" => t \notin WokenIn(pc)
  <1>1. th[t].pc = "user"
    BY DEF Calls
  <1>2. "user" \notin SendCalls \cup RecvCalls
    BY DEF SendCalls, RecvCalls
  <1>3. \A pc : pc # "user" => t \notin WokenIn(pc)
    BY <1>1 DEF WokenIn, Resumed
  <1> QED
    BY <1>1, <1>2, <1>3, OutsideReady

\* What a caller may spend.
LEMMA AskedOK ==
    ASSUME NEW T \in Timeouts
    PROVE  /\ T \in Nat \/ T = Forever
           /\ Asked(T) \in Nat /\ (T # Forever => T <= Asked(T))
  BY IpcConstants DEF Asked, Finite

\* A call that blocks in list l.
LEMMA Suspends ==
    ASSUME IpcInv, object' = object, NEW t \in Threads, th[t].stat = "READY", NEW l \in Lists,
           NEW c \in SendCalls \cup RecvCalls, c \in StagesOf(object),
           l = IF c \in SendCalls THEN Senders ELSE Receivers, NEW T, T \in Nat \/ T = Forever,
           NEW b \in Nat, object # "dataqueue" /\ T # Forever => T <= b,
           suspend(t, l, c, T, b)
    PROVE  /\ IpcInv'
           /\ waiting'[l] = enqueued(waiting[l], t)
           /\ \A k \in Lists : k # l => waiting'[k] = waiting[k]
           /\ \A pc : WokenIn(pc)' = WokenIn(pc) \ {t}
  <1>q. PICK q : q = enqueued(waiting[l], t)
    OBVIOUS
  <1>0. waiting \in [Lists -> Seq(Threads)] /\ waiting[l] \in Seq(Threads)
    BY DEF IpcInv, Listed
  <1>1. JoinedBy(q, waiting[l], t)
    <2>1. /\ q \in Seq(Threads)
          /\ \A y : InList(q, y) <=> InList(waiting[l], y) \/ y = t
          /\ Once(waiting[l]) /\ ~InList(waiting[l], t) => Once(q)
      BY <1>q, <1>0, Enqueued
    <2> QED
      BY <2>1 DEF JoinedBy
  <1>2. Sleeps(t, l, Suspended(c, T, b), q)
    BY <1>q DEF suspend, Sleeps
  <1>3. waiting'[l] = q
    BY <1>0, <1>2 DEF Sleeps
  <1>4. /\ IpcInv'
        /\ \A k \in Lists : k # l => waiting'[k] = waiting[k]
        /\ \A pc : WokenIn(pc)' = WokenIn(pc) \ {t}
    BY <1>1, <1>2, Waits
  <1> QED
    BY <1>q, <1>3, <1>4

-----------------------------------------------------------------------------
(* Semaphores *)

SemInv ==
    /\ sem_value \in Nat /\ (object # "semaphore" => sem_value = 0)
    /\ SemUnitsKept /\ SemNoneForgotten

\* Nobody is woken in a call of another object.
LEMMA OtherCalls ==
    ASSUME IpcInv, NEW pc, pc \notin StagesOf(object)
    PROVE  WokenIn(pc) = {}
  BY DEF WokenIn, Resumed, IpcInv, ThreadOK

\* The number of the woken takers.
LEMMA WokenNumber ==
    ASSUME NEW pc
    PROVE  /\ Cardinality(WokenIn(pc)) \in Nat
           /\ \A t : Cardinality(WokenIn(pc) \ {t}) = IF t \in WokenIn(pc) THEN Cardinality(WokenIn(pc)) - 1
                                                      ELSE Cardinality(WokenIn(pc))
           /\ \A t : t \notin WokenIn(pc) => Cardinality(WokenIn(pc) \cup {t}) = Cardinality(WokenIn(pc)) + 1
           /\ Cardinality(WokenIn(pc)) = 0 <=> WokenIn(pc) = {}
  BY WokenIs, WokenCount

\* The calls of a semaphore.
LEMMA SemKeeps ==
    ASSUME IpcInv, SemInv, object = "semaphore", object' = object, SemNext
    PROVE  IpcInv' /\ SemInv'
  <1> DEFINE W == WokenIn("take")
  <1>0. /\ sem_value \in Nat /\ sem_credit = sem_value + Cardinality(W)
        /\ sem_value > 0 => waiting[Receivers] = << >>
        /\ waiting \in [Lists -> Seq(Threads)] /\ Receivers \in Lists /\ Senders \in Lists
    BY DEF SemInv, SemUnitsKept, SemNoneForgotten, IpcInv, Listed, Lists
  <1>c. Cardinality(W) \in Nat
    BY WokenNumber
  <1>s. /\ "take" \in RecvCalls /\ "take" \notin SendCalls /\ "take" \in StagesOf(object)
        /\ "take" # "user"
    BY DEF RecvCalls, SendCalls, StagesOf
  <1>g. ASSUME IpcInv', sem_value' \in Nat, sem_credit' = sem_value' + Cardinality(WokenIn("take")'),
               sem_value' > 0 => waiting'[Receivers] = << >>
        PROVE  IpcInv' /\ SemInv'
    BY <1>g DEF SemInv, SemUnitsKept, SemNoneForgotten
  <1> HIDE DEF W
  <1>1. ASSUME NEW t \in Threads, take_now(t) PROVE IpcInv' /\ SemInv'
    <2>1. /\ sem_value > 0 /\ sem_value' = sem_value - 1 /\ sem_credit' = sem_credit - 1
          /\ flag' = flag /\ waiting' = waiting /\ th' = th
      BY <1>1 DEF take_now, ipcVars
    <2>2. IpcInv' /\ WokenIn("take")' = W
      BY <2>1 DEF IpcInv, places, W, WokenIn, Resumed
    <2> QED
      BY <1>0, <1>c, <1>g, <2>1, <2>2
  <1>2. ASSUME NEW t \in Threads, take_granted(t) PROVE IpcInv' /\ SemInv'
    <2>1. /\ Resumed(t, "take") /\ th' = Returned(t) /\ sem_credit' = sem_credit - 1
          /\ flag' = flag /\ waiting' = waiting /\ sem_value' = sem_value
      BY <1>2 DEF take_granted
    <2>2. t \in W /\ th[t].stat = "READY"
      BY <2>1 DEF W, WokenIn, Resumed
    <2>3. IpcInv' /\ WokenIn("take")' = W \ {t}
      BY <1>s, <2>1, <2>2, Returns DEF W
    <2>4. Cardinality(W \ {t}) = Cardinality(W) - 1
      BY <2>2, WokenNumber DEF W
    <2>5. sem_credit' = sem_value' + Cardinality(WokenIn("take")')
      <3>1. PICK n \in Nat : n = Cardinality(W)
        BY <1>c
      <3>2. Cardinality(WokenIn("take")') = n - 1
        BY <2>3, <2>4, <3>1
      <3>3. sem_credit = sem_value + n
        BY <1>0, <3>1
      <3> QED
        BY <1>0, <2>1, <3>2, <3>3
    <2> QED
      BY <1>0, <1>g, <2>1, <2>3, <2>5
  <1>3. ASSUME NEW t \in Threads, NEW T \in Timeouts, take_wait(t, T) PROVE IpcInv' /\ SemInv'
    <2>1. /\ Calls(t) /\ sem_value = 0 /\ suspend(t, Receivers, "take", T, Asked(T))
          /\ sem_value' = sem_value /\ sem_credit' = sem_credit
      BY <1>3 DEF take_wait, semVars
    <2>2. th[t].stat = "READY" /\ t \notin W
      BY <1>s, <2>1, CallerReady DEF W
    <2>3. IpcInv' /\ WokenIn("take")' = W \ {t}
      <3>1. /\ T \in Nat \/ T = Forever
            /\ Asked(T) \in Nat /\ (object # "dataqueue" /\ T # Forever => T <= Asked(T))
        BY AskedOK
      <3> QED
        BY <1>0, <1>s, <2>1, <2>2, <3>1, Suspends DEF W
    <2>4. sem_credit' = sem_value' + Cardinality(WokenIn("take")')
      <3>1. W \ {t} = W
        BY <2>2
      <3> QED
        BY <1>0, <2>1, <2>3, <3>1
    <2> QED
      BY <1>0, <1>g, <2>1, <2>3, <2>4
  <1>4. CASE rt_sem_release
    <2>1. /\ IF waiting[Receivers] # << >> THEN sem_value' = sem_value
             ELSE sem_value' = sem_value + 1
          /\ first_resumed(th, Receivers) /\ sem_credit' = sem_credit + 1
      BY <1>4 DEF rt_sem_release
    <2>2. SameWaits(th)
      BY DEF SameWaits, IpcInv
    <2>3. W = AwakeIn(th, "take")
      BY WokenIs DEF W
    <2>4. CASE waiting[Receivers] = << >>
      <3>1. IpcInv' /\ waiting' = waiting /\ WokenIn("take")' = W
        BY <1>0, <2>1, <2>2, <2>3, <2>4, Hands
      <3> QED
        BY <1>0, <1>c, <1>g, <2>1, <2>4, <3>1
    <2>5. CASE waiting[Receivers] # << >>
      <3>h. PICK h : h = Head(waiting[Receivers])
        OBVIOUS
      <3>1. th[h].pc = "take"
        <4>1. h \in Threads /\ th[h].stat = "SUSPEND"
          BY <1>0, <2>5, <3>h, FirstWaiter
        <4>2. th[h].pc \in StagesOf(object) /\ th[h].pc \in SendCalls \cup RecvCalls
          BY <4>1 DEF IpcInv, ThreadOK
        <4> QED
          BY <4>2 DEF StagesOf, SendCalls, RecvCalls
      <3>2. /\ IpcInv' /\ h \notin W /\ WokenIn("take")' = W \cup {h}
        <4>1. /\ IpcInv'
              /\ \A pc : h \notin AwakeIn(th, pc)
              /\ \A pc : pc = th[h].pc => WokenIn(pc)' = AwakeIn(th, pc) \cup {h}
          BY ZenonT(60), <1>0, <2>1, <2>2, <2>5, <3>h, Hands
        <4>2. h \notin AwakeIn(th, "take") /\ WokenIn("take")' = AwakeIn(th, "take") \cup {h}
          BY <3>1, <4>1
        <4>3. h \notin W /\ WokenIn("take")' = W \cup {h}
          BY <2>3, <4>2
        <4> QED
          BY <4>1, <4>3
      <3>3. Cardinality(W \cup {h}) = Cardinality(W) + 1
        BY <3>2, WokenNumber DEF W
      <3>4. sem_credit' = sem_value' + Cardinality(WokenIn("take")')
        <4>1. PICK n \in Nat : n = Cardinality(W)
          BY <1>c
        <4>2. Cardinality(WokenIn("take")') = n + 1
          BY <3>2, <3>3, <4>1
        <4>3. sem_credit = sem_value + n /\ sem_value' = sem_value
          BY <1>0, <2>1, <2>5, <4>1
        <4> QED
          BY <1>0, <2>1, <4>2, <4>3
      <3>5. sem_value' = 0
        BY <1>0, <2>1, <2>5
      <3> QED
        BY <1>g, <3>2, <3>4, <3>5
    <2> QED
      BY <2>4, <2>5
  <1>5. ASSUME NEW v \in SemInits, rt_sem_reset(v) PROVE IpcInv' /\ SemInv'
    <2>1. resume_all /\ sem_value' = v /\ sem_credit' = v + Cardinality(W)
      BY <1>5 DEF rt_sem_reset, W
    <2>2. IpcInv' /\ waiting'[Receivers] = << >> /\ WokenIn("take")' = W
      BY <1>0, <2>1, ResetKeeps DEF W
    <2>3. v \in Nat
      BY SemAssumption
    <2> QED
      BY <1>g, <2>1, <2>2, <2>3
  <1>6. CASE IpcStep /\ UNCHANGED semVars
    <2>1. sem_value' = sem_value /\ sem_credit' = sem_credit
      BY <1>6 DEF semVars
    <2>2. /\ IpcInv' /\ WokenIn("take")' = W
          /\ waiting[Receivers] = << >> => waiting'[Receivers] = << >>
      BY <1>0, <1>6, <1>s, IpcStepKeeps DEF W
    <2> QED
      BY <1>0, <1>g, <2>1, <2>2
  <1> QED
    BY <1>1, <1>2, <1>3, <1>4, <1>5, <1>6 DEF SemNext

-----------------------------------------------------------------------------
(* How many threads were woken and have not looked *)

Count(pc) == Cardinality(WokenIn(pc))

\* The number of them without t.
CountBut(t, pc) == IF t \in WokenIn(pc) THEN Count(pc) - 1 ELSE Count(pc)

\* These are numbers.
LEMMA CountIs ==
    ASSUME NEW t, NEW pc
    PROVE  /\ Count(pc) \in Nat /\ CountBut(t, pc) \in Nat
           /\ CountBut(t, pc) = Cardinality(AwakeIn(th, pc) \ {t})
           /\ t \in WokenIn(pc) => CountBut(t, pc) + 1 = Count(pc)
           /\ t \notin WokenIn(pc) => CountBut(t, pc) = Count(pc)
  <1>1. /\ Count(pc) \in Nat
        /\ Cardinality(WokenIn(pc) \ {t}) = IF t \in WokenIn(pc) THEN Count(pc) - 1 ELSE Count(pc)
        /\ Count(pc) = 0 <=> WokenIn(pc) = {}
    BY WokenNumber DEF Count
  <1>2. WokenIn(pc) = AwakeIn(th, pc)
    BY WokenIs
  <1>3. CountBut(t, pc) = Cardinality(AwakeIn(th, pc) \ {t})
    BY <1>1, <1>2 DEF CountBut
  <1>4. t \in WokenIn(pc) => Count(pc) # 0
    BY <1>1
  <1> QED
    BY <1>1, <1>3, <1>4 DEF CountBut

\* Their relations.
LEMMA CountFacts ==
    ASSUME NEW t, NEW pc
    PROVE  /\ Count(pc) \in Nat /\ CountBut(t, pc) \in Nat
           /\ CountBut(t, pc) <= Count(pc) /\ Count(pc) <= CountBut(t, pc) + 1
           /\ t \in WokenIn(pc) => CountBut(t, pc) + 1 = Count(pc)
           /\ t \notin WokenIn(pc) => CountBut(t, pc) = Count(pc)
  <1>0. Count(pc) \in Nat /\ (Count(pc) = 0 <=> WokenIn(pc) = {})
    BY WokenNumber DEF Count
  <1>1. CASE t \in WokenIn(pc)
    BY <1>0, <1>1 DEF CountBut
  <1>2. CASE t \notin WokenIn(pc)
    BY <1>0, <1>2 DEF CountBut
  <1> QED
    BY <1>1, <1>2

\* A call that returns is not counted any more.
LEMMA ReturnsCount ==
    ASSUME IpcInv, object' = object, NEW t \in Threads, th[t].stat = "READY", th' = Returned(t),
           flag' = flag, waiting' = waiting
    PROVE  IpcInv' /\ \A pc : pc # "user" => Count(pc)' = CountBut(t, pc)
  <1>1. IpcInv' /\ \A pc : pc # "user" => WokenIn(pc)' = WokenIn(pc) \ {t}
    BY Returns
  <1>2. ASSUME NEW pc, pc # "user" PROVE Count(pc)' = CountBut(t, pc)
    <2>1. WokenIn(pc)' = AwakeIn(th, pc) \ {t}
      BY <1>1, <1>2, WokenIs
    <2>2. CountBut(t, pc) = Cardinality(AwakeIn(th, pc) \ {t})
      BY CountIs
    <2> QED
      BY <2>1, <2>2 DEF Count
  <1> QED
    BY <1>1, <1>2

\* Nor is one that blocks.
LEMMA SuspendsCount ==
    ASSUME IpcInv, object' = object, NEW t \in Threads, th[t].stat = "READY", NEW l \in Lists,
           NEW c \in SendCalls \cup RecvCalls, c \in StagesOf(object),
           l = IF c \in SendCalls THEN Senders ELSE Receivers, NEW T, T \in Nat \/ T = Forever,
           NEW b \in Nat, object # "dataqueue" /\ T # Forever => T <= b,
           suspend(t, l, c, T, b)
    PROVE  /\ IpcInv'
           /\ waiting'[l] = enqueued(waiting[l], t)
           /\ \A k \in Lists : k # l => waiting'[k] = waiting[k]
           /\ \A pc : Count(pc)' = CountBut(t, pc)
  <1>1. /\ IpcInv'
        /\ waiting'[l] = enqueued(waiting[l], t)
        /\ \A k \in Lists : k # l => waiting'[k] = waiting[k]
        /\ \A pc : WokenIn(pc)' = WokenIn(pc) \ {t}
    BY Suspends
  <1>2. ASSUME NEW pc PROVE Count(pc)' = CountBut(t, pc)
    <2>1. WokenIn(pc)' = AwakeIn(th, pc) \ {t}
      BY <1>1, WokenIs
    <2>2. CountBut(t, pc) = Cardinality(AwakeIn(th, pc) \ {t})
      BY CountIs
    <2> QED
      BY <2>1, <2>2 DEF Count
  <1> QED
    BY <1>1, <1>2

\* The call in which the threads of list l of an object wait.
Call(k, l) ==
    IF l = Senders THEN CASE k = "mailbox" -> "mb_send" [] k = "msgqueue" -> "mq_send" [] OTHER -> "dq_push"
    ELSE CASE k = "semaphore" -> "take" [] k = "event" -> "recv" [] k = "mailbox" -> "mb_recv"
           [] k = "msgqueue" -> "mq_recv" [] k = "mempool" -> "alloc" [] k = "completion" -> "comp_wait"
           [] OTHER -> "dq_pop"

\* They wait in that call.
LEMMA WaiterCall ==
    ASSUME IpcInv, NEW l \in Lists, waiting[l] # << >>
    PROVE  th[Head(waiting[l])].pc = Call(object, l)
  <1>h. PICK h : h = Head(waiting[l])
    OBVIOUS
  <1>1. h \in Threads /\ th[h].stat = "SUSPEND" /\ place(th[h]) = l
    BY <1>h, FirstWaiter
  <1>2. th[h].pc \in StagesOf(object) /\ th[h].pc \in SendCalls \cup RecvCalls
    BY <1>1 DEF IpcInv, ThreadOK
  <1>3. CASE l = Senders
    <2>1. th[h].pc \in SendCalls
      BY <1>1, <1>3 DEF place, Senders, Receivers
    <2>2. th[h].pc = Call(object, l)
      BY <1>2, <1>3, <2>1 DEF StagesOf, SendCalls, Call
    <2> QED
      BY <1>h, <2>2
  <1>4. CASE l = Receivers
    <2>1. th[h].pc \in RecvCalls /\ l # Senders
      BY <1>1, <1>2, <1>4 DEF place, Senders, Receivers
    <2>2. th[h].pc = Call(object, l)
      BY <1>2, <2>1 DEF StagesOf, RecvCalls, Call
    <2> QED
      BY <1>h, <2>2
  <1> QED
    BY <1>3, <1>4 DEF Lists

\* A section that wakes the first waiter of list l; t is the thread that returns from it,
\* or none.
Base(th0, t) ==
    \/ th0 = th /\ t \notin Threads
    \/ t \in Threads /\ th[t].stat = "READY" /\ th0 = Returned(t)

\* The woken thread is counted.
LEMMA HandsCount ==
    ASSUME IpcInv, object' = object, NEW t, NEW th0, Base(th0, t), NEW l \in Lists, first_resumed(th0, l)
    PROVE  /\ IpcInv'
           /\ \A k \in Lists : k # l => waiting'[k] = waiting[k]
           /\ waiting[l] = << >> => waiting' = waiting
           /\ waiting[l] # << >> => waiting'[l] = Tail(waiting[l])
           /\ \A pc : pc # "user" =>
                 Count(pc)' = IF waiting[l] # << >> /\ pc = Call(object, l) THEN CountBut(t, pc) + 1
                              ELSE CountBut(t, pc)
  <1>1. SameWaits(th0) /\ \A pc : pc # "user" => AwakeIn(th0, pc) = AwakeIn(th, pc) \ {t}
    <2>1. CASE th0 = th /\ t \notin Threads
      <3>1. SameWaits(th0)
        BY <2>1 DEF SameWaits, IpcInv
      <3>2. \A pc : t \notin AwakeIn(th, pc)
        BY <2>1 DEF AwakeIn
      <3>3. \A pc : AwakeIn(th0, pc) = AwakeIn(th, pc)
        BY <2>1
      <3> QED
        BY <3>1, <3>2, <3>3
    <2>2. CASE t \in Threads /\ th[t].stat = "READY" /\ th0 = Returned(t)
      BY <2>2, ReturnedSame, ReturnedAwake
    <2> QED
      BY <2>1, <2>2 DEF Base
  <1>2. /\ IpcInv'
        /\ \A k \in Lists : k # l => waiting'[k] = waiting[k]
        /\ waiting[l] = << >> => waiting' = waiting
    BY <1>1, Hands
  <1>3. waiting[l] # << >> => waiting'[l] = Tail(waiting[l])
    BY <1>1, Hands
  <1>4. ASSUME NEW pc, pc # "user"
        PROVE  Count(pc)' = IF waiting[l] # << >> /\ pc = Call(object, l) THEN CountBut(t, pc) + 1
                            ELSE CountBut(t, pc)
    <2>a. PICK A : A = AwakeIn(th0, pc)
      OBVIOUS
    <2>1. CountBut(t, pc) = Cardinality(A)
      BY <1>1, <1>4, <2>a, CountIs
    <2>2. CASE waiting[l] = << >>
      <3>1. WokenIn(pc)' = A
        BY <1>1, <2>2, <2>a, Hands
      <3> QED
        BY <2>1, <2>2, <3>1 DEF Count
    <2>3. CASE waiting[l] # << >> /\ pc = Call(object, l)
      <3>h. PICK h : h = Head(waiting[l])
        OBVIOUS
      <3>1. th[h].pc = pc
        BY <2>3, <3>h, WaiterCall
      <3>2. /\ \A q : h \notin AwakeIn(th0, q)
            /\ \A q : q = th[h].pc => WokenIn(q)' = AwakeIn(th0, q) \cup {h}
        BY <1>1, <2>3, <3>h, Hands
      <3>3. h \notin A /\ WokenIn(pc)' = A \cup {h}
        BY <2>a, <3>1, <3>2
      <3>4. Cardinality(A \cup {h}) = Cardinality(A) + 1
        BY <2>a, <3>3, WokenCount
      <3> QED
        BY <2>1, <2>3, <3>3, <3>4 DEF Count
    <2>4. CASE waiting[l] # << >> /\ pc # Call(object, l)
      <3>h. PICK h : h = Head(waiting[l])
        OBVIOUS
      <3>1. th[h].pc # pc
        BY <2>4, <3>h, WaiterCall
      <3>2. \A q : q # th[h].pc => WokenIn(q)' = AwakeIn(th0, q)
        BY <1>1, <2>4, <3>h, Hands
      <3>3. WokenIn(pc)' = A
        BY <2>a, <3>1, <3>2
      <3> QED
        BY <2>1, <2>4, <3>3 DEF Count
    <2> QED
      BY <2>2, <2>3, <2>4
  <1> QED
    BY <1>2, <1>3, <1>4

\* A step that changes neither the threads nor the lists.
LEMMA NothingCount ==
    ASSUME IpcInv, object' = object, flag' = flag, waiting' = waiting, th' = th
    PROVE  IpcInv' /\ \A pc : Count(pc)' = Count(pc)
  <1>1. IpcInv'
    BY DEF IpcInv, places
  <1>2. \A pc : WokenIn(pc)' = WokenIn(pc)
    BY DEF WokenIn, Resumed
  <1> QED
    BY <1>1, <1>2 DEF Count

\* What happens whatever the object is, and a reset, wake nobody for something.
LEMMA OthersCount ==
    ASSUME IpcInv, object' = object
    PROVE  /\ IpcStep => /\ IpcInv'
                         /\ \A k \in Lists : waiting[k] = << >> => waiting'[k] = << >>
                         /\ \A pc : pc # "user" => Count(pc)' = Count(pc)
           /\ resume_all => /\ IpcInv'
                            /\ \A k \in Lists : waiting'[k] = << >>
                            /\ \A pc : Count(pc)' = Count(pc)
  <1>1. ASSUME IpcStep PROVE /\ IpcInv'
                             /\ \A k \in Lists : waiting[k] = << >> => waiting'[k] = << >>
                             /\ \A pc : pc # "user" => Count(pc)' = Count(pc)
    <2>1. /\ IpcInv'
          /\ \A k \in Lists : waiting[k] = << >> => waiting'[k] = << >>
          /\ \A pc : pc # "user" => WokenIn(pc)' = WokenIn(pc)
      BY <1>1, IpcStepKeeps
    <2>2. \A pc : pc # "user" => Count(pc)' = Count(pc)
      BY <2>1 DEF Count
    <2> QED
      BY <2>1, <2>2
  <1>2. ASSUME resume_all PROVE /\ IpcInv'
                                /\ \A k \in Lists : waiting'[k] = << >>
                                /\ \A pc : Count(pc)' = Count(pc)
    <2>1. /\ IpcInv'
          /\ \A k \in Lists : waiting'[k] = << >>
          /\ \A pc : WokenIn(pc)' = WokenIn(pc)
      BY <1>2, ResetKeeps
    <2>2. \A pc : Count(pc)' = Count(pc)
      BY <2>1 DEF Count
    <2> QED
      BY <2>1, <2>2
  <1> QED
    BY <1>1, <1>2

-----------------------------------------------------------------------------
(* Rings *)

\* The e things in a ring of n slots from the slot out on.
Slot(out, i, n) == (out + i - 1) % n

Ring(pool, out, e, n) == [i \in 1 .. e |-> pool[Slot(out, i, n)]]

\* The slots of a ring in arithmetic.
LEMMA RingSlot ==
    ASSUME NEW n \in Nat \ {0}, NEW out \in 0 .. n - 1, NEW i \in 1 .. n
    PROVE  /\ Slot(out, i, n) \in 0 .. n - 1
           /\ Slot(out, i, n) = IF out + i - 1 < n THEN out + i - 1 ELSE out + i - 1 - n
  <1>1. PICK a : a = out + i - 1
    OBVIOUS
  <1>2. a \in Nat /\ a < 2 * n
    BY <1>1
  <1>3. a % n = IF a < n THEN a ELSE a - n
    BY <1>2, Wraps
  <1> QED
    BY <1>1, <1>2, <1>3 DEF Slot

\* The contents are a sequence.
RingOf(r, V, pool, out, e, n) ==
    r \in Seq(V) /\ Len(r) = e /\ \A i \in 1 .. e : r[i] = pool[Slot(out, i, n)]

\* They are in the slots.
LEMMA RingIs ==
    ASSUME NEW n \in Nat \ {0}, NEW V, NEW pool \in [0 .. n - 1 -> V], NEW out \in 0 .. n - 1,
           NEW e \in 0 .. n
    PROVE  RingOf(Ring(pool, out, e, n), V, pool, out, e, n)
  <1>1. ASSUME NEW i \in 1 .. e PROVE pool[Slot(out, i, n)] \in V
    BY RingSlot
  <1>2. Ring(pool, out, e, n) \in [1 .. e -> V]
    BY <1>1 DEF Ring
  <1>3. Ring(pool, out, e, n) \in Seq(V) /\ Len(Ring(pool, out, e, n)) = e
    BY <1>2, PlacesMakeList
  <1> QED
    BY <1>1, <1>3 DEF Ring, RingOf

\* A thing is put behind the last one, or before the first one.
PutsLast(new, pool, out, e, n, v) == new = [pool EXCEPT ![Slot(out, e + 1, n)] = v]

PutsFirst(new, o, pool, out, n, v) ==
    o = (IF out > 0 THEN out - 1 ELSE n - 1) /\ new = [pool EXCEPT ![o] = v]

\* The first thing is in slot out and the next one comes to the slot in.
EndOf(out, e, n) == IF out + e < n THEN out + e ELSE out + e - n

Follows(i, n) == IF i + 1 >= n THEN 0 ELSE i + 1

\* What this does to the contents.
RingAppends(new, pool, out, e, n, v, V) ==
    /\ new \in [0 .. n - 1 -> V]
    /\ Ring(new, out, e + 1, n) = Append(Ring(pool, out, e, n), v)

RingPrepends(new, o, pool, out, e, n, v, V) ==
    /\ o \in 0 .. n - 1 /\ new \in [0 .. n - 1 -> V]
    /\ Ring(new, o, e + 1, n) = <<v>> \o Ring(pool, out, e, n)
    /\ EndOf(o, e + 1, n) = EndOf(out, e, n)

RingTakes(pool, o, out, e, n) ==
    /\ o \in 0 .. n - 1
    /\ Ring(pool, o, e - 1, n) = Tail(Ring(pool, out, e, n))
    /\ Ring(pool, out, e, n) # << >>
    /\ EndOf(o, e - 1, n) = EndOf(out, e, n)

\* The new thing comes last.
LEMMA RingAppend ==
    ASSUME NEW n \in Nat \ {0}, NEW V, NEW pool \in [0 .. n - 1 -> V], NEW out \in 0 .. n - 1,
           NEW e \in 0 .. n - 1, NEW v \in V, NEW new, PutsLast(new, pool, out, e, n, v)
    PROVE  RingAppends(new, pool, out, e, n, v, V)
  <1>s. PICK s : s = Slot(out, e + 1, n)
    OBVIOUS
  <1>0. e + 1 \in 1 .. n /\ e \in 0 .. n /\ e + 1 \in 0 .. n /\ out + (e + 1) - 1 = out + e
    OBVIOUS
  <1>1. s \in 0 .. n - 1 /\ s = IF out + (e + 1) - 1 < n THEN out + (e + 1) - 1 ELSE out + (e + 1) - 1 - n
    BY <1>s, <1>0, RingSlot
  <1>2. new \in [0 .. n - 1 -> V] /\ new[s] = v /\ \A j \in 0 .. n - 1 : j # s => new[j] = pool[j]
    BY <1>s, <1>1 DEF PutsLast
  <1>a. PICK a : a = Ring(pool, out, e, n)
    OBVIOUS
  <1>b. PICK b : b = Ring(new, out, e + 1, n)
    OBVIOUS
  <1>ra. RingOf(a, V, pool, out, e, n)
    BY <1>a, <1>0, RingIs
  <1>3. a \in Seq(V) /\ Len(a) = e /\ \A i \in 1 .. e : a[i] = pool[Slot(out, i, n)]
    BY <1>ra DEF RingOf
  <1>rb. RingOf(b, V, new, out, e + 1, n)
    BY <1>b, <1>0, <1>2, RingIs
  <1>4. b \in Seq(V) /\ Len(b) = e + 1 /\ \A i \in 1 .. e + 1 : b[i] = new[Slot(out, i, n)]
    BY <1>rb DEF RingOf
  <1>5. ASSUME NEW i \in 1 .. e + 1 PROVE b[i] = Append(a, v)[i]
    <2>1. CASE i = e + 1
      <3>1. b[i] = new[Slot(out, e + 1, n)]
        BY <1>4, <2>1
      <3>2. b[i] = v
        BY <3>1, <1>0, <1>s, <1>2
      <3> QED
        BY <1>3, <2>1, <3>2
    <2>2. CASE i # e + 1
      <3>1. i \in 1 .. e /\ i \in 1 .. n
        BY <2>2
      <3>2. PICK j : j = Slot(out, i, n)
        OBVIOUS
      <3>3. j \in 0 .. n - 1 /\ j = IF out + i - 1 < n THEN out + i - 1 ELSE out + i - 1 - n
        BY <3>1, <3>2, RingSlot
      <3>4. j # s
        BY <1>1, <3>1, <3>3
      <3>5. b[i] = new[j] /\ a[i] = pool[j]
        BY <1>3, <1>4, <3>1, <3>2
      <3>6. b[i] = a[i]
        BY <1>2, <3>3, <3>4, <3>5
      <3> QED
        BY <1>3, <3>1, <3>6
    <2> QED
      BY <2>1, <2>2
  <1>6. Append(a, v) \in Seq(V) /\ Len(Append(a, v)) = e + 1
    BY <1>3
  <1>7. b = Append(a, v)
    BY <1>4, <1>5, <1>6, SeqEqual
  <1> QED
    BY <1>a, <1>b, <1>2, <1>7 DEF RingAppends

\* The new thing comes first.
LEMMA RingPrepend ==
    ASSUME NEW n \in Nat \ {0}, NEW V, NEW pool \in [0 .. n - 1 -> V], NEW out \in 0 .. n - 1,
           NEW e \in 0 .. n - 1, NEW v \in V, NEW o, NEW new, PutsFirst(new, o, pool, out, n, v)
    PROVE  RingPrepends(new, o, pool, out, e, n, v, V)
  <1>0. e + 1 \in 1 .. n /\ e \in 0 .. n /\ e + 1 \in 0 .. n /\ out + (e + 1) - 1 = out + e
    OBVIOUS
  <1>1. o \in 0 .. n - 1 /\ o = (IF out > 0 THEN out - 1 ELSE n - 1)
    BY DEF PutsFirst
  <1>2. new \in [0 .. n - 1 -> V] /\ new[o] = v /\ \A j \in 0 .. n - 1 : j # o => new[j] = pool[j]
    BY <1>1 DEF PutsFirst
  <1>a. PICK a : a = Ring(pool, out, e, n)
    OBVIOUS
  <1>b. PICK b : b = Ring(new, o, e + 1, n)
    OBVIOUS
  <1>ra. RingOf(a, V, pool, out, e, n)
    BY <1>a, <1>0, RingIs
  <1>3. a \in Seq(V) /\ Len(a) = e /\ \A i \in 1 .. e : a[i] = pool[Slot(out, i, n)]
    BY <1>ra DEF RingOf
  <1>rb. RingOf(b, V, new, o, e + 1, n)
    BY <1>b, <1>0, <1>1, <1>2, RingIs
  <1>4. b \in Seq(V) /\ Len(b) = e + 1 /\ \A i \in 1 .. e + 1 : b[i] = new[Slot(o, i, n)]
    BY <1>rb DEF RingOf
  <1>5. ASSUME NEW i \in 1 .. e + 1 PROVE b[i] = (<<v>> \o a)[i]
    <2>1. i \in 1 .. n
      OBVIOUS
    <2>2. PICK j : j = Slot(o, i, n)
      OBVIOUS
    <2>3. j \in 0 .. n - 1 /\ j = IF o + i - 1 < n THEN o + i - 1 ELSE o + i - 1 - n
      BY <1>1, <2>1, <2>2, RingSlot
    <2>4. b[i] = new[j]
      BY <1>4, <2>2
    <2>5. CASE i = 1
      <3>1. j = o
        BY <1>1, <2>3, <2>5
      <3> QED
        BY <1>2, <1>3, <2>4, <2>5, <3>1
    <2>6. CASE i # 1
      <3>1. i - 1 \in 1 .. e /\ i - 1 \in 1 .. n
        BY <2>6
      <3>2. PICK m : m = Slot(out, i - 1, n)
        OBVIOUS
      <3>3. m = IF out + (i - 1) - 1 < n THEN out + (i - 1) - 1 ELSE out + (i - 1) - 1 - n
        BY <3>1, <3>2, RingSlot
      <3>4. j = m /\ j # o
        BY <1>1, <2>3, <3>1, <3>3
      <3>5. a[i - 1] = pool[m]
        BY <1>3, <3>1, <3>2
      <3>6. b[i] = a[i - 1]
        BY <1>2, <2>3, <2>4, <3>4, <3>5
      <3> QED
        BY <1>3, <2>6, <3>1, <3>6
    <2> QED
      BY <2>5, <2>6
  <1>6. <<v>> \o a \in Seq(V) /\ Len(<<v>> \o a) = e + 1
    BY <1>3
  <1>7. b = <<v>> \o a
    BY <1>4, <1>5, <1>6, SeqEqual
  <1>8. EndOf(o, e + 1, n) = EndOf(out, e, n)
    BY <1>1 DEF EndOf
  <1> QED
    BY <1>a, <1>b, <1>1, <1>2, <1>7, <1>8 DEF RingPrepends

\* The first thing is taken out.
LEMMA RingTail ==
    ASSUME NEW n \in Nat \ {0}, NEW V, NEW pool \in [0 .. n - 1 -> V], NEW out \in 0 .. n - 1,
           NEW e \in 1 .. n, NEW o, o = Follows(out, n)
    PROVE  RingTakes(pool, o, out, e, n)
  <1>0. /\ e - 1 \in 0 .. n /\ e \in 0 .. n /\ o \in 0 .. n - 1
        /\ o = IF out + 1 >= n THEN 0 ELSE out + 1
    BY DEF Follows
  <1>a. PICK a : a = Ring(pool, out, e, n)
    OBVIOUS
  <1>b. PICK b : b = Ring(pool, o, e - 1, n)
    OBVIOUS
  <1>ra. RingOf(a, V, pool, out, e, n)
    BY <1>a, <1>0, RingIs
  <1>1. a \in Seq(V) /\ Len(a) = e /\ \A i \in 1 .. e : a[i] = pool[Slot(out, i, n)]
    BY <1>ra DEF RingOf
  <1>rb. RingOf(b, V, pool, o, e - 1, n)
    BY <1>b, <1>0, RingIs
  <1>2. b \in Seq(V) /\ Len(b) = e - 1 /\ \A i \in 1 .. e - 1 : b[i] = pool[Slot(o, i, n)]
    BY <1>rb DEF RingOf
  <1>3. a # << >> /\ Tail(a) \in Seq(V) /\ Len(Tail(a)) = e - 1
        /\ \A i \in 1 .. e - 1 : Tail(a)[i] = a[i + 1]
    BY <1>1
  <1>4. ASSUME NEW i \in 1 .. e - 1 PROVE b[i] = Tail(a)[i]
    <2>1. i \in 1 .. n /\ i + 1 \in 1 .. n /\ i + 1 \in 1 .. e
      OBVIOUS
    <2>2. /\ Slot(o, i, n) = IF o + i - 1 < n THEN o + i - 1 ELSE o + i - 1 - n
          /\ Slot(out, i + 1, n) = IF out + (i + 1) - 1 < n THEN out + (i + 1) - 1
                                   ELSE out + (i + 1) - 1 - n
      BY <1>0, <2>1, RingSlot
    <2>3. Slot(o, i, n) = Slot(out, i + 1, n)
      BY <1>0, <2>1, <2>2
    <2>4. b[i] = pool[Slot(o, i, n)] /\ a[i + 1] = pool[Slot(out, i + 1, n)]
      BY <1>1, <1>2, <2>1
    <2> QED
      BY <1>3, <2>3, <2>4
  <1>5. b = Tail(a)
    BY <1>2, <1>3, <1>4, SeqEqual
  <1>6. EndOf(o, e - 1, n) = EndOf(out, e, n)
    BY <1>0 DEF EndOf
  <1> QED
    BY <1>a, <1>b, <1>0, <1>3, <1>5, <1>6 DEF RingTakes

\* The slot in moves on.
LEMMA NextSlot ==
    ASSUME NEW n \in Nat \ {0}, NEW out \in 0 .. n - 1, NEW e \in 0 .. n - 1
    PROVE  /\ EndOf(out, e, n) \in 0 .. n - 1 /\ EndOf(out, e, n) = Slot(out, e + 1, n)
           /\ EndOf(out, e + 1, n) \in 0 .. n - 1
           /\ EndOf(out, e + 1, n) = Follows(EndOf(out, e, n), n)
  <1>1. e + 1 \in 1 .. n
    OBVIOUS
  <1>2. Slot(out, e + 1, n) = IF out + (e + 1) - 1 < n THEN out + (e + 1) - 1 ELSE out + (e + 1) - 1 - n
    BY <1>1, RingSlot
  <1> QED
    BY <1>2 DEF EndOf, Follows

-----------------------------------------------------------------------------
(* Mailboxes *)

MbInv ==
    /\ mb_entry \in 0 .. MbSize /\ mb_in \in MbSlots /\ mb_out \in MbSlots
    /\ mb_pool \in [MbSlots -> Threads \cup {None}]
    /\ mb_in = EndOf(mb_out, mb_entry, MbSize)
    /\ object = "mailbox" => MbNoneForgotten

\* The letters as a ring.
LEMMA MbContentsIs ==
    /\ MbContents = Ring(mb_pool, mb_out, mb_entry, MbSize)
    /\ MbContents' = Ring(mb_pool', mb_out', mb_entry', MbSize)
  BY DEF MbContents, Ring, Slot

\* What the sections of a mailbox must keep.
MbStep == IpcInv' /\ MbInv' /\ [MbQueue!Next]_MbContents

\* The state of a mailbox.
LEMMA MbFacts ==
    ASSUME IpcInv, MbInv, object = "mailbox"
    PROVE  /\ MbSize \in Nat \ {0} /\ mb_entry \in 0 .. MbSize /\ mb_in \in MbSlots /\ mb_out \in MbSlots
           /\ mb_pool \in [MbSlots -> Threads \cup {None}] /\ MbSlots = 0 .. MbSize - 1
           /\ mb_in = EndOf(mb_out, mb_entry, MbSize)
           /\ waiting[Receivers] # << >> => mb_entry <= Count("mb_recv")
           /\ waiting[Senders] # << >> => MbSize - mb_entry <= Count("mb_send")
           /\ Receivers \in Lists /\ Senders \in Lists /\ Receivers # Senders
  BY MbAssumption DEF MbInv, MbNoneForgotten, MbSlots, Count, Lists, Receivers, Senders

\* One turn of the loop of rt_mb_send_wait.
LEMMA MbSends ==
    ASSUME IpcInv, MbInv, object = "mailbox", object' = object, NEW t \in Threads,
           th[t].stat = "READY", t \notin WokenIn("mb_recv"), NEW T, T \in Nat \/ T = Forever,
           NEW b \in Nat, T # Forever => T <= b, mb_send(t, T, b)
    PROVE  MbStep
  <1>0. /\ MbSize \in Nat \ {0} /\ mb_entry \in 0 .. MbSize /\ mb_in \in MbSlots /\ mb_out \in MbSlots
        /\ mb_pool \in [MbSlots -> Threads \cup {None}] /\ MbSlots = 0 .. MbSize - 1
        /\ mb_in = EndOf(mb_out, mb_entry, MbSize)
        /\ waiting[Receivers] # << >> => mb_entry <= Count("mb_recv")
        /\ waiting[Senders] # << >> => MbSize - mb_entry <= Count("mb_send")
        /\ Receivers \in Lists /\ Senders \in Lists /\ Receivers # Senders
    BY MbFacts
  <1>n. /\ Count("mb_recv") \in Nat /\ Count("mb_send") \in Nat
        /\ CountBut(t, "mb_recv") = Count("mb_recv")
        /\ CountBut(t, "mb_send") \in Nat /\ Count("mb_send") <= CountBut(t, "mb_send") + 1
    BY CountFacts
  <1>s. /\ "mb_send" \in SendCalls /\ "mb_send" \in StagesOf(object)
        /\ Call(object, Receivers) = "mb_recv"
    BY DEF SendCalls, StagesOf, Call, Receivers, Senders
  <1>1. CASE /\ mb_entry < MbSize
             /\ mb_pool' = [mb_pool EXCEPT ![mb_in] = t]
             /\ mb_in' = slot_after(mb_in) /\ mb_entry' = mb_entry + 1
             /\ first_resumed(Returned(t), Receivers)
             /\ mb_out' = mb_out
    <2>1. Base(Returned(t), t)
      BY DEF Base
    <2>2. /\ IpcInv' /\ waiting'[Senders] = waiting[Senders]
          /\ waiting[Receivers] = << >> => waiting' = waiting
          /\ Count("mb_recv")' = IF waiting[Receivers] # << >> THEN Count("mb_recv") + 1 ELSE Count("mb_recv")
          /\ Count("mb_send")' = CountBut(t, "mb_send")
      <3>1. /\ IpcInv'
            /\ \A k \in Lists : k # Receivers => waiting'[k] = waiting[k]
            /\ waiting[Receivers] = << >> => waiting' = waiting
            /\ \A pc : pc # "user" =>
                  Count(pc)' = IF waiting[Receivers] # << >> /\ pc = Call(object, Receivers)
                               THEN CountBut(t, pc) + 1 ELSE CountBut(t, pc)
        BY <1>0, <1>1, <2>1, HandsCount
      <3> QED
        BY <1>0, <1>n, <1>s, <3>1
    <2>3. mb_entry \in 0 .. MbSize - 1
      BY <1>0, <1>1
    <2>4. /\ mb_in = Slot(mb_out, mb_entry + 1, MbSize)
          /\ mb_in' = EndOf(mb_out, mb_entry + 1, MbSize) /\ mb_in' \in MbSlots
      <3>1. mb_in' = Follows(mb_in, MbSize)
        BY <1>1 DEF slot_after, Follows
      <3> QED
        BY <1>0, <2>3, <3>1, NextSlot
    <2>6. /\ mb_pool' \in [MbSlots -> Threads \cup {None}]
          /\ Ring(mb_pool', mb_out, mb_entry + 1, MbSize) = Append(Ring(mb_pool, mb_out, mb_entry, MbSize), t)
      <3>1. PutsLast(mb_pool', mb_pool, mb_out, mb_entry, MbSize, t)
        BY <1>1, <2>4 DEF PutsLast
      <3>2. PICK V : V = Threads \cup {None}
        OBVIOUS
      <3>3. /\ MbSize \in Nat \ {0} /\ mb_pool \in [0 .. MbSize - 1 -> V] /\ t \in V
            /\ mb_out \in 0 .. MbSize - 1
        BY <1>0, <3>2
      <3>4. /\ mb_pool' \in [0 .. MbSize - 1 -> V]
            /\ Ring(mb_pool', mb_out, mb_entry + 1, MbSize)
                 = Append(Ring(mb_pool, mb_out, mb_entry, MbSize), t)
        <4>1. RingAppends(mb_pool', mb_pool, mb_out, mb_entry, MbSize, t, V)
          BY <2>3, <3>1, <3>3, RingAppend
        <4> QED
          BY <4>1 DEF RingAppends
      <3> QED
        BY <1>0, <3>2, <3>4
    <2>7. MbContents' = Append(MbContents, t) /\ Len(MbContents) < MbSize
      <3>1. MbContents' = Append(MbContents, t)
        BY <1>1, <2>6, MbContentsIs
      <3>2. RingOf(MbContents, Threads \cup {None}, mb_pool, mb_out, mb_entry, MbSize)
        BY <1>0, RingIs, MbContentsIs
      <3> QED
        BY <1>1, <3>1, <3>2 DEF RingOf
    <2>8. MbNoneForgotten'
      <3>1. waiting'[Receivers] # << >> => mb_entry' <= Count("mb_recv")'
        BY <1>0, <1>1, <1>n, <2>2
      <3>2. waiting'[Senders] # << >> => MbSize - mb_entry' <= Count("mb_send")'
        BY <1>0, <1>1, <1>n, <2>2
      <3> QED
        BY <3>1, <3>2 DEF MbNoneForgotten, Count
    <2>9. MbInv'
      BY <1>0, <1>1, <2>3, <2>4, <2>6, <2>8 DEF MbInv
    <2> QED
      BY <2>2, <2>7, <2>9 DEF MbStep, MbQueue!Next, MbQueue!Send
  <1>2. CASE /\ mb_entry = MbSize /\ T # 0
             /\ suspend(t, Senders, "mb_send", T, b)
             /\ UNCHANGED mbVars
    <2>1. /\ IpcInv' /\ waiting'[Receivers] = waiting[Receivers]
          /\ Count("mb_recv")' = Count("mb_recv")
      <3>1. /\ IpcInv'
            /\ \A k \in Lists : k # Senders => waiting'[k] = waiting[k]
            /\ \A pc : Count(pc)' = CountBut(t, pc)
        BY <1>0, <1>2, <1>s, SuspendsCount
      <3> QED
        BY <1>0, <1>n, <3>1
    <2>2. mb_pool' = mb_pool /\ mb_in' = mb_in /\ mb_out' = mb_out /\ mb_entry' = mb_entry
      BY <1>2 DEF mbVars
    <2>3. MbContents' = MbContents
      BY <2>2, MbContentsIs
    <2>4. MbNoneForgotten'
      <3>1. Count("mb_send")' \in Nat
        <4>1. Count("mb_send")' = CountBut(t, "mb_send")
          BY <1>0, <1>2, <1>s, SuspendsCount
        <4> QED
          BY <1>n, <4>1
      <3> QED
        BY <1>0, <1>2, <2>1, <2>2, <3>1 DEF MbNoneForgotten, Count
    <2>5. MbInv'
      BY <1>0, <2>2, <2>4 DEF MbInv
    <2> QED
      BY <2>1, <2>3, <2>5 DEF MbStep
  <1>3. CASE /\ mb_entry = MbSize /\ T = 0
             /\ th' = Returned(t)
             /\ UNCHANGED <<flag, waiting, mbVars>>
    <2>1. IpcInv' /\ Count("mb_recv")' = Count("mb_recv") /\ Count("mb_send")' = CountBut(t, "mb_send")
      <3>1. IpcInv' /\ \A pc : pc # "user" => Count(pc)' = CountBut(t, pc)
        BY <1>3, ReturnsCount
      <3> QED
        BY <1>n, <3>1
    <2>2. /\ mb_pool' = mb_pool /\ mb_in' = mb_in /\ mb_out' = mb_out /\ mb_entry' = mb_entry
          /\ waiting' = waiting
      BY <1>3 DEF mbVars
    <2>3. MbContents' = MbContents
      BY <2>2, MbContentsIs
    <2>4. MbNoneForgotten'
      BY <1>0, <1>3, <1>n, <2>1, <2>2 DEF MbNoneForgotten, Count
    <2>5. MbInv'
      BY <1>0, <2>2, <2>4 DEF MbInv
    <2> QED
      BY <2>1, <2>3, <2>5 DEF MbStep
  <1> QED
    BY <1>1, <1>2, <1>3 DEF mb_send

\* rt_mb_urgent.
LEMMA MbUrgent ==
    ASSUME IpcInv, MbInv, object = "mailbox", object' = object, NEW t \in Threads, rt_mb_urgent(t)
    PROVE  MbStep
  <1>0. /\ MbSize \in Nat \ {0} /\ mb_entry \in 0 .. MbSize /\ mb_in \in MbSlots /\ mb_out \in MbSlots
        /\ mb_pool \in [MbSlots -> Threads \cup {None}] /\ MbSlots = 0 .. MbSize - 1
        /\ mb_in = EndOf(mb_out, mb_entry, MbSize)
        /\ waiting[Receivers] # << >> => mb_entry <= Count("mb_recv")
        /\ waiting[Senders] # << >> => MbSize - mb_entry <= Count("mb_send")
        /\ Receivers \in Lists /\ Senders \in Lists /\ Receivers # Senders
    BY MbFacts
  <1>1. /\ mb_entry < MbSize /\ mb_out' = slot_before(mb_out)
        /\ mb_pool' = [mb_pool EXCEPT ![mb_out'] = t] /\ mb_entry' = mb_entry + 1
        /\ first_resumed(Returned(t), Receivers) /\ mb_in' = mb_in /\ Calls(t)
    BY DEF rt_mb_urgent
  <1>r. th[t].stat = "READY" /\ t \notin WokenIn("mb_recv") /\ t \notin WokenIn("mb_send")
    BY <1>1, CallerReady
  <1>n. /\ Count("mb_recv") \in Nat /\ Count("mb_send") \in Nat
        /\ CountBut(t, "mb_recv") = Count("mb_recv") /\ CountBut(t, "mb_send") = Count("mb_send")
    BY <1>r, CountFacts
  <1>s. Call(object, Receivers) = "mb_recv"
    BY DEF Call, Receivers, Senders
  <1>2. /\ IpcInv' /\ waiting'[Senders] = waiting[Senders]
        /\ waiting[Receivers] = << >> => waiting' = waiting
        /\ Count("mb_recv")' = IF waiting[Receivers] # << >> THEN Count("mb_recv") + 1 ELSE Count("mb_recv")
        /\ Count("mb_send")' = Count("mb_send")
    <2>1. Base(Returned(t), t)
      BY <1>r DEF Base
    <2>2. /\ IpcInv'
          /\ \A k \in Lists : k # Receivers => waiting'[k] = waiting[k]
          /\ waiting[Receivers] = << >> => waiting' = waiting
          /\ \A pc : pc # "user" =>
                Count(pc)' = IF waiting[Receivers] # << >> /\ pc = Call(object, Receivers)
                             THEN CountBut(t, pc) + 1 ELSE CountBut(t, pc)
      BY <1>0, <1>1, <2>1, HandsCount
    <2> QED
      BY <1>0, <1>n, <1>s, <2>2
  <1>3. mb_entry \in 0 .. MbSize - 1
    BY <1>0, <1>1
  <1>4. /\ mb_out' \in MbSlots /\ mb_pool' \in [MbSlots -> Threads \cup {None}]
        /\ Ring(mb_pool', mb_out', mb_entry + 1, MbSize) = <<t>> \o Ring(mb_pool, mb_out, mb_entry, MbSize)
        /\ mb_in' = EndOf(mb_out', mb_entry + 1, MbSize)
    <2>1. PutsFirst(mb_pool', mb_out', mb_pool, mb_out, MbSize, t)
      BY <1>1 DEF PutsFirst, slot_before
    <2>2. PICK V : V = Threads \cup {None}
      OBVIOUS
    <2>3. /\ MbSize \in Nat \ {0} /\ mb_pool \in [0 .. MbSize - 1 -> V] /\ t \in V
          /\ mb_out \in 0 .. MbSize - 1
      BY <1>0, <2>2
    <2>4. RingPrepends(mb_pool', mb_out', mb_pool, mb_out, mb_entry, MbSize, t, V)
      BY <1>3, <2>1, <2>3, RingPrepend
    <2> QED
      BY <1>0, <1>1, <2>2, <2>4 DEF RingPrepends
  <1>5. MbContents' = <<t>> \o MbContents /\ Len(MbContents) < MbSize
    <2>1. MbContents' = <<t>> \o MbContents
      BY <1>1, <1>4, MbContentsIs
    <2>2. RingOf(MbContents, Threads \cup {None}, mb_pool, mb_out, mb_entry, MbSize)
      BY <1>0, RingIs, MbContentsIs
    <2> QED
      BY <1>1, <2>1, <2>2 DEF RingOf
  <1>6. MbNoneForgotten'
    <2>1. waiting'[Receivers] # << >> => mb_entry' <= Count("mb_recv")'
      BY <1>0, <1>1, <1>n, <1>2
    <2>2. waiting'[Senders] # << >> => MbSize - mb_entry' <= Count("mb_send")'
      BY <1>0, <1>1, <1>n, <1>2
    <2> QED
      BY <2>1, <2>2 DEF MbNoneForgotten, Count
  <1>7. MbInv'
    BY <1>0, <1>1, <1>3, <1>4, <1>6 DEF MbInv
  <1> QED
    BY <1>2, <1>5, <1>7 DEF MbStep, MbQueue!Next, MbQueue!Urgent

\* One turn of the loop of rt_mb_recv.
LEMMA MbReceives ==
    ASSUME IpcInv, MbInv, object = "mailbox", object' = object, NEW t \in Threads,
           th[t].stat = "READY", t \notin WokenIn("mb_send"), NEW T, T \in Nat \/ T = Forever,
           NEW b \in Nat, T # Forever => T <= b, mb_recv(t, T, b)
    PROVE  MbStep
  <1>0. /\ MbSize \in Nat \ {0} /\ mb_entry \in 0 .. MbSize /\ mb_in \in MbSlots /\ mb_out \in MbSlots
        /\ mb_pool \in [MbSlots -> Threads \cup {None}] /\ MbSlots = 0 .. MbSize - 1
        /\ mb_in = EndOf(mb_out, mb_entry, MbSize)
        /\ waiting[Receivers] # << >> => mb_entry <= Count("mb_recv")
        /\ waiting[Senders] # << >> => MbSize - mb_entry <= Count("mb_send")
        /\ Receivers \in Lists /\ Senders \in Lists /\ Receivers # Senders
    BY MbFacts
  <1>n. /\ Count("mb_recv") \in Nat /\ Count("mb_send") \in Nat
        /\ CountBut(t, "mb_send") = Count("mb_send")
        /\ CountBut(t, "mb_recv") \in Nat /\ Count("mb_recv") <= CountBut(t, "mb_recv") + 1
    BY CountFacts
  <1>s. /\ "mb_recv" \in RecvCalls /\ "mb_recv" \notin SendCalls /\ "mb_recv" \in StagesOf(object)
        /\ Call(object, Senders) = "mb_send"
    BY DEF SendCalls, RecvCalls, StagesOf, Call, Receivers, Senders
  <1>1. CASE /\ mb_entry > 0
             /\ mb_out' = slot_after(mb_out) /\ mb_entry' = mb_entry - 1
             /\ first_resumed(Returned(t), Senders)
             /\ mb_pool' = mb_pool /\ mb_in' = mb_in
    <2>1. Base(Returned(t), t)
      BY DEF Base
    <2>2. /\ IpcInv' /\ waiting'[Receivers] = waiting[Receivers]
          /\ waiting[Senders] = << >> => waiting' = waiting
          /\ Count("mb_send")' = IF waiting[Senders] # << >> THEN Count("mb_send") + 1 ELSE Count("mb_send")
          /\ Count("mb_recv")' = CountBut(t, "mb_recv")
      <3>1. /\ IpcInv'
            /\ \A k \in Lists : k # Senders => waiting'[k] = waiting[k]
            /\ waiting[Senders] = << >> => waiting' = waiting
            /\ \A pc : pc # "user" =>
                  Count(pc)' = IF waiting[Senders] # << >> /\ pc = Call(object, Senders)
                               THEN CountBut(t, pc) + 1 ELSE CountBut(t, pc)
        BY <1>0, <1>1, <2>1, HandsCount
      <3> QED
        BY <1>0, <1>n, <1>s, <3>1
    <2>3. mb_entry \in 1 .. MbSize
      BY <1>0, <1>1
    <2>4. /\ mb_out' \in MbSlots /\ mb_in' = EndOf(mb_out', mb_entry - 1, MbSize)
          /\ Ring(mb_pool, mb_out', mb_entry - 1, MbSize) = Tail(Ring(mb_pool, mb_out, mb_entry, MbSize))
          /\ Ring(mb_pool, mb_out, mb_entry, MbSize) # << >>
      <3>1. mb_out' = Follows(mb_out, MbSize)
        BY <1>1 DEF slot_after, Follows
      <3>2. PICK V : V = Threads \cup {None}
        OBVIOUS
      <3>3. /\ MbSize \in Nat \ {0} /\ mb_pool \in [0 .. MbSize - 1 -> V]
            /\ mb_out \in 0 .. MbSize - 1
        BY <1>0, <3>2
      <3>4. RingTakes(mb_pool, mb_out', mb_out, mb_entry, MbSize)
        BY <2>3, <3>1, <3>3, RingTail
      <3> QED
        BY <1>0, <1>1, <3>4 DEF RingTakes
    <2>5. MbContents' = Tail(MbContents) /\ MbContents # << >>
      BY <1>1, <2>4, MbContentsIs
    <2>6. MbNoneForgotten'
      <3>1. waiting'[Receivers] # << >> => mb_entry' <= Count("mb_recv")'
        BY <1>0, <1>1, <1>n, <2>2
      <3>2. waiting'[Senders] # << >> => MbSize - mb_entry' <= Count("mb_send")'
        BY <1>0, <1>1, <1>n, <2>2
      <3> QED
        BY <3>1, <3>2 DEF MbNoneForgotten, Count
    <2>7. MbInv'
      BY <1>0, <1>1, <2>3, <2>4, <2>6 DEF MbInv
    <2> QED
      BY <2>2, <2>5, <2>7 DEF MbStep, MbQueue!Next, MbQueue!Receive
  <1>2. CASE /\ mb_entry = 0 /\ T # 0
             /\ suspend(t, Receivers, "mb_recv", T, b)
             /\ UNCHANGED mbVars
    <2>1. /\ IpcInv' /\ waiting'[Senders] = waiting[Senders]
          /\ Count("mb_send")' = Count("mb_send") /\ Count("mb_recv")' \in Nat
      <3>1. /\ IpcInv'
            /\ \A k \in Lists : k # Receivers => waiting'[k] = waiting[k]
            /\ \A pc : Count(pc)' = CountBut(t, pc)
        BY <1>0, <1>2, <1>s, SuspendsCount
      <3> QED
        BY <1>0, <1>n, <3>1
    <2>2. mb_pool' = mb_pool /\ mb_in' = mb_in /\ mb_out' = mb_out /\ mb_entry' = mb_entry
      BY <1>2 DEF mbVars
    <2>3. MbContents' = MbContents
      BY <2>2, MbContentsIs
    <2>4. MbNoneForgotten'
      BY <1>0, <1>2, <2>1, <2>2 DEF MbNoneForgotten, Count
    <2>5. MbInv'
      BY <1>0, <2>2, <2>4 DEF MbInv
    <2> QED
      BY <2>1, <2>3, <2>5 DEF MbStep
  <1>3. CASE /\ mb_entry = 0 /\ T = 0
             /\ th' = Returned(t)
             /\ UNCHANGED <<flag, waiting, mbVars>>
    <2>1. IpcInv' /\ Count("mb_send")' = Count("mb_send") /\ Count("mb_recv")' = CountBut(t, "mb_recv")
      <3>1. IpcInv' /\ \A pc : pc # "user" => Count(pc)' = CountBut(t, pc)
        BY <1>3, ReturnsCount
      <3> QED
        BY <1>n, <3>1
    <2>2. /\ mb_pool' = mb_pool /\ mb_in' = mb_in /\ mb_out' = mb_out /\ mb_entry' = mb_entry
          /\ waiting' = waiting
      BY <1>3 DEF mbVars
    <2>3. MbContents' = MbContents
      BY <2>2, MbContentsIs
    <2>4. MbNoneForgotten'
      BY <1>0, <1>3, <1>n, <2>1, <2>2 DEF MbNoneForgotten, Count
    <2>5. MbInv'
      BY <1>0, <2>2, <2>4 DEF MbInv
    <2> QED
      BY <2>1, <2>3, <2>5 DEF MbStep
  <1> QED
    BY <1>1, <1>2, <1>3 DEF mb_recv

\* The calls of a mailbox.
LEMMA MbKeeps ==
    ASSUME IpcInv, MbInv, object = "mailbox", object' = object, MbNext
    PROVE  MbStep
  <1>0. /\ MbSize \in Nat \ {0} /\ mb_entry \in 0 .. MbSize /\ mb_in \in MbSlots /\ mb_out \in MbSlots
        /\ mb_pool \in [MbSlots -> Threads \cup {None}] /\ MbSlots = 0 .. MbSize - 1
        /\ mb_in = EndOf(mb_out, mb_entry, MbSize)
        /\ waiting[Receivers] # << >> => mb_entry <= Count("mb_recv")
        /\ waiting[Senders] # << >> => MbSize - mb_entry <= Count("mb_send")
        /\ Receivers \in Lists /\ Senders \in Lists /\ Receivers # Senders
    BY MbFacts
  <1>1. ASSUME NEW t \in Threads, NEW T \in Timeouts, rt_mb_send_wait(t, T) PROVE MbStep
    <2>1. Calls(t) /\ mb_send(t, T, Asked(T))
      BY <1>1 DEF rt_mb_send_wait
    <2>2. th[t].stat = "READY" /\ t \notin WokenIn("mb_recv")
      BY <2>1, CallerReady
    <2> QED
      BY <2>1, <2>2, AskedOK, MbSends
  <1>2. ASSUME NEW t \in Threads, NEW T \in Timeouts, rt_mb_recv(t, T) PROVE MbStep
    <2>1. Calls(t) /\ mb_recv(t, T, Asked(T))
      BY <1>2 DEF rt_mb_recv
    <2>2. th[t].stat = "READY" /\ t \notin WokenIn("mb_send")
      BY <2>1, CallerReady
    <2> QED
      BY <2>1, <2>2, AskedOK, MbReceives
  <1>3. ASSUME NEW t \in Threads, mb_send_again(t) PROVE MbStep
    <2>1. Resumed(t, "mb_send") /\ mb_send(t, Remaining(t), th[t].budget)
      BY <1>3 DEF mb_send_again
    <2>2. th[t].stat = "READY" /\ t \notin WokenIn("mb_recv")
      BY <2>1 DEF Resumed, WokenIn
    <2>3. ThreadOK(th[t], object) /\ th[t].budget \in Nat
      BY RecordFields DEF IpcInv, ThreadOK
    <2>4. /\ Remaining(t) \in Nat \/ Remaining(t) = Forever
          /\ Remaining(t) # Forever => Remaining(t) <= th[t].budget
      BY <2>3, RemainingOK
    <2> QED
      BY <2>1, <2>2, <2>3, <2>4, MbSends
  <1>4. ASSUME NEW t \in Threads, mb_recv_again(t) PROVE MbStep
    <2>1. Resumed(t, "mb_recv") /\ mb_recv(t, Remaining(t), th[t].budget)
      BY <1>4 DEF mb_recv_again
    <2>2. th[t].stat = "READY" /\ t \notin WokenIn("mb_send")
      BY <2>1 DEF Resumed, WokenIn
    <2>3. ThreadOK(th[t], object) /\ th[t].budget \in Nat
      BY RecordFields DEF IpcInv, ThreadOK
    <2>4. /\ Remaining(t) \in Nat \/ Remaining(t) = Forever
          /\ Remaining(t) # Forever => Remaining(t) <= th[t].budget
      BY <2>3, RemainingOK
    <2> QED
      BY <2>1, <2>2, <2>3, <2>4, MbReceives
  <1>5. ASSUME NEW t \in Threads, rt_mb_urgent(t) PROVE MbStep
    BY <1>5, MbUrgent
  <1>6. CASE rt_mb_reset
    <2>1. resume_all /\ mb_entry' = 0 /\ mb_in' = 0 /\ mb_out' = 0 /\ mb_pool' = mb_pool
      BY <1>6 DEF rt_mb_reset
    <2>2. IpcInv' /\ \A k \in Lists : waiting'[k] = << >>
      BY <2>1, OthersCount
    <2>3. MbContents' = << >>
      BY <2>1 DEF MbContents
    <2>4. MbInv'
      BY <1>0, <2>1, <2>2 DEF MbInv, MbNoneForgotten, EndOf
    <2> QED
      BY <2>2, <2>3, <2>4 DEF MbStep, MbQueue!Next, MbQueue!Reset
  <1>7. CASE IpcStep /\ UNCHANGED mbVars
    <2>1. mb_pool' = mb_pool /\ mb_in' = mb_in /\ mb_out' = mb_out /\ mb_entry' = mb_entry
      BY <1>7 DEF mbVars
    <2>2. /\ IpcInv' /\ Count("mb_recv")' = Count("mb_recv") /\ Count("mb_send")' = Count("mb_send")
          /\ waiting[Receivers] = << >> => waiting'[Receivers] = << >>
          /\ waiting[Senders] = << >> => waiting'[Senders] = << >>
      BY <1>0, <1>7, OthersCount
    <2>3. MbContents' = MbContents
      BY <2>1, MbContentsIs
    <2>4. MbNoneForgotten'
      BY <1>0, <2>1, <2>2 DEF MbNoneForgotten, Count
    <2>5. MbInv'
      BY <1>0, <2>1, <2>4 DEF MbInv
    <2> QED
      BY <2>2, <2>3, <2>5 DEF MbStep
  <1> QED
    BY <1>1, <1>2, <1>3, <1>4, <1>5, <1>6, <1>7 DEF MbNext

-----------------------------------------------------------------------------
(* Data queues *)

\* The flags tell a full ring from an empty one.
DqShape(empty, full, put, get) ==
    /\ put \in 0 .. DqSize - 1 /\ get \in 0 .. DqSize - 1
    /\ empty \in BOOLEAN /\ full \in BOOLEAN
    /\ empty => put = get
    /\ full => put = get /\ ~empty
    /\ put = get => empty \/ full

\* The length of the ring.
LEMMA DqLenFacts ==
    ASSUME NEW empty, NEW full, NEW put, NEW get, DqShape(empty, full, put, get)
    PROVE  /\ dq_len(empty, put, get) \in 0 .. DqSize
           /\ dq_len(empty, put, get) = 0 <=> empty
           /\ dq_len(empty, put, get) = DqSize <=> full
           /\ put = EndOf(get, dq_len(empty, put, get), DqSize)
  <1>0. DqSize \in Nat \ {0} /\ put \in 0 .. DqSize - 1 /\ get \in 0 .. DqSize - 1
    BY DqAssumption DEF DqShape
  <1>l. PICK L : L = dq_len(empty, put, get)
    OBVIOUS
  <1>1. CASE empty
    <2>1. L = 0 /\ put = get /\ ~full
      BY <1>l, <1>1 DEF dq_len, DqShape
    <2>2. L \in 0 .. DqSize /\ L # DqSize /\ put = EndOf(get, L, DqSize)
      BY <1>0, <2>1 DEF EndOf
    <2> QED
      BY <1>l, <1>1, <2>1, <2>2
  <1>2. CASE ~empty /\ put > get
    <2>1. L = put - get /\ ~full
      BY <1>l, <1>0, <1>2 DEF dq_len, DqShape
    <2>2. L \in 0 .. DqSize /\ L # DqSize /\ L # 0 /\ put = EndOf(get, L, DqSize)
      BY <1>0, <1>2, <2>1 DEF EndOf
    <2> QED
      BY <1>l, <1>2, <2>1, <2>2
  <1>3. CASE ~empty /\ ~(put > get)
    <2>1. L = DqSize + put - get
      BY <1>l, <1>3 DEF dq_len
    <2>2. full <=> put = get
      BY <1>3 DEF DqShape
    <2>3. L \in 0 .. DqSize /\ (L = DqSize <=> put = get) /\ L # 0 /\ put = EndOf(get, L, DqSize)
      BY <1>0, <1>3, <2>1 DEF EndOf
    <2> QED
      BY <1>l, <1>3, <2>2, <2>3
  <1> QED
    BY <1>1, <1>2, <1>3

\* A push and a pop.
Pushed(full, put, get, p, f) == ~full /\ p = index_after(put) /\ f = (p = get)

Popped(empty, put, get, g, e) == ~empty /\ g = index_after(get) /\ e = (put = g)

Longer(empty, put, get, p, f) ==
    /\ DqShape(FALSE, f, p, get) /\ p = Follows(put, DqSize)
    /\ dq_len(FALSE, p, get) = dq_len(empty, put, get) + 1

Shorter(empty, put, get, g, e) ==
    /\ DqShape(e, FALSE, put, g) /\ g = Follows(get, DqSize)
    /\ dq_len(e, put, g) = dq_len(empty, put, get) - 1

\* A push makes the ring longer.
LEMMA DqPushShape ==
    ASSUME NEW empty, NEW full, NEW put, NEW get, DqShape(empty, full, put, get),
           NEW p, NEW f, Pushed(full, put, get, p, f)
    PROVE  Longer(empty, put, get, p, f)
  <1>0. /\ DqSize \in Nat \ {0} /\ put \in 0 .. DqSize - 1 /\ get \in 0 .. DqSize - 1
        /\ p = IF put + 1 = DqSize THEN 0 ELSE put + 1
        /\ empty <=> put = get
    BY DqAssumption DEF DqShape, index_after, Pushed
  <1>1. p \in 0 .. DqSize - 1 /\ p = Follows(put, DqSize)
    BY <1>0 DEF Follows
  <1>2. f \in BOOLEAN /\ (f <=> p = get)
    BY DEF Pushed
  <1>3. DqShape(FALSE, f, p, get)
    BY <1>0, <1>1, <1>2 DEF DqShape
  <1>l. PICK L : L = dq_len(empty, put, get)
    OBVIOUS
  <1>m. PICK M : M = dq_len(FALSE, p, get)
    OBVIOUS
  <1>4. M = IF p > get THEN p - get ELSE DqSize + p - get
    BY <1>m DEF dq_len
  <1>5. CASE empty
    <2>1. L = 0 /\ put = get
      BY <1>l, <1>0, <1>5 DEF dq_len
    <2>2. M = L + 1
      BY <1>0, <1>4, <2>1
    <2> QED
      BY <1>l, <1>m, <1>1, <1>3, <2>2 DEF Longer
  <1>6. CASE ~empty
    <2>1. L = (IF put > get THEN put - get ELSE DqSize + put - get) /\ put # get
      BY <1>l, <1>0, <1>6 DEF dq_len
    <2>2. M = L + 1
      BY <1>0, <1>4, <2>1
    <2> QED
      BY <1>l, <1>m, <1>1, <1>3, <2>2 DEF Longer
  <1> QED
    BY <1>5, <1>6

\* A pop makes it shorter.
LEMMA DqPopShape ==
    ASSUME NEW empty, NEW full, NEW put, NEW get, DqShape(empty, full, put, get),
           NEW g, NEW e, Popped(empty, put, get, g, e)
    PROVE  Shorter(empty, put, get, g, e)
  <1>0. /\ DqSize \in Nat \ {0} /\ put \in 0 .. DqSize - 1 /\ get \in 0 .. DqSize - 1
        /\ g = IF get + 1 = DqSize THEN 0 ELSE get + 1
    BY DqAssumption DEF DqShape, index_after, Popped
  <1>1. g \in 0 .. DqSize - 1 /\ g = Follows(get, DqSize)
    BY <1>0 DEF Follows
  <1>2. e \in BOOLEAN /\ (e <=> put = g)
    BY DEF Popped
  <1>3. DqShape(e, FALSE, put, g)
    BY <1>0, <1>1, <1>2 DEF DqShape
  <1>l. PICK L : L = dq_len(empty, put, get)
    OBVIOUS
  <1>m. PICK M : M = dq_len(e, put, g)
    OBVIOUS
  <1>4. L = IF put > get THEN put - get ELSE DqSize + put - get
    BY <1>l DEF dq_len, Popped
  <1>5. CASE e
    <2>1. M = 0 /\ put = g
      BY <1>m, <1>2, <1>5 DEF dq_len
    <2>2. M = L - 1
      BY <1>0, <1>4, <2>1
    <2> QED
      BY <1>l, <1>m, <1>1, <1>3, <2>2 DEF Shorter
  <1>6. CASE ~e
    <2>1. M = (IF put > g THEN put - g ELSE DqSize + put - g) /\ put # g
      BY <1>m, <1>2, <1>6 DEF dq_len
    <2>2. M = L - 1
      BY <1>0, <1>4, <2>1
    <2> QED
      BY <1>l, <1>m, <1>1, <1>3, <2>2 DEF Shorter
  <1> QED
    BY <1>5, <1>6

DqInv ==
    /\ DqShape(dq_empty, dq_full, dq_put, dq_get)
    /\ dq_queue \in [0 .. DqSize - 1 -> Threads \cup {None}]
    /\ dq_resetting \in BOOLEAN
    /\ object = "dataqueue" =>
          /\ waiting[Receivers] # << >> => DqLen <= Count("dq_pop")
          /\ DqLwm < DqSize /\ waiting[Senders] # << >> =>
                dq_resetting \/ DqLen + Count("dq_push") > DqLwm

\* What the sections of a data queue must keep.
DqStep == IpcInv' /\ DqInv' /\ [DqQueue!Next]_DqContents

\* The data as a ring.
LEMMA DqContentsIs ==
    /\ DqContents = Ring(dq_queue, dq_get, DqLen, DqSize)
    /\ DqContents' = Ring(dq_queue', dq_get', DqLen', DqSize)
    /\ DqLen = dq_len(dq_empty, dq_put, dq_get)
    /\ DqLen' = dq_len(dq_empty', dq_put', dq_get')
  BY DEF DqContents, Ring, Slot, DqLen

\* The state of a data queue.
LEMMA DqFacts ==
    ASSUME IpcInv, DqInv, object = "dataqueue"
    PROVE  /\ DqSize \in Nat \ {0} /\ DqLwm \in Nat /\ DqLen \in 0 .. DqSize
           /\ DqShape(dq_empty, dq_full, dq_put, dq_get) /\ dq_resetting \in BOOLEAN
           /\ (DqLen = 0 <=> dq_empty) /\ (DqLen = DqSize <=> dq_full)
           /\ dq_put = EndOf(dq_get, DqLen, DqSize)
           /\ dq_put \in 0 .. DqSize - 1 /\ dq_get \in 0 .. DqSize - 1
           /\ dq_queue \in [0 .. DqSize - 1 -> Threads \cup {None}]
           /\ waiting[Receivers] # << >> => DqLen <= Count("dq_pop")
           /\ DqLwm < DqSize /\ waiting[Senders] # << >> =>
                 dq_resetting \/ DqLen + Count("dq_push") > DqLwm
           /\ Receivers \in Lists /\ Senders \in Lists /\ Receivers # Senders
  <1>1. DqShape(dq_empty, dq_full, dq_put, dq_get)
    BY DEF DqInv
  <1>2. /\ DqLen \in 0 .. DqSize /\ (DqLen = 0 <=> dq_empty) /\ (DqLen = DqSize <=> dq_full)
        /\ dq_put = EndOf(dq_get, DqLen, DqSize)
    BY <1>1, DqLenFacts DEF DqLen
  <1>3. dq_put \in 0 .. DqSize - 1 /\ dq_get \in 0 .. DqSize - 1
    BY <1>1 DEF DqShape
  <1> QED
    BY <1>1, <1>2, <1>3, DqAssumption DEF DqInv, Lists, Receivers, Senders

\* Nothing is put in or taken out.
LEMMA DqStays ==
    ASSUME DqInv, object = "dataqueue", object' = object, IpcInv', UNCHANGED dqVars,
           waiting'[Receivers] # << >> => DqLen <= Count("dq_pop")',
           DqLwm < DqSize /\ waiting'[Senders] # << >> =>
              dq_resetting \/ DqLen + Count("dq_push")' > DqLwm
    PROVE  DqStep
  <1>1. /\ dq_queue' = dq_queue /\ dq_put' = dq_put /\ dq_get' = dq_get /\ dq_empty' = dq_empty
        /\ dq_full' = dq_full /\ dq_resetting' = dq_resetting
    BY DEF dqVars, dqRing
  <1>2. DqLen' = DqLen
    BY <1>1 DEF DqLen
  <1>3. DqContents' = DqContents
    BY <1>1, <1>2, DqContentsIs
  <1>4. DqInv'
    BY <1>1, <1>2 DEF DqInv
  <1> QED
    BY <1>3, <1>4 DEF DqStep

\* The list and the call at one end, and at the other end.
Sides(l, c, o, other) ==
    \/ l = Senders /\ c = "dq_push" /\ o = Receivers /\ other = "dq_pop"
    \/ l = Receivers /\ c = "dq_pop" /\ o = Senders /\ other = "dq_push"

\* A call that would block.
LEMMA DqBlocks ==
    ASSUME IpcInv, DqInv, object = "dataqueue", object' = object, NEW t \in Threads,
           th[t].stat = "READY", NEW T, T \in Nat \/ T = Forever, NEW b \in Nat,
           NEW l, NEW c, NEW o, NEW other, Sides(l, c, o, other),
           t \notin WokenIn(other), dq_block(t, l, c, T, b)
    PROVE  /\ IpcInv' /\ UNCHANGED dqVars
           /\ waiting'[o] = waiting[o] /\ Count(other)' = Count(other)
           /\ Count(c)' \in Nat
           /\ waiting'[l] # << >> => waiting[l] # << >> \/ T # 0
           /\ waiting[l] # << >> => waiting'[l] # << >>
  <1>0. UNCHANGED dqVars
    BY DEF dq_block
  <1>s. /\ c \in SendCalls \cup RecvCalls /\ c \in StagesOf(object) /\ other # "user" /\ c # "user"
        /\ l = IF c \in SendCalls THEN Senders ELSE Receivers
        /\ l \in Lists /\ o \in Lists /\ o # l
    BY DEF SendCalls, RecvCalls, StagesOf, Sides, Lists, Senders, Receivers
  <1>n. CountBut(t, other) = Count(other) /\ CountBut(t, c) \in Nat
    BY CountFacts
  <1>1. CASE T # 0 /\ suspend(t, l, c, T, b)
    <2>1. /\ IpcInv' /\ waiting'[l] = enqueued(waiting[l], t)
          /\ \A k \in Lists : k # l => waiting'[k] = waiting[k]
          /\ \A pc : Count(pc)' = CountBut(t, pc)
      BY <1>s, <1>1, SuspendsCount
    <2>2. waiting'[l] # << >>
      <3>1. waiting[l] \in Seq(Threads)
        BY <1>s DEF IpcInv, Listed
      <3>2. InList(enqueued(waiting[l], t), t)
        BY <3>1, Enqueued
      <3> QED
        BY <2>1, <3>2, NothingListed
    <2> QED
      BY <1>0, <1>s, <1>n, <1>1, <2>1, <2>2
  <1>2. CASE T = 0 /\ th' = Returned(t) /\ UNCHANGED <<flag, waiting>>
    <2>1. IpcInv' /\ \A pc : pc # "user" => Count(pc)' = CountBut(t, pc)
      BY <1>2, ReturnsCount
    <2> QED
      BY <1>0, <1>s, <1>n, <1>2, <2>1
  <1> QED
    BY <1>1, <1>2 DEF dq_block

\* One turn of the loop of rt_data_queue_push.
LEMMA DqPushes ==
    ASSUME IpcInv, DqInv, object = "dataqueue", object' = object, NEW t \in Threads,
           th[t].stat = "READY", t \notin WokenIn("dq_pop"), NEW T, T \in Nat \/ T = Forever,
           NEW b \in Nat, dq_push(t, T, b)
    PROVE  DqStep
  <1>0. /\ DqSize \in Nat \ {0} /\ DqLwm \in Nat /\ DqLen \in 0 .. DqSize
        /\ DqShape(dq_empty, dq_full, dq_put, dq_get) /\ dq_resetting \in BOOLEAN
        /\ (DqLen = 0 <=> dq_empty) /\ (DqLen = DqSize <=> dq_full)
        /\ dq_put = EndOf(dq_get, DqLen, DqSize)
        /\ dq_put \in 0 .. DqSize - 1 /\ dq_get \in 0 .. DqSize - 1
        /\ dq_queue \in [0 .. DqSize - 1 -> Threads \cup {None}]
        /\ waiting[Receivers] # << >> => DqLen <= Count("dq_pop")
        /\ DqLwm < DqSize /\ waiting[Senders] # << >> =>
              dq_resetting \/ DqLen + Count("dq_push") > DqLwm
        /\ Receivers \in Lists /\ Senders \in Lists /\ Receivers # Senders
    BY DqFacts
  <1>n. /\ Count("dq_pop") \in Nat /\ Count("dq_push") \in Nat
        /\ CountBut(t, "dq_pop") = Count("dq_pop")
        /\ CountBut(t, "dq_push") \in Nat /\ Count("dq_push") <= CountBut(t, "dq_push") + 1
    BY CountFacts
  <1>s. Call(object, Receivers) = "dq_pop"
    BY DEF Call, Receivers, Senders
  <1>1. CASE /\ ~dq_full
             /\ dq_queue' = [dq_queue EXCEPT ![dq_put] = t]
             /\ dq_put' = index_after(dq_put)
             /\ dq_empty' = FALSE
             /\ dq_full' = (dq_put' = dq_get)
             /\ first_resumed(Returned(t), Receivers)
             /\ UNCHANGED <<dq_get, dq_resetting>>
    <2>1. Base(Returned(t), t)
      BY DEF Base
    <2>2. /\ IpcInv' /\ waiting'[Senders] = waiting[Senders]
          /\ waiting[Receivers] = << >> => waiting' = waiting
          /\ Count("dq_pop")' = IF waiting[Receivers] # << >> THEN Count("dq_pop") + 1 ELSE Count("dq_pop")
          /\ Count("dq_push")' = CountBut(t, "dq_push")
      <3>1. /\ IpcInv'
            /\ \A k \in Lists : k # Receivers => waiting'[k] = waiting[k]
            /\ waiting[Receivers] = << >> => waiting' = waiting
            /\ \A pc : pc # "user" =>
                  Count(pc)' = IF waiting[Receivers] # << >> /\ pc = Call(object, Receivers)
                               THEN CountBut(t, pc) + 1 ELSE CountBut(t, pc)
        BY <1>0, <1>1, <2>1, HandsCount
      <3> QED
        BY <1>0, <1>n, <1>s, <3>1
    <2>3. DqLen # DqSize /\ DqLen \in 0 .. DqSize - 1
      BY <1>0, <1>1
    <2>4. DqShape(dq_empty', dq_full', dq_put', dq_get') /\ DqLen' = DqLen + 1
      <3>1. /\ DqShape(FALSE, dq_full', dq_put', dq_get)
            /\ dq_len(FALSE, dq_put', dq_get) = dq_len(dq_empty, dq_put, dq_get) + 1
        <4>1. Pushed(dq_full, dq_put, dq_get, dq_put', dq_full')
          BY <1>1 DEF Pushed
        <4>2. DqShape(dq_empty, dq_full, dq_put, dq_get)
          BY <1>0
        <4>3. Longer(dq_empty, dq_put, dq_get, dq_put', dq_full')
          BY <4>1, <4>2, DqPushShape
        <4> QED
          BY <4>3 DEF Longer
      <3>2. dq_empty' = FALSE /\ dq_get' = dq_get
        BY <1>1
      <3>3. DqShape(dq_empty', dq_full', dq_put', dq_get')
        BY <3>1, <3>2
      <3>4. DqLen' = dq_len(FALSE, dq_put', dq_get) /\ DqLen = dq_len(dq_empty, dq_put, dq_get)
        BY <3>2, DqContentsIs
      <3> QED
        BY <3>1, <3>3, <3>4
    <2>5. /\ dq_queue' \in [0 .. DqSize - 1 -> Threads \cup {None}]
          /\ Ring(dq_queue', dq_get, DqLen + 1, DqSize) = Append(Ring(dq_queue, dq_get, DqLen, DqSize), t)
      <3>1. dq_put = Slot(dq_get, DqLen + 1, DqSize)
        BY <1>0, <2>3, NextSlot
      <3>2. PutsLast(dq_queue', dq_queue, dq_get, DqLen, DqSize, t)
        BY <1>1, <3>1 DEF PutsLast
      <3>3. PICK V : V = Threads \cup {None}
        OBVIOUS
      <3>4. /\ DqSize \in Nat \ {0} /\ dq_queue \in [0 .. DqSize - 1 -> V] /\ t \in V
            /\ dq_get \in 0 .. DqSize - 1
        BY <1>0, <3>3
      <3>5. RingAppends(dq_queue', dq_queue, dq_get, DqLen, DqSize, t, V)
        BY <2>3, <3>2, <3>4, RingAppend
      <3> QED
        BY <3>3, <3>5 DEF RingAppends
    <2>6. DqContents' = Append(DqContents, t) /\ Len(DqContents) < DqSize
      <3>1. DqContents' = Append(DqContents, t)
        BY <1>1, <2>4, <2>5, DqContentsIs
      <3>2. RingOf(DqContents, Threads \cup {None}, dq_queue, dq_get, DqLen, DqSize)
        BY <1>0, RingIs, DqContentsIs
      <3> QED
        BY <1>0, <2>3, <3>1, <3>2 DEF RingOf
    <2>7. waiting'[Receivers] # << >> => DqLen' <= Count("dq_pop")'
      BY <1>0, <1>n, <2>2, <2>4
    <2>8. DqLwm < DqSize /\ waiting'[Senders] # << >> =>
             dq_resetting \/ DqLen' + Count("dq_push")' > DqLwm
      BY <1>0, <1>n, <2>2, <2>4
    <2>9. dq_resetting' = dq_resetting
      BY <1>1
    <2>10. DqInv'
      BY <1>0, <2>4, <2>5, <2>7, <2>8, <2>9 DEF DqInv
    <2> QED
      BY <2>2, <2>6, <2>10 DEF DqStep, DqQueue!Next, DqQueue!Send
  <1>2. CASE dq_full /\ dq_block(t, Senders, "dq_push", T, b)
    <2>1. /\ IpcInv' /\ UNCHANGED dqVars
          /\ waiting'[Receivers] = waiting[Receivers] /\ Count("dq_pop")' = Count("dq_pop")
          /\ Count("dq_push")' \in Nat
      <3>1. Sides(Senders, "dq_push", Receivers, "dq_pop")
        BY DEF Sides
      <3>2. dq_block(t, Senders, "dq_push", T, b)
        BY <1>2
      <3> QED
        BY <3>1, <3>2, DqBlocks
    <2>2. DqLen = DqSize
      BY <1>0, <1>2
    <2>3. DqLwm < DqSize => DqLen + Count("dq_push")' > DqLwm
      BY <1>0, <2>1, <2>2
    <2> QED
      BY <1>0, <2>1, <2>3, DqStays
  <1> QED
    BY <1>1, <1>2 DEF dq_push

\* One turn of the loop of rt_data_queue_pop.
LEMMA DqPops ==
    ASSUME IpcInv, DqInv, object = "dataqueue", object' = object, NEW t \in Threads,
           th[t].stat = "READY", t \notin WokenIn("dq_push"), NEW T, T \in Nat \/ T = Forever,
           NEW b \in Nat, dq_pop(t, T, b)
    PROVE  DqStep
  <1>0. /\ DqSize \in Nat \ {0} /\ DqLwm \in Nat /\ DqLen \in 0 .. DqSize
        /\ DqShape(dq_empty, dq_full, dq_put, dq_get) /\ dq_resetting \in BOOLEAN
        /\ (DqLen = 0 <=> dq_empty) /\ (DqLen = DqSize <=> dq_full)
        /\ dq_put = EndOf(dq_get, DqLen, DqSize)
        /\ dq_put \in 0 .. DqSize - 1 /\ dq_get \in 0 .. DqSize - 1
        /\ dq_queue \in [0 .. DqSize - 1 -> Threads \cup {None}]
        /\ waiting[Receivers] # << >> => DqLen <= Count("dq_pop")
        /\ DqLwm < DqSize /\ waiting[Senders] # << >> =>
              dq_resetting \/ DqLen + Count("dq_push") > DqLwm
        /\ Receivers \in Lists /\ Senders \in Lists /\ Receivers # Senders
    BY DqFacts
  <1>n. /\ Count("dq_pop") \in Nat /\ Count("dq_push") \in Nat
        /\ CountBut(t, "dq_push") = Count("dq_push")
        /\ CountBut(t, "dq_pop") \in Nat /\ Count("dq_pop") <= CountBut(t, "dq_pop") + 1
    BY CountFacts
  <1>s. Call(object, Senders) = "dq_push"
    BY DEF Call, Receivers, Senders
  <1>1. CASE /\ ~dq_empty
             /\ dq_get' = index_after(dq_get)
             /\ dq_full' = FALSE
             /\ dq_empty' = (dq_put = dq_get')
             /\ IF at_low_water(dq_len(dq_empty', dq_put, dq_get'))
                THEN first_resumed(Returned(t), Senders)
                ELSE th' = Returned(t) /\ UNCHANGED <<flag, waiting>>
             /\ UNCHANGED <<dq_queue, dq_put, dq_resetting>>
    <2>1. DqLen # 0 /\ DqLen \in 1 .. DqSize
      BY <1>0, <1>1
    <2>2. /\ DqShape(dq_empty', dq_full', dq_put', dq_get') /\ DqLen' = DqLen - 1
          /\ dq_get' = Follows(dq_get, DqSize) /\ DqLen' = dq_len(dq_empty', dq_put, dq_get')
      <3>1. /\ DqShape(dq_empty', FALSE, dq_put, dq_get') /\ dq_get' = Follows(dq_get, DqSize)
            /\ dq_len(dq_empty', dq_put, dq_get') = dq_len(dq_empty, dq_put, dq_get) - 1
        <4>1. Popped(dq_empty, dq_put, dq_get, dq_get', dq_empty')
          BY <1>1 DEF Popped
        <4>2. DqShape(dq_empty, dq_full, dq_put, dq_get)
          BY <1>0
        <4>3. Shorter(dq_empty, dq_put, dq_get, dq_get', dq_empty')
          BY <4>1, <4>2, DqPopShape
        <4> QED
          BY <4>3 DEF Shorter
      <3>2. dq_full' = FALSE /\ dq_put' = dq_put
        BY <1>1
      <3>3. DqShape(dq_empty', dq_full', dq_put', dq_get')
        BY <3>1, <3>2
      <3>4. DqLen' = dq_len(dq_empty', dq_put, dq_get') /\ DqLen = dq_len(dq_empty, dq_put, dq_get)
        BY <3>2, DqContentsIs
      <3> QED
        BY <3>1, <3>3, <3>4
    <2>3. /\ Ring(dq_queue, dq_get', DqLen - 1, DqSize) = Tail(Ring(dq_queue, dq_get, DqLen, DqSize))
          /\ Ring(dq_queue, dq_get, DqLen, DqSize) # << >>
      <3>1. PICK V : V = Threads \cup {None}
        OBVIOUS
      <3>2. /\ DqSize \in Nat \ {0} /\ dq_queue \in [0 .. DqSize - 1 -> V]
            /\ dq_get \in 0 .. DqSize - 1
        BY <1>0, <3>1
      <3>3. RingTakes(dq_queue, dq_get', dq_get, DqLen, DqSize)
        BY <2>1, <2>2, <3>2, RingTail
      <3> QED
        BY <3>3 DEF RingTakes
    <2>4. DqContents' = Tail(DqContents) /\ DqContents # << >>
      BY <1>1, <2>2, <2>3, DqContentsIs
    <2>5. /\ IpcInv' /\ waiting'[Receivers] = waiting[Receivers]
          /\ Count("dq_pop")' = CountBut(t, "dq_pop")
          /\ DqLwm < DqSize /\ waiting'[Senders] # << >> =>
                dq_resetting \/ DqLen' + Count("dq_push")' > DqLwm
      <3>1. CASE at_low_water(DqLen')
        <4>1. Base(Returned(t), t)
          BY DEF Base
        <4>2. first_resumed(Returned(t), Senders)
          BY <1>1, <2>2, <3>1
        <4>3. /\ IpcInv'
              /\ \A k \in Lists : k # Senders => waiting'[k] = waiting[k]
              /\ waiting[Senders] = << >> => waiting' = waiting
              /\ \A pc : pc # "user" =>
                    Count(pc)' = IF waiting[Senders] # << >> /\ pc = Call(object, Senders)
                                 THEN CountBut(t, pc) + 1 ELSE CountBut(t, pc)
          BY <1>0, <4>1, <4>2, HandsCount
        <4>4. /\ Count("dq_pop")' = CountBut(t, "dq_pop")
              /\ Count("dq_push")' = IF waiting[Senders] # << >> THEN Count("dq_push") + 1 ELSE Count("dq_push")
          BY <1>n, <1>s, <4>3
        <4>5. DqLwm < DqSize /\ waiting'[Senders] # << >> =>
                 dq_resetting \/ DqLen' + Count("dq_push")' > DqLwm
          <5> SUFFICES ASSUME DqLwm < DqSize, waiting'[Senders] # << >>, ~dq_resetting
                       PROVE  DqLen' + Count("dq_push")' > DqLwm
            OBVIOUS
          <5>1. waiting[Senders] # << >>
            BY <4>3
          <5>2. DqLen + Count("dq_push") > DqLwm
            BY <1>0, <5>1
          <5>3. Count("dq_push")' = Count("dq_push") + 1
            BY <4>4, <5>1
          <5> QED
            BY <1>0, <1>n, <2>2, <5>2, <5>3
        <4> QED
          BY <1>0, <4>3, <4>4, <4>5
      <3>2. CASE ~at_low_water(DqLen')
        <4>1. th' = Returned(t) /\ flag' = flag /\ waiting' = waiting
          BY <1>1, <2>2, <3>2
        <4>2. IpcInv' /\ \A pc : pc # "user" => Count(pc)' = CountBut(t, pc)
          BY <4>1, ReturnsCount
        <4>3. DqLen' > DqLwm /\ DqLen' \in Nat
          BY <1>0, <2>1, <2>2, <3>2 DEF at_low_water
        <4>4. Count("dq_push")' \in Nat
          BY <1>n, <4>2
        <4>5. DqLen' + Count("dq_push")' > DqLwm
          BY <1>0, <4>3, <4>4
        <4> QED
          BY <4>1, <4>2, <4>5
      <3> QED
        BY <3>1, <3>2
    <2>6. waiting'[Receivers] # << >> => DqLen' <= Count("dq_pop")'
      BY <1>0, <1>n, <2>2, <2>5
    <2>7. dq_resetting' = dq_resetting /\ dq_queue' = dq_queue
      BY <1>1
    <2>8. DqInv'
      BY <1>0, <2>2, <2>5, <2>6, <2>7 DEF DqInv
    <2> QED
      BY <2>4, <2>5, <2>8 DEF DqStep, DqQueue!Next, DqQueue!Receive
  <1>2. CASE dq_empty /\ dq_block(t, Receivers, "dq_pop", T, b)
    <2>1. /\ IpcInv' /\ UNCHANGED dqVars
          /\ waiting'[Senders] = waiting[Senders] /\ Count("dq_push")' = Count("dq_push")
          /\ Count("dq_pop")' \in Nat
      <3>1. Sides(Receivers, "dq_pop", Senders, "dq_push")
        BY DEF Sides
      <3>2. dq_block(t, Receivers, "dq_pop", T, b)
        BY <1>2
      <3>3. IpcInv' /\ UNCHANGED dqVars
        BY <3>1, <3>2, DqBlocks
      <3>4. waiting'[Senders] = waiting[Senders] /\ Count("dq_push")' = Count("dq_push")
        BY <3>1, <3>2, DqBlocks
      <3>5. Count("dq_pop")' \in Nat
        BY <3>1, <3>2, DqBlocks
      <3> QED
        BY <3>3, <3>4, <3>5
    <2>2. DqLen = 0
      BY <1>0, <1>2
    <2>3. DqLen <= Count("dq_pop")'
      BY <2>1, <2>2
    <2> QED
      BY <1>0, <2>1, <2>3, DqStays
  <1> QED
    BY <1>1, <1>2 DEF dq_pop

\* The calls of a data queue.
LEMMA DqKeeps ==
    ASSUME IpcInv, DqInv, object = "dataqueue", object' = object, DqNext
    PROVE  DqStep
  <1>0. /\ DqSize \in Nat \ {0} /\ DqLwm \in Nat /\ DqLen \in 0 .. DqSize
        /\ DqShape(dq_empty, dq_full, dq_put, dq_get) /\ dq_resetting \in BOOLEAN
        /\ (DqLen = 0 <=> dq_empty) /\ (DqLen = DqSize <=> dq_full)
        /\ dq_put = EndOf(dq_get, DqLen, DqSize)
        /\ dq_put \in 0 .. DqSize - 1 /\ dq_get \in 0 .. DqSize - 1
        /\ dq_queue \in [0 .. DqSize - 1 -> Threads \cup {None}]
        /\ waiting[Receivers] # << >> => DqLen <= Count("dq_pop")
        /\ DqLwm < DqSize /\ waiting[Senders] # << >> =>
              dq_resetting \/ DqLen + Count("dq_push") > DqLwm
        /\ Receivers \in Lists /\ Senders \in Lists /\ Receivers # Senders
    BY DqFacts
  <1>t. \A t \in Threads : /\ th[t].timeout \in Nat \/ th[t].timeout = Forever
                           /\ th[t].budget \in Nat
    BY RecordFields DEF IpcInv
  <1>1. ASSUME NEW t \in Threads, NEW T \in Timeouts, rt_data_queue_push(t, T) PROVE DqStep
    <2>1. Calls(t) /\ dq_push(t, T, Asked(T))
      BY <1>1 DEF rt_data_queue_push
    <2>2. th[t].stat = "READY" /\ t \notin WokenIn("dq_pop")
      BY <2>1, CallerReady
    <2> QED
      BY <2>1, <2>2, AskedOK, DqPushes
  <1>2. ASSUME NEW t \in Threads, NEW T \in Timeouts, rt_data_queue_pop(t, T) PROVE DqStep
    <2>1. Calls(t) /\ dq_pop(t, T, Asked(T))
      BY <1>2 DEF rt_data_queue_pop
    <2>2. th[t].stat = "READY" /\ t \notin WokenIn("dq_push")
      BY <2>1, CallerReady
    <2> QED
      BY <2>1, <2>2, AskedOK, DqPops
  <1>3. ASSUME NEW t \in Threads, dq_push_again(t) PROVE DqStep
    <2>1. Resumed(t, "dq_push") /\ dq_push(t, th[t].timeout, th[t].budget)
      BY <1>3 DEF dq_push_again
    <2>2. th[t].stat = "READY" /\ t \notin WokenIn("dq_pop")
      BY <2>1 DEF Resumed, WokenIn
    <2> QED
      BY <1>t, <2>1, <2>2, DqPushes
  <1>4. ASSUME NEW t \in Threads, dq_pop_again(t) PROVE DqStep
    <2>1. Resumed(t, "dq_pop") /\ dq_pop(t, th[t].timeout, th[t].budget)
      BY <1>4 DEF dq_pop_again
    <2>2. th[t].stat = "READY" /\ t \notin WokenIn("dq_push")
      BY <2>1 DEF Resumed, WokenIn
    <2> QED
      BY <1>t, <2>1, <2>2, DqPops
  <1>5. CASE rt_data_queue_reset
    <2>1. /\ dq_put' = 0 /\ dq_get' = 0 /\ dq_empty' = TRUE /\ dq_full' = FALSE
          /\ dq_resetting' = TRUE /\ dq_queue' = dq_queue
          /\ flag' = flag /\ waiting' = waiting /\ th' = th
      BY <1>5 DEF rt_data_queue_reset, ipcVars
    <2>2. IpcInv' /\ Count("dq_pop")' = Count("dq_pop")
      BY <2>1, NothingCount
    <2>3. DqLen' = 0
      BY <2>1 DEF DqLen, dq_len
    <2>4. DqContents' = << >>
      BY <2>3 DEF DqContents
    <2>5. DqShape(dq_empty', dq_full', dq_put', dq_get')
      <3>1. 0 \in 0 .. DqSize - 1
        BY <1>0
      <3>2. DqShape(TRUE, FALSE, 0, 0)
        BY <3>1 DEF DqShape
      <3> QED
        BY <2>1, <3>2
    <2>6. DqLen' <= Count("dq_pop")'
      BY <2>2, <2>3, CountFacts
    <2>7. DqInv'
      BY <1>0, <2>1, <2>5, <2>6 DEF DqInv
    <2> QED
      BY <2>2, <2>4, <2>7 DEF DqStep, DqQueue!Next, DqQueue!Reset
  <1>6. CASE reset_wakes
    <2>1. /\ resume_all /\ dq_resetting' = FALSE
          /\ dq_queue' = dq_queue /\ dq_put' = dq_put /\ dq_get' = dq_get
          /\ dq_empty' = dq_empty /\ dq_full' = dq_full
      BY <1>6 DEF reset_wakes, dqRing
    <2>2. IpcInv' /\ \A k \in Lists : waiting'[k] = << >>
      BY <2>1, OthersCount
    <2>3. DqLen' = DqLen
      BY <2>1 DEF DqLen
    <2>4. DqContents' = DqContents
      BY <2>1, <2>3, DqContentsIs
    <2>5. DqInv'
      BY <1>0, <2>1, <2>2 DEF DqInv
    <2> QED
      BY <2>2, <2>4, <2>5 DEF DqStep
  <1>7. CASE IpcStep /\ UNCHANGED dqVars
    <2>1. /\ IpcInv' /\ Count("dq_pop")' = Count("dq_pop") /\ Count("dq_push")' = Count("dq_push")
          /\ waiting[Receivers] = << >> => waiting'[Receivers] = << >>
          /\ waiting[Senders] = << >> => waiting'[Senders] = << >>
      BY <1>0, <1>7, OthersCount
    <2> QED
      BY <1>0, <1>7, <2>1, DqStays
  <1> QED
    BY <1>1, <1>2, <1>3, <1>4, <1>5, <1>6, <1>7 DEF DqNext

-----------------------------------------------------------------------------
(* Memory pools *)

\* A thread that has read the clock and will look again.
Clocked(t) == [At(t, "again") EXCEPT !.timeout = Remaining(t), !.spent = 0]

\* Its timeout is what is left.
LEMMA ClockedOK ==
    ASSUME NEW t, ThreadOK(th[t], "mempool"), th[t].stat = "READY", th[t].error = "EOK"
    PROVE  /\ ThreadOK(Clocked(t), "mempool") /\ Clocked(t).stat = "READY"
           /\ Clocked(t).pc = "again" /\ Clocked(t).error = "EOK"
  <1>r. PICK r : r = th[t]
    OBVIOUS
  <1>R. PICK T : T = Remaining(t)
    OBVIOUS
  <1>w. PICK w : w = Clocked(t)
    OBVIOUS
  <1>1. w = [[r EXCEPT !.pc = "again"] EXCEPT !.timeout = T, !.spent = 0]
    BY <1>r, <1>R, <1>w DEF Clocked, At
  <1>2. r \in Records /\ r.left = None /\ r.stat = "READY" /\ r.error = "EOK" /\ r.budget \in Nat
    BY <1>r, RecordFields DEF ThreadOK
  <1>3. (T \in Nat \/ T = Forever) /\ (T # Forever => T <= r.budget)
    BY <1>r, <1>R, RemainingOK
  <1>4. "again" \in Stages /\ "again" \in StagesOf("mempool") /\ 0 \in Nat
    BY DEF Stages, StagesOf
  <1>5. /\ w \in Records /\ w.pc = "again" /\ w.stat = "READY" /\ w.error = "EOK"
        /\ w.left = None /\ w.timeout = T /\ w.spent = 0 /\ w.budget = r.budget
    BY <1>1, <1>2, <1>3, <1>4 DEF Records
  <1>6. InBudget(w)
    BY <1>2, <1>3, <1>5 DEF InBudget
  <1>7. ThreadOK(w, "mempool")
    BY <1>4, <1>5, <1>6 DEF ThreadOK
  <1> QED
    BY <1>w, <1>5, <1>7

MpInv ==
    /\ mp_list \in Seq(MpBlocks) /\ Once(mp_list) /\ mp_free_count = Len(mp_list)
    /\ mp_held \in [Threads -> SUBSET MpBlocks]
    /\ \A b \in MpBlocks : InList(mp_list, b) <=> \A t \in Threads : b \notin mp_held[t]
    /\ \A b \in MpBlocks : \A t, u \in Threads : b \in mp_held[t] /\ b \in mp_held[u] => t = u
    /\ object = "mempool" /\ waiting[Receivers] # << >> =>
          mp_free_count <= Count("alloc") + Count("again")

\* The waiters that were woken, before and after they have read the clock.
LEMMA MpWoken ==
    Cardinality(WokenIn("alloc") \cup WokenIn("again")) = Count("alloc") + Count("again")
  <1> DEFINE A == WokenIn("alloc")
             B == WokenIn("again")
  <1>1. IsFiniteSet(A) /\ IsFiniteSet(B)
    BY WokenIs, WokenCount
  <1>2. A \cap B = {}
    BY DEF WokenIn, Resumed
  <1>3. Cardinality(A) \in Nat /\ Cardinality(B) \in Nat /\ Cardinality(A \cap B) = 0
    BY <1>1, <1>2, FS_CardinalityType, FS_EmptySet
  <1> HIDE DEF A, B
  <1>4. Cardinality(A \cup B) = Cardinality(A) + Cardinality(B) - Cardinality(A \cap B)
    BY <1>1, FS_Union
  <1> QED
    BY <1>3, <1>4 DEF A, B, Count

\* The blocks and the sleepers.
LEMMA MpInvMeans == MpInv => MpBlocksKept /\ (object = "mempool" => MpNoneForgotten)
  <1> SUFFICES ASSUME MpInv PROVE MpBlocksKept /\ (object = "mempool" => MpNoneForgotten)
    OBVIOUS
  <1>1. object = "mempool" => MpNoneForgotten
    BY MpWoken DEF MpInv, MpNoneForgotten
  <1>2. ASSUME NEW b \in MpBlocks
        PROVE  Cardinality({i \in DOMAIN mp_list : mp_list[i] = b})
                 + Cardinality({t \in Threads : b \in mp_held[t]}) = 1
    <2> DEFINE I == {i \in DOMAIN mp_list : mp_list[i] = b}
               H == {t \in Threads : b \in mp_held[t]}
    <2>0. DOMAIN mp_list = 1 .. Len(mp_list)
      BY DEF MpInv
    <2>1. CASE InList(mp_list, b)
      <3>1. H = {}
        BY <2>1 DEF MpInv
      <3>2. PICK i \in 1 .. Len(mp_list) : mp_list[i] = b
        BY <2>1 DEF InList
      <3>3. I = {i}
        BY <2>0, <3>2 DEF MpInv, Once
      <3> HIDE DEF I, H
      <3>4. Cardinality(I) = 1 /\ Cardinality(H) = 0
        BY <3>1, <3>3, FS_Singleton, FS_EmptySet
      <3> QED
        BY <3>4 DEF I, H
    <2>2. CASE ~InList(mp_list, b)
      <3>1. I = {}
        BY <2>0, <2>2 DEF InList
      <3>2. PICK t \in Threads : b \in mp_held[t]
        BY <2>2 DEF MpInv
      <3>3. H = {t}
        BY <3>2 DEF MpInv
      <3> HIDE DEF I, H
      <3>4. Cardinality(I) = 0 /\ Cardinality(H) = 1
        BY <3>1, <3>3, FS_Singleton, FS_EmptySet
      <3> QED
        BY <3>4 DEF I, H
    <2> QED
      BY <2>1, <2>2
  <1> QED
    BY <1>1, <1>2 DEF MpInv, MpBlocksKept

\* A thread is given the first free block.
LEMMA MpGives ==
    ASSUME MpInv, NEW t \in Threads, mp_free_count > 0,
           mp_held' = [mp_held EXCEPT ![t] = @ \cup {Head(mp_list)}],
           mp_list' = Tail(mp_list), mp_free_count' = mp_free_count - 1
    PROVE  /\ mp_list' \in Seq(MpBlocks) /\ Once(mp_list') /\ mp_free_count' = Len(mp_list')
           /\ mp_held' \in [Threads -> SUBSET MpBlocks]
           /\ \A b \in MpBlocks : InList(mp_list', b) <=> \A u \in Threads : b \notin mp_held'[u]
           /\ \A b \in MpBlocks : \A x, u \in Threads : b \in mp_held'[x] /\ b \in mp_held'[u] => x = u
  <1>h. PICK h : h = Head(mp_list)
    OBVIOUS
  <1>0. /\ mp_list \in Seq(MpBlocks) /\ Once(mp_list) /\ mp_free_count = Len(mp_list)
        /\ mp_held \in [Threads -> SUBSET MpBlocks]
        /\ \A b \in MpBlocks : InList(mp_list, b) <=> \A u \in Threads : b \notin mp_held[u]
        /\ \A b \in MpBlocks : \A x, u \in Threads : b \in mp_held[x] /\ b \in mp_held[u] => x = u
    BY DEF MpInv
  <1>1. mp_list # << >> /\ Len(Tail(mp_list)) = Len(mp_list) - 1
    BY <1>0
  <1>2. /\ h \in MpBlocks /\ Tail(mp_list) \in Seq(MpBlocks) /\ InList(mp_list, h)
        /\ \A y : InList(mp_list, y) <=> InList(Tail(mp_list), y) \/ y = h
        /\ Once(Tail(mp_list)) /\ ~InList(Tail(mp_list), h)
    BY <1>h, <1>0, <1>1, TailOf
  <1>3. /\ mp_held' \in [Threads -> SUBSET MpBlocks]
        /\ mp_held'[t] = mp_held[t] \cup {h} /\ \A u \in Threads : u # t => mp_held'[u] = mp_held[u]
    BY <1>h, <1>0, <1>2
  <1>4. \A u \in Threads : h \notin mp_held[u]
    BY <1>0, <1>2
  <1>5. \A u \in Threads, b \in MpBlocks : b \in mp_held'[u] <=> b \in mp_held[u] \/ (u = t /\ b = h)
    BY <1>3
  <1>6. ASSUME NEW b \in MpBlocks
        PROVE  InList(mp_list', b) <=> \A u \in Threads : b \notin mp_held'[u]
    BY <1>0, <1>2, <1>4, <1>5
  <1>7. ASSUME NEW b \in MpBlocks, NEW x \in Threads, NEW u \in Threads, b \in mp_held'[x], b \in mp_held'[u]
        PROVE  x = u
    BY <1>0, <1>4, <1>5, <1>7
  <1> QED
    BY <1>0, <1>1, <1>2, <1>3, <1>6, <1>7

\* A block comes back.
LEMMA MpTakes ==
    ASSUME MpInv, NEW t \in Threads, NEW b \in MpBlocks, b \in mp_held[t],
           mp_held' = [mp_held EXCEPT ![t] = @ \ {b}],
           mp_list' = <<b>> \o mp_list, mp_free_count' = mp_free_count + 1
    PROVE  /\ mp_list' \in Seq(MpBlocks) /\ Once(mp_list') /\ mp_free_count' = Len(mp_list')
           /\ mp_held' \in [Threads -> SUBSET MpBlocks]
           /\ \A c \in MpBlocks : InList(mp_list', c) <=> \A u \in Threads : c \notin mp_held'[u]
           /\ \A c \in MpBlocks : \A x, u \in Threads : c \in mp_held'[x] /\ c \in mp_held'[u] => x = u
  <1>0. /\ mp_list \in Seq(MpBlocks) /\ Once(mp_list) /\ mp_free_count = Len(mp_list)
        /\ mp_held \in [Threads -> SUBSET MpBlocks]
        /\ \A c \in MpBlocks : InList(mp_list, c) <=> \A u \in Threads : c \notin mp_held[u]
        /\ \A c \in MpBlocks : \A x, u \in Threads : c \in mp_held[x] /\ c \in mp_held[u] => x = u
    BY DEF MpInv
  <1>1. Len(<<b>> \o mp_list) = Len(mp_list) + 1 /\ ~InList(mp_list, b)
    BY <1>0
  <1>2. /\ <<b>> \o mp_list \in Seq(MpBlocks) /\ Once(<<b>> \o mp_list)
        /\ \A y : InList(<<b>> \o mp_list, y) <=> InList(mp_list, y) \/ y = b
    BY <1>0, <1>1, Prepended
  <1>3. /\ mp_held' \in [Threads -> SUBSET MpBlocks]
        /\ mp_held'[t] = mp_held[t] \ {b} /\ \A u \in Threads : u # t => mp_held'[u] = mp_held[u]
    BY <1>0
  <1>4. \A u \in Threads : b \in mp_held[u] => u = t
    BY <1>0
  <1>5. \A u \in Threads, c \in MpBlocks : c \in mp_held'[u] <=> c \in mp_held[u] /\ c # b
    BY <1>3, <1>4
  <1>6. ASSUME NEW c \in MpBlocks
        PROVE  InList(mp_list', c) <=> \A u \in Threads : c \notin mp_held'[u]
    BY <1>0, <1>2, <1>5
  <1>7. ASSUME NEW c \in MpBlocks, NEW x \in Threads, NEW u \in Threads, c \in mp_held'[x], c \in mp_held'[u]
        PROVE  x = u
    BY <1>0, <1>5, <1>7
  <1> QED
    BY <1>0, <1>1, <1>2, <1>3, <1>6, <1>7

\* A step that leaves the blocks where they are.
LEMMA MpStays ==
    ASSUME MpInv, object' = object, UNCHANGED mpVars,
           object = "mempool" /\ waiting'[Receivers] # << >> =>
              mp_free_count <= Count("alloc")' + Count("again")'
    PROVE  MpInv'
  BY DEF MpInv, mpVars

\* One turn of the loop of rt_mp_alloc.
LEMMA MpAllocs ==
    ASSUME IpcInv, MpInv, object = "mempool", object' = object, NEW t \in Threads,
           th[t].stat = "READY", NEW T, T \in Nat \/ T = Forever, NEW b \in Nat,
           T # Forever => T <= b, mp_alloc(t, T, b)
    PROVE  IpcInv' /\ MpInv'
  <1>0. /\ mp_free_count \in Nat /\ waiting \in [Lists -> Seq(Threads)]
        /\ waiting[Receivers] # << >> => mp_free_count <= Count("alloc") + Count("again")
    BY DEF MpInv, IpcInv, Listed
  <1>l. Receivers \in Lists
    BY DEF Lists
  <1>n. /\ Count("alloc") \in Nat /\ Count("again") \in Nat
        /\ CountBut(t, "alloc") \in Nat /\ CountBut(t, "again") \in Nat
        /\ CountBut(t, "alloc") + CountBut(t, "again") + 1 >= Count("alloc") + Count("again")
    <2>1. /\ Count("alloc") \in Nat /\ Count("again") \in Nat
          /\ CountBut(t, "alloc") \in Nat /\ CountBut(t, "again") \in Nat
          /\ Count("alloc") <= CountBut(t, "alloc") + 1 /\ Count("again") <= CountBut(t, "again") + 1
          /\ t \notin WokenIn("alloc") => CountBut(t, "alloc") = Count("alloc")
          /\ t \notin WokenIn("again") => CountBut(t, "again") = Count("again")
      BY CountFacts
    <2>2. t \notin WokenIn("alloc") \/ t \notin WokenIn("again")
      BY DEF WokenIn, Resumed
    <2> QED
      BY <2>1, <2>2
  <1>1. CASE /\ mp_free_count > 0
             /\ mp_free_count' = mp_free_count - 1
             /\ mp_held' = [mp_held EXCEPT ![t] = @ \cup {Head(mp_list)}]
             /\ mp_list' = Tail(mp_list)
             /\ th' = Returned(t)
             /\ UNCHANGED <<flag, waiting>>
    <2>1. IpcInv' /\ \A pc : pc # "user" => Count(pc)' = CountBut(t, pc)
      BY <1>1, ReturnsCount
    <2>2. Count("alloc")' = CountBut(t, "alloc") /\ Count("again")' = CountBut(t, "again")
      BY <2>1
    <2>3. waiting'[Receivers] # << >> => mp_free_count' <= Count("alloc")' + Count("again")'
      BY <1>0, <1>n, <1>1, <2>2
    <2>4. /\ mp_list' \in Seq(MpBlocks) /\ Once(mp_list') /\ mp_free_count' = Len(mp_list')
          /\ mp_held' \in [Threads -> SUBSET MpBlocks]
          /\ \A c \in MpBlocks : InList(mp_list', c) <=> \A u \in Threads : c \notin mp_held'[u]
          /\ \A c \in MpBlocks : \A x, u \in Threads : c \in mp_held'[x] /\ c \in mp_held'[u] => x = u
      BY <1>1, MpGives
    <2> QED
      BY <2>1, <2>3, <2>4 DEF MpInv
  <1>2. CASE /\ mp_free_count = 0 /\ T # 0
             /\ waiting' = [waiting EXCEPT ![Receivers] = <<t>> \o @]
             /\ th' = [th EXCEPT ![t] = Suspended("alloc", T, b)]
             /\ UNCHANGED <<flag, mpVars>>
    <2>q. PICK q : q = <<t>> \o waiting[Receivers]
      OBVIOUS
    <2>1. JoinedBy(q, waiting[Receivers], t)
      <3>1. waiting[Receivers] \in Seq(Threads)
        BY <1>0, <1>l
      <3> QED
        BY <2>q, <3>1, Prepended DEF JoinedBy
    <2>2. Sleeps(t, Receivers, Suspended("alloc", T, b), q)
      BY <1>2, <2>q DEF Sleeps
    <2>3. /\ "alloc" \in SendCalls \cup RecvCalls /\ "alloc" \in StagesOf(object)
          /\ Receivers = IF "alloc" \in SendCalls THEN Senders ELSE Receivers
      BY DEF SendCalls, RecvCalls, StagesOf
    <2>4. IpcInv'
      BY <1>l, <2>1, <2>2, <2>3, Waits
    <2>5. Count("alloc")' \in Nat /\ Count("again")' \in Nat
      <3>1. /\ Cardinality(AwakeIn(th', "alloc")) \in Nat /\ Cardinality(AwakeIn(th', "again")) \in Nat
        BY WokenCount
      <3> QED
        BY <3>1, WokenIs DEF Count
    <2>6. mp_free_count <= Count("alloc")' + Count("again")'
      BY <1>2, <2>5
    <2> QED
      BY <1>2, <2>4, <2>6, MpStays
  <1>3. CASE /\ mp_free_count = 0 /\ T = 0
             /\ th' = Returned(t)
             /\ UNCHANGED <<flag, waiting, mpVars>>
    <2>1. IpcInv' /\ \A pc : pc # "user" => Count(pc)' = CountBut(t, pc)
      BY <1>3, ReturnsCount
    <2>2. Count("alloc")' \in Nat /\ Count("again")' \in Nat
      BY <1>n, <2>1
    <2>3. mp_free_count <= Count("alloc")' + Count("again")'
      BY <1>3, <2>2
    <2> QED
      BY <1>3, <2>1, <2>3, MpStays
  <1> QED
    BY <1>1, <1>2, <1>3 DEF mp_alloc

\* The calls of a memory pool.
LEMMA MpKeeps ==
    ASSUME IpcInv, MpInv, object = "mempool", object' = object, MpNext
    PROVE  IpcInv' /\ MpInv'
  <1>0. /\ mp_free_count \in Nat
        /\ waiting[Receivers] # << >> => mp_free_count <= Count("alloc") + Count("again")
    BY DEF MpInv
  <1>l. Receivers \in Lists
    BY DEF Lists
  <1>t. \A t \in Threads : /\ th[t].timeout \in Nat \/ th[t].timeout = Forever
                           /\ th[t].budget \in Nat
    BY RecordFields DEF IpcInv
  <1>1. ASSUME NEW t \in Threads, NEW T \in Timeouts, rt_mp_alloc(t, T) PROVE IpcInv' /\ MpInv'
    <2>1. Calls(t) /\ mp_alloc(t, T, Asked(T))
      BY <1>1 DEF rt_mp_alloc
    <2>2. th[t].stat = "READY"
      BY <2>1, CallerReady
    <2> QED
      BY <2>1, <2>2, AskedOK, MpAllocs
  <1>2. ASSUME NEW t \in Threads, mp_alloc_again(t) PROVE IpcInv' /\ MpInv'
    <2>1. Resumed(t, "again") /\ mp_alloc(t, th[t].timeout, th[t].budget)
      BY <1>2 DEF mp_alloc_again
    <2>2. th[t].stat = "READY" /\ th[t].pc = "again"
      BY <2>1 DEF Resumed
    <2>3. th[t].timeout # Forever => th[t].timeout <= th[t].budget
      BY <2>2 DEF IpcInv, ThreadOK, InBudget
    <2> QED
      BY <1>t, <2>1, <2>2, <2>3, MpAllocs
  <1>3. ASSUME NEW t \in Threads, mp_read_tick(t) PROVE IpcInv' /\ MpInv'
    <2>1. /\ th[t].pc = "alloc" /\ th[t].stat = "READY" /\ th[t].error = "EOK"
          /\ th' = [th EXCEPT ![t] = Clocked(t)] /\ UNCHANGED <<flag, waiting, mpVars>>
      BY <1>3 DEF mp_read_tick, Resumed, Clocked
    <2>r. PICK r : r = Clocked(t)
      OBVIOUS
    <2>2. ThreadOK(r, object) /\ r.stat = "READY" /\ r.pc = "again" /\ r.error = "EOK"
      BY <2>1, <2>r, ClockedOK DEF IpcInv
    <2>3. th' = [th EXCEPT ![t] = r]
      BY <2>1, <2>r
    <2>4. IpcInv'
      <3>1. GoesOn(t, r)
        BY <2>1, <2>3 DEF GoesOn
      <3> QED
        BY <2>2, <3>1, GoesOnKeeps
    <2>5. WokenIn("alloc")' = WokenIn("alloc") \ {t} /\ WokenIn("again")' = WokenIn("again") \cup {t}
      BY <2>2, <2>3, AwakeAfter
    <2>6. t \in WokenIn("alloc") /\ t \notin WokenIn("again")
      BY <2>1 DEF WokenIn, Resumed
    <2>7. /\ Cardinality(WokenIn("alloc") \ {t}) = Cardinality(WokenIn("alloc")) - 1
          /\ Cardinality(WokenIn("again") \cup {t}) = Cardinality(WokenIn("again")) + 1
      BY <2>6, WokenNumber
    <2>8. Count("alloc")' = Count("alloc") - 1 /\ Count("again")' = Count("again") + 1
      BY <2>5, <2>7 DEF Count
    <2>9. Count("alloc") \in Nat /\ Count("again") \in Nat
      BY CountFacts
    <2>10. waiting'[Receivers] # << >> => mp_free_count <= Count("alloc")' + Count("again")'
      BY <1>0, <2>1, <2>8, <2>9
    <2> QED
      BY <2>1, <2>4, <2>10, MpStays
  <1>4. ASSUME NEW t \in Threads, NEW b \in MpBlocks, rt_mp_free(t, b) PROVE IpcInv' /\ MpInv'
    <2>1. /\ b \in mp_held[t]
          /\ mp_held' = [mp_held EXCEPT ![t] = @ \ {b}]
          /\ mp_free_count' = mp_free_count + 1
          /\ mp_list' = <<b>> \o mp_list
          /\ first_resumed(th, Receivers)
      BY <1>4 DEF rt_mp_free
    <2>2. Base(th, None)
      BY IpcConstants DEF Base
    <2>3. /\ IpcInv' /\ (waiting[Receivers] = << >> => waiting' = waiting)
          /\ \A pc : pc # "user" =>
                Count(pc)' = IF waiting[Receivers] # << >> /\ pc = Call(object, Receivers)
                             THEN CountBut(None, pc) + 1 ELSE CountBut(None, pc)
      BY <1>l, <2>1, <2>2, HandsCount
    <2>4. Call(object, Receivers) = "alloc"
      BY DEF Call, Receivers, Senders
    <2>5. None \notin WokenIn("alloc") /\ None \notin WokenIn("again")
      BY IpcConstants DEF WokenIn
    <2>6. CountBut(None, "alloc") = Count("alloc") /\ CountBut(None, "again") = Count("again")
      BY <2>5, CountFacts
    <2>7. waiting[Receivers] # << >> =>
             Count("alloc")' = Count("alloc") + 1 /\ Count("again")' = Count("again")
      BY <2>3, <2>4, <2>6
    <2>8. Count("alloc") \in Nat /\ Count("again") \in Nat
      BY CountFacts
    <2>9. waiting'[Receivers] # << >> => mp_free_count' <= Count("alloc")' + Count("again")'
      BY <1>0, <2>1, <2>3, <2>7, <2>8
    <2>10. /\ mp_list' \in Seq(MpBlocks) /\ Once(mp_list') /\ mp_free_count' = Len(mp_list')
           /\ mp_held' \in [Threads -> SUBSET MpBlocks]
           /\ \A c \in MpBlocks : InList(mp_list', c) <=> \A u \in Threads : c \notin mp_held'[u]
           /\ \A c \in MpBlocks : \A x, u \in Threads : c \in mp_held'[x] /\ c \in mp_held'[u] => x = u
      BY <2>1, MpTakes
    <2> QED
      BY <2>3, <2>9, <2>10 DEF MpInv
  <1>5. CASE IpcStep /\ UNCHANGED mpVars
    <2>1. /\ IpcInv' /\ \A k \in Lists : waiting[k] = << >> => waiting'[k] = << >>
          /\ \A pc : pc # "user" => Count(pc)' = Count(pc)
      BY <1>5, OthersCount
    <2>2. Count("alloc")' = Count("alloc") /\ Count("again")' = Count("again")
      BY <2>1
    <2>3. waiting'[Receivers] # << >> => mp_free_count <= Count("alloc")' + Count("again")'
      BY <1>0, <1>l, <2>1, <2>2
    <2> QED
      BY <1>5, <2>1, <2>3, MpStays
  <1> QED
    BY <1>1, <1>2, <1>3, <1>4, <1>5 DEF MpNext

-----------------------------------------------------------------------------
(* Completions *)

CompInv ==
    /\ comp_flag \in BOOLEAN
    /\ object = "completion" => Len(waiting[Receivers]) <= 1 /\ CompNoneForgotten

\* The calls of a completion.
LEMMA CompKeeps ==
    ASSUME IpcInv, CompInv, object = "completion", object' = object, CompNext
    PROVE  IpcInv' /\ CompInv'
  <1>l. Receivers \in Lists
    BY DEF Lists
  <1>0. /\ comp_flag \in BOOLEAN /\ waiting \in [Lists -> Seq(Threads)]
        /\ waiting[Receivers] \in Seq(Threads) /\ Len(waiting[Receivers]) <= 1
        /\ comp_flag => waiting[Receivers] = << >>
    BY <1>l DEF CompInv, CompNoneForgotten, IpcInv, Listed
  <1>1. CASE rt_completion_done
    <2>1. comp_flag' = TRUE /\ first_resumed(th, Receivers)
      BY <1>1 DEF rt_completion_done
    <2>2. Base(th, None)
      BY IpcConstants DEF Base
    <2>3. /\ IpcInv' /\ (waiting[Receivers] = << >> => waiting' = waiting)
          /\ waiting[Receivers] # << >> => waiting'[Receivers] = Tail(waiting[Receivers])
      BY <1>l, <2>1, <2>2, HandsCount
    <2>4. waiting'[Receivers] = << >>
      <3>1. waiting[Receivers] # << >> => Tail(waiting[Receivers]) = << >>
        BY <1>0
      <3>2. CASE waiting[Receivers] = << >>
        BY <2>3, <3>2
      <3>3. CASE waiting[Receivers] # << >>
        BY <2>3, <3>1, <3>3
      <3> QED
        BY <3>2, <3>3
    <2>5. Len(waiting'[Receivers]) <= 1
      BY <2>4
    <2> QED
      BY <2>1, <2>3, <2>4, <2>5 DEF CompInv, CompNoneForgotten
  <1>2. ASSUME NEW t \in Threads, comp_wait_now(t) PROVE IpcInv' /\ CompInv'
    <2>1. comp_flag' = FALSE /\ flag' = flag /\ waiting' = waiting /\ th' = th
      BY <1>2 DEF comp_wait_now, ipcVars
    <2>2. IpcInv'
      BY <2>1, NothingCount
    <2> QED
      BY <1>0, <2>1, <2>2 DEF CompInv, CompNoneForgotten
  <1>3. ASSUME NEW t \in Threads, NEW T \in Timeouts, comp_wait(t, T) PROVE IpcInv' /\ CompInv'
    <2>1. /\ Calls(t) /\ ~comp_flag /\ comp_flag' = comp_flag /\ waiting[Receivers] = << >>
          /\ suspend(t, Receivers, "comp_wait", T, Asked(T))
      BY <1>3 DEF comp_wait
    <2>2. th[t].stat = "READY"
      BY <2>1, CallerReady
    <2>3. /\ T \in Nat \/ T = Forever
          /\ Asked(T) \in Nat /\ (T # Forever => T <= Asked(T))
      BY AskedOK
    <2>4. /\ "comp_wait" \in SendCalls \cup RecvCalls /\ "comp_wait" \in StagesOf(object)
          /\ Receivers = IF "comp_wait" \in SendCalls THEN Senders ELSE Receivers
      BY DEF SendCalls, RecvCalls, StagesOf
    <2>5. IpcInv' /\ waiting'[Receivers] = enqueued(waiting[Receivers], t)
      BY <1>l, <2>1, <2>2, <2>3, <2>4, Suspends
    <2>6. Len(enqueued(<< >>, t)) = 1
      <3>1. {i \in 1 .. Len(<< >>) : flag = "PRIO" /\ priority[t] < priority[<< >>[i]]} = {}
        OBVIOUS
      <3> QED
        BY <3>1 DEF enqueued, rt_list_insert_before
    <2>7. Len(waiting'[Receivers]) <= 1 /\ comp_flag' = FALSE
      <3>1. waiting'[Receivers] = enqueued(<< >>, t)
        BY <2>1, <2>5, Zenon
      <3>2. Len(waiting'[Receivers]) = 1
        BY <2>6, <3>1, Zenon
      <3> QED
        BY <1>0, <2>1, <3>2
    <2> QED
      BY <2>5, <2>7 DEF CompInv, CompNoneForgotten
  <1>4. ASSUME NEW t \in Threads, comp_wait_over(t) PROVE IpcInv' /\ CompInv'
    <2>1. th[t].stat = "READY" /\ th' = Returned(t) /\ comp_flag' = FALSE /\ flag' = flag /\ waiting' = waiting
      BY <1>4 DEF comp_wait_over, Resumed, Failed
    <2>2. IpcInv'
      BY <2>1, Returns
    <2> QED
      BY <1>0, <2>1, <2>2 DEF CompInv, CompNoneForgotten
  <1>5. ASSUME NEW t \in Threads, thread_timeout(t), UNCHANGED comp_flag PROVE IpcInv' /\ CompInv'
    <2>1. IpcInv' /\ \A k \in Lists : waiting[k] = << >> => waiting'[k] = << >>
      BY <1>5, TimeoutKeeps
    <2>2. waiting'[Receivers] = rt_list_remove(waiting[Receivers], t)
      BY <1>5, <1>l DEF thread_timeout
    <2>3. Len(rt_list_remove(waiting[Receivers], t)) <= 1
      BY <1>0 DEF rt_list_remove, InList
    <2> QED
      BY <1>0, <1>l, <1>5, <2>1, <2>2, <2>3 DEF CompInv, CompNoneForgotten
  <1>6. CASE rt_tick_increase /\ UNCHANGED comp_flag
    <2>1. IpcInv' /\ waiting' = waiting
      BY <1>6, TickKeeps
    <2> QED
      BY <1>0, <1>6, <2>1 DEF CompInv, CompNoneForgotten
  <1> QED
    BY <1>1, <1>2, <1>3, <1>4, <1>5, <1>6 DEF CompNext

-----------------------------------------------------------------------------
(* Events *)

\* f is what the first n turns of the loop of rt_event_send over l leave of p.
Turns(f, p, l, n) ==
    f = [i \in 0 .. n |-> IF i = 0 THEN p ELSE offered(f[i - 1], l[i])]

\* The loop is well defined.
LEMMA TurnsExist ==
    ASSUME NEW p, NEW l, NEW n \in Nat
    PROVE  \E f : Turns(f, p, l, n)
  <1> DEFINE Without == {m \in Nat : ~ \E f : Turns(f, p, l, m)}
  <1> SUFFICES ASSUME Without # {} PROVE FALSE
    OBVIOUS
  <1>1. PICK m \in Without : \A k \in Without : m <= k
    BY LeastExists
  <1>2. m \in Nat /\ ~ \E f : Turns(f, p, l, m)
    BY <1>1
  <1>3. m # 0
    <2>1. SUFFICES ASSUME m = 0 PROVE FALSE
      OBVIOUS
    <2> DEFINE f == [i \in 0 .. 0 |-> p]
    <2>2. f = [i \in 0 .. 0 |-> IF i = 0 THEN p ELSE offered(f[i - 1], l[i])]
      OBVIOUS
    <2>3. Turns(f, p, l, 0)
      BY <2>2 DEF Turns
    <2> QED
      BY <1>2, <2>1, <2>3
  <1>4. m - 1 \in Nat /\ m - 1 \notin Without
    BY <1>1, <1>2, <1>3
  <1>5. PICK f : Turns(f, p, l, m - 1)
    BY <1>4
  <1> DEFINE g == [i \in 0 .. m |-> IF i < m THEN f[i] ELSE offered(f[m - 1], l[m])]
  <1>6. ASSUME NEW i \in 0 .. m PROVE g[i] = IF i = 0 THEN p ELSE offered(g[i - 1], l[i])
    <2>1. CASE i = 0
      <3>1. g[0] = f[0]
        BY <1>2, <1>3
      <3>2. f[0] = p
        BY <1>4, <1>5 DEF Turns
      <3> QED
        BY <2>1, <3>1, <3>2
    <2>2. CASE i # 0
      <3>1. i - 1 \in 0 .. m /\ i - 1 < m /\ i - 1 \in 0 .. m - 1
        BY <1>2, <2>2
      <3>2. g[i - 1] = f[i - 1]
        BY <3>1
      <3>3. CASE i = m
        BY <1>2, <2>2, <3>2, <3>3
      <3>4. CASE i # m
        <4>1. g[i] = f[i] /\ i \in 0 .. m - 1
          BY <1>2, <3>4
        <4>2. f[i] = offered(f[i - 1], l[i])
          BY <1>5, <2>2, <4>1 DEF Turns
        <4> QED
          BY <2>2, <3>2, <4>1, <4>2
      <3> QED
        BY <3>3, <3>4
    <2> QED
      BY <2>1, <2>2
  <1>7. g = [i \in 0 .. m |-> IF i = 0 THEN p ELSE offered(g[i - 1], l[i])]
    <2>1. DOMAIN g = 0 .. m /\ g = [i \in 0 .. m |-> g[i]]
      OBVIOUS
    <2> HIDE DEF g
    <2> QED
      BY <1>6, <2>1
  <1>8. Turns(g, p, l, m)
    BY <1>7 DEF Turns
  <1> QED
    BY <1>2, <1>8

\* The events, the requests and the list of waiters before the loop.
Start(s) == [set |-> s, info |-> event_info, list |-> waiting[Receivers]]

\* What scanned computes.
LEMMA ScannedIs ==
    ASSUME NEW s, Len(waiting[Receivers]) \in Nat
    PROVE  \E f : /\ Turns(f, Start(s), waiting[Receivers], Len(waiting[Receivers]))
                  /\ scanned(s) = f[Len(waiting[Receivers])]
  <1> DEFINE l == waiting[Receivers]
             Loop(f) == f = [i \in 0 .. Len(l) |->
                                IF i = 0 THEN [set |-> s, info |-> event_info, list |-> l]
                                ELSE offered(f[i - 1], l[i])]
             after == CHOOSE f : Loop(f)
  <1>1. \E f : Loop(f)
    <2>1. PICK f : Turns(f, Start(s), l, Len(l))
      BY TurnsExist
    <2>2. Loop(f)
      BY <2>1 DEF Turns, Start
    <2> QED
      BY <2>2
  <1>2. Loop(after)
    BY <1>1
  <1>3. scanned(s) = after[Len(l)]
    BY DEF scanned
  <1> QED
    BY <1>2, <1>3 DEF Turns, Start

\* What a waiter asks for, and what it has received.
Asks == [set : SUBSET Bits, all : BOOLEAN, clear : BOOLEAN]

Scans == [set : SUBSET Bits, info : [Threads -> Asks], list : Seq(Threads)]

\* The waiters still in the list of p wait for what they asked for, info0 being the
\* requests and l the list before the loop.
ScanOK(p, info0, l) ==
    /\ p \in Scans /\ Once(p.list)
    /\ \A y : InList(p.list, y) => InList(l, y) /\ p.info[y] = info0[y]

\* The first i waiters of l that are still in the list have looked in vain.
Seen(p, info0, l, i) ==
    \A j \in 1 .. i : InList(p.list, l[j]) => ~satisfied(info0[l[j]], p.set)

\* Events that go do not satisfy anybody.
LEMMA LessSatisfies ==
    ASSUME NEW r \in Asks, NEW s, NEW g, g \subseteq s, ~satisfied(r, s)
    PROVE  ~satisfied(r, g)
  BY DEF satisfied, Asks

\* One turn: who stays has looked in vain, and nothing else changes for those who stay.
LEMMA OfferedIs ==
    ASSUME NEW p \in Scans, Once(p.list), NEW t \in Threads
    PROVE  LET q == offered(p, t)
           IN  /\ q \in Scans /\ Once(q.list) /\ q.set \subseteq p.set
               /\ \A y : InList(q.list, y) => InList(p.list, y) /\ q.info[y] = p.info[y]
               /\ InList(q.list, t) => ~satisfied(p.info[t], q.set)
  <1>q. PICK q : q = offered(p, t)
    OBVIOUS
  <1>r. PICK r : r = p.info[t]
    OBVIOUS
  <1>g. PICK g : g = received(r, p.set)
    OBVIOUS
  <1>0. /\ p.set \in SUBSET Bits /\ p.info \in [Threads -> Asks] /\ p.list \in Seq(Threads)
        /\ r \in Asks
    BY <1>r DEF Scans
  <1>1. CASE ~satisfied(r, p.set)
    <2>1. q = p
      BY <1>1, <1>q, <1>r DEF offered
    <2> QED
      BY <1>1, <1>q, <1>r, <2>1
  <1>2. CASE satisfied(r, p.set)
    <2>e. PICK e : e = IF r.clear THEN p.set \ g ELSE p.set
      OBVIOUS
    <2>a. PICK a : a = [r EXCEPT !.set = g]
      OBVIOUS
    <2>n. PICK n : n = [p.info EXCEPT ![t] = a]
      OBVIOUS
    <2>l. PICK l : l = rt_list_remove(p.list, t)
      OBVIOUS
    <2>1. q = [set |-> e, info |-> n, list |-> l]
      BY <1>2, <1>q, <1>r, <1>g, <2>e, <2>a, <2>n, <2>l DEF offered
    <2>2. e \in SUBSET Bits /\ e \subseteq p.set
      BY <1>0, <2>e
    <2>3. g \in SUBSET Bits
      BY <1>0, <1>g DEF received, Asks
    <2>4. a \in Asks
      BY <1>0, <2>a, <2>3 DEF Asks
    <2>5. n \in [Threads -> Asks] /\ \A y : y # t /\ y \in Threads => n[y] = p.info[y]
      BY <1>0, <2>n, <2>4
    <2>6. /\ l \in Seq(Threads) /\ Once(l) /\ ~InList(l, t)
          /\ \A y : InList(l, y) => InList(p.list, y)
      BY <1>0, <2>l, RemovedMembers
    <2>7. q \in Scans /\ q.set = e /\ q.info = n /\ q.list = l
      BY <2>1, <2>2, <2>5, <2>6 DEF Scans
    <2>8. \A y : InList(p.list, y) => y \in Threads
      BY <1>0 DEF InList
    <2>9. \A y : InList(l, y) => InList(p.list, y) /\ n[y] = p.info[y]
      BY <2>5, <2>6, <2>8
    <2> QED
      BY <1>q, <2>2, <2>6, <2>7, <2>9
  <1> QED
    BY <1>1, <1>2

\* So the loop goes on as it began.
LEMMA TurnKeeps ==
    ASSUME NEW l \in Seq(Threads), NEW info0 \in [Threads -> Asks], NEW i \in 1 .. Len(l),
           NEW p, ScanOK(p, info0, l), Seen(p, info0, l, i - 1)
    PROVE  LET q == offered(p, l[i])
           IN  ScanOK(q, info0, l) /\ Seen(q, info0, l, i)
  <1>t. PICK t \in Threads : t = l[i]
    OBVIOUS
  <1>q. PICK q : q = offered(p, t)
    OBVIOUS
  <1>0. /\ p \in Scans /\ Once(p.list)
        /\ \A y : InList(p.list, y) => InList(l, y) /\ p.info[y] = info0[y]
    BY DEF ScanOK
  <1>1. /\ q \in Scans /\ Once(q.list) /\ q.set \subseteq p.set
        /\ \A y : InList(q.list, y) => InList(p.list, y) /\ q.info[y] = p.info[y]
        /\ InList(q.list, t) => ~satisfied(p.info[t], q.set)
    BY <1>0, <1>q, OfferedIs
  <1>2. ScanOK(q, info0, l)
    BY <1>0, <1>1 DEF ScanOK
  <1>3. ASSUME NEW j \in 1 .. i, InList(q.list, l[j])
        PROVE  ~satisfied(info0[l[j]], q.set)
    <2>1. InList(p.list, l[j]) /\ info0[l[j]] \in Asks
      BY <1>1, <1>3
    <2>2. CASE j = i
      BY <1>0, <1>1, <1>3, <1>t, <2>1, <2>2
    <2>3. CASE j # i
      <3>1. j \in 1 .. i - 1
        BY <2>3
      <3>2. ~satisfied(info0[l[j]], p.set)
        BY <2>1, <3>1 DEF Seen
      <3> QED
        BY <1>1, <2>1, <3>2, LessSatisfies
    <2> QED
      BY <2>2, <2>3
  <1>4. Seen(q, info0, l, i)
    BY <1>3 DEF Seen
  <1> QED
    BY <1>q, <1>t, <1>2, <1>4

\* After the loop everybody in the list has looked in vain.
LEMMA LoopKeeps ==
    ASSUME NEW l \in Seq(Threads), NEW info0 \in [Threads -> Asks], NEW p, ScanOK(p, info0, l),
           NEW f, Turns(f, p, l, Len(l))
    PROVE  LET q == f[Len(l)]
           IN  ScanOK(q, info0, l) /\ Seen(q, info0, l, Len(l))
  <1> DEFINE Good(i) == ScanOK(f[i], info0, l) /\ Seen(f[i], info0, l, i)
             Bad == {i \in 0 .. Len(l) : ~Good(i)}
  <1>0. Len(l) \in Nat
    OBVIOUS
  <1>1. f[0] = p /\ \A i \in 1 .. Len(l) : f[i] = offered(f[i - 1], l[i])
    BY <1>0 DEF Turns
  <1>2. Good(0)
    BY <1>1 DEF Seen
  <1>3. ASSUME NEW i \in 1 .. Len(l), Good(i - 1) PROVE Good(i)
    <2>p. PICK u : u = f[i - 1]
      OBVIOUS
    <2>1. ScanOK(u, info0, l) /\ Seen(u, info0, l, i - 1)
      BY <1>3, <2>p
    <2>2. ScanOK(offered(u, l[i]), info0, l) /\ Seen(offered(u, l[i]), info0, l, i)
      BY <2>1, TurnKeeps
    <2> QED
      BY <1>1, <2>p, <2>2
  <1> HIDE DEF Good
  <1>4. Bad = {}
    <2> SUFFICES ASSUME Bad # {} PROVE FALSE
      OBVIOUS
    <2>0. Bad \in SUBSET Nat
      OBVIOUS
    <2>1. PICK m \in Bad : \A k \in Bad : m <= k
      BY <2>0, LeastExists
    <2>2. m \in 1 .. Len(l)
      BY <1>0, <1>2, <2>1
    <2>3. Good(m - 1)
      BY <2>1, <2>2
    <2> QED
      BY <1>3, <2>1, <2>2, <2>3
  <1>5. Good(Len(l))
    BY <1>0, <1>4
  <1> QED
    BY <1>5 DEF Good

\* Some waiters of list l are woken: q is what is left of it.
LEMMA SomeWoken ==
    ASSUME IpcInv, object' = object, NEW l \in Lists, NEW q \in Seq(Threads), Once(q),
           \A y : InList(q, y) => InList(waiting[l], y), flag' = flag,
           waiting' = [waiting EXCEPT ![l] = q],
           th' = [t \in Threads |-> IF InList(waiting[l], t) /\ ~InList(q, t) THEN Woken(t) ELSE th[t]]
    PROVE  IpcInv'
  <1>1. \A t \in Threads : ThreadOK(th[t], object)
    BY DEF IpcInv
  <1>2. ASSUME NEW t \in Threads
        PROVE  /\ ThreadOK(th'[t], object)
               /\ place(th'[t]) = IF InList(waiting[l], t) /\ ~InList(q, t) THEN Nowhere ELSE place(th[t])
    <2>1. CASE InList(waiting[l], t) /\ ~InList(q, t)
      <3>1. th'[t] = Woken(t)
        BY <2>1
      <3>2. ThreadOK(Woken(t), object) /\ Woken(t).stat = "READY"
        BY <1>1, WokenOK
      <3> QED
        BY <2>1, <3>1, <3>2 DEF place
    <2>2. CASE ~(InList(waiting[l], t) /\ ~InList(q, t))
      <3>1. th'[t] = th[t]
        BY <2>2
      <3> QED
        BY <1>1, <2>2, <3>1
    <2> QED
      BY <2>1, <2>2
  <1>3. th' \in [Threads -> Records]
    <2>1. \A t \in Threads : th'[t] \in Records
      BY <1>2 DEF ThreadOK
    <2> QED
      BY <2>1
  <1>4. /\ places \in Places /\ places' = [t \in Threads |-> place(th'[t])]
        /\ \A t \in Threads : places[t] = place(th[t])
    BY PlacesAre DEF places
  <1>5. Nowhere \notin Lists
    BY DEF Nowhere, Lists, Senders, Receivers
  <1>w. waiting \in [Lists -> Seq(Threads)] /\ \A k \in Lists : ListIs(waiting[k], places, k)
    BY DEF IpcInv, Listed
  <1>6. ASSUME NEW k \in Lists PROVE ListIs(waiting'[k], places', k)
    <2>1. /\ waiting[k] \in Seq(Threads) /\ Once(waiting[k])
          /\ \A t : InList(waiting[k], t) <=> t \in Threads /\ places[t] = k
          /\ \A t : InList(waiting[l], t) <=> t \in Threads /\ places[t] = l
      BY <1>w DEF ListIs
    <2>2. \A t \in Threads :
             places'[t] = IF InList(waiting[l], t) /\ ~InList(q, t) THEN Nowhere ELSE places[t]
      BY <1>2, <1>4
    <2>3. CASE k = l
      <3>1. waiting'[k] = q
        BY <1>w, <2>3
      <3>2. \A t : InList(q, t) <=> t \in Threads /\ places'[t] = k
        BY <1>5, <2>1, <2>2, <2>3
      <3> QED
        BY <3>1, <3>2 DEF ListIs
    <2>4. CASE k # l
      <3>1. waiting'[k] = waiting[k]
        BY <1>w, <2>4
      <3>2. \A t \in Threads : places'[t] = k <=> places[t] = k
        <4> TAKE t \in Threads
        <4>1. places'[t] = IF InList(waiting[l], t) /\ ~InList(q, t) THEN Nowhere ELSE places[t]
          BY <2>2
        <4>2. InList(waiting[l], t) => places[t] = l
          BY <2>1
        <4>3. Nowhere # k
          BY <1>5
        <4> QED
          BY <2>4, <4>1, <4>2, <4>3
      <3>3. \A t : InList(waiting[k], t) <=> t \in Threads /\ places'[t] = k
        BY <2>1, <3>2
      <3> QED
        BY <2>1, <3>1, <3>3 DEF ListIs
    <2> QED
      BY <2>3, <2>4
  <1>7. waiting' \in [Lists -> Seq(Threads)]
    BY <1>w
  <1>8. Listed(waiting', places')
    BY <1>6, <1>7 DEF Listed
  <1> QED
    BY <1>2, <1>3, <1>8 DEF IpcInv

EventInv ==
    /\ event_set \in SUBSET Bits /\ event_info \in [Threads -> Asks]
    /\ object = "event" =>
          \A y : InList(waiting[Receivers], y) => ~satisfied(event_info[y], event_set)

\* Nobody who waits for an event overlooks it.
LEMMA EventInvMeans == IpcInv /\ EventInv /\ object = "event" => EventNoneForgotten
  <1> SUFFICES ASSUME IpcInv, EventInv, object = "event",
                      NEW i \in DOMAIN waiting[Receivers]
               PROVE  ~satisfied(event_info[waiting[Receivers][i]], event_set)
    BY DEF EventNoneForgotten
  <1>1. waiting[Receivers] \in Seq(Threads)
    BY DEF IpcInv, Listed, Lists
  <1>2. InList(waiting[Receivers], waiting[Receivers][i])
    BY <1>1 DEF InList
  <1> QED
    BY <1>2 DEF EventInv

\* rt_event_send.
LEMMA EventSendKeeps ==
    ASSUME IpcInv, EventInv, object = "event", object' = object, NEW s \in Sets, rt_event_send(s)
    PROVE  IpcInv' /\ EventInv'
  <1>l. PICK l : l = waiting[Receivers]
    OBVIOUS
  <1>e. PICK e : e = event_set \cup s
    OBVIOUS
  <1>r. PICK r : r = scanned(e)
    OBVIOUS
  <1>n. PICK info0 : info0 = event_info
    OBVIOUS
  <1>0. /\ Receivers \in Lists /\ l \in Seq(Threads) /\ Once(l) /\ Len(l) \in Nat
        /\ e \in SUBSET Bits /\ info0 \in [Threads -> Asks]
    <2>1. Receivers \in Lists
      BY DEF Lists
    <2>2. l \in Seq(Threads) /\ Once(l)
      BY <1>l, <2>1 DEF IpcInv, Listed, ListIs
    <2> QED
      BY <1>e, <1>n, <2>1, <2>2 DEF EventInv, Sets
  <1>1. /\ event_set' = r.set /\ event_info' = r.info /\ flag' = flag
        /\ th' = [t \in Threads |->
                     IF InList(waiting[Receivers], t) /\ ~InList(r.list, t) THEN Woken(t) ELSE th[t]]
        /\ waiting' = [waiting EXCEPT ![Receivers] = r.list]
    BY <1>e, <1>r DEF rt_event_send
  <1>2. PICK f : Turns(f, Start(e), l, Len(l)) /\ r = f[Len(l)]
    BY <1>0, <1>l, <1>r, ScannedIs
  <1>p. PICK p : p = Start(e)
    OBVIOUS
  <1>3. ScanOK(p, info0, l)
    <2>1. p = [set |-> e, info |-> info0, list |-> l]
      BY <1>p, <1>l, <1>n DEF Start
    <2> QED
      BY <1>0, <2>1 DEF ScanOK, Scans
  <1>4. ScanOK(r, info0, l) /\ Seen(r, info0, l, Len(l))
    BY <1>0, <1>2, <1>p, <1>3, LoopKeeps
  <1>5. /\ r.set \in SUBSET Bits /\ r.info \in [Threads -> Asks] /\ r.list \in Seq(Threads)
        /\ Once(r.list) /\ \A y : InList(r.list, y) => InList(l, y) /\ r.info[y] = info0[y]
    BY <1>4 DEF ScanOK, Scans
  <1>6. IpcInv'
    BY <1>0, <1>1, <1>5, <1>l, SomeWoken
  <1>7. waiting'[Receivers] = r.list
    BY <1>0, <1>1 DEF IpcInv, Listed
  <1>8. ASSUME NEW y, InList(r.list, y) PROVE ~satisfied(r.info[y], r.set)
    <2>1. InList(l, y) /\ r.info[y] = info0[y]
      BY <1>5, <1>8
    <2>2. PICK j \in 1 .. Len(l) : l[j] = y
      BY <2>1 DEF InList
    <2> QED
      BY <1>4, <1>8, <2>1, <2>2 DEF Seen
  <1>9. event_set' \in SUBSET Bits /\ event_info' \in [Threads -> Asks]
    BY <1>1, <1>5
  <1>10. \A y : InList(waiting'[Receivers], y) => ~satisfied(event_info'[y], event_set')
    BY <1>1, <1>7, <1>8
  <1> QED
    BY <1>6, <1>9, <1>10 DEF EventInv

\* The calls of an event.
LEMMA EventKeeps ==
    ASSUME IpcInv, EventInv, object = "event", object' = object, EventNext
    PROVE  IpcInv' /\ EventInv'
  <1>l. Receivers \in Lists
    BY DEF Lists
  <1>0. /\ event_set \in SUBSET Bits /\ event_info \in [Threads -> Asks]
        /\ waiting[Receivers] \in Seq(Threads) /\ Once(waiting[Receivers])
        /\ \A y : InList(waiting[Receivers], y) => ~satisfied(event_info[y], event_set)
        /\ \A y : InList(waiting[Receivers], y) => y \in Threads
    BY <1>l DEF EventInv, IpcInv, Listed, ListIs
  <1>q. NoRequest \in Asks /\ \A r \in Requests : r \in Asks
    BY EventAssumption DEF NoRequest, Asks, Sets
  <1>w. ASSUME NEW t \in Threads, th[t].stat = "READY" PROVE ~InList(waiting[Receivers], t)
    <2>1. places[t] = Nowhere
      BY <1>w, PlacesAre
    <2> QED
      BY <1>l, <2>1 DEF IpcInv, Listed, ListIs, Nowhere, Lists, Receivers, Senders
  <1>1. ASSUME NEW s \in Sets, rt_event_send(s) PROVE IpcInv' /\ EventInv'
    BY <1>1, EventSendKeeps
  <1>2. CASE rt_event_reset
    <2>1. resume_all /\ event_set' = {} /\ event_info' = event_info
      BY <1>2 DEF rt_event_reset
    <2>2. IpcInv' /\ waiting'[Receivers] = << >>
      BY <1>l, <2>1, ResetKeeps
    <2>3. \A y : ~InList(waiting'[Receivers], y)
      BY <2>2, NothingListed
    <2> QED
      BY <1>0, <2>1, <2>2, <2>3 DEF EventInv
  <1>3. ASSUME NEW t \in Threads, th[t].stat = "READY", th' = Returned(t), flag' = flag,
               waiting' = waiting, event_info' = [event_info EXCEPT ![t] = NoRequest],
               event_set' = event_set
        PROVE  IpcInv' /\ EventInv'
    <2>1. IpcInv'
      BY <1>3, Returns
    <2>2. ~InList(waiting[Receivers], t)
      BY <1>3, <1>w
    <2>3. event_info' \in [Threads -> Asks] /\ \A y \in Threads : y # t => event_info'[y] = event_info[y]
      BY <1>0, <1>q, <1>3
    <2>4. \A y : InList(waiting'[Receivers], y) => ~satisfied(event_info'[y], event_set')
      BY <1>0, <1>3, <2>2, <2>3
    <2> QED
      BY <1>0, <1>3, <2>1, <2>3, <2>4 DEF EventInv
  <1>4. ASSUME NEW t \in Threads, recv_done(t) PROVE IpcInv' /\ EventInv'
    BY <1>3, <1>4 DEF recv_done, Resumed
  <1>5. ASSUME NEW t \in Threads, recv_failed(t) PROVE IpcInv' /\ EventInv'
    BY <1>3, <1>5 DEF recv_failed, gives_up, Failed
  <1>6. ASSUME NEW t \in Threads, NEW r \in Requests, recv_now(t, r) PROVE IpcInv' /\ EventInv'
    <2>1. /\ event_set' = (IF r.clear THEN event_set \ r.set ELSE event_set)
          /\ flag' = flag /\ waiting' = waiting /\ th' = th /\ event_info' = event_info
      BY <1>6 DEF recv_now
    <2>2. IpcInv'
      BY <2>1, NothingCount
    <2>3. event_set' \in SUBSET Bits /\ event_set' \subseteq event_set
      BY <1>0, <2>1
    <2>4. ASSUME NEW y, InList(waiting'[Receivers], y) PROVE ~satisfied(event_info'[y], event_set')
      <3>1. y \in Threads /\ ~satisfied(event_info[y], event_set) /\ event_info[y] \in Asks
        BY <1>0, <2>1, <2>4
      <3> QED
        BY <2>1, <2>3, <3>1, LessSatisfies
    <2> QED
      BY <1>0, <2>1, <2>2, <2>3, <2>4 DEF EventInv
  <1>7. ASSUME NEW t \in Threads, NEW r \in Requests, NEW T \in Timeouts, recv_wait(t, r, T)
        PROVE  IpcInv' /\ EventInv'
    <2>1. /\ Calls(t) /\ ~satisfied(r, event_set) /\ event_set' = event_set
          /\ event_info' = [event_info EXCEPT ![t] = r]
          /\ suspend(t, Receivers, "recv", T, Asked(T))
      BY <1>7 DEF recv_wait
    <2>2. th[t].stat = "READY"
      BY <2>1, CallerReady
    <2>3. /\ T \in Nat \/ T = Forever
          /\ Asked(T) \in Nat /\ (T # Forever => T <= Asked(T))
      BY AskedOK
    <2>4. /\ "recv" \in SendCalls \cup RecvCalls /\ "recv" \in StagesOf(object)
          /\ Receivers = IF "recv" \in SendCalls THEN Senders ELSE Receivers
      BY DEF SendCalls, RecvCalls, StagesOf
    <2>5. IpcInv' /\ waiting'[Receivers] = enqueued(waiting[Receivers], t)
      BY <1>l, <2>1, <2>2, <2>3, <2>4, Suspends
    <2>6. \A y : InList(waiting'[Receivers], y) => InList(waiting[Receivers], y) \/ y = t
      BY <1>0, <2>5, Enqueued
    <2>7. /\ event_info' \in [Threads -> Asks] /\ event_info'[t] = r
          /\ \A y \in Threads : y # t => event_info'[y] = event_info[y]
      BY <1>0, <1>q, <2>1
    <2>8. \A y : InList(waiting'[Receivers], y) => ~satisfied(event_info'[y], event_set')
      BY <1>0, <2>1, <2>6, <2>7
    <2> QED
      BY <1>0, <2>1, <2>5, <2>7, <2>8 DEF EventInv
  <1>8. ASSUME NEW t \in Threads, thread_timeout(t), UNCHANGED eventVars PROVE IpcInv' /\ EventInv'
    <2>1. IpcInv'
      BY <1>8, TimeoutKeeps
    <2>2. waiting'[Receivers] = rt_list_remove(waiting[Receivers], t)
      BY <1>8, <1>l DEF thread_timeout
    <2>3. \A y : InList(waiting'[Receivers], y) => InList(waiting[Receivers], y)
      BY <1>0, <2>2, RemovedMembers
    <2> QED
      BY <1>0, <1>8, <2>1, <2>3 DEF EventInv, eventVars
  <1>9. CASE rt_tick_increase /\ UNCHANGED eventVars
    <2>1. IpcInv' /\ waiting' = waiting
      BY <1>9, TickKeeps
    <2> QED
      BY <1>0, <1>9, <2>1 DEF EventInv, eventVars
  <1> QED
    BY <1>1, <1>2, <1>4, <1>5, <1>6, <1>7, <1>8, <1>9 DEF EventNext

-----------------------------------------------------------------------------
(* Message queues *)

\* The block i of a list of blocks, or what the last one points to.
Node(q, i) == IF i <= Len(q) THEN q[i] ELSE None

\* The blocks of q are linked in this order, and b points to the first one.
Linked(next, b, q) ==
    b = Node(q, 1) /\ \A i \in 1 .. Len(q) : next[q[i]] = Node(q, i + 1)

\* The ways of at most i links from every block, g being those of one link less.
Further(g, next, i) ==
    [x \in Link |-> IF i = 0 \/ x = None THEN << >> ELSE <<x>> \o g[next[x]]]

\* f[i] are the ways of at most i links.
Walks(f, next, n) == f = [i \in 0 .. n |-> Further(f[i - 1], next, i)]

\* Following links is well defined.
LEMMA WalksExist ==
    ASSUME NEW next, NEW n \in Nat
    PROVE  \E f : Walks(f, next, n)
  <1> DEFINE Without == {m \in Nat : ~ \E f : Walks(f, next, m)}
  <1>0. \A g, h : Further(g, next, 0) = Further(h, next, 0)
    BY DEF Further
  <1>w. Without = {}
    <2> SUFFICES ASSUME Without # {} PROVE FALSE
      OBVIOUS
    <2>1. PICK m \in Without : \A k \in Without : m <= k
      BY LeastExists
    <2>2. m \in Nat /\ ~ \E f : Walks(f, next, m)
      BY <2>1
    <2>3. m # 0
      <3>1. SUFFICES ASSUME m = 0 PROVE FALSE
        OBVIOUS
      <3> DEFINE f == [i \in 0 .. 0 |-> Further(0, next, 0)]
      <3>2. f = [i \in 0 .. 0 |-> Further(f[i - 1], next, i)]
        BY <1>0
      <3>3. Walks(f, next, 0)
        BY <3>2 DEF Walks
      <3> QED
        BY <2>2, <3>1, <3>3
    <2>4. m - 1 \in Nat /\ m - 1 \notin Without
      BY <2>1, <2>2, <2>3
    <2>5. PICK f : Walks(f, next, m - 1)
      BY <2>4
    <2> DEFINE g == [i \in 0 .. m |-> IF i < m THEN f[i] ELSE Further(f[m - 1], next, m)]
    <2>6. ASSUME NEW i \in 0 .. m PROVE g[i] = Further(g[i - 1], next, i)
      <3>1. CASE i = 0
        <4>1. g[0] = f[0] /\ f[0] = Further(f[0 - 1], next, 0)
          BY <2>2, <2>3, <2>5 DEF Walks
        <4> QED
          BY <1>0, <3>1, <4>1
      <3>2. CASE i # 0
        <4>1. i - 1 \in 0 .. m /\ i - 1 < m /\ i - 1 \in 0 .. m - 1
          BY <2>2, <3>2
        <4>2. g[i - 1] = f[i - 1]
          BY <4>1
        <4>3. CASE i = m
          BY <2>2, <4>2, <4>3
        <4>4. CASE i # m
          <5>1. g[i] = f[i] /\ i \in 0 .. m - 1
            BY <2>2, <4>4
          <5> QED
            BY <2>5, <4>2, <5>1 DEF Walks
        <4> QED
          BY <4>3, <4>4
      <3> QED
        BY <3>1, <3>2
    <2>7. g = [i \in 0 .. m |-> Further(g[i - 1], next, i)]
      <3>1. DOMAIN g = 0 .. m /\ g = [i \in 0 .. m |-> g[i]]
        OBVIOUS
      <3> HIDE DEF g
      <3> QED
        BY <2>6, <3>1
    <2>8. Walks(g, next, m)
      BY <2>7 DEF Walks
    <2> QED
      BY <2>2, <2>8
  <1> QED
    BY <1>w

\* The rest of a list is linked behind its first block.
LEMMA LinkedTail ==
    ASSUME NEW next, NEW q \in Seq(Blocks), q # << >>, NEW b, Linked(next, b, q)
    PROVE  /\ b = q[1] /\ b = Head(q) /\ b \in Blocks /\ Linked(next, next[b], Tail(q))
           /\ Tail(q) \in Seq(Blocks) /\ Len(Tail(q)) = Len(q) - 1 /\ q = <<b>> \o Tail(q)
  <1>1. Len(q) \in Nat /\ Len(q) >= 1 /\ b = q[1] /\ b = Head(q) /\ b \in Blocks
    BY DEF Linked, Node
  <1>t. PICK t : t = Tail(q)
    OBVIOUS
  <1>2. t \in Seq(Blocks) /\ Len(t) = Len(q) - 1 /\ \A i \in 1 .. Len(t) : t[i] = q[i + 1]
    BY <1>1, <1>t
  <1>3. \A i \in 1 .. Len(q) : Node(t, i) = Node(q, i + 1)
    BY <1>1, <1>2 DEF Node
  <1>4. next[b] = Node(q, 2)
    BY <1>1 DEF Linked
  <1>5. next[b] = Node(t, 1)
    BY <1>1, <1>3, <1>4
  <1>6. ASSUME NEW i \in 1 .. Len(t) PROVE next[t[i]] = Node(t, i + 1)
    <2>1. i + 1 \in 1 .. Len(q) /\ t[i] = q[i + 1]
      BY <1>1, <1>2
    <2>2. next[q[i + 1]] = Node(q, i + 1 + 1)
      BY <2>1 DEF Linked
    <2> QED
      BY <1>3, <2>1, <2>2
  <1>7. Linked(next, next[b], t)
    BY <1>5, <1>6 DEF Linked
  <1>8. q = <<b>> \o Tail(q)
    BY <1>1
  <1> QED
    BY <1>t, <1>1, <1>2, <1>7, <1>8

\* Walking finds the list.
LEMMA WalkIs ==
    ASSUME NEW next, NEW n \in Nat, NEW f, Walks(f, next, n), NEW b, NEW q \in Seq(Blocks),
           Linked(next, b, q), Len(q) <= n
    PROVE  f[n][b] = q
  <1> DEFINE Good(i) == \A r \in Seq(Blocks) : \A c : Linked(next, c, r) /\ Len(r) <= i => f[i][c] = r
             Bad == {i \in 0 .. n : ~Good(i)}
  <1>f. /\ \A x \in Link : f[0][x] = << >>
        /\ \A i \in 0 .. n : f[i][None] = << >>
        /\ \A i \in 1 .. n : \A x \in Blocks : f[i][x] = <<x>> \o f[i - 1][next[x]]
    <2>1. \A i \in 0 .. n : f[i] = Further(f[i - 1], next, i)
      BY DEF Walks
    <2>2. None \in Link /\ None \notin Blocks /\ \A x \in Blocks : x \in Link
      BY MqAssumption DEF Link, Blocks
    <2>3. ASSUME NEW g PROVE \A x \in Link : Further(g, next, 0)[x] = << >>
      BY DEF Further
    <2>4. ASSUME NEW g, NEW i PROVE Further(g, next, i)[None] = << >>
      BY <2>2 DEF Further
    <2>5. ASSUME NEW g, NEW i, i # 0 PROVE \A x \in Blocks : Further(g, next, i)[x] = <<x>> \o g[next[x]]
      BY <2>2, <2>5 DEF Further
    <2>6. \A x \in Link : f[0][x] = << >>
      BY <2>1, <2>3
    <2>7. \A i \in 0 .. n : f[i][None] = << >>
      BY <2>1, <2>4
    <2>8. ASSUME NEW i \in 1 .. n, NEW x \in Blocks PROVE f[i][x] = <<x>> \o f[i - 1][next[x]]
      <3>1. i \in 0 .. n /\ i # 0
        OBVIOUS
      <3>g. PICK g : g = f[i - 1]
        OBVIOUS
      <3>2. f[i] = Further(g, next, i)
        BY <2>1, <3>1, <3>g
      <3>3. Further(g, next, i)[x] = <<x>> \o g[next[x]]
        BY <2>5, <3>1
      <3> QED
        BY <3>2, <3>3, <3>g
    <2> QED
      BY <2>6, <2>7, <2>8
  <1>0. Good(0)
    <2> SUFFICES ASSUME NEW r \in Seq(Blocks), NEW c, Linked(next, c, r), Len(r) <= 0
                 PROVE  f[0][c] = r
      OBVIOUS
    <2>1. r = << >> /\ c = None
      BY DEF Linked, Node
    <2> QED
      BY <1>f, <2>1
  <1>1. ASSUME NEW i \in 1 .. n, Good(i - 1) PROVE Good(i)
    <2> SUFFICES ASSUME NEW r \in Seq(Blocks), NEW c, Linked(next, c, r), Len(r) <= i
                 PROVE  f[i][c] = r
      OBVIOUS
    <2>1. CASE r = << >>
      <3>1. c = None
        BY <2>1 DEF Linked, Node
      <3> QED
        BY <1>f, <2>1, <3>1
    <2>2. CASE r # << >>
      <3>1. /\ c \in Blocks /\ Linked(next, next[c], Tail(r))
            /\ Tail(r) \in Seq(Blocks) /\ Len(Tail(r)) = Len(r) - 1 /\ r = <<c>> \o Tail(r)
        BY <2>2, LinkedTail
      <3>2. Len(Tail(r)) <= i - 1
        BY <3>1
      <3>3. f[i - 1][next[c]] = Tail(r)
        BY <1>1, <3>1, <3>2
      <3> QED
        BY <1>f, <3>1, <3>3
    <2> QED
      BY <2>1, <2>2
  <1> HIDE DEF Good
  <1>2. Bad = {}
    <2> SUFFICES ASSUME Bad # {} PROVE FALSE
      OBVIOUS
    <2>0. Bad \in SUBSET Nat
      OBVIOUS
    <2>1. PICK m \in Bad : \A k \in Bad : m <= k
      BY <2>0, LeastExists
    <2>2. m \in 1 .. n
      BY <1>0, <2>1
    <2>3. Good(m - 1)
      BY <2>1, <2>2
    <2> QED
      BY <1>1, <2>1, <2>2, <2>3
  <1>3. Good(n)
    BY <1>2
  <1> QED
    BY <1>3 DEF Good

\* What chain computes from links nx.
LEMMA ChainIs ==
    ASSUME NEW q \in Seq(Blocks), Len(q) <= MqMax
    PROVE  /\ Linked(mq_next, mq_head, q) => chain(mq_head) = q
           /\ Linked(mq_next, mq_free, q) => chain(mq_free) = q
           /\ Linked(mq_next', mq_head', q) => chain(mq_head)' = q
           /\ Linked(mq_next', mq_free', q) => chain(mq_free)' = q
  <1>0. MqMax + 1 \in Nat /\ Len(q) <= MqMax + 1
    BY MqAssumption
  <1> DEFINE W(next) == CHOOSE f : f = [n \in 0 .. MqMax + 1 |->
                [x \in Link |-> IF n = 0 \/ x = None THEN << >> ELSE <<x>> \o f[n - 1][next[x]]]]
  <1>1. ASSUME NEW next PROVE Walks(W(next), next, MqMax + 1)
    <2>1. PICK f : Walks(f, next, MqMax + 1)
      BY <1>0, WalksExist
    <2>2. f = [n \in 0 .. MqMax + 1 |->
                [x \in Link |-> IF n = 0 \/ x = None THEN << >> ELSE <<x>> \o f[n - 1][next[x]]]]
      BY <2>1 DEF Walks, Further
    <2>3. W(next) = [n \in 0 .. MqMax + 1 |->
                [x \in Link |-> IF n = 0 \/ x = None THEN << >> ELSE <<x>> \o W(next)[n - 1][next[x]]]]
      BY <2>2
    <2> HIDE DEF W
    <2> QED
      BY <2>3 DEF Walks, Further
  <1>2. /\ chain(mq_head) = W(mq_next)[MqMax + 1][mq_head]
        /\ chain(mq_free) = W(mq_next)[MqMax + 1][mq_free]
    BY DEF chain
  <1>3. /\ chain(mq_head)' = W(mq_next')[MqMax + 1][mq_head']
        /\ chain(mq_free)' = W(mq_next')[MqMax + 1][mq_free']
    BY DEF chain
  <1> HIDE DEF W
  <1>4. ASSUME NEW next, NEW b, Linked(next, b, q) PROVE W(next)[MqMax + 1][b] = q
    BY <1>0, <1>1, <1>4, WalkIs
  <1> QED
    BY <1>2, <1>3, <1>4

\* Links of other blocks do not matter.
LEMMA LinkedSame ==
    ASSUME NEW next, NEW next2, NEW q \in Seq(Blocks), NEW b, Linked(next, b, q),
           \A c : InList(q, c) => next2[c] = next[c]
    PROVE  Linked(next2, b, q)
  <1>1. \A i \in 1 .. Len(q) : InList(q, q[i])
    BY DEF InList
  <1> QED
    BY <1>1 DEF Linked

\* A block in front.
LEMMA LinkedPush ==
    ASSUME NEW next, NEW q \in Seq(Blocks), NEW b, Linked(next, b, q), NEW x \in Blocks, next[x] = b
    PROVE  Linked(next, x, <<x>> \o q)
  <1>p. PICK p : p = <<x>> \o q
    OBVIOUS
  <1>1. Len(q) \in Nat /\ Len(p) = Len(q) + 1 /\ p[1] = x /\ \A i \in 1 .. Len(q) : p[i + 1] = q[i]
    BY <1>p
  <1>2. x = Node(p, 1)
    BY <1>1 DEF Node
  <1>3. \A i \in 1 .. Len(q) + 1 : Node(p, i + 1) = Node(q, i)
    BY <1>1 DEF Node
  <1>4. ASSUME NEW i \in 1 .. Len(p) PROVE next[p[i]] = Node(p, i + 1)
    <2>1. CASE i = 1
      <3>1. next[p[1]] = Node(q, 1)
        BY <1>1 DEF Linked
      <3>2. Node(p, 1 + 1) = Node(q, 1)
        BY <1>1, <1>3
      <3> QED
        BY <2>1, <3>1, <3>2
    <2>2. CASE i # 1
      <3>j. PICK j \in 1 .. Len(q) : i = j + 1
        <4>1. i - 1 \in 1 .. Len(q) /\ i = (i - 1) + 1
          BY <1>1, <2>2
        <4> QED
          BY <4>1
      <3>1. p[i] = q[j]
        BY <1>1, <3>j
      <3>2. next[q[j]] = Node(q, j + 1)
        BY DEF Linked
      <3>3. Node(p, i + 1) = Node(q, j + 1)
        BY <1>1, <1>3, <3>j
      <3> QED
        BY <3>1, <3>2, <3>3
    <2> QED
      BY <2>1, <2>2
  <1> QED
    BY <1>p, <1>2, <1>4 DEF Linked

\* The last block of a list, if there is one.
Rear(q) == IF q = << >> THEN None ELSE q[Len(q)]

\* A block behind the last one.
LEMMA LinkedAppend ==
    ASSUME NEW next, NEW next2, NEW q \in Seq(Blocks), Once(q), NEW b, Linked(next, b, q),
           NEW x \in Blocks, next2[x] = None, q # << >> => next2[q[Len(q)]] = x,
           \A c : InList(q, c) /\ c # Rear(q) => next2[c] = next[c]
    PROVE  Linked(next2, IF q = << >> THEN x ELSE b, Append(q, x))
  <1>p. PICK p : p = Append(q, x)
    OBVIOUS
  <1>1. Len(q) \in Nat /\ Len(p) = Len(q) + 1 /\ p[Len(p)] = x /\ \A i \in 1 .. Len(q) : p[i] = q[i]
    BY <1>p
  <1>2. (IF q = << >> THEN x ELSE b) = Node(p, 1)
    BY <1>1 DEF Node, Linked
  <1>3. ASSUME NEW i \in 1 .. Len(p) PROVE next2[p[i]] = Node(p, i + 1)
    <2>1. CASE i = Len(p)
      BY <1>1, <2>1 DEF Node
    <2>2. CASE i = Len(q) /\ i # Len(p)
      <3>1. q # << >> /\ p[i] = q[Len(q)]
        <4>1. i \in 1 .. Len(q) /\ Len(q) # 0
          BY <1>1, <2>2
        <4>2. p[i] = q[i]
          BY <1>1, <4>1
        <4> QED
          BY <2>2, <4>1, <4>2
      <3>2. Node(p, i + 1) = x
        BY <1>1, <2>2 DEF Node
      <3> QED
        BY <3>1, <3>2
    <2>3. CASE i < Len(q)
      <3>1. i \in 1 .. Len(q) /\ p[i] = q[i] /\ q # << >>
        BY <1>1, <2>3
      <3>2. InList(q, q[i]) /\ q[i] # Rear(q)
        <4>1. q[i] # q[Len(q)]
          BY <1>1, <2>3, <3>1 DEF Once
        <4> QED
          BY <3>1, <4>1 DEF InList, Rear
      <3>3. next2[q[i]] = next[q[i]]
        BY <3>2
      <3>4. next[q[i]] = Node(q, i + 1)
        BY <3>1 DEF Linked
      <3>5. Node(q, i + 1) = Node(p, i + 1)
        BY <1>1, <2>3 DEF Node
      <3> QED
        BY <3>1, <3>3, <3>4, <3>5
    <2> QED
      BY <1>1, <2>1, <2>2, <2>3
  <1> QED
    BY <1>p, <1>2, <1>3 DEF Linked

\* The blocks of q, the last one first, and then those of f.
Emptied(q, f) ==
    [i \in 1 .. Len(q) + Len(f) |-> IF i <= Len(q) THEN q[Len(q) + 1 - i] ELSE f[i - Len(q)]]

\* What is in it.
LEMMA EmptiedIs ==
    ASSUME NEW q \in Seq(Blocks), NEW f \in Seq(Blocks)
    PROVE  LET r == Emptied(q, f)
           IN  /\ r \in Seq(Blocks) /\ Len(r) = Len(q) + Len(f)
               /\ \A i \in 1 .. Len(q) : r[i] = q[Len(q) + 1 - i]
               /\ \A i \in 1 .. Len(f) : r[Len(q) + i] = f[i]
               /\ \A y : InList(r, y) <=> InList(q, y) \/ InList(f, y)
               /\ Once(q) /\ Once(f) /\ (\A y : ~(InList(q, y) /\ InList(f, y))) => Once(r)
  <1>r. PICK r : r = Emptied(q, f)
    OBVIOUS
  <1>0. Len(q) \in Nat /\ Len(f) \in Nat
    OBVIOUS
  <1>1. ASSUME NEW i \in 1 .. Len(q) + Len(f)
        PROVE  (IF i <= Len(q) THEN q[Len(q) + 1 - i] ELSE f[i - Len(q)]) \in Blocks
    <2>1. CASE i <= Len(q)
      <3>1. Len(q) + 1 - i \in 1 .. Len(q)
        BY <1>0, <2>1
      <3> QED
        BY <2>1, <3>1
    <2>2. CASE ~(i <= Len(q))
      <3>1. i - Len(q) \in 1 .. Len(f)
        BY <1>0, <2>2
      <3> QED
        BY <2>2, <3>1
    <2> QED
      BY <2>1, <2>2
  <1>2. r \in [1 .. Len(q) + Len(f) -> Blocks]
    BY <1>r, <1>1 DEF Emptied
  <1>3. r \in Seq(Blocks) /\ Len(r) = Len(q) + Len(f)
    BY <1>0, <1>2, PlacesMakeList
  <1>4. \A i \in 1 .. Len(q) : r[i] = q[Len(q) + 1 - i]
    BY <1>0, <1>r DEF Emptied
  <1>5. \A i \in 1 .. Len(f) : r[Len(q) + i] = f[i]
    <2> TAKE i \in 1 .. Len(f)
    <2>1. Len(q) + i \in 1 .. Len(q) + Len(f) /\ ~(Len(q) + i <= Len(q)) /\ Len(q) + i - Len(q) = i
      BY <1>0
    <2> QED
      BY <1>r, <2>1 DEF Emptied
  <1>6. ASSUME NEW y PROVE InList(r, y) <=> InList(q, y) \/ InList(f, y)
    <2>1. ASSUME InList(r, y) PROVE InList(q, y) \/ InList(f, y)
      <3>1. PICK i \in 1 .. Len(q) + Len(f) : r[i] = y
        BY <1>3, <2>1 DEF InList
      <3>2. CASE i <= Len(q)
        <4>1. Len(q) + 1 - i \in 1 .. Len(q) /\ i \in 1 .. Len(q)
          BY <1>0, <3>2
        <4> QED
          BY <1>4, <3>1, <4>1 DEF InList
      <3>3. CASE ~(i <= Len(q))
        <4>j. PICK j \in 1 .. Len(f) : i = Len(q) + j
          <5>1. i - Len(q) \in 1 .. Len(f) /\ i = Len(q) + (i - Len(q))
            BY <1>0, <3>3
          <5> QED
            BY <5>1
        <4> QED
          BY <1>5, <3>1, <4>j DEF InList
      <3> QED
        BY <3>2, <3>3
    <2>2. ASSUME InList(q, y) PROVE InList(r, y)
      <3>1. PICK j \in 1 .. Len(q) : q[j] = y
        BY <2>2 DEF InList
      <3>2. /\ Len(q) + 1 - j \in 1 .. Len(q) /\ Len(q) + 1 - j \in 1 .. Len(r)
            /\ Len(q) + 1 - (Len(q) + 1 - j) = j
        BY <1>0, <1>3
      <3>3. r[Len(q) + 1 - j] = q[j]
        BY <1>4, <3>2
      <3> QED
        BY <3>1, <3>2, <3>3 DEF InList
    <2>3. ASSUME InList(f, y) PROVE InList(r, y)
      <3>1. PICK j \in 1 .. Len(f) : f[j] = y
        BY <2>3 DEF InList
      <3>2. Len(q) + j \in 1 .. Len(r)
        BY <1>0, <1>3
      <3> QED
        BY <1>5, <3>1, <3>2 DEF InList
    <2> QED
      BY <2>1, <2>2, <2>3
  <1>7. ASSUME Once(q), Once(f), \A y : ~(InList(q, y) /\ InList(f, y)) PROVE Once(r)
    <2> SUFFICES ASSUME NEW i \in 1 .. Len(r), NEW j \in 1 .. Len(r), r[i] = r[j] PROVE i = j
      BY DEF Once
    <2>q. ASSUME NEW k \in 1 .. Len(r), k <= Len(q)
          PROVE  Len(q) + 1 - k \in 1 .. Len(q) /\ r[k] = q[Len(q) + 1 - k] /\ InList(q, r[k])
      <3>1. k \in 1 .. Len(q) /\ Len(q) + 1 - k \in 1 .. Len(q)
        BY <1>0, <2>q
      <3> QED
        BY <1>4, <3>1 DEF InList
    <2>f. ASSUME NEW k \in 1 .. Len(r), ~(k <= Len(q))
          PROVE  k - Len(q) \in 1 .. Len(f) /\ r[k] = f[k - Len(q)] /\ InList(f, r[k])
      <3>1. k - Len(q) \in 1 .. Len(f) /\ k = Len(q) + (k - Len(q))
        BY <1>0, <1>3, <2>f
      <3>2. r[k] = f[k - Len(q)]
        BY <1>5, <3>1
      <3> QED
        BY <3>1, <3>2 DEF InList
    <2>1. CASE i <= Len(q) /\ j <= Len(q)
      <3>1. Len(q) + 1 - i = Len(q) + 1 - j
        BY <1>7, <2>q, <2>1 DEF Once
      <3> QED
        BY <1>0, <1>3, <3>1
    <2>2. CASE ~(i <= Len(q)) /\ ~(j <= Len(q))
      <3>1. i - Len(q) = j - Len(q)
        BY <1>7, <2>f, <2>2 DEF Once
      <3> QED
        BY <1>0, <1>3, <3>1
    <2>3. CASE (i <= Len(q)) # (j <= Len(q))
      BY <1>7, <2>q, <2>f, <2>3
    <2> QED
      BY <2>1, <2>2, <2>3
  <1> QED
    BY <1>r, <1>3, <1>4, <1>5, <1>6, <1>7

\* rt_mq_control links the blocks of the queue into the free list one after the other.
Unchained(next2, next, q, free) ==
    /\ \A i \in 1 .. Len(q) : next2[q[i]] = IF i = 1 THEN free ELSE q[i - 1]
    /\ \A c \in Blocks : ~InList(q, c) => next2[c] = next[c]

\* So they are in front of it, the last one first.
LEMMA LinkedEmptied ==
    ASSUME NEW next, NEW next2, NEW q \in Seq(Blocks), NEW f \in Seq(Blocks), NEW free,
           Linked(next, free, f), \A y : ~(InList(q, y) /\ InList(f, y)),
           Unchained(next2, next, q, free)
    PROVE  Linked(next2, IF q = << >> THEN free ELSE q[Len(q)], Emptied(q, f))
  <1>r. PICK r : r = Emptied(q, f)
    OBVIOUS
  <1>0. Len(q) \in Nat /\ Len(f) \in Nat /\ (q = << >> <=> Len(q) = 0)
    OBVIOUS
  <1>1. /\ Len(r) = Len(q) + Len(f)
        /\ \A i \in 1 .. Len(q) : r[i] = q[Len(q) + 1 - i]
        /\ \A i \in 1 .. Len(f) : r[Len(q) + i] = f[i]
    <2>1. /\ Len(Emptied(q, f)) = Len(q) + Len(f)
          /\ \A i \in 1 .. Len(q) : Emptied(q, f)[i] = q[Len(q) + 1 - i]
          /\ \A i \in 1 .. Len(f) : Emptied(q, f)[Len(q) + i] = f[i]
      BY EmptiedIs, Zenon
    <2> QED
      BY <1>r, <2>1, Zenon
  <1>2. ASSUME NEW i \in 1 .. Len(f) + 1 PROVE Node(r, Len(q) + i) = Node(f, i)
    <2>1. CASE i <= Len(f)
      <3>1. Len(q) + i <= Len(r) /\ i \in 1 .. Len(f)
        BY <1>0, <1>1, <2>1
      <3> QED
        BY <1>1, <2>1, <3>1 DEF Node
    <2>2. CASE ~(i <= Len(f))
      <3>1. ~(Len(q) + i <= Len(r))
        BY <1>0, <1>1, <2>2
      <3> QED
        BY <2>2, <3>1 DEF Node
    <2> QED
      BY <2>1, <2>2
  <1>3. free = Node(r, Len(q) + 1)
    BY <1>0, <1>2 DEF Linked
  <1>4. (IF q = << >> THEN free ELSE q[Len(q)]) = Node(r, 1)
    <2>1. CASE q = << >>
      BY <1>0, <1>3, <2>1
    <2>2. CASE q # << >>
      <3>1. 1 \in 1 .. Len(q) /\ 1 <= Len(r) /\ Len(q) + 1 - 1 = Len(q)
        BY <1>0, <1>1, <2>2
      <3>2. r[1] = q[Len(q)]
        BY <1>1, <3>1
      <3> QED
        BY <2>2, <3>1, <3>2 DEF Node
    <2> QED
      BY <2>1, <2>2
  <1>5. ASSUME NEW i \in 1 .. Len(r) PROVE next2[r[i]] = Node(r, i + 1)
    <2>1. CASE i <= Len(q)
      <3>j. PICK j \in 1 .. Len(q) : j = Len(q) + 1 - i
        <4>1. Len(q) + 1 - i \in 1 .. Len(q)
          BY <1>0, <2>1
        <4> QED
          BY <4>1
      <3>1. r[i] = q[j]
        BY <1>0, <1>1, <2>1, <3>j
      <3>2. CASE j = 1
        <4>1. i = Len(q)
          BY <1>0, <3>j, <3>2
        <4> QED
          BY <1>3, <3>1, <3>2, <4>1 DEF Unchained
      <3>3. CASE j # 1
        <4>1. /\ i + 1 \in 1 .. Len(q) /\ Len(q) + 1 - (i + 1) = j - 1 /\ i + 1 <= Len(r)
          BY <1>0, <1>1, <3>j, <3>3
        <4>2. r[i + 1] = q[j - 1]
          BY <1>1, <4>1
        <4>3. next2[q[j]] = q[j - 1]
          BY <3>3 DEF Unchained
        <4> QED
          BY <3>1, <4>1, <4>2, <4>3 DEF Node
      <3> QED
        BY <3>2, <3>3
    <2>2. CASE ~(i <= Len(q))
      <3>j. PICK j \in 1 .. Len(f) : i = Len(q) + j
        <4>1. i - Len(q) \in 1 .. Len(f) /\ i = Len(q) + (i - Len(q))
          BY <1>0, <1>1, <2>2
        <4> QED
          BY <4>1
      <3>1. r[i] = f[j] /\ InList(f, f[j]) /\ f[j] \in Blocks
        BY <1>1, <3>j DEF InList
      <3>2. ~InList(q, f[j])
        BY <3>1
      <3>3. next2[f[j]] = next[f[j]]
        BY <3>1, <3>2 DEF Unchained
      <3>4. next[f[j]] = Node(f, j + 1)
        BY DEF Linked
      <3>5. Node(r, Len(q) + (j + 1)) = Node(f, j + 1)
        BY <1>0, <1>2
      <3>6. Len(q) + (j + 1) = i + 1
        BY <1>0, <3>j
      <3> QED
        BY <3>1, <3>3, <3>4, <3>5, <3>6
    <2> QED
      BY <2>1, <2>2
  <1> QED
    BY <1>r, <1>4, <1>5 DEF Linked

\* Somebody copies to or from block b.
HeldBy(hand, b) == \E t \in Threads : hand[t] = b

HandsOf(hand) == {t \in Threads : hand[t] # None}

OnePlace(b, x, y, hand) ==
    /\ InList(x, b) \/ InList(y, b) \/ HeldBy(hand, b)
    /\ ~(InList(x, b) /\ InList(y, b))
    /\ ~(InList(x, b) /\ HeldBy(hand, b))
    /\ ~(InList(y, b) /\ HeldBy(hand, b))

\* Every block is in list x, in list y or with one thread.
Shared(x, y, hand) ==
    /\ hand \in [Threads -> Link]
    /\ \A b \in Blocks : OnePlace(b, x, y, hand)
    /\ \A t, u \in Threads : hand[t] = hand[u] /\ hand[t] # None => t = u
    /\ Len(x) + Len(y) + Cardinality(HandsOf(hand)) = MqMax

\* The number of blocks with threads.
LEMMA HandsCounted ==
    ASSUME NEW hand \in [Threads -> Link]
    PROVE  IsFiniteSet(HandsOf(hand)) /\ Cardinality(HandsOf(hand)) \in Nat
  <1>1. HandsOf(hand) \subseteq Threads
    BY DEF HandsOf
  <1> QED
    BY <1>1, IpcConstants, FS_Subset, FS_CardinalityType

\* It does not matter which list is named first.
LEMMA SharedSwaps ==
    ASSUME NEW x \in Seq(Blocks), NEW y \in Seq(Blocks), NEW hand, Shared(x, y, hand)
    PROVE  Shared(y, x, hand)
  <1>1. hand \in [Threads -> Link]
    BY DEF Shared
  <1>2. PICK n \in Nat : n = Cardinality(HandsOf(hand))
    BY <1>1, HandsCounted
  <1>3. Len(x) \in Nat /\ Len(y) \in Nat /\ Len(x) + Len(y) + n = MqMax
    BY <1>2 DEF Shared
  <1>4. Len(y) + Len(x) + n = MqMax
    BY <1>3
  <1>5. \A b \in Blocks : OnePlace(b, y, x, hand)
    BY DEF Shared, OnePlace
  <1> QED
    BY <1>2, <1>4, <1>5 DEF Shared

\* A thread takes the first block of a list.
LEMMA SharedOut ==
    ASSUME NEW x \in Seq(Blocks), NEW y \in Seq(Blocks), NEW hand, Shared(x, y, hand), Once(x),
           x # << >>, NEW t \in Threads, hand[t] = None, NEW hand2,
           hand2 = [hand EXCEPT ![t] = Head(x)]
    PROVE  Shared(Tail(x), y, hand2)
  <1>h. PICK h : h = Head(x)
    OBVIOUS
  <1>r. PICK r : r = Tail(x)
    OBVIOUS
  <1>0. /\ h \in Blocks /\ r \in Seq(Blocks) /\ InList(x, h)
        /\ \A c : InList(x, c) <=> InList(r, c) \/ c = h
        /\ ~InList(r, h)
    BY <1>h, <1>r, TailOf
  <1>1. Len(x) \in Nat /\ Len(y) \in Nat /\ Len(r) \in Nat /\ Len(r) = Len(x) - 1
    BY <1>r
  <1>2. hand \in [Threads -> Link] /\ None \notin Blocks /\ h \in Link /\ h # None
    BY <1>0, MqAssumption DEF Shared, Link, Blocks
  <1>3. /\ hand2 \in [Threads -> Link] /\ hand2[t] = h /\ \A u \in Threads : u # t => hand2[u] = hand[u]
    BY <1>h, <1>2
  <1>4. \A c \in Blocks : HeldBy(hand2, c) <=> HeldBy(hand, c) \/ c = h
    BY <1>2, <1>3 DEF HeldBy
  <1>5. ASSUME NEW c \in Blocks PROVE OnePlace(c, r, y, hand2)
    <2>1. OnePlace(c, x, y, hand) /\ OnePlace(h, x, y, hand)
      BY <1>0 DEF Shared
    <2> QED
      BY <1>0, <1>4, <2>1 DEF OnePlace
  <1>6. ~HeldBy(hand, h)
    BY <1>0 DEF Shared, OnePlace
  <1>7. ASSUME NEW u \in Threads, NEW v \in Threads, hand2[u] = hand2[v], hand2[u] # None PROVE u = v
    BY <1>3, <1>6, <1>7 DEF Shared, HeldBy
  <1>8. HandsOf(hand2) = HandsOf(hand) \cup {t} /\ t \notin HandsOf(hand)
    BY <1>2, <1>3 DEF HandsOf
  <1>9. PICK n \in Nat : n = Cardinality(HandsOf(hand))
    BY <1>2, HandsCounted
  <1>10. Cardinality(HandsOf(hand2)) = n + 1
    BY <1>2, <1>8, <1>9, HandsCounted, FS_AddElement
  <1>11. Len(x) + Len(y) + n = MqMax
    BY <1>9 DEF Shared
  <1>12. Len(r) + Len(y) + (n + 1) = MqMax
    BY <1>1, <1>11
  <1> QED
    BY <1>r, <1>3, <1>5, <1>7, <1>10, <1>12 DEF Shared

\* A thread puts its block into a list.
LEMMA SharedIn ==
    ASSUME NEW x \in Seq(Blocks), NEW y \in Seq(Blocks), NEW hand, Shared(x, y, hand),
           NEW t \in Threads, NEW b, b = hand[t], b # None, NEW hand2,
           hand2 = [hand EXCEPT ![t] = None], NEW r \in Seq(Blocks), Len(r) = Len(x) + 1,
           \A c : InList(r, c) <=> InList(x, c) \/ c = b
    PROVE  Shared(r, y, hand2)
  <1>1. Len(x) \in Nat /\ Len(y) \in Nat /\ Len(r) \in Nat
    OBVIOUS
  <1>2. /\ hand \in [Threads -> Link] /\ None \notin Blocks /\ b \in Blocks /\ None \in Link
    BY MqAssumption DEF Shared, Link, Blocks
  <1>3. /\ hand2 \in [Threads -> Link] /\ hand2[t] = None /\ \A u \in Threads : u # t => hand2[u] = hand[u]
    BY <1>2
  <1>4. \A c \in Blocks : HeldBy(hand2, c) <=> HeldBy(hand, c) /\ c # b
    <2>1. \A u \in Threads : hand[u] = b => u = t
      BY DEF Shared
    <2> QED
      BY <1>2, <1>3, <2>1 DEF HeldBy
  <1>5. ASSUME NEW c \in Blocks PROVE OnePlace(c, r, y, hand2)
    <2>1. OnePlace(c, x, y, hand) /\ OnePlace(b, x, y, hand) /\ HeldBy(hand, b)
      BY <1>2 DEF Shared, HeldBy
    <2> QED
      BY <1>4, <2>1 DEF OnePlace
  <1>7. ASSUME NEW u \in Threads, NEW v \in Threads, hand2[u] = hand2[v], hand2[u] # None PROVE u = v
    BY <1>3, <1>7 DEF Shared
  <1>8. HandsOf(hand2) = HandsOf(hand) \ {t} /\ t \in HandsOf(hand)
    BY <1>2, <1>3 DEF HandsOf
  <1>9. PICK n \in Nat : n = Cardinality(HandsOf(hand))
    BY <1>2, HandsCounted
  <1>10. Cardinality(HandsOf(hand2)) = n - 1
    BY <1>2, <1>8, <1>9, HandsCounted, FS_RemoveElement
  <1>11. Len(x) + Len(y) + n = MqMax
    BY <1>9 DEF Shared
  <1>12. Len(r) + Len(y) + (n - 1) = MqMax
    BY <1>1, <1>11
  <1> QED
    BY <1>3, <1>5, <1>7, <1>10, <1>12 DEF Shared

\* A block that a thread has is in no list.
LEMMA HandApart ==
    ASSUME NEW x, NEW y, NEW hand, Shared(x, y, hand), NEW t \in Threads, hand[t] # None
    PROVE  hand[t] \in Blocks /\ ~InList(x, hand[t]) /\ ~InList(y, hand[t])
  <1>1. hand[t] \in Blocks
    BY DEF Shared, Link
  <1>2. HeldBy(hand, hand[t])
    BY DEF HeldBy
  <1> QED
    BY <1>1, <1>2 DEF Shared, OnePlace

\* The blocks of one list go to the other one.
LEMMA SharedOver ==
    ASSUME NEW x \in Seq(Blocks), NEW y \in Seq(Blocks), NEW hand, Shared(x, y, hand),
           NEW r \in Seq(Blocks), Len(r) = Len(x) + Len(y),
           \A c : InList(r, c) <=> InList(x, c) \/ InList(y, c)
    PROVE  Shared(<< >>, r, hand)
  <1>1. hand \in [Threads -> Link]
    BY DEF Shared
  <1>2. PICK n \in Nat : n = Cardinality(HandsOf(hand))
    BY <1>1, HandsCounted
  <1>3. Len(x) \in Nat /\ Len(y) \in Nat /\ Len(x) + Len(y) + n = MqMax
    BY <1>2 DEF Shared
  <1>4. Len(<< >>) + Len(r) + n = MqMax
    BY <1>3
  <1>5. ASSUME NEW c \in Blocks PROVE OnePlace(c, << >>, r, hand)
    <2>1. OnePlace(c, x, y, hand) /\ ~InList(<< >>, c)
      BY NothingListed DEF Shared
    <2> QED
      BY <2>1 DEF OnePlace
  <1> QED
    BY <1>1, <1>2, <1>4, <1>5 DEF Shared

\* Why a message queue keeps its blocks: q and f are the queue and the free list.
MqShape(q, f) ==
    /\ mq_next \in [Blocks -> Link] /\ mq_data \in [Blocks -> Threads \cup {None}]
    /\ q \in Seq(Blocks) /\ f \in Seq(Blocks) /\ Once(q) /\ Once(f)
    /\ Linked(mq_next, mq_head, q) /\ Linked(mq_next, mq_free, f)
    /\ mq_tail = Rear(q) /\ mq_entry = Len(q)
    /\ Shared(q, f, mq_hand)
    /\ \A i \in 1 .. Len(q) : mq_data[q[i]] \in Threads

\* The stages in which a thread copies to or from a block, without the lock.
CopyStages == {"fill", "fill_urgent", "drain"}

\* Block h is with the thread r exactly while it copies; a block that will be the last
\* one points nowhere.
HandOK(r, h, next) ==
    /\ h # None <=> r.pc \in CopyStages
    /\ r.pc \in CopyStages => r.error = "EOK"
    /\ r.pc = "fill" => next[h] = None

MqThreads(q, f) ==
    /\ \A t \in Threads : HandOK(th[t], mq_hand[t], mq_next)
    /\ waiting[Receivers] # << >> => Len(q) <= Count("mq_recv")
    /\ waiting[Senders] # << >> => Len(f) <= Count("mq_send")

MqInv == \E q, f : MqShape(q, f) /\ (object = "msgqueue" => MqThreads(q, f))

MqStep == IpcInv' /\ MqInv' /\ [MqQueue!Next]_MqContents

\* What the blocks of q say.
Contents(data, q) == [i \in 1 .. Len(q) |-> data[q[i]]]

\* chain finds the queue and the free list.
LEMMA MqShapeMeans ==
    ASSUME NEW q, NEW f
    PROVE  /\ MqShape(q, f) => /\ chain(mq_head) = q /\ chain(mq_free) = f
                               /\ MqContents = Contents(mq_data, q)
           /\ MqShape(q, f)' => /\ chain(mq_head)' = q /\ chain(mq_free)' = f
                                /\ MqContents' = Contents(mq_data', q)
  <1>1. ASSUME NEW x \in Seq(Blocks), NEW y \in Seq(Blocks), NEW hand, Shared(x, y, hand)
        PROVE  Len(x) <= MqMax /\ Len(y) <= MqMax
    <2>1. hand \in [Threads -> Link]
      BY <1>1 DEF Shared
    <2>2. PICK n \in Nat : n = Cardinality(HandsOf(hand))
      BY <2>1, HandsCounted
    <2>3. Len(x) \in Nat /\ Len(y) \in Nat /\ Len(x) + Len(y) + n = MqMax
      BY <1>1, <2>2 DEF Shared
    <2> QED
      BY <2>3
  <1>2. ASSUME MqShape(q, f)
        PROVE  chain(mq_head) = q /\ chain(mq_free) = f /\ MqContents = Contents(mq_data, q)
    <2>1. /\ q \in Seq(Blocks) /\ f \in Seq(Blocks) /\ Shared(q, f, mq_hand)
          /\ Linked(mq_next, mq_head, q) /\ Linked(mq_next, mq_free, f)
      BY <1>2 DEF MqShape
    <2>2. chain(mq_head) = q /\ chain(mq_free) = f
      BY <1>1, <2>1, ChainIs
    <2>3. DOMAIN q = 1 .. Len(q)
      BY <2>1
    <2> QED
      BY <2>2, <2>3 DEF MqContents, Contents
  <1>3. ASSUME MqShape(q, f)'
        PROVE  chain(mq_head)' = q /\ chain(mq_free)' = f /\ MqContents' = Contents(mq_data', q)
    <2>1. /\ q \in Seq(Blocks) /\ f \in Seq(Blocks) /\ Shared(q, f, mq_hand')
          /\ Linked(mq_next', mq_head', q) /\ Linked(mq_next', mq_free', f)
      BY <1>3 DEF MqShape
    <2>2. chain(mq_head)' = q /\ chain(mq_free)' = f
      BY <1>1, <2>1, ChainIs
    <2>3. DOMAIN q = 1 .. Len(q)
      BY <2>1
    <2> QED
      BY <2>2, <2>3 DEF MqContents, Contents
  <1> QED
    BY <1>2, <1>3

\* The blocks and the sleepers.
LEMMA MqInvMeans == MqInv => MqBlocksKept /\ (object = "msgqueue" => MqNoneForgotten)
  <1> SUFFICES ASSUME NEW q, NEW f, MqShape(q, f), object = "msgqueue" => MqThreads(q, f)
               PROVE  MqBlocksKept /\ (object = "msgqueue" => MqNoneForgotten)
    BY DEF MqInv
  <1>1. chain(mq_head) = q /\ chain(mq_free) = f
    BY MqShapeMeans
  <1>2. Len(q) = mq_entry /\ mq_tail = IF q = << >> THEN None ELSE q[Len(q)]
    BY DEF MqShape, Rear
  <1>3. Len(q) + Len(f) + Cardinality({t \in Threads : mq_hand[t] # None}) = MqMax
    BY DEF MqShape, Shared, HandsOf
  <1>4. \A b \in Blocks : \/ InList(q, b) \/ InList(f, b)
                          \/ \E t \in {u \in Threads : mq_hand[u] # None} : mq_hand[t] = b
    <2>1. \A b \in Blocks : InList(q, b) \/ InList(f, b) \/ HeldBy(mq_hand, b)
      BY DEF MqShape, Shared, OnePlace
    <2>2. None \notin Blocks
      BY MqAssumption DEF Blocks
    <2> QED
      BY <2>1, <2>2 DEF HeldBy
  <1>5. MqBlocksKept
    BY <1>1, <1>2, <1>3, <1>4 DEF MqBlocksKept
  <1>6. object = "msgqueue" => MqNoneForgotten
    BY <1>1, <1>2 DEF MqThreads, MqNoneForgotten, Count
  <1> QED
    BY <1>5, <1>6

\* What is written into a block that is not in q.
LEMMA ContentsAre ==
    ASSUME NEW q \in Seq(Blocks), NEW data \in [Blocks -> Threads \cup {None}],
           \A i \in 1 .. Len(q) : data[q[i]] \in Threads
    PROVE  /\ Contents(data, q) \in Seq(Threads) /\ Len(Contents(data, q)) = Len(q)
           /\ \A i \in 1 .. Len(q) : Contents(data, q)[i] = data[q[i]]
  <1>1. Contents(data, q) \in [1 .. Len(q) -> Threads]
    BY DEF Contents
  <1>n. Len(q) \in Nat
    OBVIOUS
  <1>2. Contents(data, q) \in Seq(Threads) /\ Len(Contents(data, q)) = Len(q)
    BY <1>n, <1>1, PlacesMakeList
  <1> QED
    BY <1>2 DEF Contents

\* The first message is taken.
LEMMA ContentsTail ==
    ASSUME NEW q \in Seq(Blocks), NEW data \in [Blocks -> Threads \cup {None}], q # << >>,
           \A i \in 1 .. Len(q) : data[q[i]] \in Threads
    PROVE  /\ Contents(data, Tail(q)) = Tail(Contents(data, q)) /\ Contents(data, q) # << >>
           /\ \A i \in 1 .. Len(Tail(q)) : data[Tail(q)[i]] \in Threads
  <1>r. PICK r : r = Tail(q)
    OBVIOUS
  <1>1. Len(q) \in Nat /\ r \in Seq(Blocks) /\ Len(r) = Len(q) - 1 /\ \A i \in 1 .. Len(r) : r[i] = q[i + 1]
    BY <1>r
  <1>2. \A i \in 1 .. Len(r) : i + 1 \in 1 .. Len(q)
    BY <1>1
  <1>3. \A i \in 1 .. Len(r) : data[r[i]] \in Threads
    BY <1>1, <1>2
  <1>c. PICK c : c = Contents(data, q)
    OBVIOUS
  <1>d. PICK d : d = Contents(data, r)
    OBVIOUS
  <1>4. c \in Seq(Threads) /\ Len(c) = Len(q) /\ \A i \in 1 .. Len(q) : c[i] = data[q[i]]
    BY <1>c, ContentsAre
  <1>5. d \in Seq(Threads) /\ Len(d) = Len(r) /\ \A i \in 1 .. Len(r) : d[i] = data[r[i]]
    BY <1>d, <1>1, <1>3, ContentsAre
  <1>6. c # << >> /\ Len(q) >= 1
    BY <1>1, <1>4
  <1>7. /\ Tail(c) \in Seq(Threads) /\ Len(Tail(c)) = Len(c) - 1
        /\ \A i \in 1 .. Len(c) - 1 : Tail(c)[i] = c[i + 1]
    BY <1>4, <1>6
  <1>8. \A i \in 1 .. Len(d) : d[i] = Tail(c)[i]
    BY <1>1, <1>2, <1>4, <1>5, <1>7
  <1>9. Len(d) = Len(Tail(c))
    BY <1>1, <1>4, <1>5, <1>7
  <1>10. d = Tail(c)
    BY <1>5, <1>7, <1>8, <1>9, SeqEqual
  <1>11. Contents(data, Tail(q)) = Tail(Contents(data, q)) /\ Contents(data, q) # << >>
    BY <1>r, <1>c, <1>d, <1>6, <1>10
  <1> QED
    BY <1>r, <1>3, <1>11

\* Thread v has written block b, which was not in q.
Wrote(data2, data, b, v) == data2 = [data EXCEPT ![b] = v]

\* A message at the end and one at the front.
LEMMA ContentsMore ==
    ASSUME NEW q \in Seq(Blocks), NEW data \in [Blocks -> Threads \cup {None}], NEW b \in Blocks,
           ~InList(q, b), NEW v \in Threads, NEW data2, Wrote(data2, data, b, v),
           \A i \in 1 .. Len(q) : data[q[i]] \in Threads
    PROVE  /\ data2 \in [Blocks -> Threads \cup {None}]
           /\ Contents(data2, Append(q, b)) = Append(Contents(data, q), v)
           /\ Contents(data2, <<b>> \o q) = <<v>> \o Contents(data, q)
           /\ \A i \in 1 .. Len(Append(q, b)) : data2[Append(q, b)[i]] \in Threads
           /\ \A i \in 1 .. Len(<<b>> \o q) : data2[(<<b>> \o q)[i]] \in Threads
  <1>1. /\ data2 \in [Blocks -> Threads \cup {None}] /\ data2[b] = v
        /\ \A c \in Blocks : c # b => data2[c] = data[c]
    BY DEF Wrote
  <1>n. Len(q) \in Nat /\ \A i \in 1 .. Len(q) : q[i] \in Blocks /\ q[i] # b
    BY DEF InList
  <1>2. \A i \in 1 .. Len(q) : data2[q[i]] = data[q[i]]
    BY <1>1, <1>n
  <1>a. PICK a : a = Append(q, b)
    OBVIOUS
  <1>p. PICK p : p = <<b>> \o q
    OBVIOUS
  <1>3. /\ a \in Seq(Blocks) /\ Len(a) = Len(q) + 1 /\ a[Len(q) + 1] = b
        /\ \A i \in 1 .. Len(q) : a[i] = q[i]
    BY <1>a
  <1>4. /\ p \in Seq(Blocks) /\ Len(p) = Len(q) + 1 /\ p[1] = b
        /\ \A i \in 2 .. Len(q) + 1 : p[i] = q[i - 1]
    BY <1>p
  <1>5. ASSUME NEW i \in 1 .. Len(a) PROVE data2[a[i]] = IF i = Len(q) + 1 THEN v ELSE data[q[i]]
    <2>1. CASE i = Len(q) + 1
      BY <1>1, <1>3, <2>1
    <2>2. CASE i # Len(q) + 1
      <3>1. i \in 1 .. Len(q)
        BY <1>n, <1>3, <2>2
      <3> QED
        BY <1>2, <1>3, <2>2, <3>1
    <2> QED
      BY <2>1, <2>2
  <1>6. ASSUME NEW i \in 1 .. Len(p) PROVE data2[p[i]] = IF i = 1 THEN v ELSE data[q[i - 1]]
    <2>1. CASE i = 1
      BY <1>1, <1>4, <2>1
    <2>2. CASE i # 1
      <3>1. i \in 2 .. Len(q) + 1 /\ i - 1 \in 1 .. Len(q)
        BY <1>n, <1>4, <2>2
      <3> QED
        BY <1>2, <1>4, <2>2, <3>1
    <2> QED
      BY <2>1, <2>2
  <1>7. \A i \in 1 .. Len(a) : data2[a[i]] \in Threads
    <2> TAKE i \in 1 .. Len(a)
    <2>1. i # Len(q) + 1 => i \in 1 .. Len(q)
      BY <1>n, <1>3
    <2> QED
      BY <1>5, <2>1
  <1>8. \A i \in 1 .. Len(p) : data2[p[i]] \in Threads
    <2> TAKE i \in 1 .. Len(p)
    <2>1. i # 1 => i - 1 \in 1 .. Len(q)
      BY <1>n, <1>4
    <2> QED
      BY <1>6, <2>1
  <1>c. PICK c : c = Contents(data, q)
    OBVIOUS
  <1>d. PICK d : d = Contents(data2, a)
    OBVIOUS
  <1>e. PICK e : e = Contents(data2, p)
    OBVIOUS
  <1>9. c \in Seq(Threads) /\ Len(c) = Len(q) /\ \A i \in 1 .. Len(q) : c[i] = data[q[i]]
    BY <1>c, ContentsAre
  <1>10. d \in Seq(Threads) /\ Len(d) = Len(a) /\ \A i \in 1 .. Len(a) : d[i] = data2[a[i]]
    BY <1>d, <1>1, <1>3, <1>7, ContentsAre
  <1>11. e \in Seq(Threads) /\ Len(e) = Len(p) /\ \A i \in 1 .. Len(p) : e[i] = data2[p[i]]
    BY <1>e, <1>1, <1>4, <1>8, ContentsAre
  <1>12. d = Append(c, v)
    <2>1. /\ Append(c, v) \in Seq(Threads) /\ Len(Append(c, v)) = Len(c) + 1
          /\ Append(c, v)[Len(c) + 1] = v /\ \A i \in 1 .. Len(c) : Append(c, v)[i] = c[i]
      BY <1>9
    <2>2. ASSUME NEW i \in 1 .. Len(d) PROVE d[i] = Append(c, v)[i]
      <3>1. d[i] = IF i = Len(q) + 1 THEN v ELSE data[q[i]]
        BY <1>5, <1>10
      <3>2. i # Len(q) + 1 => i \in 1 .. Len(q)
        BY <1>n, <1>3, <1>10
      <3> QED
        BY <1>9, <2>1, <3>1, <3>2
    <2>3. Len(d) = Len(Append(c, v))
      BY <1>3, <1>9, <1>10, <2>1
    <2> QED
      BY <1>10, <2>1, <2>2, <2>3, SeqEqual
  <1>13. e = <<v>> \o c
    <2>1. /\ <<v>> \o c \in Seq(Threads) /\ Len(<<v>> \o c) = Len(c) + 1
          /\ (<<v>> \o c)[1] = v /\ \A i \in 2 .. Len(c) + 1 : (<<v>> \o c)[i] = c[i - 1]
      BY <1>9
    <2>2. ASSUME NEW i \in 1 .. Len(e) PROVE e[i] = (<<v>> \o c)[i]
      <3>1. e[i] = IF i = 1 THEN v ELSE data[q[i - 1]]
        BY <1>6, <1>11
      <3>2. i # 1 => i - 1 \in 1 .. Len(q) /\ i \in 2 .. Len(q) + 1
        BY <1>n, <1>4, <1>11
      <3> QED
        BY <1>9, <2>1, <3>1, <3>2
    <2>3. Len(e) = Len(<<v>> \o c)
      BY <1>4, <1>9, <1>11, <2>1
    <2> QED
      BY <1>11, <2>1, <2>2, <2>3, SeqEqual
  <1> QED
    BY <1>1, <1>a, <1>p, <1>c, <1>d, <1>e, <1>7, <1>8, <1>12, <1>13

\* Every block of q holds a message.
Written(data, q) ==
    data \in [Blocks -> Threads \cup {None}] /\ \A i \in 1 .. Len(q) : data[q[i]] \in Threads

\* r is q with b at the end, or with b in front.
Extends(r, q, b, atEnd) == r = IF atEnd THEN Append(q, b) ELSE <<b>> \o q

\* A message more, in those terms.
LEMMA WrittenMore ==
    ASSUME NEW q \in Seq(Blocks), NEW data, Written(data, q), NEW b \in Blocks, ~InList(q, b),
           NEW v \in Threads, NEW data2, Wrote(data2, data, b, v), NEW r, NEW atEnd \in BOOLEAN,
           Extends(r, q, b, atEnd)
    PROVE  Written(data2, r) /\ Extends(Contents(data2, r), Contents(data, q), v, atEnd)
  <1>1. data \in [Blocks -> Threads \cup {None}] /\ \A i \in 1 .. Len(q) : data[q[i]] \in Threads
    BY DEF Written
  <1>2. /\ data2 \in [Blocks -> Threads \cup {None}]
        /\ Contents(data2, Append(q, b)) = Append(Contents(data, q), v)
        /\ Contents(data2, <<b>> \o q) = <<v>> \o Contents(data, q)
        /\ \A i \in 1 .. Len(Append(q, b)) : data2[Append(q, b)[i]] \in Threads
        /\ \A i \in 1 .. Len(<<b>> \o q) : data2[(<<b>> \o q)[i]] \in Threads
    BY <1>1, ContentsMore
  <1>3. CASE atEnd
    <2>1. r = Append(q, b)
      BY <1>3 DEF Extends
    <2> QED
      BY <1>2, <1>3, <2>1, Zenon DEF Written, Extends
  <1>4. CASE ~atEnd
    <2>1. r = <<b>> \o q
      BY <1>4 DEF Extends
    <2> QED
      BY <1>2, <1>4, <2>1, Zenon DEF Written, Extends
  <1> QED
    BY <1>3, <1>4

\* What a thread that copies has does not change when others do something.
LEMMA HandStays ==
    ASSUME NEW u \in Threads, HandOK(th[u], mq_hand[u], mq_next), th'[u].pc = th[u].pc,
           th'[u].error = th[u].error, mq_hand'[u] = mq_hand[u],
           mq_hand[u] # None => mq_next'[mq_hand[u]] = mq_next[mq_hand[u]]
    PROVE  HandOK(th'[u], mq_hand'[u], mq_next')
  BY DEF HandOK, CopyStages

\* The section of t that ends in a stage of its call.
LEMMA StageCount ==
    ASSUME IpcInv, object' = object, NEW t \in Threads, th[t].stat = "READY",
           NEW pc \in CopyStages, object = "msgqueue", flag' = flag, waiting' = waiting,
           th' = [th EXCEPT ![t] = [Outside EXCEPT !.pc = pc]]
    PROVE  /\ IpcInv' /\ th'[t].pc = pc /\ th'[t].error = "EOK"
           /\ \A u \in Threads : u # t => th'[u] = th[u]
           /\ \A c : c # pc => Count(c)' = CountBut(t, c)
  <1>r. PICK r : r = [Outside EXCEPT !.pc = pc]
    OBVIOUS
  <1>0. pc \in Stages /\ pc \in StagesOf(object) /\ pc # "again"
    BY DEF CopyStages, Stages, StagesOf
  <1>1. ThreadOK(r, object) /\ r.stat = "READY" /\ r.pc = pc /\ r.error = "EOK"
    BY <1>r, <1>0, StageOK
  <1>2. th' = [th EXCEPT ![t] = r]
    BY <1>r
  <1>3. GoesOn(t, r)
    BY <1>2 DEF GoesOn
  <1>4. IpcInv'
    BY <1>1, <1>3, GoesOnKeeps
  <1>5. th'[t] = r /\ \A u \in Threads : u # t => th'[u] = th[u]
    BY <1>2 DEF IpcInv
  <1>6. ASSUME NEW c, c # pc PROVE Count(c)' = CountBut(t, c)
    <2>1. WokenIn(c)' = WokenIn(c) \ {t}
      <3>1. r.pc # c
        BY <1>1, <1>6
      <3> QED
        BY <1>2, <3>1, AwakeAfter
    <2>2. WokenIn(c)' = AwakeIn(th, c) \ {t}
      BY <2>1, WokenIs
    <2>3. CountBut(t, c) = Cardinality(AwakeIn(th, c) \ {t})
      BY CountIs
    <2> QED
      BY <2>2, <2>3 DEF Count
  <1> QED
    BY <1>1, <1>4, <1>5, <1>6

\* The section of t that ends its call and wakes the first waiter of list l.
LEMMA HandsStages ==
    ASSUME IpcInv, object' = object, NEW t \in Threads, th[t].stat = "READY",
           NEW l \in Lists, first_resumed(Returned(t), l)
    PROVE  /\ th'[t].pc = "user" /\ th'[t].error = "EOK"
           /\ \A u \in Threads : u # t => th'[u].pc = th[u].pc /\ th'[u].error = th[u].error
  <1>0. th \in [Threads -> Records]
    BY DEF IpcInv
  <1>o. Outside.pc = "user" /\ Outside.error = "EOK"
    BY OutsideOK
  <1>g. PICK g : g = Returned(t)
    OBVIOUS
  <1>1. /\ g[t] = Outside /\ \A u \in Threads : u # t => g[u] = th[u]
        /\ DOMAIN g = Threads /\ g = [u \in Threads |-> g[u]]
    BY <1>0, <1>g DEF Returned
  <1>2. CASE waiting[l] = << >>
    <2>1. th' = g
      BY <1>2, <1>g DEF first_resumed
    <2> QED
      BY <1>1, <1>o, <2>1
  <1>3. CASE waiting[l] # << >>
    <2>h. PICK h : h = Head(waiting[l])
      OBVIOUS
    <2>1. /\ h \in Threads /\ th[h].stat = "SUSPEND" /\ th[h].error = "EOK"
          /\ Woken(h).pc = th[h].pc /\ Woken(h).error = "EOK"
      BY <1>3, <2>h, FirstWaiter
    <2>2. th' = [g EXCEPT ![h] = Woken(h)] /\ h # t
      BY <1>3, <1>g, <2>h, <2>1 DEF first_resumed
    <2>3. th'[h] = Woken(h) /\ \A u \in Threads : u # h => th'[u] = g[u]
      BY <1>1, <2>1, <2>2
    <2> QED
      BY <1>1, <1>o, <2>1, <2>2, <2>3
  <1> QED
    BY <1>2, <1>3

\* What the invariant says of a message queue in use.
LEMMA MqFacts ==
    ASSUME NEW q, NEW f, MqShape(q, f), MqThreads(q, f)
    PROVE  /\ mq_next \in [Blocks -> Link] /\ mq_data \in [Blocks -> Threads \cup {None}]
           /\ q \in Seq(Blocks) /\ f \in Seq(Blocks) /\ Once(q) /\ Once(f)
           /\ Len(q) \in Nat /\ Len(f) \in Nat
           /\ Linked(mq_next, mq_head, q) /\ Linked(mq_next, mq_free, f)
           /\ mq_tail = Rear(q) /\ mq_entry = Len(q) /\ Shared(q, f, mq_hand)
           /\ \A i \in 1 .. Len(q) : mq_data[q[i]] \in Threads
           /\ mq_hand \in [Threads -> Link]
           /\ \A u \in Threads : HandOK(th[u], mq_hand[u], mq_next)
           /\ waiting[Receivers] # << >> => Len(q) <= Count("mq_recv")
           /\ waiting[Senders] # << >> => Len(f) <= Count("mq_send")
           /\ None \notin Blocks /\ None \in Link /\ \A c \in Blocks : c \in Link
           /\ Receivers \in Lists /\ Senders \in Lists /\ Receivers # Senders
  <1>1. None \notin Blocks /\ None \in Link /\ \A c \in Blocks : c \in Link
    BY MqAssumption DEF Blocks, Link
  <1>2. Receivers \in Lists /\ Senders \in Lists /\ Receivers # Senders
    BY DEF Lists, Receivers, Senders
  <1> QED
    BY <1>1, <1>2 DEF MqShape, MqThreads, Shared

\* A list of blocks starts where its head points.
LEMMA FirstBlock ==
    ASSUME NEW next, NEW b, NEW q \in Seq(Blocks), Linked(next, b, q)
    PROVE  b = None <=> q = << >>
  <1>1. CASE q = << >>
    <2>1. Len(q) = 0
      BY <1>1
    <2> QED
      BY <1>1, <2>1 DEF Linked, Node
  <1>2. CASE q # << >>
    <2>1. b \in Blocks
      BY <1>2, LinkedTail
    <2>2. None \notin Blocks
      BY MqAssumption DEF Blocks
    <2> QED
      BY <1>2, <2>1, <2>2
  <1> QED
    BY <1>1, <1>2

\* t takes the first free block.
LEMMA MqTakeKeeps ==
    ASSUME IpcInv, MqInv, object = "msgqueue", object' = object, NEW t \in Threads,
           th[t].stat = "READY", th[t].pc \notin CopyStages, t \notin WokenIn("mq_recv"),
           NEW pc \in {"fill", "fill_urgent"}, take_block(t, pc)
    PROVE  MqStep
  <1>0. PICK q, f : MqShape(q, f) /\ MqThreads(q, f)
    BY DEF MqInv
  <1>1. /\ mq_next \in [Blocks -> Link] /\ mq_data \in [Blocks -> Threads \cup {None}]
        /\ q \in Seq(Blocks) /\ f \in Seq(Blocks) /\ Once(q) /\ Once(f)
        /\ Len(q) \in Nat /\ Len(f) \in Nat
        /\ Linked(mq_next, mq_head, q) /\ Linked(mq_next, mq_free, f)
        /\ mq_tail = Rear(q) /\ mq_entry = Len(q) /\ Shared(q, f, mq_hand)
        /\ \A i \in 1 .. Len(q) : mq_data[q[i]] \in Threads
        /\ mq_hand \in [Threads -> Link]
        /\ \A u \in Threads : HandOK(th[u], mq_hand[u], mq_next)
        /\ waiting[Receivers] # << >> => Len(q) <= Count("mq_recv")
        /\ waiting[Senders] # << >> => Len(f) <= Count("mq_send")
        /\ None \notin Blocks /\ None \in Link /\ \A c \in Blocks : c \in Link
    BY <1>0, MqFacts
  <1>2. /\ mq_free # None
        /\ mq_hand' = [mq_hand EXCEPT ![t] = mq_free] /\ mq_free' = mq_next[mq_free]
        /\ mq_next' = (IF pc = "fill" THEN [mq_next EXCEPT ![mq_free] = None] ELSE mq_next)
        /\ th' = [th EXCEPT ![t] = [Outside EXCEPT !.pc = pc]]
        /\ flag' = flag /\ waiting' = waiting
        /\ mq_head' = mq_head /\ mq_tail' = mq_tail /\ mq_entry' = mq_entry /\ mq_data' = mq_data
    BY DEF take_block
  <1>3. f # << >>
    BY <1>1, <1>2, FirstBlock
  <1>r. PICK r : r = Tail(f)
    OBVIOUS
  <1>b. PICK b : b = mq_free
    OBVIOUS
  <1>4. /\ b = Head(f) /\ b \in Blocks /\ Linked(mq_next, mq_next[b], r)
        /\ r \in Seq(Blocks) /\ Len(r) = Len(f) - 1
    BY <1>1, <1>3, <1>r, <1>b, LinkedTail
  <1>5. /\ Once(r) /\ ~InList(r, b) /\ InList(f, b) /\ ~InList(q, b) /\ ~HeldBy(mq_hand, b)
    <2>1. Once(r) /\ ~InList(r, b) /\ InList(f, b)
      BY <1>1, <1>3, <1>r, <1>4, TailOf
    <2>2. OnePlace(b, q, f, mq_hand)
      BY <1>1, <1>4 DEF Shared
    <2> QED
      BY <2>1, <2>2 DEF OnePlace
  <1>6. /\ mq_next' \in [Blocks -> Link] /\ \A c \in Blocks : c # b => mq_next'[c] = mq_next[c]
        /\ pc = "fill" => mq_next'[b] = None
    <2>1. CASE pc = "fill"
      <3>1. mq_next' = [mq_next EXCEPT ![b] = None]
        BY <1>2, <1>b, <2>1
      <3> QED
        BY <1>1, <1>4, <3>1
    <2>2. CASE pc # "fill"
      <3>1. mq_next' = mq_next
        BY <1>2, <2>2
      <3> QED
        BY <1>1, <2>2, <3>1
    <2> QED
      BY <2>1, <2>2
  <1>m. \A l \in Seq(Blocks) : \A c : InList(l, c) => c \in Blocks
    BY DEF InList
  <1>7. Linked(mq_next', mq_head', q) /\ Linked(mq_next', mq_free', r)
    <2>1. \A c : InList(q, c) => mq_next'[c] = mq_next[c]
      BY <1>1, <1>5, <1>6, <1>m
    <2>2. \A c : InList(r, c) => mq_next'[c] = mq_next[c]
      BY <1>4, <1>5, <1>6, <1>m
    <2>3. Linked(mq_next', mq_head, q)
      BY <1>1, <2>1, LinkedSame
    <2>4. Linked(mq_next', mq_next[b], r)
      BY <1>4, <2>2, LinkedSame
    <2>5. mq_free' = mq_next[b] /\ mq_head' = mq_head
      BY <1>2, <1>b
    <2> QED
      BY <2>3, <2>4, <2>5
  <1>8. mq_hand[t] = None
    BY <1>1 DEF HandOK
  <1>9. Shared(q, r, mq_hand')
    <2>1. Shared(f, q, mq_hand)
      BY <1>1, SharedSwaps
    <2>2. mq_hand' = [mq_hand EXCEPT ![t] = Head(f)]
      BY <1>2, <1>b, <1>4
    <2>3. Shared(Tail(f), q, mq_hand')
      BY <1>1, <1>3, <1>8, <2>1, <2>2, SharedOut
    <2> QED
      BY <1>1, <1>r, <1>4, <2>3, SharedSwaps
  <1>10. MqShape(q, r)'
    BY <1>1, <1>2, <1>4, <1>5, <1>6, <1>7, <1>9 DEF MqShape
  <1>11. /\ IpcInv' /\ th'[t].pc = pc /\ th'[t].error = "EOK"
         /\ \A u \in Threads : u # t => th'[u] = th[u]
         /\ \A c : c # pc => Count(c)' = CountBut(t, c)
    <2>1. pc \in CopyStages
      BY DEF CopyStages
    <2> QED
      BY <1>2, <2>1, StageCount
  <1>12. Count("mq_recv")' = CountBut(t, "mq_recv") /\ Count("mq_send")' = CountBut(t, "mq_send")
    BY <1>11
  <1>13. /\ Count("mq_recv") \in Nat /\ Count("mq_send") \in Nat
         /\ CountBut(t, "mq_recv") = Count("mq_recv") /\ Count("mq_send") <= CountBut(t, "mq_send") + 1
         /\ CountBut(t, "mq_send") \in Nat
    BY CountFacts
  <1>14. \A u \in Threads : HandOK(th'[u], mq_hand'[u], mq_next')
    <2> TAKE u \in Threads
    <2>1. CASE u = t
      <3>1. mq_hand'[t] = b /\ b # None
        BY <1>1, <1>2, <1>b
      <3> QED
        BY <1>6, <1>11, <2>1, <3>1 DEF HandOK, CopyStages
    <2>2. CASE u # t
      <3>1. mq_hand'[u] = mq_hand[u] /\ th'[u] = th[u]
        BY <1>1, <1>2, <1>11, <2>2
      <3>2. mq_hand[u] # None => mq_hand[u] \in Blocks /\ mq_hand[u] # b
        BY <1>1, <1>5 DEF HeldBy, Link
      <3>3. mq_hand[u] # None => mq_next'[mq_hand[u]] = mq_next[mq_hand[u]]
        BY <1>6, <3>2
      <3>4. HandOK(th[u], mq_hand[u], mq_next)
        BY <1>1
      <3> QED
        BY <3>1, <3>3, <3>4, HandStays
    <2> QED
      BY <2>1, <2>2
  <1>15. waiting'[Receivers] # << >> => Len(q) <= Count("mq_recv")'
    BY <1>1, <1>2, <1>12, <1>13
  <1>16. waiting'[Senders] # << >> => Len(r) <= Count("mq_send")'
    BY <1>1, <1>2, <1>4, <1>12, <1>13
  <1>17. MqThreads(q, r)'
    BY <1>14, <1>15, <1>16 DEF MqThreads
  <1>18. MqInv'
    BY <1>10, <1>17 DEF MqInv
  <1>19. MqContents' = MqContents
    BY <1>0, <1>2, <1>10, MqShapeMeans
  <1> QED
    BY <1>11, <1>18, <1>19 DEF MqStep

\* The end of a section in which t gives away its block and wakes somebody of list l:
\* q2 and f2 are the lists then.
LEMMA MqGives ==
    ASSUME IpcInv, NEW q, NEW f, MqShape(q, f), MqThreads(q, f), object = "msgqueue",
           object' = object, NEW t \in Threads, th[t].pc \in CopyStages, NEW l \in Lists,
           first_resumed(Returned(t), l), mq_hand' = [mq_hand EXCEPT ![t] = None],
           \A u \in Threads : u # t /\ mq_hand[u] # None =>
              mq_next'[mq_hand[u]] = mq_next[mq_hand[u]],
           NEW q2, NEW f2, MqShape(q2, f2)',
           \/ l = Receivers /\ Len(q2) = Len(q) + 1 /\ f2 = f
           \/ l = Senders /\ Len(f2) = Len(f) + 1 /\ q2 = q
    PROVE  IpcInv' /\ MqInv'
  <1>1. /\ Len(q) \in Nat /\ Len(f) \in Nat
        /\ mq_hand \in [Threads -> Link]
        /\ \A u \in Threads : HandOK(th[u], mq_hand[u], mq_next)
        /\ waiting[Receivers] # << >> => Len(q) <= Count("mq_recv")
        /\ waiting[Senders] # << >> => Len(f) <= Count("mq_send")
        /\ Receivers \in Lists /\ Senders \in Lists /\ Receivers # Senders
    BY MqFacts
  <1>2. th[t].stat = "READY"
    <2>1. th[t].pc \notin SendCalls \cup RecvCalls
      BY DEF CopyStages, SendCalls, RecvCalls
    <2> QED
      BY <2>1, OutsideReady
  <1>3. /\ th'[t].pc = "user" /\ th'[t].error = "EOK"
        /\ \A u \in Threads : u # t => th'[u].pc = th[u].pc /\ th'[u].error = th[u].error
    BY <1>2, HandsStages
  <1>4. Base(Returned(t), t)
    BY <1>2 DEF Base
  <1>5. /\ IpcInv'
        /\ \A k \in Lists : k # l => waiting'[k] = waiting[k]
        /\ waiting[l] = << >> => waiting' = waiting
        /\ \A pc : pc # "user" =>
              Count(pc)' = IF waiting[l] # << >> /\ pc = Call(object, l) THEN CountBut(t, pc) + 1
                           ELSE CountBut(t, pc)
    BY <1>4, HandsCount
  <1>6. /\ CountBut(t, "mq_recv") = Count("mq_recv") /\ CountBut(t, "mq_send") = Count("mq_send")
        /\ Count("mq_recv") \in Nat /\ Count("mq_send") \in Nat
    <2>1. t \notin WokenIn("mq_recv") /\ t \notin WokenIn("mq_send")
      BY DEF WokenIn, Resumed, CopyStages
    <2> QED
      BY <2>1, CountFacts
  <1>7. Call(object, Receivers) = "mq_recv" /\ Call(object, Senders) = "mq_send"
    BY DEF Call, Receivers, Senders
  <1>8. /\ waiting'[Receivers] # << >> => Len(q2) <= Count("mq_recv")'
        /\ waiting'[Senders] # << >> => Len(f2) <= Count("mq_send")'
    <2>1. CASE l = Receivers /\ Len(q2) = Len(q) + 1 /\ f2 = f
      <3>1. /\ waiting[Receivers] # << >> => Count("mq_recv")' = Count("mq_recv") + 1
            /\ Count("mq_send")' = Count("mq_send") /\ waiting'[Senders] = waiting[Senders]
            /\ waiting[Receivers] = << >> => waiting'[Receivers] = << >>
        BY <1>1, <1>5, <1>6, <1>7, <2>1
      <3> QED
        BY <1>1, <1>6, <2>1, <3>1
    <2>2. CASE l = Senders /\ Len(f2) = Len(f) + 1 /\ q2 = q
      <3>1. /\ waiting[Senders] # << >> => Count("mq_send")' = Count("mq_send") + 1
            /\ Count("mq_recv")' = Count("mq_recv") /\ waiting'[Receivers] = waiting[Receivers]
            /\ waiting[Senders] = << >> => waiting'[Senders] = << >>
        BY <1>1, <1>5, <1>6, <1>7, <2>2
      <3> QED
        BY <1>1, <1>6, <2>2, <3>1
    <2> QED
      BY <2>1, <2>2
  <1>9. \A u \in Threads : HandOK(th'[u], mq_hand'[u], mq_next')
    <2> TAKE u \in Threads
    <2>1. CASE u = t
      <3>1. mq_hand'[t] = None
        BY <1>1
      <3> QED
        BY <1>3, <2>1, <3>1 DEF HandOK, CopyStages
    <2>2. CASE u # t
      <3>1. mq_hand'[u] = mq_hand[u]
        BY <1>1, <2>2
      <3>2. HandOK(th[u], mq_hand[u], mq_next)
        BY <1>1
      <3> QED
        BY <1>3, <2>2, <3>1, <3>2, HandStays
    <2> QED
      BY <2>1, <2>2
  <1>10. MqThreads(q2, f2)'
    BY <1>8, <1>9 DEF MqThreads
  <1> QED
    BY <1>5, <1>10 DEF MqInv

\* What t has is in no list, and nobody else has it.
LEMMA OwnBlock ==
    ASSUME NEW q, NEW f, MqShape(q, f), MqThreads(q, f), NEW t \in Threads, th[t].pc \in CopyStages
    PROVE  /\ mq_hand[t] \in Blocks /\ mq_hand[t] # None
           /\ ~InList(q, mq_hand[t]) /\ ~InList(f, mq_hand[t])
           /\ \A u \in Threads : mq_hand[u] # None =>
                 /\ mq_hand[u] \in Blocks /\ ~InList(q, mq_hand[u]) /\ ~InList(f, mq_hand[u])
                 /\ u # t => mq_hand[u] # mq_hand[t]
  <1>1. Shared(q, f, mq_hand) /\ HandOK(th[t], mq_hand[t], mq_next)
    BY DEF MqShape, MqThreads
  <1>2. mq_hand[t] # None
    BY <1>1 DEF HandOK
  <1>3. \A u \in Threads : mq_hand[u] # None =>
           mq_hand[u] \in Blocks /\ ~InList(q, mq_hand[u]) /\ ~InList(f, mq_hand[u])
    BY <1>1, HandApart
  <1>4. \A u \in Threads : mq_hand[u] = mq_hand[t] => u = t
    BY <1>1, <1>2 DEF Shared
  <1> QED
    BY <1>2, <1>3, <1>4

\* The last block of a list.
LEMMA RearIs ==
    ASSUME NEW q \in Seq(Blocks)
    PROVE  /\ Rear(q) = None <=> q = << >>
           /\ q # << >> => Rear(q) = q[Len(q)] /\ InList(q, Rear(q)) /\ Rear(q) \in Blocks
  <1>1. None \notin Blocks
    BY MqAssumption DEF Blocks
  <1>2. ASSUME q # << >> PROVE Rear(q) = q[Len(q)] /\ InList(q, Rear(q)) /\ Rear(q) \in Blocks
    <2>1. Len(q) \in 1 .. Len(q)
      BY <1>2
    <2>2. Rear(q) = q[Len(q)]
      BY <1>2 DEF Rear
    <2> QED
      BY <2>1, <2>2 DEF InList
  <1> QED
    BY <1>1, <1>2 DEF Rear

\* The second section of rt_mq_send_wait.
LEMMA LinkLastKeeps ==
    ASSUME IpcInv, MqInv, object = "msgqueue", object' = object, NEW t \in Threads, link_last(t)
    PROVE  MqStep
  <1>0. PICK q, f : MqShape(q, f) /\ MqThreads(q, f)
    BY DEF MqInv
  <1>1. /\ mq_next \in [Blocks -> Link] /\ mq_data \in [Blocks -> Threads \cup {None}]
        /\ q \in Seq(Blocks) /\ f \in Seq(Blocks) /\ Once(q) /\ Once(f)
        /\ Len(q) \in Nat /\ Len(f) \in Nat
        /\ Linked(mq_next, mq_head, q) /\ Linked(mq_next, mq_free, f)
        /\ mq_tail = Rear(q) /\ mq_entry = Len(q) /\ Shared(q, f, mq_hand)
        /\ \A i \in 1 .. Len(q) : mq_data[q[i]] \in Threads
        /\ mq_hand \in [Threads -> Link]
        /\ \A u \in Threads : HandOK(th[u], mq_hand[u], mq_next)
        /\ None \notin Blocks /\ None \in Link /\ \A c \in Blocks : c \in Link
        /\ Receivers \in Lists
    BY <1>0, MqFacts
  <1>b. PICK b : b = mq_hand[t]
    OBVIOUS
  <1>2. /\ th[t].pc = "fill" /\ th[t].pc \in CopyStages
        /\ mq_data' = [mq_data EXCEPT ![b] = t]
        /\ mq_next' = (IF mq_tail = None THEN mq_next ELSE [mq_next EXCEPT ![mq_tail] = b])
        /\ mq_tail' = b /\ mq_head' = (IF mq_head = None THEN b ELSE mq_head)
        /\ mq_entry' = mq_entry + 1 /\ mq_hand' = [mq_hand EXCEPT ![t] = None]
        /\ first_resumed(Returned(t), Receivers) /\ mq_free' = mq_free
    BY <1>b DEF link_last, CopyStages
  <1>3. /\ b \in Blocks /\ b # None /\ ~InList(q, b) /\ ~InList(f, b)
        /\ \A u \in Threads : mq_hand[u] # None =>
              mq_hand[u] \in Blocks /\ ~InList(q, mq_hand[u]) /\ ~InList(f, mq_hand[u])
    BY <1>0, <1>2, <1>b, OwnBlock
  <1>4. mq_next[b] = None
    BY <1>1, <1>2, <1>b DEF HandOK
  <1>m. \A x \in Seq(Blocks) : \A c : InList(x, c) => c \in Blocks
    BY DEF InList
  <1>5. /\ mq_next' \in [Blocks -> Link] /\ \A c \in Blocks : c # Rear(q) => mq_next'[c] = mq_next[c]
        /\ q # << >> => mq_next'[q[Len(q)]] = b
    <2>1. CASE q = << >>
      <3>1. mq_next' = mq_next
        BY <1>1, <1>2, <2>1, RearIs
      <3> QED
        BY <1>1, <2>1, <3>1
    <2>2. CASE q # << >>
      <3>1. mq_tail # None /\ mq_tail \in Blocks /\ mq_tail = q[Len(q)]
        BY <1>1, <2>2, RearIs
      <3>2. mq_next' = [mq_next EXCEPT ![mq_tail] = b]
        BY <1>2, <3>1
      <3> QED
        BY <1>1, <1>3, <3>1, <3>2
    <2> QED
      BY <2>1, <2>2
  <1>r. PICK r : r = Append(q, b)
    OBVIOUS
  <1>6. /\ r \in Seq(Blocks) /\ Once(r) /\ \A c : InList(r, c) <=> InList(q, c) \/ c = b
    BY <1>1, <1>3, <1>r, Appended
  <1>7. Len(r) = Len(q) + 1 /\ r # << >> /\ Rear(r) = b
    <2>1. Len(r) = Len(q) + 1 /\ r[Len(q) + 1] = b
      BY <1>1, <1>3, <1>r
    <2>2. r # << >>
      BY <1>1, <2>1
    <2> QED
      BY <2>1, <2>2 DEF Rear
  <1>8. b # Rear(q) /\ mq_next'[b] = None
    <2>1. b # Rear(q)
      BY <1>1, <1>3, RearIs
    <2> QED
      BY <1>3, <1>4, <1>5, <2>1
  <1>9. Linked(mq_next', mq_head', r)
    <2>1. Linked(mq_next', IF q = << >> THEN b ELSE mq_head, Append(q, b))
      <3>1. \A c : InList(q, c) /\ c # Rear(q) => mq_next'[c] = mq_next[c]
        BY <1>1, <1>5, <1>m
      <3> QED
        BY <1>1, <1>3, <1>5, <1>8, <3>1, LinkedAppend
    <2>2. mq_head' = IF q = << >> THEN b ELSE mq_head
      BY <1>1, <1>2, FirstBlock
    <2> QED
      BY <1>r, <2>1, <2>2
  <1>10. Linked(mq_next', mq_free', f)
    <2>1. \A c : InList(f, c) => mq_next'[c] = mq_next[c]
      <3> SUFFICES ASSUME NEW c, InList(f, c) PROVE mq_next'[c] = mq_next[c]
        OBVIOUS
      <3>1. c \in Blocks
        BY <1>1, <1>m
      <3>2. c # Rear(q)
        <4>1. ~InList(q, c)
          BY <1>1, <3>1 DEF Shared, OnePlace
        <4> QED
          BY <1>1, <3>1, <4>1, RearIs
      <3> QED
        BY <1>5, <3>1, <3>2
    <2> QED
      BY <1>1, <1>2, <2>1, LinkedSame
  <1>11. Shared(r, f, mq_hand')
    BY <1>1, <1>2, <1>3, <1>b, <1>6, <1>7, SharedIn
  <1>12. /\ mq_data' \in [Blocks -> Threads \cup {None}]
         /\ Contents(mq_data', r) = Append(Contents(mq_data, q), t)
         /\ \A i \in 1 .. Len(r) : mq_data'[r[i]] \in Threads
    <2>1. Wrote(mq_data', mq_data, b, t) /\ Written(mq_data, q)
      BY <1>1, <1>2 DEF Wrote, Written
    <2>2. q \in Seq(Blocks) /\ b \in Blocks /\ ~InList(q, b) /\ Extends(r, q, b, TRUE)
      BY <1>1, <1>3, <1>r DEF Extends
    <2>3. Written(mq_data', r) /\ Extends(Contents(mq_data', r), Contents(mq_data, q), t, TRUE)
      BY <2>1, <2>2, WrittenMore
    <2> QED
      BY <2>3 DEF Written, Extends
  <1>13. MqShape(r, f)'
    <2>1. mq_tail' = Rear(r) /\ mq_entry' = Len(r)
      BY <1>1, <1>2, <1>7
    <2> QED
      BY <1>1, <1>5, <1>6, <1>9, <1>10, <1>11, <1>12, <2>1 DEF MqShape
  <1>14. \A u \in Threads : u # t /\ mq_hand[u] # None =>
            mq_next'[mq_hand[u]] = mq_next[mq_hand[u]]
    <2> SUFFICES ASSUME NEW u \in Threads, mq_hand[u] # None
                 PROVE  mq_next'[mq_hand[u]] = mq_next[mq_hand[u]]
      OBVIOUS
    <2>1. mq_hand[u] \in Blocks /\ mq_hand[u] # Rear(q)
      BY <1>1, <1>3, RearIs
    <2> QED
      BY <1>5, <2>1
  <1>15. IpcInv' /\ MqInv'
    BY <1>0, <1>1, <1>2, <1>7, <1>13, <1>14, MqGives
  <1>16. MqContents' = Append(MqContents, t) /\ Len(MqContents) < MqMax
    <2>1. MqContents = Contents(mq_data, q) /\ MqContents' = Contents(mq_data', r)
      BY <1>0, <1>13, MqShapeMeans
    <2>2. Len(Contents(mq_data, q)) = Len(q)
      BY <1>1, ContentsAre
    <2>3. Len(r) <= MqMax
      <3>1. PICK n \in Nat : n = Cardinality(HandsOf(mq_hand'))
        BY <1>11, HandsCounted DEF Shared
      <3>2. Len(r) + Len(f) + n = MqMax
        BY <1>11, <3>1 DEF Shared
      <3> QED
        BY <1>1, <1>7, <3>2
    <2>4. Len(q) < MqMax
      BY <1>1, <1>7, <2>3, MqAssumption
    <2> QED
      BY <1>12, <2>1, <2>2, <2>4
  <1> QED
    BY <1>15, <1>16 DEF MqStep, MqQueue!Next, MqQueue!Send

\* A queue and its free list have room for what threads hold.
LEMMA SharedRoom ==
    ASSUME NEW x \in Seq(Blocks), NEW y \in Seq(Blocks), NEW hand, Shared(x, y, hand)
    PROVE  Len(x) <= MqMax
  <1>1. PICK n \in Nat : n = Cardinality(HandsOf(hand))
    BY HandsCounted DEF Shared
  <1>2. Len(x) \in Nat /\ Len(y) \in Nat /\ Len(x) + Len(y) + n = MqMax
    BY <1>1 DEF Shared
  <1> QED
    BY <1>2

\* The second section of rt_mq_urgent.
LEMMA LinkFirstKeeps ==
    ASSUME IpcInv, MqInv, object = "msgqueue", object' = object, NEW t \in Threads, link_first(t)
    PROVE  MqStep
  <1>0. PICK q, f : MqShape(q, f) /\ MqThreads(q, f)
    BY DEF MqInv
  <1>1. /\ mq_next \in [Blocks -> Link] /\ mq_data \in [Blocks -> Threads \cup {None}]
        /\ q \in Seq(Blocks) /\ f \in Seq(Blocks) /\ Once(q) /\ Once(f)
        /\ Len(q) \in Nat /\ Len(f) \in Nat
        /\ Linked(mq_next, mq_head, q) /\ Linked(mq_next, mq_free, f)
        /\ mq_tail = Rear(q) /\ mq_entry = Len(q) /\ Shared(q, f, mq_hand)
        /\ \A i \in 1 .. Len(q) : mq_data[q[i]] \in Threads
        /\ None \notin Blocks /\ None \in Link /\ \A c \in Blocks : c \in Link
        /\ Receivers \in Lists
    BY <1>0, MqFacts
  <1>b. PICK b : b = mq_hand[t]
    OBVIOUS
  <1>2. /\ th[t].pc \in CopyStages
        /\ mq_data' = [mq_data EXCEPT ![b] = t] /\ mq_next' = [mq_next EXCEPT ![b] = mq_head]
        /\ mq_head' = b /\ mq_tail' = (IF mq_tail = None THEN b ELSE mq_tail)
        /\ mq_entry' = mq_entry + 1 /\ mq_hand' = [mq_hand EXCEPT ![t] = None]
        /\ first_resumed(Returned(t), Receivers) /\ mq_free' = mq_free
    BY <1>b DEF link_first, CopyStages
  <1>3. /\ b \in Blocks /\ b # None /\ ~InList(q, b) /\ ~InList(f, b)
        /\ \A u \in Threads : mq_hand[u] # None => mq_hand[u] \in Blocks /\ (u # t => mq_hand[u] # b)
    BY <1>0, <1>2, <1>b, OwnBlock
  <1>m. \A x \in Seq(Blocks) : \A c : InList(x, c) => c \in Blocks
    BY DEF InList
  <1>4. mq_head \in Link
    <2>1. mq_head = None <=> q = << >>
      <3>1. q \in Seq(Blocks) /\ Linked(mq_next, mq_head, q)
        BY <1>1
      <3> QED
        BY <3>1, FirstBlock
    <2>2. q # << >> => mq_head \in Blocks
      BY <1>1, LinkedTail
    <2> QED
      BY <1>1, <2>1, <2>2
  <1>5. /\ mq_next' \in [Blocks -> Link] /\ mq_next'[b] = mq_head
        /\ \A c \in Blocks : c # b => mq_next'[c] = mq_next[c]
    BY <1>1, <1>2, <1>3, <1>4
  <1>r. PICK r : r = <<b>> \o q
    OBVIOUS
  <1>6. /\ r \in Seq(Blocks) /\ Once(r) /\ \A c : InList(r, c) <=> InList(q, c) \/ c = b
    BY <1>1, <1>3, <1>r, Prepended
  <1>7. Len(r) = Len(q) + 1 /\ r # << >> /\ Rear(r) = IF q = << >> THEN b ELSE Rear(q)
    <2>1. /\ Len(r) = Len(q) + 1 /\ r[1] = b /\ \A i \in 1 .. Len(q) : r[i + 1] = q[i]
      BY <1>1, <1>3, <1>r
    <2>2. r # << >> /\ Rear(r) = r[Len(q) + 1]
      BY <1>1, <2>1 DEF Rear
    <2>3. CASE q = << >>
      <3>1. Len(q) = 0
        BY <2>3
      <3> QED
        BY <2>1, <2>2, <2>3, <3>1
    <2>4. CASE q # << >>
      <3>1. Len(q) \in 1 .. Len(q)
        BY <1>1, <2>4
      <3>2. r[Len(q) + 1] = q[Len(q)]
        BY <2>1, <3>1
      <3> QED
        BY <2>1, <2>2, <2>4, <3>2 DEF Rear
    <2> QED
      BY <2>3, <2>4
  <1>8. Linked(mq_next', mq_head', r)
    <2>1. \A c : InList(q, c) => mq_next'[c] = mq_next[c]
      BY <1>1, <1>3, <1>5, <1>m
    <2>2. Linked(mq_next', mq_head, q)
      BY <1>1, <2>1, LinkedSame
    <2>3. Linked(mq_next', b, <<b>> \o q)
      BY <1>1, <1>3, <1>5, <2>2, LinkedPush
    <2> QED
      BY <1>2, <1>r, <2>3
  <1>9. Linked(mq_next', mq_free', f)
    <2>1. \A c : InList(f, c) => mq_next'[c] = mq_next[c]
      BY <1>1, <1>3, <1>5, <1>m
    <2> QED
      BY <1>1, <1>2, <2>1, LinkedSame
  <1>10. Shared(r, f, mq_hand')
    BY <1>1, <1>2, <1>3, <1>b, <1>6, <1>7, SharedIn
  <1>11. /\ mq_data' \in [Blocks -> Threads \cup {None}]
         /\ Contents(mq_data', r) = <<t>> \o Contents(mq_data, q)
         /\ \A i \in 1 .. Len(r) : mq_data'[r[i]] \in Threads
    <2>1. Wrote(mq_data', mq_data, b, t) /\ Written(mq_data, q)
      BY <1>1, <1>2 DEF Wrote, Written
    <2>2. q \in Seq(Blocks) /\ b \in Blocks /\ ~InList(q, b) /\ Extends(r, q, b, FALSE)
      BY <1>1, <1>3, <1>r DEF Extends
    <2>3. Written(mq_data', r) /\ Extends(Contents(mq_data', r), Contents(mq_data, q), t, FALSE)
      BY <2>1, <2>2, WrittenMore
    <2> QED
      BY <2>3 DEF Written, Extends
  <1>12. MqShape(r, f)'
    <2>1. mq_tail' = Rear(r)
      BY <1>1, <1>2, <1>7, RearIs
    <2>2. mq_entry' = Len(r)
      BY <1>1, <1>2, <1>7
    <2> QED
      BY <1>1, <1>5, <1>6, <1>8, <1>9, <1>10, <1>11, <2>1, <2>2 DEF MqShape
  <1>13. \A u \in Threads : u # t /\ mq_hand[u] # None =>
            mq_next'[mq_hand[u]] = mq_next[mq_hand[u]]
    BY <1>3, <1>5
  <1>14. IpcInv' /\ MqInv'
    BY <1>0, <1>1, <1>2, <1>7, <1>12, <1>13, MqGives
  <1>15. MqContents' = <<t>> \o MqContents /\ Len(MqContents) < MqMax
    <2>1. MqContents = Contents(mq_data, q) /\ MqContents' = Contents(mq_data', r)
      BY <1>0, <1>12, MqShapeMeans
    <2>2. Len(Contents(mq_data, q)) = Len(q)
      BY <1>1, ContentsAre
    <2>3. Len(r) <= MqMax
      BY <1>1, <1>6, <1>10, SharedRoom
    <2>4. Len(q) < MqMax
      BY <1>1, <1>7, <2>3, MqAssumption
    <2> QED
      BY <1>11, <2>1, <2>2, <2>4
  <1> QED
    BY <1>14, <1>15 DEF MqStep, MqQueue!Next, MqQueue!Urgent

\* The second section of rt_mq_recv.
LEMMA FreeBlockKeeps ==
    ASSUME IpcInv, MqInv, object = "msgqueue", object' = object, NEW t \in Threads, free_block(t)
    PROVE  MqStep
  <1>0. PICK q, f : MqShape(q, f) /\ MqThreads(q, f)
    BY DEF MqInv
  <1>1. /\ mq_next \in [Blocks -> Link] /\ mq_data \in [Blocks -> Threads \cup {None}]
        /\ q \in Seq(Blocks) /\ f \in Seq(Blocks) /\ Once(q) /\ Once(f)
        /\ Len(q) \in Nat /\ Len(f) \in Nat
        /\ Linked(mq_next, mq_head, q) /\ Linked(mq_next, mq_free, f)
        /\ mq_tail = Rear(q) /\ mq_entry = Len(q) /\ Shared(q, f, mq_hand)
        /\ \A i \in 1 .. Len(q) : mq_data[q[i]] \in Threads
        /\ None \notin Blocks /\ None \in Link /\ \A c \in Blocks : c \in Link
        /\ Senders \in Lists
    BY <1>0, MqFacts
  <1>b. PICK b : b = mq_hand[t]
    OBVIOUS
  <1>2. /\ th[t].pc \in CopyStages
        /\ mq_next' = [mq_next EXCEPT ![b] = mq_free] /\ mq_free' = b
        /\ mq_hand' = [mq_hand EXCEPT ![t] = None]
        /\ first_resumed(Returned(t), Senders)
        /\ mq_head' = mq_head /\ mq_tail' = mq_tail /\ mq_entry' = mq_entry /\ mq_data' = mq_data
    BY <1>b DEF free_block, CopyStages
  <1>3. /\ b \in Blocks /\ b # None /\ ~InList(q, b) /\ ~InList(f, b)
        /\ \A u \in Threads : mq_hand[u] # None => mq_hand[u] \in Blocks /\ (u # t => mq_hand[u] # b)
    BY <1>0, <1>2, <1>b, OwnBlock
  <1>m. \A x \in Seq(Blocks) : \A c : InList(x, c) => c \in Blocks
    BY DEF InList
  <1>4. mq_free \in Link
    <2>1. mq_free = None <=> f = << >>
      <3>1. f \in Seq(Blocks) /\ Linked(mq_next, mq_free, f)
        BY <1>1
      <3> QED
        BY <3>1, FirstBlock
    <2>2. f # << >> => mq_free \in Blocks
      BY <1>1, LinkedTail
    <2> QED
      BY <1>1, <2>1, <2>2
  <1>5. /\ mq_next' \in [Blocks -> Link] /\ mq_next'[b] = mq_free
        /\ \A c \in Blocks : c # b => mq_next'[c] = mq_next[c]
    BY <1>1, <1>2, <1>3, <1>4
  <1>r. PICK r : r = <<b>> \o f
    OBVIOUS
  <1>6. /\ r \in Seq(Blocks) /\ Once(r) /\ \A c : InList(r, c) <=> InList(f, c) \/ c = b
    BY <1>1, <1>3, <1>r, Prepended
  <1>7. Len(r) = Len(f) + 1
    BY <1>1, <1>3, <1>r
  <1>8. Linked(mq_next', mq_free', r)
    <2>1. \A c : InList(f, c) => mq_next'[c] = mq_next[c]
      BY <1>1, <1>3, <1>5, <1>m
    <2>2. Linked(mq_next', mq_free, f)
      BY <1>1, <2>1, LinkedSame
    <2>3. Linked(mq_next', b, <<b>> \o f)
      BY <1>1, <1>3, <1>5, <2>2, LinkedPush
    <2> QED
      BY <1>2, <1>r, <2>3
  <1>9. Linked(mq_next', mq_head', q)
    <2>1. \A c : InList(q, c) => mq_next'[c] = mq_next[c]
      BY <1>1, <1>3, <1>5, <1>m
    <2> QED
      BY <1>1, <1>2, <2>1, LinkedSame
  <1>10. Shared(q, r, mq_hand')
    <2>1. Shared(f, q, mq_hand)
      BY <1>1, SharedSwaps
    <2>2. Shared(r, q, mq_hand')
      BY <1>1, <1>2, <1>3, <1>b, <1>6, <1>7, <2>1, SharedIn
    <2> QED
      BY <1>1, <1>6, <2>2, SharedSwaps
  <1>12. MqShape(q, r)'
    BY <1>1, <1>2, <1>5, <1>6, <1>8, <1>9, <1>10 DEF MqShape
  <1>13. \A u \in Threads : u # t /\ mq_hand[u] # None =>
            mq_next'[mq_hand[u]] = mq_next[mq_hand[u]]
    BY <1>3, <1>5
  <1>14. IpcInv' /\ MqInv'
    BY <1>0, <1>1, <1>2, <1>7, <1>12, <1>13, MqGives
  <1>15. MqContents' = MqContents
    BY <1>0, <1>2, <1>12, MqShapeMeans
  <1> QED
    BY <1>14, <1>15 DEF MqStep

\* t takes the first message.
LEMMA MqUnlinkKeeps ==
    ASSUME IpcInv, MqInv, object = "msgqueue", object' = object, NEW t \in Threads,
           th[t].stat = "READY", th[t].pc \notin CopyStages, t \notin WokenIn("mq_send"),
           mq_entry > 0, mq_hand' = [mq_hand EXCEPT ![t] = mq_head], mq_head' = mq_next[mq_head],
           mq_tail' = tail_without(mq_head), mq_entry' = mq_entry - 1,
           th' = [th EXCEPT ![t] = [Outside EXCEPT !.pc = "drain"]],
           UNCHANGED <<flag, waiting, mq_next, mq_free, mq_data>>
    PROVE  MqStep
  <1>0. PICK q, f : MqShape(q, f) /\ MqThreads(q, f)
    BY DEF MqInv
  <1>1. /\ mq_next \in [Blocks -> Link] /\ mq_data \in [Blocks -> Threads \cup {None}]
        /\ q \in Seq(Blocks) /\ f \in Seq(Blocks) /\ Once(q) /\ Once(f)
        /\ Len(q) \in Nat /\ Len(f) \in Nat
        /\ Linked(mq_next, mq_head, q) /\ Linked(mq_next, mq_free, f)
        /\ mq_tail = Rear(q) /\ mq_entry = Len(q) /\ Shared(q, f, mq_hand)
        /\ \A i \in 1 .. Len(q) : mq_data[q[i]] \in Threads
        /\ mq_hand \in [Threads -> Link]
        /\ \A u \in Threads : HandOK(th[u], mq_hand[u], mq_next)
        /\ waiting[Receivers] # << >> => Len(q) <= Count("mq_recv")
        /\ waiting[Senders] # << >> => Len(f) <= Count("mq_send")
        /\ None \notin Blocks
    BY <1>0, MqFacts
  <1>3. q # << >>
    <2>1. Len(q) # 0
      BY <1>1
    <2> QED
      BY <2>1
  <1>r. PICK r : r = Tail(q)
    OBVIOUS
  <1>b. PICK b : b = mq_head
    OBVIOUS
  <1>4. /\ b = Head(q) /\ b = q[1] /\ b \in Blocks /\ Linked(mq_next, mq_next[b], r)
        /\ r \in Seq(Blocks) /\ Len(r) = Len(q) - 1
    BY <1>1, <1>3, <1>r, <1>b, LinkedTail
  <1>5. Once(r) /\ InList(q, b)
    BY <1>1, <1>3, <1>r, <1>4, TailOf
  <1>6. mq_tail' = Rear(r)
    <2>1. mq_tail' = IF Rear(q) = b THEN None ELSE Rear(q)
      BY <1>1, <1>b DEF tail_without
    <2>2. Rear(q) = q[Len(q)]
      BY <1>3 DEF Rear
    <2>3. CASE Len(q) = 1
      <3>1. Rear(q) = b
        BY <1>4, <2>2, <2>3
      <3>2. r = << >>
        BY <1>4, <2>3
      <3> QED
        BY <2>1, <3>1, <3>2 DEF Rear
    <2>4. CASE Len(q) # 1
      <3>1. 1 \in 1 .. Len(q) /\ Len(q) \in 1 .. Len(q) /\ Len(q) > 1
        BY <1>1, <2>4
      <3>2. Rear(q) # b
        BY <1>1, <1>4, <2>2, <2>4, <3>1 DEF Once
      <3>3. r # << >> /\ r[Len(r)] = q[Len(q)]
        <4>1. Len(r) # 0 /\ Len(r) \in 1 .. Len(r) /\ Len(r) + 1 = Len(q)
          BY <1>1, <1>4, <3>1
        <4>2. \A i \in 1 .. Len(r) : r[i] = q[i + 1]
          BY <1>1, <1>3, <1>r, <1>4
        <4> QED
          BY <4>1, <4>2
      <3> QED
        BY <2>1, <2>2, <3>2, <3>3 DEF Rear
    <2> QED
      BY <2>3, <2>4
  <1>8. mq_hand[t] = None
    BY <1>1 DEF HandOK
  <1>9. Shared(r, f, mq_hand')
    <2>2. mq_hand' = [mq_hand EXCEPT ![t] = Head(q)]
      BY <1>b, <1>4
    <2>3. Shared(Tail(q), f, mq_hand')
      BY <1>1, <1>3, <1>8, <2>2, SharedOut
    <2> QED
      BY <1>r, <2>3
  <1>c. /\ Contents(mq_data, r) = Tail(Contents(mq_data, q)) /\ Contents(mq_data, q) # << >>
        /\ \A i \in 1 .. Len(r) : mq_data[r[i]] \in Threads
    BY <1>1, <1>3, <1>r, ContentsTail
  <1>10. MqShape(r, f)'
    <2>1. mq_head' = mq_next[b] /\ mq_entry' = Len(r)
      BY <1>1, <1>b, <1>4
    <2> QED
      BY <1>1, <1>4, <1>5, <1>6, <1>9, <1>c, <2>1 DEF MqShape
  <1>11. /\ IpcInv' /\ th'[t].pc = "drain" /\ th'[t].error = "EOK"
         /\ \A u \in Threads : u # t => th'[u] = th[u]
         /\ \A c : c # "drain" => Count(c)' = CountBut(t, c)
    <2>1. "drain" \in CopyStages
      BY DEF CopyStages
    <2> QED
      BY <2>1, StageCount
  <1>12. Count("mq_recv")' = CountBut(t, "mq_recv") /\ Count("mq_send")' = CountBut(t, "mq_send")
    BY <1>11
  <1>13. /\ Count("mq_recv") \in Nat /\ Count("mq_send") \in Nat
         /\ CountBut(t, "mq_send") = Count("mq_send") /\ Count("mq_recv") <= CountBut(t, "mq_recv") + 1
         /\ CountBut(t, "mq_recv") \in Nat
    BY CountFacts
  <1>14. \A u \in Threads : HandOK(th'[u], mq_hand'[u], mq_next')
    <2> TAKE u \in Threads
    <2>1. CASE u = t
      <3>1. mq_hand'[t] = b /\ b # None
        BY <1>1, <1>b, <1>4
      <3> QED
        BY <1>11, <2>1, <3>1 DEF HandOK, CopyStages
    <2>2. CASE u # t
      <3>1. mq_hand'[u] = mq_hand[u] /\ th'[u] = th[u]
        BY <1>1, <1>11, <2>2
      <3>2. HandOK(th[u], mq_hand[u], mq_next)
        BY <1>1
      <3> QED
        BY <3>1, <3>2
    <2> QED
      BY <2>1, <2>2
  <1>15. waiting'[Receivers] # << >> => Len(r) <= Count("mq_recv")'
    BY <1>1, <1>4, <1>12, <1>13
  <1>16. waiting'[Senders] # << >> => Len(f) <= Count("mq_send")'
    BY <1>1, <1>12, <1>13
  <1>17. MqThreads(r, f)'
    BY <1>14, <1>15, <1>16 DEF MqThreads
  <1>18. MqInv'
    BY <1>10, <1>17 DEF MqInv
  <1>19. MqContents # << >> /\ MqContents' = Tail(MqContents)
    BY <1>0, <1>10, <1>c, MqShapeMeans
  <1> QED
    BY <1>11, <1>18, <1>19 DEF MqStep, MqQueue!Next, MqQueue!Receive

\* rt_mq_control with RT_IPC_CMD_RESET.
LEMMA MqResetKeeps ==
    ASSUME IpcInv, MqInv, object = "msgqueue", object' = object, rt_mq_reset
    PROVE  MqStep
  <1>0. PICK q, f : MqShape(q, f) /\ MqThreads(q, f)
    BY DEF MqInv
  <1>1. /\ mq_next \in [Blocks -> Link] /\ mq_data \in [Blocks -> Threads \cup {None}]
        /\ q \in Seq(Blocks) /\ f \in Seq(Blocks) /\ Once(q) /\ Once(f)
        /\ Len(q) \in Nat /\ Len(f) \in Nat
        /\ Linked(mq_next, mq_head, q) /\ Linked(mq_next, mq_free, f)
        /\ Shared(q, f, mq_hand)
        /\ mq_hand \in [Threads -> Link]
        /\ \A u \in Threads : HandOK(th[u], mq_hand[u], mq_next)
        /\ None \notin Blocks /\ None \in Link /\ \A c \in Blocks : c \in Link
        /\ Receivers \in Lists /\ Senders \in Lists
    BY <1>0, MqFacts
  <1>2. chain(mq_head) = q
    BY <1>0, MqShapeMeans
  <1>3. /\ resume_all
        /\ mq_next' = [b \in Blocks |->
                          IF InList(q, b)
                          THEN LET i == CHOOSE j \in DOMAIN q : q[j] = b
                               IN  IF i = 1 THEN mq_free ELSE q[i - 1]
                          ELSE mq_next[b]]
        /\ mq_free' = (IF q = << >> THEN mq_free ELSE q[Len(q)])
        /\ mq_head' = None /\ mq_tail' = None /\ mq_entry' = 0
        /\ mq_data' = mq_data /\ mq_hand' = mq_hand
    BY <1>2 DEF rt_mq_reset
  <1>d. DOMAIN q = 1 .. Len(q)
    BY <1>1
  <1>4. ASSUME NEW i \in 1 .. Len(q) PROVE mq_next'[q[i]] = IF i = 1 THEN mq_free ELSE q[i - 1]
    <2>1. q[i] \in Blocks /\ InList(q, q[i])
      BY <1>1 DEF InList
    <2>2. (CHOOSE j \in DOMAIN q : q[j] = q[i]) = i
      BY <1>1, <1>d DEF Once
    <2>3. PICK b : b = q[i]
      OBVIOUS
    <2>4. PICK j : j = (CHOOSE k \in DOMAIN q : q[k] = b)
      OBVIOUS
    <2>5. mq_next'[b] = IF j = 1 THEN mq_free ELSE q[j - 1]
      BY <1>3, <2>1, <2>3, <2>4
    <2>6. j = i
      BY <2>2, <2>3, <2>4
    <2> QED
      BY <2>3, <2>5, <2>6
  <1>5. \A c \in Blocks : ~InList(q, c) => mq_next'[c] = mq_next[c]
    BY <1>3
  <1>6. Unchained(mq_next', mq_next, q, mq_free)
    BY <1>4, <1>5 DEF Unchained
  <1>7. \A y : ~(InList(q, y) /\ InList(f, y))
    <2>1. \A y : InList(q, y) => y \in Blocks
      BY <1>1 DEF InList
    <2> QED
      BY <1>1, <2>1 DEF Shared, OnePlace
  <1>r. PICK r : r = Emptied(q, f)
    OBVIOUS
  <1>8. /\ r \in Seq(Blocks) /\ Len(r) = Len(q) + Len(f) /\ Once(r)
        /\ \A y : InList(r, y) <=> InList(q, y) \/ InList(f, y)
    <2>1. /\ Emptied(q, f) \in Seq(Blocks) /\ Len(Emptied(q, f)) = Len(q) + Len(f)
          /\ \A y : InList(Emptied(q, f), y) <=> InList(q, y) \/ InList(f, y)
          /\ Once(q) /\ Once(f) /\ (\A y : ~(InList(q, y) /\ InList(f, y))) => Once(Emptied(q, f))
      BY <1>1, EmptiedIs, Zenon
    <2> QED
      BY <1>1, <1>7, <1>r, <2>1, Zenon
  <1>9. Linked(mq_next', mq_free', r)
    <2>1. Linked(mq_next', IF q = << >> THEN mq_free ELSE q[Len(q)], Emptied(q, f))
      BY <1>1, <1>6, <1>7, LinkedEmptied
    <2> QED
      BY <1>3, <1>r, <2>1
  <1>10. Linked(mq_next', mq_head', << >>)
    <2>1. Len(<< >>) = 0
      OBVIOUS
    <2> QED
      BY <1>3, <2>1 DEF Linked, Node
  <1>11. Shared(<< >>, r, mq_hand')
    <2>1. Shared(<< >>, r, mq_hand)
      BY <1>1, <1>8, SharedOver
    <2> QED
      BY <1>3, <2>1
  <1>12. mq_next' \in [Blocks -> Link]
    <2>1. mq_free \in Link
      <3>1. mq_free = None <=> f = << >>
        BY <1>1, FirstBlock
      <3>2. f # << >> => mq_free \in Blocks
        BY <1>1, LinkedTail
      <3> QED
        BY <1>1, <3>1, <3>2
    <2>2. ASSUME NEW c \in Blocks PROVE mq_next'[c] \in Link
      <3>1. CASE InList(q, c)
        <4>1. PICK i \in 1 .. Len(q) : q[i] = c
          BY <3>1 DEF InList
        <4>2. i # 1 => q[i - 1] \in Link
          <5>1. i # 1 => i - 1 \in 1 .. Len(q)
            BY <1>1
          <5> QED
            BY <1>1, <5>1
        <4> QED
          BY <1>4, <2>1, <4>1, <4>2
      <3>2. CASE ~InList(q, c)
        BY <1>1, <1>5, <3>2
      <3> QED
        BY <3>1, <3>2
    <2>3. DOMAIN mq_next' = Blocks /\ mq_next' = [c \in Blocks |-> mq_next'[c]]
      BY <1>3
    <2> QED
      BY <2>2, <2>3
  <1>13. MqShape(<< >>, r)'
    <2>1. /\ << >> \in Seq(Blocks) /\ Once(<< >>) /\ Len(<< >>) = 0
      BY NothingListed
    <2>2. mq_tail' = Rear(<< >>) /\ mq_entry' = Len(<< >>)
      BY <1>3, <2>1 DEF Rear
    <2>3. \A i \in 1 .. Len(<< >>) : mq_data'[<< >>[i]] \in Threads
      BY <2>1
    <2> QED
      BY <1>1, <1>3, <1>8, <1>9, <1>10, <1>11, <1>12, <2>1, <2>2, <2>3 DEF MqShape
  <1>14. /\ IpcInv'
         /\ \A u \in Threads :
               IF th[u].stat = "READY" THEN th'[u] = th[u]
               ELSE th'[u].stat = "READY" /\ th'[u].error = "ERROR" /\ th'[u].pc = th[u].pc
         /\ waiting'[Receivers] = << >> /\ waiting'[Senders] = << >>
    <2>1. /\ IpcInv'
          /\ \A u \in Threads :
                IF th[u].stat = "READY" THEN th'[u] = th[u]
                ELSE th'[u].stat = "READY" /\ th'[u].error = "ERROR" /\ th'[u].pc = th[u].pc
          /\ waiting' = [k \in Lists |-> << >>]
      BY <1>3, ResumeAllKeeps
    <2> QED
      BY <1>1, <2>1
  <1>15. \A u \in Threads : HandOK(th'[u], mq_hand'[u], mq_next')
    <2> TAKE u \in Threads
    <2>1. HandOK(th[u], mq_hand[u], mq_next)
      BY <1>1
    <2>2. CASE th[u].stat = "READY"
      <3>1. th'[u] = th[u] /\ mq_hand'[u] = mq_hand[u]
        BY <1>3, <1>14, <2>2
      <3>2. mq_hand[u] # None => mq_hand[u] \in Blocks /\ ~InList(q, mq_hand[u])
        BY <1>1, HandApart
      <3>3. mq_hand[u] # None => mq_next'[mq_hand[u]] = mq_next[mq_hand[u]]
        BY <1>5, <3>2
      <3> QED
        BY <2>1, <3>1, <3>3, HandStays
    <2>3. CASE th[u].stat # "READY"
      <3>1. th[u].pc \in SendCalls \cup RecvCalls
        BY <2>3, OutsideReady
      <3>2. th[u].pc \notin CopyStages
        BY <3>1 DEF SendCalls, RecvCalls, CopyStages
      <3>3. th'[u].pc = th[u].pc /\ mq_hand'[u] = mq_hand[u]
        BY <1>3, <1>14, <2>3
      <3> QED
        BY <2>1, <3>2, <3>3 DEF HandOK, CopyStages
    <2> QED
      BY <2>2, <2>3
  <1>16. MqThreads(<< >>, r)'
    BY <1>14, <1>15 DEF MqThreads
  <1>17. MqInv'
    BY <1>13, <1>16 DEF MqInv
  <1>18. MqContents' = << >>
    <2>1. MqContents' = Contents(mq_data', << >>)
      BY <1>13, MqShapeMeans
    <2>2. Len(<< >>) = 0
      OBVIOUS
    <2> QED
      BY <2>1, <2>2 DEF Contents
  <1> QED
    BY <1>14, <1>17, <1>18 DEF MqStep, MqQueue!Next, MqQueue!Reset

\* A step that leaves the queue alone.
LEMMA MqIdle ==
    ASSUME NEW q, NEW f, MqShape(q, f), object = "msgqueue", object' = object, UNCHANGED mqVars,
           IpcInv', MqThreads(q, f)'
    PROVE  MqStep
  <1>1. /\ mq_next' = mq_next /\ mq_head' = mq_head /\ mq_tail' = mq_tail /\ mq_free' = mq_free
        /\ mq_entry' = mq_entry /\ mq_data' = mq_data /\ mq_hand' = mq_hand
    BY DEF mqVars
  <1>2. MqShape(q, f)'
    BY <1>1 DEF MqShape
  <1>3. MqContents' = MqContents
    BY <1>1, <1>2, MqShapeMeans
  <1>4. MqInv'
    BY <1>2 DEF MqInv
  <1> QED
    BY <1>3, <1>4 DEF MqStep

\* A thread without a block goes on without one.
LEMMA HandsIdle ==
    ASSUME NEW t \in Threads, \A u \in Threads : HandOK(th[u], mq_hand[u], mq_next),
           UNCHANGED mqVars, th[t].pc \notin CopyStages, th'[t].pc \notin CopyStages,
           \A u \in Threads : u # t => th'[u].pc = th[u].pc /\ th'[u].error = th[u].error
    PROVE  \A u \in Threads : HandOK(th'[u], mq_hand'[u], mq_next')
  <1>1. mq_hand' = mq_hand /\ mq_next' = mq_next
    BY DEF mqVars
  <1> TAKE u \in Threads
  <1>2. HandOK(th[u], mq_hand[u], mq_next)
    OBVIOUS
  <1>3. CASE u = t
    <2>1. "fill" \in CopyStages
      BY DEF CopyStages
    <2> QED
      BY <1>1, <1>2, <1>3, <2>1 DEF HandOK
  <1>4. CASE u # t
    BY <1>1, <1>2, <1>4, HandStays
  <1> QED
    BY <1>3, <1>4

\* A caller that finds nothing and does not wait.
LEMMA MqRefuses ==
    ASSUME IpcInv, MqInv, object = "msgqueue", object' = object, NEW t \in Threads,
           th[t].stat = "READY", th[t].pc \notin CopyStages, th' = Returned(t),
           UNCHANGED <<flag, waiting, mqVars>>,
           \/ mq_entry = 0 /\ t \notin WokenIn("mq_send")
           \/ mq_free = None /\ t \notin WokenIn("mq_recv")
    PROVE  MqStep
  <1>0. PICK q, f : MqShape(q, f) /\ MqThreads(q, f)
    BY DEF MqInv
  <1>1. /\ q \in Seq(Blocks) /\ f \in Seq(Blocks) /\ Len(q) \in Nat /\ Len(f) \in Nat
        /\ mq_entry = Len(q) /\ Linked(mq_next, mq_free, f)
        /\ \A u \in Threads : HandOK(th[u], mq_hand[u], mq_next)
        /\ waiting[Receivers] # << >> => Len(q) <= Count("mq_recv")
        /\ waiting[Senders] # << >> => Len(f) <= Count("mq_send")
    BY <1>0, MqFacts
  <1>2. mq_free = None => Len(f) = 0
    <2>1. mq_free = None <=> f = << >>
      BY <1>1, FirstBlock
    <2> QED
      BY <1>1, <2>1
  <1>3. IpcInv' /\ \A pc : pc # "user" => Count(pc)' = CountBut(t, pc)
    BY ReturnsCount
  <1>4. Count("mq_recv")' = CountBut(t, "mq_recv") /\ Count("mq_send")' = CountBut(t, "mq_send")
    BY <1>3
  <1>5. /\ CountBut(t, "mq_recv") \in Nat /\ CountBut(t, "mq_send") \in Nat
        /\ t \notin WokenIn("mq_recv") => CountBut(t, "mq_recv") = Count("mq_recv")
        /\ t \notin WokenIn("mq_send") => CountBut(t, "mq_send") = Count("mq_send")
    BY CountFacts
  <1>6. \A u \in Threads : HandOK(th'[u], mq_hand'[u], mq_next')
    <2>1. th \in [Threads -> Records]
      BY DEF IpcInv
    <2>2. th'[t].pc = "user" /\ \A u \in Threads : u # t => th'[u] = th[u]
      BY <2>1, OutsideOK DEF Returned
    <2>3. "user" \notin CopyStages
      BY DEF CopyStages
    <2> QED
      BY <1>1, <2>2, <2>3, HandsIdle
  <1>7. MqThreads(q, f)'
    BY <1>1, <1>2, <1>4, <1>5, <1>6 DEF MqThreads
  <1> QED
    BY <1>0, <1>3, <1>7, MqIdle

\* A caller that finds nothing and blocks.
LEMMA MqBlocks ==
    ASSUME IpcInv, MqInv, object = "msgqueue", object' = object, NEW t \in Threads,
           th[t].stat = "READY", th[t].pc \notin CopyStages, NEW T, T \in Nat \/ T = Forever,
           NEW b \in Nat, T # Forever => T <= b, UNCHANGED mqVars,
           \/ /\ mq_entry = 0 /\ t \notin WokenIn("mq_send")
              /\ suspend(t, Receivers, "mq_recv", T, b)
           \/ /\ mq_free = None /\ t \notin WokenIn("mq_recv")
              /\ suspend(t, Senders, "mq_send", T, b)
    PROVE  MqStep
  <1>0. PICK q, f : MqShape(q, f) /\ MqThreads(q, f)
    BY DEF MqInv
  <1>1. /\ q \in Seq(Blocks) /\ f \in Seq(Blocks) /\ Len(q) \in Nat /\ Len(f) \in Nat
        /\ mq_entry = Len(q) /\ Linked(mq_next, mq_free, f)
        /\ \A u \in Threads : HandOK(th[u], mq_hand[u], mq_next)
        /\ waiting[Receivers] # << >> => Len(q) <= Count("mq_recv")
        /\ waiting[Senders] # << >> => Len(f) <= Count("mq_send")
        /\ Receivers \in Lists /\ Senders \in Lists /\ Receivers # Senders
    BY <1>0, MqFacts
  <1>2. mq_free = None => Len(f) = 0
    <2>1. mq_free = None <=> f = << >>
      BY <1>1, FirstBlock
    <2> QED
      BY <1>1, <2>1
  <1>3. /\ "mq_recv" \in SendCalls \cup RecvCalls /\ "mq_recv" \in StagesOf(object)
        /\ Receivers = IF "mq_recv" \in SendCalls THEN Senders ELSE Receivers
        /\ "mq_send" \in SendCalls \cup RecvCalls /\ "mq_send" \in StagesOf(object)
        /\ Senders = IF "mq_send" \in SendCalls THEN Senders ELSE Receivers
        /\ "mq_recv" \notin CopyStages /\ "mq_send" \notin CopyStages
    BY DEF SendCalls, RecvCalls, StagesOf, CopyStages
  <1>5. /\ CountBut(t, "mq_recv") \in Nat /\ CountBut(t, "mq_send") \in Nat
        /\ t \notin WokenIn("mq_recv") => CountBut(t, "mq_recv") = Count("mq_recv")
        /\ t \notin WokenIn("mq_send") => CountBut(t, "mq_send") = Count("mq_send")
    BY CountFacts
  <1>t. th \in [Threads -> Records]
    BY DEF IpcInv
  <1>a. CASE /\ mq_entry = 0 /\ t \notin WokenIn("mq_send")
             /\ suspend(t, Receivers, "mq_recv", T, b)
    <2>1. /\ IpcInv' /\ waiting'[Senders] = waiting[Senders]
          /\ \A pc : Count(pc)' = CountBut(t, pc)
      BY <1>1, <1>3, <1>a, SuspendsCount
    <2>2. th'[t].pc = "mq_recv" /\ \A u \in Threads : u # t => th'[u] = th[u]
      BY <1>t, <1>a DEF suspend, Suspended
    <2>3. \A u \in Threads : HandOK(th'[u], mq_hand'[u], mq_next')
      BY <1>1, <1>3, <2>2, HandsIdle
    <2>4. Count("mq_recv")' = CountBut(t, "mq_recv") /\ Count("mq_send")' = CountBut(t, "mq_send")
      BY <2>1
    <2>5. MqThreads(q, f)'
      BY <1>1, <1>5, <1>a, <2>1, <2>3, <2>4 DEF MqThreads
    <2> QED
      BY <1>0, <2>1, <2>5, MqIdle
  <1>b. CASE /\ mq_free = None /\ t \notin WokenIn("mq_recv")
             /\ suspend(t, Senders, "mq_send", T, b)
    <2>1. /\ IpcInv' /\ waiting'[Receivers] = waiting[Receivers]
          /\ \A pc : Count(pc)' = CountBut(t, pc)
      BY <1>1, <1>3, <1>b, SuspendsCount
    <2>2. th'[t].pc = "mq_send" /\ \A u \in Threads : u # t => th'[u] = th[u]
      BY <1>t, <1>b DEF suspend, Suspended
    <2>3. \A u \in Threads : HandOK(th'[u], mq_hand'[u], mq_next')
      BY <1>1, <1>3, <2>2, HandsIdle
    <2>4. Count("mq_recv")' = CountBut(t, "mq_recv") /\ Count("mq_send")' = CountBut(t, "mq_send")
      BY <2>1
    <2>5. MqThreads(q, f)'
      BY <1>1, <1>2, <1>5, <1>b, <2>1, <2>3, <2>4 DEF MqThreads
    <2> QED
      BY <1>0, <2>1, <2>5, MqIdle
  <1> QED
    BY <1>a, <1>b

\* One turn of the loop of rt_mq_send_wait or of rt_mq_recv.
LEMMA MqTurns ==
    ASSUME IpcInv, MqInv, object = "msgqueue", object' = object, NEW t \in Threads,
           th[t].stat = "READY", th[t].pc \notin CopyStages, NEW T, T \in Nat \/ T = Forever,
           NEW b \in Nat, T # Forever => T <= b,
           \/ mq_send(t, T, b) /\ t \notin WokenIn("mq_recv")
           \/ mq_recv(t, T, b) /\ t \notin WokenIn("mq_send")
    PROVE  MqStep
  <1>1. CASE mq_send(t, T, b) /\ t \notin WokenIn("mq_recv")
    <2>1. CASE take_block(t, "fill")
      BY <1>1, <2>1, MqTakeKeeps
    <2>2. CASE mq_free = None /\ suspend(t, Senders, "mq_send", T, b) /\ UNCHANGED mqVars
      BY <1>1, <2>2, MqBlocks
    <2>3. CASE mq_free = None /\ th' = Returned(t) /\ UNCHANGED <<flag, waiting, mqVars>>
      BY <1>1, <2>3, MqRefuses
    <2> QED
      BY <1>1, <2>1, <2>2, <2>3 DEF mq_send
  <1>2. CASE mq_recv(t, T, b) /\ t \notin WokenIn("mq_send")
    <2>1. CASE /\ mq_entry > 0
               /\ mq_hand' = [mq_hand EXCEPT ![t] = mq_head]
               /\ mq_head' = mq_next[mq_head]
               /\ mq_tail' = tail_without(mq_head)
               /\ mq_entry' = mq_entry - 1
               /\ th' = [th EXCEPT ![t] = [Outside EXCEPT !.pc = "drain"]]
               /\ UNCHANGED <<flag, waiting, mq_next, mq_free, mq_data>>
      BY <1>2, <2>1, MqUnlinkKeeps
    <2>2. CASE mq_entry = 0 /\ suspend(t, Receivers, "mq_recv", T, b) /\ UNCHANGED mqVars
      BY <1>2, <2>2, MqBlocks
    <2>3. CASE mq_entry = 0 /\ th' = Returned(t) /\ UNCHANGED <<flag, waiting, mqVars>>
      <3>1. mq_entry = 0 /\ t \notin WokenIn("mq_send")
        BY <1>2, <2>3
      <3>2. UNCHANGED <<flag, waiting, mqVars>> /\ th' = Returned(t)
        BY <2>3
      <3> QED
        BY <3>1, <3>2, MqRefuses
    <2> QED
      BY <1>2, <2>1, <2>2, <2>3 DEF mq_recv
  <1> QED
    BY <1>1, <1>2

\* Ticks, timeouts and calls that fail.
LEMMA MqIpcStep ==
    ASSUME IpcInv, MqInv, object = "msgqueue", object' = object, IpcStep, UNCHANGED mqVars
    PROVE  MqStep
  <1>0. PICK q, f : MqShape(q, f) /\ MqThreads(q, f)
    BY DEF MqInv
  <1>1. /\ \A u \in Threads : HandOK(th[u], mq_hand[u], mq_next)
        /\ waiting[Receivers] # << >> => Len(q) <= Count("mq_recv")
        /\ waiting[Senders] # << >> => Len(f) <= Count("mq_send")
        /\ Receivers \in Lists /\ Senders \in Lists
    BY <1>0, MqFacts
  <1>2. /\ IpcInv' /\ \A k \in Lists : waiting[k] = << >> => waiting'[k] = << >>
        /\ \A pc : pc # "user" => Count(pc)' = Count(pc)
    BY OthersCount
  <1>3. \A u \in Threads : HandOK(th'[u], mq_hand'[u], mq_next')
    <2>1. CASE rt_tick_increase
      <3>1. \A u \in Threads : th'[u].pc = th[u].pc /\ th'[u].error = th[u].error
        BY <2>1, TickKeeps
      <3>2. mq_hand' = mq_hand /\ mq_next' = mq_next
        BY DEF mqVars
      <3> QED
        BY <1>1, <3>1, <3>2, HandStays
    <2>2. ASSUME NEW t \in Threads, thread_timeout(t)
          PROVE  \A u \in Threads : HandOK(th'[u], mq_hand'[u], mq_next')
      <3>1. /\ th[t].stat = "SUSPEND" /\ th'[t].pc = th[t].pc
            /\ \A u \in Threads : u # t => th'[u] = th[u]
        BY <2>2, TimeoutKeeps
      <3>2. th[t].pc \in SendCalls \cup RecvCalls
        BY <3>1 DEF IpcInv, ThreadOK
      <3>3. th[t].pc \notin CopyStages
        BY <3>2 DEF SendCalls, RecvCalls, CopyStages
      <3> QED
        BY <1>1, <3>1, <3>3, HandsIdle
    <2>3. ASSUME NEW t \in Threads, gives_up(t)
          PROVE  \A u \in Threads : HandOK(th'[u], mq_hand'[u], mq_next')
      <3>1. th[t].error # "EOK" /\ th' = Returned(t)
        BY <2>3 DEF gives_up, Failed
      <3>2. HandOK(th[t], mq_hand[t], mq_next)
        BY <1>1
      <3>3. th[t].pc \notin CopyStages
        BY <3>1, <3>2 DEF HandOK
      <3>4. th'[t].pc = "user" /\ \A u \in Threads : u # t => th'[u] = th[u]
        BY <3>1, OutsideOK DEF Returned, IpcInv
      <3>5. "user" \notin CopyStages
        BY DEF CopyStages
      <3> QED
        BY <1>1, <3>3, <3>4, <3>5, HandsIdle
    <2> QED
      BY <2>1, <2>2, <2>3 DEF IpcStep
  <1>4. Count("mq_recv")' = Count("mq_recv") /\ Count("mq_send")' = Count("mq_send")
    BY <1>2
  <1>5. MqThreads(q, f)'
    BY <1>1, <1>2, <1>3, <1>4 DEF MqThreads
  <1> QED
    BY <1>0, <1>2, <1>5, MqIdle

\* The calls of a message queue.
LEMMA MqKeeps ==
    ASSUME IpcInv, MqInv, object = "msgqueue", object' = object, MqNext
    PROVE  MqStep
  <1>s. /\ "user" \notin CopyStages /\ "mq_send" \notin CopyStages /\ "mq_recv" \notin CopyStages
    BY DEF CopyStages
  <1>b. \A t \in Threads : ThreadOK(th[t], object) /\ th[t].budget \in Nat
    BY RecordFields DEF IpcInv
  <1>1. ASSUME NEW t \in Threads, NEW T \in Timeouts, rt_mq_send_wait(t, T) \/ rt_mq_recv(t, T)
        PROVE  MqStep
    <2>1. Calls(t) /\ (mq_send(t, T, Asked(T)) \/ mq_recv(t, T, Asked(T)))
      BY <1>1 DEF rt_mq_send_wait, rt_mq_recv
    <2>2. /\ th[t].stat = "READY" /\ th[t].pc \notin CopyStages
          /\ t \notin WokenIn("mq_recv") /\ t \notin WokenIn("mq_send")
      BY <1>s, <2>1, CallerReady DEF Calls
    <2>3. /\ T \in Nat \/ T = Forever
          /\ Asked(T) \in Nat /\ (T # Forever => T <= Asked(T))
      BY AskedOK
    <2> QED
      BY <2>1, <2>2, <2>3, MqTurns
  <1>2. ASSUME NEW t \in Threads, rt_mq_urgent(t) PROVE MqStep
    <2>1. Calls(t) /\ take_block(t, "fill_urgent")
      BY <1>2 DEF rt_mq_urgent
    <2>2. /\ th[t].stat = "READY" /\ th[t].pc \notin CopyStages /\ t \notin WokenIn("mq_recv")
      BY <1>s, <2>1, CallerReady DEF Calls
    <2> QED
      BY <2>1, <2>2, MqTakeKeeps
  <1>3. ASSUME NEW t \in Threads, mq_send_again(t) \/ mq_recv_again(t) PROVE MqStep
    <2>1. \/ Resumed(t, "mq_send") /\ mq_send(t, Remaining(t), th[t].budget)
          \/ Resumed(t, "mq_recv") /\ mq_recv(t, Remaining(t), th[t].budget)
      BY <1>3 DEF mq_send_again, mq_recv_again
    <2>2. /\ th[t].stat = "READY" /\ th[t].pc \notin CopyStages
          /\ Resumed(t, "mq_send") => t \notin WokenIn("mq_recv")
          /\ Resumed(t, "mq_recv") => t \notin WokenIn("mq_send")
      BY <1>s, <2>1 DEF Resumed, WokenIn
    <2>3. /\ Remaining(t) \in Nat \/ Remaining(t) = Forever
          /\ (Remaining(t) # Forever => Remaining(t) <= th[t].budget)
      <3>1. ThreadOK(th[t], "msgqueue")
        BY <1>b
      <3>2. /\ Remaining(t) \in Nat \/ Remaining(t) = Forever
            /\ "msgqueue" # "dataqueue" /\ Remaining(t) # Forever => Remaining(t) <= th[t].budget
        BY <3>1, RemainingOK
      <3> QED
        BY <3>2
    <2> QED
      BY <1>b, <2>1, <2>2, <2>3, MqTurns
  <1>4. ASSUME NEW t \in Threads, link_last(t) \/ link_first(t) \/ free_block(t) PROVE MqStep
    BY <1>4, LinkLastKeeps, LinkFirstKeeps, FreeBlockKeeps
  <1>5. CASE rt_mq_reset
    BY <1>5, MqResetKeeps
  <1>6. CASE IpcStep /\ UNCHANGED mqVars
    BY <1>6, MqIpcStep
  <1> QED
    BY <1>1, <1>2, <1>3, <1>4, <1>5, <1>6 DEF MqNext

-----------------------------------------------------------------------------
(* The objects that are not in use *)

\* A step of another kind of object leaves the mailbox as it is.
LEMMA MbOther ==
    ASSUME MbInv, object # "mailbox", object' = object, UNCHANGED mbVars
    PROVE  MbInv' /\ MbContents' = MbContents
  <1>1. mb_pool' = mb_pool /\ mb_entry' = mb_entry /\ mb_in' = mb_in /\ mb_out' = mb_out
    BY DEF mbVars
  <1> QED
    BY <1>1, MbContentsIs DEF MbInv

\* The same for the data queue.
LEMMA DqOther ==
    ASSUME DqInv, object # "dataqueue", object' = object, UNCHANGED dqVars
    PROVE  DqInv' /\ DqContents' = DqContents
  <1>1. /\ dq_queue' = dq_queue /\ dq_put' = dq_put /\ dq_get' = dq_get
        /\ dq_empty' = dq_empty /\ dq_full' = dq_full /\ dq_resetting' = dq_resetting
    BY DEF dqVars, dqRing
  <1>2. DqContents' = DqContents
    <2>1. DqLen' = DqLen
      BY <1>1 DEF DqLen
    <2> QED
      BY <1>1, <2>1, DqContentsIs
  <1> QED
    BY <1>1, <1>2 DEF DqInv

\* The same for the message queue.
LEMMA MqOther ==
    ASSUME MqInv, object # "msgqueue", object' = object, UNCHANGED mqVars
    PROVE  MqInv' /\ MqContents' = MqContents
  <1>1. /\ mq_next' = mq_next /\ mq_head' = mq_head /\ mq_tail' = mq_tail /\ mq_free' = mq_free
        /\ mq_entry' = mq_entry /\ mq_data' = mq_data /\ mq_hand' = mq_hand
    BY DEF mqVars
  <1>2. PICK q, f : MqShape(q, f)
    BY DEF MqInv
  <1>3. MqShape(q, f)'
    BY <1>1, <1>2 DEF MqShape
  <1>4. MqContents' = MqContents
    BY <1>1, <1>2, <1>3, MqShapeMeans
  <1> QED
    BY <1>3, <1>4 DEF MqInv

\* The same for memory pools, completions and events.
LEMMA MpOther ==
    ASSUME MpInv, object # "mempool", object' = object, UNCHANGED mpVars
    PROVE  MpInv'
  BY MpStays

\* A completion that is not in use.
LEMMA CompOther ==
    ASSUME CompInv, object # "completion", object' = object, comp_flag' = comp_flag
    PROVE  CompInv'
  BY DEF CompInv

\* An event that is not in use.
LEMMA EventOther ==
    ASSUME EventInv, object # "event", object' = object, UNCHANGED eventVars
    PROVE  EventInv'
  BY DEF EventInv, eventVars

\* A semaphore that is not in use has no waiters, whatever the other threads do.
LEMMA SemOther ==
    ASSUME IpcInv, IpcInv', SemInv, object # "semaphore", object' = object, UNCHANGED semVars
    PROVE  SemInv'
  <1>1. sem_value' = sem_value /\ sem_credit' = sem_credit /\ sem_value = 0
    BY DEF SemInv, semVars
  <1>2. "take" \notin StagesOf(object)
    BY DEF StagesOf
  <1>3. WokenIn("take") = {}
    BY <1>2, OtherCalls
  <1>4. WokenIn("take")' = {}
    <2> SUFFICES ASSUME NEW t \in Threads PROVE th'[t].pc # "take"
      BY DEF WokenIn, Resumed
    <2>1. ThreadOK(th'[t], object)
      BY DEF IpcInv
    <2> QED
      BY <1>2, <2>1 DEF ThreadOK
  <1>5. SemUnitsKept'
    BY <1>1, <1>3, <1>4 DEF SemInv, SemUnitsKept
  <1> QED
    BY <1>1, <1>5 DEF SemInv, SemNoneForgotten

\* Threads and lists that do not change.
LEMMA IpcUnchanged ==
    ASSUME IpcInv, object' = object, UNCHANGED ipcVars
    PROVE  IpcInv' /\ \A pc : Count(pc)' = Count(pc)
  BY NothingCount DEF ipcVars

-----------------------------------------------------------------------------
(* All objects together *)

\* Every object keeps its own invariant while one of them is in use.
ObjectsInv ==
    /\ IpcInv /\ SemInv /\ EventInv /\ MbInv /\ MqInv /\ MpInv /\ CompInv /\ DqInv
    /\ WqTypeOK /\ RingInv

\* The three queues do a step of a bounded queue, or none.
QueueSteps ==
    /\ [MbQueue!Next]_MbContents /\ [MqQueue!Next]_MqContents /\ [DqQueue!Next]_DqContents

\* Nothing happens.
LEMMA ObjectsStutter ==
    ASSUME ObjectsInv, UNCHANGED <<object, ipcVars, objectVars>>
    PROVE  ObjectsInv' /\ QueueSteps
  <1>0. /\ object' = object /\ flag' = flag /\ waiting' = waiting /\ th' = th
        /\ UNCHANGED semVars /\ UNCHANGED eventVars /\ UNCHANGED mbVars /\ UNCHANGED mqVars
        /\ UNCHANGED mpVars /\ comp_flag' = comp_flag /\ UNCHANGED dqVars /\ UNCHANGED wqVars
        /\ UNCHANGED rbVars
    BY DEF ipcVars, objectVars
  <1>i. /\ IpcInv /\ SemInv /\ EventInv /\ MbInv /\ MqInv /\ MpInv /\ CompInv /\ DqInv
        /\ WqTypeOK /\ RingInv
    BY DEF ObjectsInv
  <1>1. IpcInv' /\ \A pc : Count(pc)' = Count(pc)
    BY <1>0, <1>i, NothingCount
  <1>2. SemInv'
    BY <1>0, <1>i DEF SemInv, semVars, SemUnitsKept, SemNoneForgotten, WokenIn, Resumed
  <1>3. EventInv'
    BY <1>0, <1>i DEF EventInv, eventVars
  <1>4. MbInv' /\ MbContents' = MbContents
    <2>1. mb_pool' = mb_pool /\ mb_entry' = mb_entry /\ mb_in' = mb_in /\ mb_out' = mb_out
      BY <1>0 DEF mbVars
    <2>2. MbNoneForgotten => MbNoneForgotten'
      BY <1>0, <2>1 DEF MbNoneForgotten, WokenIn, Resumed
    <2> QED
      BY <1>0, <1>i, <2>1, <2>2, MbContentsIs DEF MbInv
  <1>5. MqInv' /\ MqContents' = MqContents
    <2>1. /\ mq_next' = mq_next /\ mq_head' = mq_head /\ mq_tail' = mq_tail /\ mq_free' = mq_free
          /\ mq_entry' = mq_entry /\ mq_data' = mq_data /\ mq_hand' = mq_hand
      BY <1>0 DEF mqVars
    <2>2. PICK q, f : MqShape(q, f) /\ (object = "msgqueue" => MqThreads(q, f))
      BY <1>i DEF MqInv
    <2>3. MqShape(q, f)'
      BY <2>1, <2>2 DEF MqShape
    <2>4. MqThreads(q, f) => MqThreads(q, f)'
      BY <1>0, <1>1, <2>1 DEF MqThreads
    <2>5. MqContents' = MqContents
      BY <2>1, <2>2, <2>3, MqShapeMeans
    <2> QED
      BY <1>0, <2>2, <2>3, <2>4, <2>5 DEF MqInv
  <1>6. MpInv'
    <2>1. object = "mempool" /\ waiting'[Receivers] # << >> =>
             mp_free_count <= Count("alloc")' + Count("again")'
      BY <1>0, <1>i, <1>1 DEF MpInv
    <2> QED
      BY <1>0, <1>i, <2>1, MpStays
  <1>7. CompInv'
    BY <1>0, <1>i DEF CompInv, CompNoneForgotten
  <1>8. DqInv' /\ DqContents' = DqContents
    <2>1. /\ dq_queue' = dq_queue /\ dq_put' = dq_put /\ dq_get' = dq_get
          /\ dq_empty' = dq_empty /\ dq_full' = dq_full /\ dq_resetting' = dq_resetting
      BY <1>0 DEF dqVars, dqRing
    <2>2. DqLen' = DqLen
      BY <2>1 DEF DqLen
    <2>3. DqContents' = DqContents
      BY <2>1, <2>2, DqContentsIs
    <2>4. Count("dq_pop")' = Count("dq_pop") /\ Count("dq_push")' = Count("dq_push")
      BY <1>1
    <2> QED
      BY <1>0, <1>i, <2>1, <2>2, <2>3, <2>4 DEF DqInv
  <1>9. WqTypeOK' /\ RingInv'
    BY <1>0, <1>i DEF WqTypeOK, wqVars, RingInv, rbVars
  <1> QED
    BY <1>1, <1>2, <1>3, <1>4, <1>5, <1>6, <1>7, <1>8, <1>9 DEF ObjectsInv, QueueSteps

\* One step of the object in use.
LEMMA ObjectsStep ==
    ASSUME ObjectsInv, Next
    PROVE  ObjectsInv' /\ QueueSteps
  <1>0. object' = object
    BY DEF Next
  <1>i. /\ IpcInv /\ SemInv /\ EventInv /\ MbInv /\ MqInv /\ MpInv /\ CompInv /\ DqInv
        /\ WqTypeOK /\ RingInv
    BY DEF ObjectsInv
  <1>w. UNCHANGED wqVars => WqTypeOK'
    BY <1>i, WqTypes
  <1>r. UNCHANGED rbVars => RingInv'
    BY <1>i, RingStep
  <1>e. ASSUME object # "event", UNCHANGED eventVars PROVE EventInv'
    BY <1>0, <1>i, <1>e, EventOther
  <1>b. ASSUME object # "mailbox", UNCHANGED mbVars PROVE MbInv' /\ MbContents' = MbContents
    BY <1>0, <1>i, <1>b, MbOther
  <1>q. ASSUME object # "msgqueue", UNCHANGED mqVars PROVE MqInv' /\ MqContents' = MqContents
    BY <1>0, <1>i, <1>q, MqOther
  <1>p. ASSUME object # "mempool", UNCHANGED mpVars PROVE MpInv'
    BY <1>0, <1>i, <1>p, MpOther
  <1>c. ASSUME object # "completion", comp_flag' = comp_flag PROVE CompInv'
    BY <1>0, <1>i, <1>c, CompOther
  <1>d. ASSUME object # "dataqueue", UNCHANGED dqVars PROVE DqInv' /\ DqContents' = DqContents
    BY <1>0, <1>i, <1>d, DqOther
  <1>s. ASSUME object # "semaphore", UNCHANGED semVars, IpcInv' PROVE SemInv'
    BY <1>0, <1>i, <1>s, SemOther
  <1>1. CASE /\ object = "semaphore" /\ SemNext
             /\ UNCHANGED <<eventVars, mbVars, mqVars, mpVars, comp_flag, dqVars, wqVars, rbVars>>
    <2>1. IpcInv' /\ SemInv'
      BY <1>0, <1>i, <1>1, SemKeeps
    <2> QED
      BY <1>1, <1>w, <1>r, <1>e, <1>b, <1>q, <1>p, <1>c, <1>d, <2>1 DEF ObjectsInv, QueueSteps
  <1>2. CASE /\ object = "event" /\ EventNext
             /\ UNCHANGED <<semVars, mbVars, mqVars, mpVars, comp_flag, dqVars, wqVars, rbVars>>
    <2>1. IpcInv' /\ EventInv'
      BY <1>0, <1>i, <1>2, EventKeeps
    <2> QED
      BY <1>2, <1>w, <1>r, <1>s, <1>b, <1>q, <1>p, <1>c, <1>d, <2>1 DEF ObjectsInv, QueueSteps
  <1>3. CASE /\ object = "mailbox" /\ MbNext
             /\ UNCHANGED <<semVars, eventVars, mqVars, mpVars, comp_flag, dqVars, wqVars, rbVars>>
    <2>1. IpcInv' /\ MbInv' /\ [MbQueue!Next]_MbContents
      BY <1>0, <1>i, <1>3, MbKeeps DEF MbStep
    <2> QED
      BY <1>3, <1>w, <1>r, <1>s, <1>e, <1>q, <1>p, <1>c, <1>d, <2>1 DEF ObjectsInv, QueueSteps
  <1>4. CASE /\ object = "msgqueue" /\ MqNext
             /\ UNCHANGED <<semVars, eventVars, mbVars, mpVars, comp_flag, dqVars, wqVars, rbVars>>
    <2>1. IpcInv' /\ MqInv' /\ [MqQueue!Next]_MqContents
      BY <1>0, <1>i, <1>4, MqKeeps DEF MqStep
    <2> QED
      BY <1>4, <1>w, <1>r, <1>s, <1>e, <1>b, <1>p, <1>c, <1>d, <2>1 DEF ObjectsInv, QueueSteps
  <1>5. CASE /\ object = "mempool" /\ MpNext
             /\ UNCHANGED <<semVars, eventVars, mbVars, mqVars, comp_flag, dqVars, wqVars, rbVars>>
    <2>1. IpcInv' /\ MpInv'
      BY <1>0, <1>i, <1>5, MpKeeps
    <2> QED
      BY <1>5, <1>w, <1>r, <1>s, <1>e, <1>b, <1>q, <1>c, <1>d, <2>1 DEF ObjectsInv, QueueSteps
  <1>6. CASE /\ object = "completion" /\ CompNext
             /\ UNCHANGED <<semVars, eventVars, mbVars, mqVars, mpVars, dqVars, wqVars, rbVars>>
    <2>1. IpcInv' /\ CompInv'
      BY <1>0, <1>i, <1>6, CompKeeps
    <2> QED
      BY <1>6, <1>w, <1>r, <1>s, <1>e, <1>b, <1>q, <1>p, <1>d, <2>1 DEF ObjectsInv, QueueSteps
  <1>7. CASE /\ object = "dataqueue" /\ DqNext
             /\ UNCHANGED <<semVars, eventVars, mbVars, mqVars, mpVars, comp_flag, wqVars, rbVars>>
    <2>1. IpcInv' /\ DqInv' /\ [DqQueue!Next]_DqContents
      BY <1>0, <1>i, <1>7, DqKeeps DEF DqStep
    <2> QED
      BY <1>7, <1>w, <1>r, <1>s, <1>e, <1>b, <1>q, <1>p, <1>c, <2>1 DEF ObjectsInv, QueueSteps
  <1>8. CASE /\ object = "workqueue" /\ WqNext
             /\ UNCHANGED <<ipcVars, semVars, eventVars, mbVars, mqVars, mpVars, comp_flag, dqVars, rbVars>>
    <2>1. IpcInv'
      BY <1>0, <1>i, <1>8, IpcUnchanged
    <2>2. WqTypeOK'
      BY <1>i, <1>8, WqTypes
    <2> QED
      BY <1>8, <1>r, <1>s, <1>e, <1>b, <1>q, <1>p, <1>c, <1>d, <2>1, <2>2 DEF ObjectsInv, QueueSteps
  <1>9. CASE /\ object = "ringbuffer" /\ RbNext
             /\ UNCHANGED <<ipcVars, semVars, eventVars, mbVars, mqVars, mpVars, comp_flag, dqVars, wqVars>>
    <2>1. IpcInv'
      BY <1>0, <1>i, <1>9, IpcUnchanged
    <2>2. RingInv'
      BY <1>i, <1>9, RingStep
    <2> QED
      BY <1>9, <1>w, <1>s, <1>e, <1>b, <1>q, <1>p, <1>c, <1>d, <2>1, <2>2 DEF ObjectsInv, QueueSteps
  <1> QED
    BY <1>1, <1>2, <1>3, <1>4, <1>5, <1>6, <1>7, <1>8, <1>9 DEF Next

-----------------------------------------------------------------------------
(* The initial states *)

\* Nobody is in a call.
LEMMA IpcInitially ==
    ASSUME IpcInit
    PROVE  /\ IpcInv /\ \A k \in Lists : waiting[k] = << >>
           /\ \A t \in Threads : th[t] = Outside
           /\ \A pc : pc # "user" => WokenIn(pc) = {} /\ Count(pc) = 0
  <1>1. flag \in Flags /\ waiting = [l \in Lists |-> << >>] /\ th = [t \in Threads |-> Outside]
    BY DEF IpcInit
  <1>2. /\ \A k : ThreadOK(Outside, k)
        /\ place(Outside) = Nowhere /\ Outside.pc = "user"
    BY OutsideOK
  <1>3. Outside \in Records
    BY <1>2 DEF ThreadOK
  <1>4. \A t \in Threads : th[t] = Outside
    BY <1>1
  <1>5. places \in Places /\ \A t \in Threads : places[t] = Nowhere
    BY <1>2, <1>4 DEF places, Places
  <1>6. Listed(waiting, places)
    BY <1>1, <1>5, NobodyListed
  <1>7. IpcInv
    BY <1>1, <1>2, <1>3, <1>4, <1>6 DEF IpcInv
  <1>8. \A pc : pc # "user" => WokenIn(pc) = {}
    BY <1>2, <1>4 DEF WokenIn, Resumed
  <1>9. Cardinality({}) = 0
    BY FS_EmptySet
  <1> QED
    BY <1>1, <1>4, <1>7, <1>8, <1>9 DEF Count

\* The blocks of a new pool are free.
LEMMA MpInitially ==
    ASSUME IpcInit, MpInit
    PROVE  MpInv
  <1>1. /\ mp_list = [i \in 1 .. MpCount |-> i] /\ mp_free_count = MpCount
        /\ mp_held = [t \in Threads |-> {}] /\ MpCount \in Nat
    BY MpAssumption DEF MpInit
  <1>2. mp_list \in [1 .. MpCount -> MpBlocks]
    BY <1>1 DEF MpBlocks
  <1>3. mp_list \in Seq(MpBlocks) /\ Len(mp_list) = MpCount
    BY <1>1, <1>2, PlacesMakeList
  <1>4. Once(mp_list)
    BY <1>1, <1>3 DEF Once
  <1>5. \A b \in MpBlocks : InList(mp_list, b)
    BY <1>1, <1>3 DEF InList, MpBlocks
  <1>6. Receivers \in Lists /\ waiting[Receivers] = << >>
    BY IpcInitially DEF Lists
  <1> QED
    BY <1>1, <1>3, <1>4, <1>5, <1>6 DEF MpInv

\* rt_mq_init links every block into the free list.
LEMMA MqInitially ==
    ASSUME IpcInit, MqInit
    PROVE  MqInv /\ MqContents = << >>
  <1>1. /\ mq_next = [b \in Blocks |-> IF b = 1 THEN None ELSE b - 1]
        /\ mq_head = None /\ mq_tail = None /\ mq_free = MqMax /\ mq_entry = 0
        /\ mq_data = [b \in Blocks |-> None] /\ mq_hand = [t \in Threads |-> None]
    BY DEF MqInit
  <1>m. MqMax \in Nat \ {0} /\ None \notin Blocks /\ Blocks = 1 .. MqMax
    BY MqAssumption DEF Blocks
  <1>f. PICK f : f = [i \in 1 .. MqMax |-> MqMax + 1 - i]
    OBVIOUS
  <1>2. f \in Seq(Blocks) /\ Len(f) = MqMax /\ \A i \in 1 .. MqMax : f[i] = MqMax + 1 - i
    <2>1. f \in [1 .. MqMax -> Blocks]
      BY <1>m, <1>f
    <2> QED
      BY <1>m, <1>f, <2>1, PlacesMakeList
  <1>3. Once(f)
    BY <1>m, <1>2 DEF Once
  <1>4. Linked(mq_next, mq_free, f)
    <2>1. mq_free = Node(f, 1)
      BY <1>1, <1>m, <1>2 DEF Node
    <2>2. ASSUME NEW i \in 1 .. Len(f) PROVE mq_next[f[i]] = Node(f, i + 1)
      <3>0. i \in 1 .. MqMax
        BY <1>2
      <3>1. f[i] \in Blocks /\ f[i] = MqMax + 1 - i /\ i \in 1 .. MqMax
        <4>1. f[i] = MqMax + 1 - i
          BY <1>2, <3>0
        <4>2. MqMax + 1 - i \in 1 .. MqMax
          BY <1>m, <3>0
        <4> QED
          BY <1>m, <3>0, <4>1, <4>2
      <3>2. mq_next[f[i]] = IF f[i] = 1 THEN None ELSE f[i] - 1
        BY <1>1, <3>1
      <3>3. CASE i = MqMax
        BY <1>m, <1>2, <3>1, <3>2, <3>3 DEF Node
      <3>4. CASE i # MqMax
        <4>1. i + 1 \in 1 .. MqMax
          BY <1>m, <3>1, <3>4
        <4>2. f[i + 1] = MqMax + 1 - (i + 1)
          BY <1>2, <4>1
        <4> QED
          BY <1>m, <1>2, <3>1, <3>2, <3>4, <4>1, <4>2 DEF Node
      <3> QED
        BY <3>3, <3>4
    <2> QED
      BY <2>1, <2>2 DEF Linked
  <1>5. /\ << >> \in Seq(Blocks) /\ Once(<< >>) /\ Len(<< >>) = 0 /\ \A y : ~InList(<< >>, y)
    BY NothingListed
  <1>6. Linked(mq_next, mq_head, << >>)
    BY <1>1, <1>5 DEF Linked, Node
  <1>7. mq_next \in [Blocks -> Link]
    <2>1. \A b \in Blocks : (IF b = 1 THEN None ELSE b - 1) \in Link
      BY <1>m DEF Link
    <2> QED
      BY <1>1, <2>1
  <1>8. \A t \in Threads : mq_hand[t] = None
    BY <1>1
  <1>9. Shared(<< >>, f, mq_hand)
    <2>1. mq_hand \in [Threads -> Link]
      BY <1>1 DEF Link
    <2>2. HandsOf(mq_hand) = {}
      BY <1>8 DEF HandsOf
    <2>3. Cardinality(HandsOf(mq_hand)) = 0
      BY <2>2, FS_EmptySet
    <2>4. \A b \in Blocks : ~HeldBy(mq_hand, b)
      BY <1>m, <1>8 DEF HeldBy
    <2>5. ASSUME NEW b \in Blocks PROVE InList(f, b)
      <3>1. MqMax + 1 - b \in 1 .. MqMax /\ MqMax + 1 - (MqMax + 1 - b) = b
        BY <1>m
      <3> QED
        BY <1>2, <3>1 DEF InList
    <2>6. \A b \in Blocks : OnePlace(b, << >>, f, mq_hand)
      BY <1>5, <2>4, <2>5 DEF OnePlace
    <2>7. Len(<< >>) + Len(f) + Cardinality(HandsOf(mq_hand)) = MqMax
      BY <1>m, <1>2, <1>5, <2>3
    <2> QED
      BY <1>8, <2>1, <2>6, <2>7 DEF Shared
  <1>10. MqShape(<< >>, f)
    <2>1. mq_data \in [Blocks -> Threads \cup {None}]
      BY <1>1
    <2>2. mq_tail = Rear(<< >>) /\ mq_entry = Len(<< >>)
      BY <1>1, <1>5 DEF Rear
    <2> QED
      BY <1>2, <1>3, <1>4, <1>5, <1>6, <1>7, <1>9, <2>1, <2>2 DEF MqShape
  <1>11. MqThreads(<< >>, f)
    <2>1. Receivers \in Lists /\ Senders \in Lists
      BY DEF Lists
    <2>2. waiting[Receivers] = << >> /\ waiting[Senders] = << >>
      BY <2>1, IpcInitially
    <2>3. \A t \in Threads : HandOK(th[t], mq_hand[t], mq_next)
      <3>1. \A t \in Threads : th[t].pc = "user"
        BY IpcInitially, OutsideOK
      <3> QED
        BY <1>8, <3>1 DEF HandOK, CopyStages
    <2> QED
      BY <2>2, <2>3 DEF MqThreads
  <1>12. MqContents = << >>
    <2>1. MqContents = Contents(mq_data, << >>)
      BY <1>10, MqShapeMeans
    <2> QED
      BY <1>5, <2>1 DEF Contents
  <1> QED
    BY <1>10, <1>11, <1>12 DEF MqInv

\* A new mailbox is empty.
LEMMA MbInitially ==
    ASSUME IpcInit, MbInit
    PROVE  MbInv /\ MbContents = << >>
  <1>1. /\ mb_pool = [i \in MbSlots |-> None] /\ mb_entry = 0 /\ mb_in = 0 /\ mb_out = 0
        /\ MbSize \in Nat \ {0} /\ MbSlots = 0 .. MbSize - 1
    BY MbAssumption DEF MbInit, MbSlots
  <1>2. waiting[Receivers] = << >> /\ waiting[Senders] = << >>
    BY IpcInitially DEF Lists
  <1>3. MbNoneForgotten
    BY <1>2 DEF MbNoneForgotten
  <1>4. mb_in = EndOf(mb_out, mb_entry, MbSize)
    BY <1>1 DEF EndOf
  <1>5. MbContents = << >>
    BY <1>1 DEF MbContents
  <1>6. mb_pool \in [MbSlots -> Threads \cup {None}] /\ 0 \in MbSlots /\ mb_entry \in 0 .. MbSize
    BY <1>1
  <1> QED
    BY <1>1, <1>3, <1>4, <1>5, <1>6 DEF MbInv

\* A new data queue is empty.
LEMMA DqInitially ==
    ASSUME IpcInit, DqInit
    PROVE  DqInv /\ DqContents = << >>
  <1>1. /\ dq_queue = [i \in 0 .. DqSize - 1 |-> None] /\ dq_put = 0 /\ dq_get = 0
        /\ dq_empty = TRUE /\ dq_full = FALSE /\ dq_resetting = FALSE /\ DqSize \in Nat \ {0}
    BY DqAssumption DEF DqInit
  <1>2. waiting[Receivers] = << >> /\ waiting[Senders] = << >>
    BY IpcInitially DEF Lists
  <1>3. DqShape(dq_empty, dq_full, dq_put, dq_get)
    <2>1. 0 \in 0 .. DqSize - 1
      BY <1>1
    <2>2. DqShape(TRUE, FALSE, 0, 0)
      BY <2>1 DEF DqShape
    <2> QED
      BY <1>1, <2>2
  <1>4. DqLen = 0
    <2>1. dq_len(dq_empty, dq_put, dq_get) = 0 <=> dq_empty
      BY <1>3, DqLenFacts
    <2> QED
      BY <1>1, <2>1 DEF DqLen
  <1>5. DqContents = << >>
    BY <1>4 DEF DqContents
  <1>6. dq_queue \in [0 .. DqSize - 1 -> Threads \cup {None}] /\ dq_resetting \in BOOLEAN
    BY <1>1
  <1> QED
    BY <1>2, <1>3, <1>5, <1>6 DEF DqInv

\* The invariants hold at first, and the queues are empty.
LEMMA ObjectsInitially ==
    ASSUME Init
    PROVE  ObjectsInv /\ MbQueue!Init /\ MqQueue!Init /\ DqQueue!Init
  <1>0. /\ IpcInit /\ SemInit /\ EventInit /\ MbInit /\ MqInit /\ MpInit
        /\ CompInit /\ DqInit /\ WqInit /\ RbInit
        /\ object # "semaphore" => sem_value = 0
    BY DEF Init
  <1>1. /\ IpcInv /\ waiting[Receivers] = << >> /\ WokenIn("take") = {} /\ Count("take") = 0
    BY <1>0, IpcInitially DEF Lists
  <1>2. SemInv
    <2>1. sem_value \in Nat /\ sem_credit = sem_value
      BY <1>0, SemAssumption DEF SemInit
    <2> QED
      BY <1>0, <1>1, <2>1 DEF SemInv, SemUnitsKept, SemNoneForgotten, Count
  <1>3. EventInv
    <2>1. event_info \in [Threads -> Asks] /\ event_set \in SUBSET Bits
      BY <1>0 DEF EventInit, NoRequest, Asks
    <2> QED
      BY <1>1, <2>1, NothingListed DEF EventInv
  <1>4. /\ MbInv /\ MqInv /\ DqInv /\ MpInv
        /\ MbContents = << >> /\ MqContents = << >> /\ DqContents = << >>
    BY <1>0, MbInitially, MqInitially, DqInitially, MpInitially
  <1>5. CompInv
    <2>1. Len(<< >>) = 0
      OBVIOUS
    <2>2. comp_flag \in BOOLEAN
      BY <1>0 DEF CompInit
    <2>3. Len(waiting[Receivers]) <= 1
      BY <1>1, <2>1
    <2> QED
      BY <1>1, <2>2, <2>3 DEF CompInv, CompNoneForgotten
  <1>6. WqTypeOK /\ RingInv
    BY <1>0, WqInitially, RingInitially DEF WqInv
  <1> QED
    BY <1>1, <1>2, <1>3, <1>4, <1>5, <1>6 DEF ObjectsInv, MbQueue!Init, MqQueue!Init, DqQueue!Init

-----------------------------------------------------------------------------
(* What the objects promise *)

\* The initial states.
LEMMA Initially == Init => ObjectsInv
  BY ObjectsInitially

\* The steps.
LEMMA Stepwise == ObjectsInv /\ [Next]_<<object, ipcVars, objectVars>> => ObjectsInv' /\ QueueSteps
  BY ObjectsStep, ObjectsStutter

\* The invariant of every behaviour.
LEMMA ObjectsKept == Spec => []ObjectsInv
  <1>1. ObjectsInv /\ [Next]_<<object, ipcVars, objectVars>> => ObjectsInv'
    BY Stepwise
  <1> QED
    BY <1>1, Initially, PTL DEF Spec

(***************************************************************************)
(* The types of every object, for any threads, timeouts, priorities, sizes *)
(* and works: no call of ipc.c or components/drivers/ipc leaves its stages,*)
(* and no field of a thread or a work takes a value outside its range.     *)
(***************************************************************************)
THEOREM ObjectsTypeCorrect == Spec => []TypeOK
  <1>1. ObjectsInv => TypeOK
    BY DEF ObjectsInv, TypeOK, IpcTypeOK, IpcInv, Listed
  <1> QED
    BY <1>1, ObjectsKept, PTL

(***************************************************************************)
(* For any number of threads: the lists of _ipc_list_suspend hold exactly  *)
(* the suspended threads, each once, and a thread that runs has no thread  *)
(* timer left, whether an event, the timeout or a reset ended the wait.    *)
(***************************************************************************)
THEOREM WaitingListsAreExact == Spec => []ListsHoldSuspended
  <1>1. ObjectsInv => ListsHoldSuspended
    <2> SUFFICES ASSUME IpcInv PROVE ListsHoldSuspended
      BY DEF ObjectsInv
    <2>1. \A l \in Lists : /\ Once(waiting[l])
                           /\ \A t : InList(waiting[l], t) <=> t \in Threads /\ places[t] = l
      BY DEF IpcInv, Listed, ListIs
    <2>2. ASSUME NEW t \in Threads
          PROVE  /\ (th[t].stat = "SUSPEND") <=> \E l \in Lists : InList(waiting[l], t)
                 /\ th[t].stat = "READY" => th[t].left = None
                 /\ \A l, k \in Lists : InList(waiting[l], t) /\ InList(waiting[k], t) => l = k
      <3>1. /\ places[t] \in Lists \cup {Nowhere} /\ (places[t] = Nowhere <=> th[t].stat = "READY")
            /\ th[t].stat = "READY" \/ th[t].stat = "SUSPEND"
        BY PlacesAre DEF Places
      <3>2. Nowhere \notin Lists
        BY DEF Nowhere, Lists, Senders, Receivers
      <3>3. (th[t].stat = "SUSPEND") <=> \E l \in Lists : InList(waiting[l], t)
        BY <2>1, <3>1, <3>2
      <3>4. th[t].stat = "READY" => th[t].left = None
        BY DEF IpcInv, ThreadOK
      <3> QED
        BY <2>1, <3>3, <3>4
    <2> QED
      BY <2>1, <2>2 DEF ListsHoldSuspended
  <1> QED
    BY <1>1, ObjectsKept, PTL

(***************************************************************************)
(* For any timeouts: the thread timer of a wait on an object of the kernel *)
(* never runs longer than what is left of the caller's timeout, whatever   *)
(* number of rounds of rt_mb_recv, rt_mq_recv, rt_mp_alloc and the others  *)
(* it takes.                                                               *)
(***************************************************************************)
THEOREM TimeoutsAddUp == Spec => []DeadlinesKept
  <1>1. ObjectsInv => DeadlinesKept
    BY DEF ObjectsInv, IpcInv, ThreadOK, InBudget, DeadlinesKept, DeadlineKept
  <1> QED
    BY <1>1, ObjectsKept, PTL

(***************************************************************************)
(* For any number of threads and any values: rt_sem_release, rt_sem_take,  *)
(* timeouts and resets neither lose nor make a unit of a semaphore.        *)
(***************************************************************************)
THEOREM SemaphoreCounts == Spec => []SemUnitsKept
  <1>1. ObjectsInv => SemUnitsKept
    BY DEF ObjectsInv, SemInv
  <1> QED
    BY <1>1, ObjectsKept, PTL

(***************************************************************************)
(* For any number of threads and any sizes, a data queue's low water mark  *)
(* being below its size: nobody sleeps on an object that has what he waits *)
(* for, unless as many were woken for it and have not looked yet.          *)
(***************************************************************************)
THEOREM NoLostWakeup == DqLwm < DqSize => (Spec => []NoneForgotten)
  <1> SUFFICES ASSUME DqLwm < DqSize PROVE Spec => []NoneForgotten
    OBVIOUS
  <1>1. ObjectsInv => NoneForgotten
    <2> SUFFICES ASSUME ObjectsInv PROVE NoneForgotten
      OBVIOUS
    <2>i. /\ IpcInv /\ SemInv /\ EventInv /\ MbInv /\ MqInv /\ MpInv /\ CompInv /\ DqInv
      BY DEF ObjectsInv
    <2>1. SemNoneForgotten
      BY <2>i DEF SemInv
    <2>2. object = "event" => EventNoneForgotten
      BY <2>i, EventInvMeans
    <2>3. object = "mailbox" => MbNoneForgotten
      BY <2>i DEF MbInv
    <2>4. object = "msgqueue" => MqNoneForgotten
      BY <2>i, MqInvMeans
    <2>5. object = "mempool" => MpNoneForgotten
      BY <2>i, MpInvMeans
    <2>6. object = "completion" => CompNoneForgotten
      BY <2>i DEF CompInv
    <2>7. object = "dataqueue" => DqNoneForgotten
      <3> SUFFICES ASSUME object = "dataqueue" PROVE DqNoneForgotten
        OBVIOUS
      <3>1. /\ waiting[Receivers] # << >> => DqLen <= Count("dq_pop")
            /\ waiting[Senders] # << >> => dq_resetting \/ DqLen + Count("dq_push") > DqLwm
        BY <2>i DEF DqInv
      <3>2. DqLen \in Nat /\ DqLwm \in Nat
        <4>1. DqLen \in 0 .. DqSize
          BY <2>i, DqLenFacts DEF DqInv, DqLen
        <4> QED
          BY <4>1, DqAssumption
      <3>3. WokenIn("dq_push") = {} => Count("dq_push") = 0
        BY FS_EmptySet DEF Count
      <3> QED
        BY <3>1, <3>2, <3>3 DEF DqNoneForgotten, Count
    <2> QED
      BY <2>1, <2>2, <2>3, <2>4, <2>5, <2>6, <2>7 DEF NoneForgotten
  <1> QED
    BY <1>1, ObjectsKept, PTL

(***************************************************************************)
(* For any number of blocks and threads: every block of a message queue or *)
(* of a pool is free, queued or with one thread, although rt_mq_send_wait, *)
(* rt_mq_urgent and rt_mq_recv copy without the lock, and msg_queue_tail,  *)
(* entry and block_free_count fit the lists.                               *)
(***************************************************************************)
THEOREM NoBlockLost == Spec => []BlocksKept
  <1>1. ObjectsInv => BlocksKept
    BY MqInvMeans, MpInvMeans DEF ObjectsInv, BlocksKept
  <1> QED
    BY <1>1, ObjectsKept, PTL

(***************************************************************************)
(* For any sizes and any number of threads: mailbox, message queue and data*)
(* queue implement the bounded queue: every section either leaves the      *)
(* contents alone or sends, sends to the front, receives or resets.        *)
(***************************************************************************)
THEOREM QueuesImplemented == Spec => ImplementsQueue
  <1>1. Init => MbQueue!Init /\ MqQueue!Init /\ DqQueue!Init
    BY ObjectsInitially
  <1>2. ObjectsInv /\ [Next]_<<object, ipcVars, objectVars>> =>
           [MbQueue!Next]_MbContents /\ [MqQueue!Next]_MqContents /\ [DqQueue!Next]_DqContents
    BY Stepwise DEF QueueSteps
  <1> QED
    BY <1>1, <1>2, ObjectsKept, PTL
    DEF Spec, ImplementsQueue, MbQueue!Spec, MqQueue!Spec, DqQueue!Spec

\* The work queue among the other objects.
LEMMA WqAmong == WqDisciplined => (Spec => []WqInv)
  <1> SUFFICES ASSUME WqDisciplined PROVE Spec => []WqInv
    OBVIOUS
  <1>1. Init => WqInv
    BY WqInitially DEF Init
  <1>2. WqInv /\ [Next]_<<object, ipcVars, objectVars>> => WqInv'
    <2> SUFFICES ASSUME WqInv, [Next]_<<object, ipcVars, objectVars>> PROVE WqInv'
      OBVIOUS
    <2>1. [WqNext]_wqVars
      BY DEF Next, objectVars
    <2> QED
      BY <2>1, WqStep
  <1> QED
    BY <1>1, <1>2, PTL DEF Spec

(***************************************************************************)
(* A ring buffer of any size is a byte queue, in the system of all objects.*)
(***************************************************************************)
THEOREM RingBufferAmong == Spec => []RingIsQueue
  <1>1. ObjectsInv => RingIsQueue
    BY RingInvMeans DEF ObjectsInv
  <1> QED
    BY <1>1, ObjectsKept, PTL

(***************************************************************************)
(* A work queue whose callers are disciplined keeps what it accepts and    *)
(* forgets what it cancels, in the system of all objects.                  *)
(***************************************************************************)
THEOREM WorkQueueAmong == WqDisciplined => (Spec => []AcceptedIsKept /\ []CancelsKept)
  <1> SUFFICES ASSUME WqDisciplined PROVE Spec => []AcceptedIsKept /\ []CancelsKept
    OBVIOUS
  <1>1. Spec => []WqInv
    BY WqAmong
  <1> QED
    BY <1>1, WqInvMeans, PTL
=============================================================================
