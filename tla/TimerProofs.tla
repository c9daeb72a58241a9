----------------------------- MODULE TimerProofs -----------------------------
(***************************************************************************)
(* Proofs about the timer lists, for any sets of timers and any width of   *)
(* the tick, when callers keep the discipline.                             *)
(***************************************************************************)
EXTENDS Timer, KernelListProofs

-----------------------------------------------------------------------------
(* The wheel of ticks *)

\* The distance from now to a timeout, negative if it has passed.
Distance(due, now) ==
    LET d == minus(due, now) IN IF d < Half THEN d ELSE d - TickRange

Ahead(u) == Distance(timeout_tick[u], tick)

\* The periods are short against the wheel.
LEMMA Wheel ==
    /\ TickRange \in Nat /\ Half \in Nat /\ MaxLate \in Nat /\ Longest \in Nat
    /\ MostLate \in Nat
    /\ 2 * Half + 1 <= TickRange /\ TickRange <= 2 * Half + 2
    /\ 1 <= Longest /\ MostLate + Longest < Half /\ Longest + 2 * MaxLate < Half
    /\ \A p \in Periods : p \in Nat /\ 1 <= p /\ p <= Longest
  <1>1. TickRange \in Nat \ {0} /\ MaxLate \in Nat /\ Periods # {}
    BY TimerAssumption
  <1>2. Half \in Nat /\ 2 * Half + 1 <= TickRange /\ TickRange <= 2 * Half + 2
    BY <1>1 DEF Half
  <1>3. \A p \in Periods : p \in Nat /\ 1 <= p /\ p <= Half
    BY <1>2, TimerAssumption
  <1>4. \E p \in Periods : \A q \in Periods : q <= p
    <2> DEFINE T == {Half - p : p \in Periods}
    <2>1. T \in SUBSET Nat /\ T # {}
      BY <1>1, <1>2, <1>3
    <2>2. PICK x \in T : \A y \in T : x <= y
      BY <2>1, LeastExists
    <2>3. PICK p \in Periods : x = Half - p
      OBVIOUS
    <2>4. \A q \in Periods : Half - q \in T
      OBVIOUS
    <2> HIDE DEF T
    <2> QED
      BY <1>2, <1>3, <2>2, <2>3, <2>4
  <1>5. Longest \in Periods /\ \A q \in Periods : q <= Longest
    BY <1>4 DEF Longest
  <1>6. Longest + Longest + MaxLate < Half /\ Longest + 2 * MaxLate < Half
    BY <1>5, TimerAssumption
  <1> QED
    BY <1>1, <1>2, <1>3, <1>5, <1>6 DEF MostLate

\* rt_tick_t arithmetic by cases.
LEMMA TickArithmetic ==
    /\ \A a, b \in Ticks : /\ minus(a, b) \in Ticks
                           /\ minus(a, b) = IF a >= b THEN a - b ELSE a + TickRange - b
    /\ \A a \in Ticks : \A n \in 0 .. Half :
          /\ plus(a, n) \in Ticks
          /\ plus(a, n) = IF a + n < TickRange THEN a + n ELSE a + n - TickRange
  <1>0. TickRange \in Nat \ {0} /\ Half \in Nat /\ Half < TickRange
    BY Wheel, TimerAssumption
  <1>1. ASSUME NEW x \in Nat, x < 2 * TickRange
        PROVE  x % TickRange = IF x < TickRange THEN x ELSE x - TickRange
    BY <1>0, <1>1
  <1>2. ASSUME NEW a \in Ticks, NEW b \in Ticks
        PROVE  /\ minus(a, b) \in Ticks
               /\ minus(a, b) = IF a >= b THEN a - b ELSE a + TickRange - b
    <2>1. a \in Nat /\ b \in Nat /\ a < TickRange /\ b < TickRange
      BY <1>0 DEF Ticks
    <2>2. a + TickRange - b \in Nat /\ a + TickRange - b < 2 * TickRange
      BY <1>0, <2>1
    <2> DEFINE x == a + TickRange - b
    <2>3. minus(a, b) = x % TickRange
      BY DEF minus
    <2>4. x % TickRange = IF x < TickRange THEN x ELSE x - TickRange
      <3> HIDE DEF x
      <3>1. x \in Nat /\ x < 2 * TickRange
        BY <2>2 DEF x
      <3> QED
        BY <1>1, <3>1
    <2>5. minus(a, b) = IF x < TickRange THEN x ELSE x - TickRange
      BY <2>3, <2>4
    <2> QED
      BY <1>0, <2>1, <2>5 DEF Ticks
  <1>3. ASSUME NEW a \in Ticks, NEW n \in 0 .. Half
        PROVE  /\ plus(a, n) \in Ticks
               /\ plus(a, n) = IF a + n < TickRange THEN a + n ELSE a + n - TickRange
    <2>1. a \in Nat /\ n \in Nat /\ a < TickRange /\ n < TickRange
      BY <1>0 DEF Ticks
    <2> DEFINE x == a + n
    <2>2. x \in Nat /\ x < 2 * TickRange
      BY <1>0, <2>1
    <2>3. x % TickRange = IF x < TickRange THEN x ELSE x - TickRange
      <3> HIDE DEF x
      <3> QED
        BY <1>1, <2>2
    <2>4. plus(a, n) = x % TickRange
      BY DEF plus
    <2>5. plus(a, n) = IF x < TickRange THEN x ELSE x - TickRange
      BY <2>3, <2>4
    <2> QED
      BY <1>0, <2>1, <2>5 DEF Ticks
  <1> QED
    BY <1>2, <1>3

\* Distances in arithmetic: how they say what the code compares, how they change with
\* the tick, and what a new timer's is.
LEMMA Distances ==
    ASSUME NEW now \in Ticks
    PROVE  /\ \A a \in Ticks : /\ Distance(a, now) \in Int
                               /\ Distance(a, now) < Half /\ Half - TickRange <= Distance(a, now)
           /\ \A a, b \in Ticks :
                 minus(b, a) = IF Distance(a, now) <= Distance(b, now)
                               THEN Distance(b, now) - Distance(a, now)
                               ELSE Distance(b, now) - Distance(a, now) + TickRange
           /\ \A a \in Ticks :
                 minus(now, a) = IF Distance(a, now) <= 0 THEN 0 - Distance(a, now)
                                 ELSE TickRange - Distance(a, now)
           /\ plus(now, 1) \in Ticks
           /\ \A a \in Ticks : Distance(a, now) > Half - TickRange =>
                 Distance(a, plus(now, 1)) = Distance(a, now) - 1
           /\ \A n \in 0 .. Half - 1 : plus(now, n) \in Ticks /\ Distance(plus(now, n), now) = n
  <1>0. /\ TickRange \in Nat /\ Half \in Nat /\ 2 * Half + 1 <= TickRange /\ 1 <= Half
        /\ TickRange <= 2 * Half + 2
    BY Wheel
  <1>1. \A x \in Ticks : x \in Nat /\ x < TickRange
    BY <1>0 DEF Ticks
  <1>2. \A a, b \in Ticks : /\ minus(a, b) \in Ticks
                            /\ minus(a, b) = IF a >= b THEN a - b ELSE a + TickRange - b
    BY TickArithmetic
  <1>3. ASSUME NEW a \in Ticks, NEW t \in Ticks
        PROVE  /\ Distance(a, t) \in Int
               /\ Distance(a, t) < Half /\ Half - TickRange <= Distance(a, t)
               /\ \/ Distance(a, t) = a - t
                  \/ Distance(a, t) = a - t + TickRange
                  \/ Distance(a, t) = a - t - TickRange
    BY <1>0, <1>1, <1>2 DEF Distance
  <1>4. ASSUME NEW a \in Ticks, NEW b \in Ticks
        PROVE  minus(b, a) = IF Distance(a, now) <= Distance(b, now)
                             THEN Distance(b, now) - Distance(a, now)
                             ELSE Distance(b, now) - Distance(a, now) + TickRange
    <2> DEFINE x == Distance(a, now)
               y == Distance(b, now)
    <2>1. /\ x \in Int /\ x < Half /\ Half - TickRange <= x
          /\ x = a - now \/ x = a - now + TickRange \/ x = a - now - TickRange
      BY <1>3
    <2>2. /\ y \in Int /\ y < Half /\ Half - TickRange <= y
          /\ y = b - now \/ y = b - now + TickRange \/ y = b - now - TickRange
      BY <1>3
    <2>3. minus(b, a) = IF b >= a THEN b - a ELSE b + TickRange - a
      BY <1>2
    <2> HIDE DEF x, y
    <2>4. minus(b, a) = IF x <= y THEN y - x ELSE y - x + TickRange
      BY <1>0, <1>1, <2>1, <2>2, <2>3
    <2> QED
      BY <2>4 DEF x, y
  <1>5. Distance(now, now) = 0
    BY <1>0, <1>1, <1>2 DEF Distance
  <1>6. ASSUME NEW a \in Ticks
        PROVE  minus(now, a) = IF Distance(a, now) <= 0 THEN 0 - Distance(a, now)
                               ELSE TickRange - Distance(a, now)
    <2> DEFINE x == Distance(a, now)
    <2>1. minus(now, a) = IF x <= 0 THEN 0 - x ELSE 0 - x + TickRange
      BY <1>4, <1>5
    <2>2. x \in Int
      BY <1>3
    <2> HIDE DEF x
    <2>3. minus(now, a) = IF x <= 0 THEN 0 - x ELSE TickRange - x
      BY <1>0, <2>1, <2>2
    <2> QED
      BY <2>3 DEF x
  <1>7. plus(now, 1) \in Ticks /\ plus(now, 1) = IF now + 1 < TickRange THEN now + 1 ELSE now + 1 - TickRange
    BY <1>0, TickArithmetic
  <1>8. ASSUME NEW a \in Ticks, Distance(a, now) > Half - TickRange
        PROVE  Distance(a, plus(now, 1)) = Distance(a, now) - 1
    <2> DEFINE x == Distance(a, now)
               y == Distance(a, plus(now, 1))
               s == plus(now, 1)
    <2>1. /\ x \in Int /\ x < Half /\ Half - TickRange < x
          /\ x = a - now \/ x = a - now + TickRange \/ x = a - now - TickRange
      BY <1>0, <1>3, <1>8
    <2>2. /\ y \in Int /\ y < Half /\ Half - TickRange <= y
          /\ y = a - s \/ y = a - s + TickRange \/ y = a - s - TickRange
      BY <1>3, <1>7
    <2>3. s \in Nat /\ s = IF now + 1 < TickRange THEN now + 1 ELSE now + 1 - TickRange
      BY <1>1, <1>7
    <2> HIDE DEF x, y, s
    <2>4. y = x - 1
      BY <1>0, <1>1, <2>1, <2>2, <2>3
    <2> QED
      BY <2>4 DEF x, y
  <1>9. ASSUME NEW n \in 0 .. Half - 1
        PROVE  plus(now, n) \in Ticks /\ Distance(plus(now, n), now) = n
    <2> DEFINE s == plus(now, n)
               y == Distance(s, now)
    <2>0. n \in 0 .. Half
      BY <1>0
    <2>1. s \in Ticks /\ s = IF now + n < TickRange THEN now + n ELSE now + n - TickRange
      BY <2>0, TickArithmetic
    <2>2. s \in Nat /\ now \in Nat /\ n \in Nat
      BY <1>0, <1>1, <2>1
    <2>3. /\ y \in Int /\ y < Half /\ Half - TickRange <= y
          /\ y = s - now \/ y = s - now + TickRange \/ y = s - now - TickRange
      BY <1>3, <2>1
    <2> HIDE DEF s, y
    <2>4. y = n
      BY <1>0, <2>1, <2>2, <2>3
    <2> QED
      BY <2>1, <2>4 DEF s, y
  <1> QED
    BY <1>3, <1>4, <1>6, <1>7, <1>8, <1>9

-----------------------------------------------------------------------------
(* The two lists together *)

\* Types of the constants.
LEMMA Kind ==
    /\ Hard \subseteq Timers /\ Soft \subseteq Timers /\ ThreadTimer \in Timers
    /\ None \notin Timers /\ ThreadTimer \notin Hard /\ ThreadTimer \notin Soft
    /\ \A t \in Hard : t \notin Soft
    /\ "hard" \in Kinds /\ "soft" \in Kinds
    /\ \A t \in Timers : Which(t) \in Kinds /\ (Which(t) = "soft" <=> t \in Soft)
                         /\ (Which(t) = "hard" <=> t \notin Soft)
    /\ \A k \in Kinds : k = "hard" \/ k = "soft"
  BY TimerAssumption DEF Timers, Which, Kinds

\* The lists ll hold the timers in M, each once, in the list of its kind and in the
\* order of f.
HoldInOrder(ll, f, M) ==
    /\ ll \in [Kinds -> Seq(Timers)]
    /\ \A k \in Kinds : /\ Once(ll[k]) /\ Sorted(ll[k], f)
                        /\ \A u : InList(ll[k], u) <=> u \in M /\ Which(u) = k

members(ll) == {u \in Timers : InList(ll[Which(u)], u)}

\* M is what is in the lists.
LEMMA HoldMembers ==
    ASSUME NEW ll, NEW f, NEW M \in SUBSET Timers, HoldInOrder(ll, f, M)
    PROVE  /\ members(ll) = M
           /\ \A k \in Kinds : ll[k] = << >> <=> \A u \in M : Which(u) # k
           /\ \A k \in Kinds : \A i \in 1 .. Len(ll[k]) : Which(ll[k][i]) = k
  <1>1. \A u \in Timers : InList(ll[Which(u)], u) <=> u \in M
    BY Kind DEF HoldInOrder
  <1>2. members(ll) = M
    BY <1>1 DEF members
  <1>3. ASSUME NEW k \in Kinds
        PROVE  /\ ll[k] = << >> <=> \A u \in M : Which(u) # k
               /\ \A i \in 1 .. Len(ll[k]) : Which(ll[k][i]) = k
    <2>1. /\ ll[k] \in Seq(Timers)
          /\ \A u : InList(ll[k], u) <=> u \in M /\ Which(u) = k
      BY DEF HoldInOrder
    <2>2. ll[k] # << >> <=> \E y \in Timers : InList(ll[k], y)
      BY <2>1, EmptyOf
    <2>3. \A i \in 1 .. Len(ll[k]) : InList(ll[k], ll[k][i])
      BY DEF InList
    <2> QED
      BY <2>1, <2>2, <2>3
  <1> QED
    BY <1>2, <1>3

\* One list is replaced.
LEMMA HoldReplaced ==
    ASSUME NEW ll, NEW f, NEW M \in SUBSET Timers, HoldInOrder(ll, f, M),
           NEW k \in Kinds, NEW r \in Seq(Timers), Once(r), Sorted(r, f),
           NEW N \in SUBSET Timers, \A u : InList(r, u) <=> u \in N /\ Which(u) = k,
           \A u : Which(u) # k => (u \in N <=> u \in M)
    PROVE  HoldInOrder([ll EXCEPT ![k] = r], f, N)
  <1> DEFINE new == [ll EXCEPT ![k] = r]
  <1>1. ll \in [Kinds -> Seq(Timers)]
    BY DEF HoldInOrder
  <1>2. new \in [Kinds -> Seq(Timers)] /\ \A j \in Kinds : new[j] = IF j = k THEN r ELSE ll[j]
    BY <1>1
  <1> HIDE DEF new
  <1>3. ASSUME NEW j \in Kinds
        PROVE  /\ Once(new[j]) /\ Sorted(new[j], f)
               /\ \A u : InList(new[j], u) <=> u \in N /\ Which(u) = j
    <2>1. CASE j = k
      BY <1>2, <2>1
    <2>2. CASE j # k
      BY <1>2, <2>2 DEF HoldInOrder
    <2> QED
      BY <2>1, <2>2
  <1>4. HoldInOrder(new, f, N)
    BY <1>2, <1>3 DEF HoldInOrder
  <1> QED
    BY <1>4 DEF new

\* Only the keys of the members matter.
LEMMA HoldSame ==
    ASSUME NEW ll, NEW f, NEW g, NEW M \in SUBSET Timers, HoldInOrder(ll, f, M),
           \A u \in M : f[u] = g[u]
    PROVE  HoldInOrder(ll, g, M)
  <1>1. ASSUME NEW k \in Kinds PROVE Sorted(ll[k], g)
    <2>1. /\ ll[k] \in Seq(Timers) /\ Sorted(ll[k], f)
          /\ \A u : InList(ll[k], u) => f[u] = g[u]
      BY DEF HoldInOrder
    <2> QED
      BY <2>1, SortedSame
  <1> QED
    BY <1>1 DEF HoldInOrder

\* A timer is taken off.
LEMMA HoldRemoved ==
    ASSUME NEW ll, NEW f, NEW M \in SUBSET Timers, HoldInOrder(ll, f, M), NEW t \in Timers
    PROVE  HoldInOrder([ll EXCEPT ![Which(t)] = rt_list_remove(@, t)], f, M \ {t})
  <1> DEFINE k == Which(t)
             r == rt_list_remove(ll[k], t)
  <1>0. k \in Kinds /\ M \ {t} \in SUBSET Timers
    BY Kind
  <1>1. /\ ll[k] \in Seq(Timers) /\ Once(ll[k]) /\ Sorted(ll[k], f)
        /\ \A u : InList(ll[k], u) <=> u \in M /\ Which(u) = k
    BY <1>0 DEF HoldInOrder
  <1>2. r \in Seq(Timers) /\ Once(r) /\ ~InList(r, t)
        /\ \A y : y # t => (InList(r, y) <=> InList(ll[k], y))
    BY <1>1, RemovedMembers
  <1>3. Sorted(r, f)
    BY <1>1, SortedRemoved
  <1> HIDE DEF r
  <1>4. \A u : InList(r, u) <=> u \in M \ {t} /\ Which(u) = k
    BY <1>1, <1>2
  <1>5. \A u : Which(u) # k => (u \in M \ {t} <=> u \in M)
    OBVIOUS
  <1>6. HoldInOrder([ll EXCEPT ![k] = r], f, M \ {t})
    BY <1>0, <1>2, <1>3, <1>4, <1>5, HoldReplaced
  <1> QED
    BY <1>6 DEF r

\* A timer that is in no list is linked in where the scan of rt_timer_start stops.
LEMMA HoldInserted ==
    ASSUME NEW ll, NEW f \in [Timers -> Int], NEW M \in SUBSET Timers, HoldInOrder(ll, f, M),
           NEW t \in Timers, t \notin M,
           NEW W, W = {i \in 1 .. Len(ll[Which(t)]) : f[t] < f[ll[Which(t)][i]]}
    PROVE  HoldInOrder([ll EXCEPT ![Which(t)] = rt_list_insert_before(@, W, t)], f, M \cup {t})
  <1> DEFINE k == Which(t)
             r == rt_list_insert_before(ll[k], W, t)
  <1>0. k \in Kinds /\ M \cup {t} \in SUBSET Timers
    BY Kind
  <1>1. /\ ll[k] \in Seq(Timers) /\ Once(ll[k]) /\ Sorted(ll[k], f)
        /\ \A u : InList(ll[k], u) <=> u \in M /\ Which(u) = k
    BY <1>0 DEF HoldInOrder
  <1>2. W \in SUBSET (1 .. Len(ll[k])) /\ ~InList(ll[k], t)
    BY <1>1
  <1>3. r \in Seq(Timers) /\ Once(r) /\ \A y : InList(r, y) <=> InList(ll[k], y) \/ y = t
    BY <1>1, <1>2, Inserted
  <1>4. Sorted(r, f)
    BY <1>1, SortedInserted
  <1> HIDE DEF r
  <1>5. \A u : InList(r, u) <=> u \in M \cup {t} /\ Which(u) = k
    BY <1>1, <1>3
  <1>6. \A u : Which(u) # k => (u \in M \cup {t} <=> u \in M)
    OBVIOUS
  <1>7. HoldInOrder([ll EXCEPT ![k] = r], f, M \cup {t})
    BY <1>0, <1>3, <1>4, <1>5, <1>6, HoldReplaced
  <1> QED
    BY <1>7 DEF r

\* The head of a list is the first of its kind, and can be taken off.
LEMMA HoldTail ==
    ASSUME NEW ll, NEW f \in [Timers -> Int], NEW M \in SUBSET Timers, HoldInOrder(ll, f, M),
           NEW k \in Kinds, ll[k] # << >>
    PROVE  /\ Head(ll[k]) \in M /\ Which(Head(ll[k])) = k
           /\ \A u \in M : Which(u) = k => f[Head(ll[k])] <= f[u]
           /\ HoldInOrder([ll EXCEPT ![k] = Tail(@)], f, M \ {Head(ll[k])})
  <1> DEFINE h == Head(ll[k])
             r == Tail(ll[k])
  <1>1. /\ ll[k] \in Seq(Timers) /\ Once(ll[k]) /\ Sorted(ll[k], f)
        /\ \A u : InList(ll[k], u) <=> u \in M /\ Which(u) = k
    BY DEF HoldInOrder
  <1>2. /\ r \in Seq(Timers) /\ InList(ll[k], h) /\ Once(r) /\ ~InList(r, h)
        /\ \A y : InList(ll[k], y) <=> InList(r, y) \/ y = h
    BY <1>1, TailOf
  <1>3. Sorted(r, f) /\ \A y : InList(ll[k], y) => f[h] <= f[y]
    BY <1>1, SortedTail
  <1> HIDE DEF r, h
  <1>4. h \in M /\ Which(h) = k /\ \A u \in M : Which(u) = k => f[h] <= f[u]
    BY <1>1, <1>2, <1>3
  <1>5. /\ M \ {h} \in SUBSET Timers
        /\ \A u : InList(r, u) <=> u \in M \ {h} /\ Which(u) = k
        /\ \A u : Which(u) # k => (u \in M \ {h} <=> u \in M)
    BY <1>1, <1>2, <1>4
  <1>6. HoldInOrder([ll EXCEPT ![k] = r], f, M \ {h})
    BY <1>2, <1>3, <1>5, HoldReplaced
  <1> QED
    BY <1>4, <1>6 DEF r, h

\* rt_list_remove on a timer in the other list does nothing.
LEMMA HoldCleared ==
    ASSUME NEW ll, NEW f, NEW M \in SUBSET Timers, HoldInOrder(ll, f, M), NEW t \in Timers
    PROVE  HoldInOrder([k \in Kinds |-> rt_list_remove(ll[k], t)], f, M \ {t})
  <1> DEFINE old == [ll EXCEPT ![Which(t)] = rt_list_remove(@, t)]
             new == [k \in Kinds |-> rt_list_remove(ll[k], t)]
  <1>1. ll \in [Kinds -> Seq(Timers)] /\ Which(t) \in Kinds
    BY Kind DEF HoldInOrder
  <1>2. ASSUME NEW k \in Kinds, k # Which(t) PROVE rt_list_remove(ll[k], t) = ll[k]
    <2>1. ~InList(ll[k], t)
      BY <1>2 DEF HoldInOrder
    <2> QED
      BY <2>1 DEF rt_list_remove
  <1>3. old = new
    BY <1>1, <1>2
  <1>4. HoldInOrder(old, f, M \ {t})
    BY HoldRemoved
  <1> QED
    BY <1>3, <1>4

-----------------------------------------------------------------------------
(* The inductive invariant *)

\* The timers in the lists, and how far ahead their timeouts are.
running == members(timer_list)

aheads == [u \in Timers |-> Ahead(u)]

Scalars ==
    /\ tick \in Ticks
    /\ active \in [Timers -> BOOLEAN]
    /\ periodic \in [Timers -> BOOLEAN]
    /\ init_tick \in [Hard \cup Soft -> Periods]
    /\ timeout_tick \in [Timers -> Ticks]
    /\ firing \in Soft \cup {None}
    /\ soft_timer_status \in {"IDLE", "BUSY"}
    /\ stat \in {"READY", "SUSPEND"}
    /\ pc \in {"next", "suspend", "delay", "sleep", "check", "callback"}
    /\ next_timeout \in Ticks
    /\ section \in {None, "tick", "soft"}

ListsHold == HoldInOrder(timer_list, aheads, running)

FlagAgrees == \A t \in Timers : active[t] <=> t \in running \/ (t = firing /\ periodic[t])

\* Where the timer thread is and what it has in hand.
ThreadAgrees ==
    /\ firing # None => firing \notin running /\ pc = "callback"
    /\ pc = "callback" <=> soft_timer_status = "BUSY"
    /\ ~periodic[ThreadTimer]
    /\ stat = "SUSPEND" => pc = "check"
    /\ stat = "SUSPEND" => ThreadTimer \in running \/ \A u \in Soft : u \notin running
    /\ ThreadTimer \in running => stat = "SUSPEND"
    /\ pc = "suspend" => \A u \in Soft : u \notin running
    /\ pc = "sleep" => 1 <= next_timeout /\ next_timeout < Half

\* A hard timer is taken off its list before the tick goes on; a soft one is never
\* later than MostLate, and what the thread has read or set lets it be in time.
HardInTime(u) == 0 <= Ahead(u)

SoftInTime(u) ==
    /\ 0 - MostLate <= Ahead(u) /\ Ahead(u) <= Longest
    /\ ThreadTimer \in running => Ahead(ThreadTimer) - MostLate <= Ahead(u)
    /\ pc \in {"next", "suspend", "delay", "sleep"} => 0 - MaxLate <= Ahead(u)
    /\ pc = "delay" => minus(timeout_tick[u], next_timeout) <= Longest + MaxLate
    /\ pc = "sleep" => next_timeout <= Longest

InTime ==
    /\ \A u \in running : u \notin Soft => HardInTime(u)
    /\ \A u \in running : u \in Soft => SoftInTime(u)

TimerInv == Scalars /\ ListsHold /\ FlagAgrees /\ ThreadAgrees /\ InTime

\* Types of what the invariant speaks about.
LEMMA TimerTypes ==
    ASSUME TimerInv
    PROVE  /\ tick \in Ticks /\ timeout_tick \in [Timers -> Ticks]
           /\ running \in SUBSET Timers /\ HoldInOrder(timer_list, aheads, running)
           /\ \A u \in Timers : /\ timeout_tick[u] \in Ticks
                                /\ Ahead(u) \in Int /\ Ahead(u) < Half /\ Half - TickRange <= Ahead(u)
           /\ aheads \in [Timers -> Int] /\ \A u \in Timers : aheads[u] = Ahead(u)
  <1>1. tick \in Ticks /\ timeout_tick \in [Timers -> Ticks] /\ \A u \in Timers : timeout_tick[u] \in Ticks
    BY DEF TimerInv, Scalars
  <1>2. \A u \in Timers : Ahead(u) \in Int /\ Ahead(u) < Half /\ Half - TickRange <= Ahead(u)
    BY <1>1, Distances DEF Ahead
  <1>3. aheads \in [Timers -> Int] /\ \A u \in Timers : aheads[u] = Ahead(u)
    BY <1>2 DEF aheads
  <1>4. running \in SUBSET Timers /\ HoldInOrder(timer_list, aheads, running)
    BY DEF running, members, TimerInv, ListsHold
  <1> QED
    BY <1>1, <1>2, <1>3, <1>4

\* The invariant implies what the run checks.
LEMMA TimerInvMeans == TimerInv => TypeOK /\ ActivatedIsListed /\ ListsInOrder /\ AlarmIsSet
  <1> SUFFICES ASSUME TimerInv PROVE TypeOK /\ ActivatedIsListed /\ ListsInOrder /\ AlarmIsSet
    OBVIOUS
  <1>0. /\ \A k \in Kinds : timer_list[k] = << >> <=> \A u \in running : Which(u) # k
        /\ \A k \in Kinds : \A i \in 1 .. Len(timer_list[k]) : Which(timer_list[k][i]) = k
    BY TimerTypes, HoldMembers
  <1>1. /\ timer_list \in [Kinds -> Seq(Timers)]
        /\ \A k \in Kinds : /\ Once(timer_list[k]) /\ Sorted(timer_list[k], aheads)
                            /\ \A u : InList(timer_list[k], u) <=> u \in running /\ Which(u) = k
    BY DEF TimerInv, ListsHold, HoldInOrder
  <1>2. \A u \in Timers : Listed(u) <=> u \in running
    BY DEF Listed, running, members
  <1>3. TypeOK
    BY <1>0, <1>1 DEF TimerInv, Scalars, TypeOK
  <1>4. ActivatedIsListed
    BY <1>1, <1>2 DEF TimerInv, FlagAgrees, ActivatedIsListed
  <1>5. AlarmIsSet
    <2>1. timer_list["soft"] = << >> <=> \A u \in Soft : u \notin running
      BY <1>0, Kind, TimerTypes
    <2>2. Listed(ThreadTimer) <=> ThreadTimer \in running
      BY <1>2, Kind
    <2> QED
      BY <2>1, <2>2 DEF TimerInv, ThreadAgrees, AlarmIsSet
  <1>6. ASSUME NEW k \in Kinds, NEW i \in 1 .. Len(timer_list[k]),
               NEW j \in 1 .. Len(timer_list[k]), i < j
        PROVE  minus(timeout_tick[timer_list[k][j]], timeout_tick[timer_list[k][i]]) < Half
    <2> DEFINE u == timer_list[k][i]
               v == timer_list[k][j]
    <2>1. u \in running /\ v \in running /\ Which(u) = k /\ Which(v) = k
      BY <1>1 DEF InList
    <2>2. aheads[u] <= aheads[v]
      BY <1>1, <1>6 DEF Sorted
    <2> HIDE DEF u, v
    <2>3. /\ u \in Timers /\ v \in Timers /\ tick \in Ticks
          /\ timeout_tick[u] \in Ticks /\ timeout_tick[v] \in Ticks
          /\ Ahead(u) \in Int /\ Ahead(v) \in Int /\ Ahead(v) < Half
          /\ Ahead(u) <= Ahead(v)
      BY <2>1, <2>2, TimerTypes
    <2>4. minus(timeout_tick[v], timeout_tick[u]) = Ahead(v) - Ahead(u)
      BY <2>3, Distances DEF Ahead
    <2>5. Ahead(v) - Ahead(u) < Half
      <3>1. CASE u \notin Soft
        BY <2>1, <2>3, <3>1, Wheel DEF TimerInv, InTime, HardInTime
      <3>2. CASE u \in Soft
        <4>1. v \in Soft
          BY <2>1, <2>3, <3>2, Kind
        <4> QED
          BY <2>1, <2>3, <3>2, <4>1, Wheel DEF TimerInv, InTime, SoftInTime
      <3> QED
        BY <3>1, <3>2
    <2> QED
      BY <2>4, <2>5 DEF u, v
  <1> QED
    BY <1>3, <1>4, <1>5, <1>6 DEF ListsInOrder

\* It holds at first.
LEMMA TimerStarts == Init => TimerInv
  <1> SUFFICES ASSUME Init PROVE TimerInv
    OBVIOUS
  <1>1. 0 \in Ticks
    BY Wheel DEF Ticks
  <1>2. Scalars
    BY <1>1 DEF Init, Scalars
  <1>3. \A k \in Kinds : timer_list[k] = << >>
    BY DEF Init
  <1>4. running = {}
    BY <1>3, Kind, NothingListed DEF running, members
  <1>5. HoldInOrder(timer_list, aheads, {})
    <2>1. timer_list \in [Kinds -> Seq(Timers)]
      BY EmptySeq DEF Init
    <2>2. Sorted(<< >>, aheads)
      <3>1. Len(<< >>) = 0
        OBVIOUS
      <3> QED
        BY <3>1 DEF Sorted
    <2> QED
      BY <1>3, <2>1, <2>2, NothingListed DEF HoldInOrder
  <1>6. firing = None /\ pc = "next" /\ soft_timer_status = "IDLE" /\ stat = "READY"
        /\ ~periodic[ThreadTimer] /\ \A t \in Timers : ~active[t]
    BY DEF Init
  <1>7. FlagAgrees
    BY <1>4, <1>6, Kind DEF FlagAgrees
  <1>8. ThreadAgrees
    BY <1>4, <1>6 DEF ThreadAgrees
  <1>9. ListsHold
    BY <1>4, <1>5 DEF ListsHold
  <1>10. InTime
    BY <1>4 DEF InTime
  <1> QED
    BY <1>2, <1>7, <1>8, <1>9, <1>10 DEF TimerInv

-----------------------------------------------------------------------------
(* What the operations do to the lists *)

\* The lists of the next state.
LEMMA ListsFollow ==
    ASSUME NEW M \in SUBSET Timers, NEW f, HoldInOrder(timer_list', f, M),
           \A u \in M : f[u] = Ahead(u)'
    PROVE  running' = M /\ ListsHold'
  <1>1. members(timer_list') = M
    BY HoldMembers
  <1>2. running' = M
    BY <1>1 DEF running
  <1>3. \A u \in M : f[u] = aheads'[u]
    BY DEF aheads
  <1>4. HoldInOrder(timer_list', aheads', M)
    BY <1>3, HoldSame
  <1> QED
    BY <1>2, <1>4 DEF ListsHold

\* A distance changes only with the timeout and the tick.
LEMMA AheadStays ==
    ASSUME NEW u, tick' = tick, timeout_tick'[u] = timeout_tick[u]
    PROVE  Ahead(u)' = Ahead(u)
  BY DEF Ahead

\* In front of whom the scan stops.
LEMMA ScanStops ==
    ASSUME TimerInv, NEW u \in Timers, NEW n \in 0 .. Half - 1, n - Ahead(u) < Half
    PROVE  goes_before(plus(tick, n), u) <=> n < Ahead(u)
  <1> DEFINE d == minus(timeout_tick[u], plus(tick, n))
             a == Ahead(u)
  <1>1. tick \in Ticks /\ timeout_tick[u] \in Ticks /\ a \in Int /\ a < Half
    BY TimerTypes
  <1>2. plus(tick, n) \in Ticks /\ Distance(plus(tick, n), tick) = n
    BY <1>1, Distances
  <1>3. d = IF n <= a THEN a - n ELSE a - n + TickRange
    <2>1. \A x, y \in Ticks :
             minus(y, x) = IF Distance(x, tick) <= Distance(y, tick)
                           THEN Distance(y, tick) - Distance(x, tick)
                           ELSE Distance(y, tick) - Distance(x, tick) + TickRange
      BY <1>1, Distances
    <2>2. a = Distance(timeout_tick[u], tick)
      BY DEF Ahead
    <2> HIDE DEF a
    <2> QED
      BY <1>1, <1>2, <2>1, <2>2
  <1>4. n \in Nat /\ n - a < Half
    BY Wheel
  <1>5. goes_before(plus(tick, n), u) <=> d # 0 /\ d < Half
    BY DEF goes_before
  <1> HIDE DEF d, a
  <1>6. d # 0 /\ d < Half <=> n < a
    BY <1>1, <1>3, <1>4, Wheel
  <1> QED
    BY <1>5, <1>6 DEF a

\* A new timeout is linked in at its place.
LEMMA InsertEffect ==
    ASSUME TimerInv, NEW ll, NEW f \in [Timers -> Int], NEW M \in SUBSET Timers,
           HoldInOrder(ll, f, M), NEW t \in Timers, t \notin M, NEW n \in 0 .. Half - 1,
           f[t] = n, \A u \in M : f[u] = Ahead(u) /\ n - Ahead(u) < Half
    PROVE  HoldInOrder([ll EXCEPT ![Which(t)] = inserted(@, t, plus(tick, n))], f, M \cup {t})
  <1> DEFINE l == ll[Which(t)]
             W == {i \in 1 .. Len(l) : f[t] < f[l[i]]}
             V == {i \in 1 .. Len(l) : goes_before(plus(tick, n), l[i])}
  <1>1. \A i \in 1 .. Len(l) : l[i] \in M
    BY Kind DEF HoldInOrder, InList
  <1>2. ASSUME NEW i \in 1 .. Len(l)
        PROVE  f[t] < f[l[i]] <=> goes_before(plus(tick, n), l[i])
    <2>1. l[i] \in Timers /\ f[l[i]] = Ahead(l[i]) /\ n - Ahead(l[i]) < Half
      BY <1>1
    <2> QED
      BY <2>1, ScanStops
  <1>3. W = V
    BY <1>2
  <1>4. HoldInOrder([ll EXCEPT ![Which(t)] = rt_list_insert_before(@, W, t)], f, M \cup {t})
    BY HoldInserted
  <1>5. [ll EXCEPT ![Which(t)] = rt_list_insert_before(@, V, t)]
        = [ll EXCEPT ![Which(t)] = inserted(@, t, plus(tick, n))]
    BY DEF inserted
  <1> QED
    BY <1>3, <1>4, <1>5

\* rt_timer_stop takes one timer off.
LEMMA StopEffect ==
    ASSUME TimerInv, NEW t \in Timers, stop(t), tick' = tick
    PROVE  /\ running' = running \ {t} /\ ListsHold'
           /\ timeout_tick' \in [Timers -> Ticks] /\ active' \in [Timers -> BOOLEAN]
           /\ \A u \in Timers : active'[u] <=> active[u] /\ u # t
           /\ \A u \in Timers : u # t => Ahead(u)' = Ahead(u) /\ timeout_tick'[u] = timeout_tick[u]
  <1>0. 0 \in Ticks
    BY Wheel DEF Ticks
  <1>1. timeout_tick' = [timeout_tick EXCEPT ![t] = 0] /\ active' = [active EXCEPT ![t] = FALSE]
    BY DEF stop
  <1>2. timeout_tick \in [Timers -> Ticks] /\ active \in [Timers -> BOOLEAN]
    BY DEF TimerInv, Scalars
  <1>3. timeout_tick' \in [Timers -> Ticks] /\ active' \in [Timers -> BOOLEAN]
    BY <1>0, <1>1, <1>2
  <1>4. \A u \in Timers : active'[u] <=> active[u] /\ u # t
    BY <1>1, <1>2
  <1>5. \A u \in Timers : u # t => timeout_tick'[u] = timeout_tick[u]
    BY <1>1, <1>2
  <1>6. \A u \in Timers : u # t => Ahead(u)' = Ahead(u)
    BY <1>5, AheadStays
  <1>7. HoldInOrder([timer_list EXCEPT ![Which(t)] = rt_list_remove(@, t)], aheads, running \ {t})
    BY TimerTypes, HoldRemoved
  <1>8. timer_list' = [timer_list EXCEPT ![Which(t)] = rt_list_remove(@, t)]
    BY DEF stop
  <1>9. HoldInOrder(timer_list', aheads, running \ {t})
    BY <1>7, <1>8
  <1>10. \A u \in running \ {t} : aheads[u] = Ahead(u)'
    BY <1>6, TimerTypes
  <1>11. running \ {t} \in SUBSET Timers
    BY TimerTypes
  <1>12. running' = running \ {t} /\ ListsHold'
    BY <1>9, <1>10, <1>11, ListsFollow
  <1> QED
    BY <1>3, <1>4, <1>5, <1>6, <1>12

\* No timer in a list is so late that a new timeout of at most n could be mistaken.
LEMMA NoneIsTooLate ==
    ASSUME TimerInv, NEW n \in 0 .. Longest, NEW u \in running
    PROVE  n - Ahead(u) < Half
  <1>1. u \in Timers /\ Ahead(u) \in Int
    BY TimerTypes
  <1>2. 0 - MostLate <= Ahead(u)
    BY <1>1, Wheel DEF TimerInv, InTime, HardInTime, SoftInTime
  <1> QED
    BY <1>1, <1>2, Wheel

\* The timer thread's own timer is off when rt_timer_start has resumed the thread.
Woken(t) == IF resumes_thread(t) THEN {ThreadTimer} ELSE {}

\* rt_timer_start links one timer in.
LEMMA StartEffect ==
    ASSUME TimerInv, NEW t \in Hard \cup Soft, start(t), tick' = tick
    PROVE  /\ running' = (running \ Woken(t)) \cup {t} /\ ListsHold'
           /\ timeout_tick' \in [Timers -> Ticks] /\ active' \in [Timers -> BOOLEAN]
           /\ \A u \in Timers : active'[u] <=> u = t \/ (active[u] /\ u \notin Woken(t))
           /\ \A u \in running' : u # t => Ahead(u)' = Ahead(u) /\ timeout_tick'[u] = timeout_tick[u]
           /\ Ahead(t)' = init_tick[t]
           /\ stat' = IF resumes_thread(t) THEN "READY" ELSE stat
  <1> DEFINE n == init_tick[t]
             due == plus(tick, n)
             rest == [k \in Kinds |-> rt_list_remove(timer_list[k], t)]
             with == [rest EXCEPT ![Which(t)] = inserted(@, t, due)]
             f == [u \in Timers |-> IF u = t THEN n ELSE Ahead(u)]
             M == running \ {t}
  <1>0. t \in Timers /\ t # ThreadTimer /\ ThreadTimer \in Timers
    BY Kind
  <1>1. n \in Periods
    BY DEF TimerInv, Scalars
  <1>2. n \in 0 .. Longest /\ n \in 0 .. Half - 1 /\ n \in Int
    BY <1>1, Wheel
  <1>3. 0 \in Ticks /\ due \in Ticks /\ Distance(due, tick) = n
    BY <1>2, Wheel, TimerTypes, Distances DEF Ticks
  <1>4. f \in [Timers -> Int] /\ f[t] = n /\ \A u \in Timers : u # t => f[u] = Ahead(u)
    BY <1>0, <1>2, TimerTypes
  <1> HIDE DEF f
  <1>5. M \in SUBSET Timers
    BY TimerTypes
  <1>6. HoldInOrder(rest, aheads, M)
    BY <1>0, TimerTypes, HoldCleared
  <1>7. \A u \in M : aheads[u] = f[u]
    BY <1>4, TimerTypes
  <1>8. HoldInOrder(rest, f, M)
    BY <1>5, <1>6, <1>7, HoldSame
  <1>9. \A u \in M : f[u] = Ahead(u) /\ n - Ahead(u) < Half
    BY <1>2, <1>4, <1>5, NoneIsTooLate
  <1>10. HoldInOrder(with, f, running \cup {t})
    <2>1. t \notin M /\ M \cup {t} = running \cup {t}
      OBVIOUS
    <2> HIDE DEF M, n, rest
    <2>2. HoldInOrder(with, f, M \cup {t})
      BY <1>0, <1>2, <1>4, <1>5, <1>8, <1>9, <2>1, InsertEffect
    <2> QED
      BY <2>1, <2>2
  <1>11. running \cup {t} \in SUBSET Timers /\ (running \ Woken(t)) \cup {t} \in SUBSET Timers
    BY <1>0, TimerTypes
  <1>12. timer_list' = IF resumes_thread(t) THEN [with EXCEPT !["hard"] = rt_list_remove(@, ThreadTimer)]
                       ELSE with
    BY DEF start
  <1> HIDE DEF with
  <1>13. HoldInOrder(timer_list', f, (running \ Woken(t)) \cup {t})
    <2>1. CASE resumes_thread(t)
      <3>1. Which(ThreadTimer) = "hard"
        BY Kind
      <3>2. HoldInOrder([with EXCEPT ![Which(ThreadTimer)] = rt_list_remove(@, ThreadTimer)], f,
                        (running \cup {t}) \ {ThreadTimer})
        BY <1>0, <1>10, <1>11, HoldRemoved
      <3>3. (running \cup {t}) \ {ThreadTimer} = (running \ Woken(t)) \cup {t}
        BY <1>0, <2>1 DEF Woken
      <3>4. timer_list' = [with EXCEPT ![Which(ThreadTimer)] = rt_list_remove(@, ThreadTimer)]
        BY <1>12, <2>1, <3>1
      <3> QED
        BY <3>2, <3>3, <3>4
    <2>2. CASE ~resumes_thread(t)
      <3>1. timer_list' = with
        BY <1>12, <2>2
      <3>2. running \cup {t} = (running \ Woken(t)) \cup {t}
        BY <2>2 DEF Woken
      <3> QED
        BY <1>10, <3>1, <3>2
    <2> QED
      BY <2>1, <2>2
  <1>14. timeout_tick' = [u \in Timers |-> IF u = t THEN due
                                           ELSE IF resumes_thread(t) /\ u = ThreadTimer THEN 0
                                           ELSE timeout_tick[u]]
    BY DEF start
  <1>15. timeout_tick' \in [Timers -> Ticks]
    BY <1>3, <1>14, TimerTypes
  <1>16. Ahead(t)' = n
    BY <1>0, <1>3, <1>14 DEF Ahead
  <1>17. \A u \in Timers : u # t /\ u \notin Woken(t) => timeout_tick'[u] = timeout_tick[u]
    BY <1>14 DEF Woken
  <1>18. \A u \in Timers : u # t /\ u \notin Woken(t) => Ahead(u)' = Ahead(u)
    BY <1>17, AheadStays
  <1>19. \A u \in (running \ Woken(t)) \cup {t} : f[u] = Ahead(u)'
    BY <1>4, <1>11, <1>16, <1>18
  <1>20. running' = (running \ Woken(t)) \cup {t} /\ ListsHold'
    BY <1>11, <1>13, <1>19, ListsFollow
  <1>21. active' = [u \in Timers |-> IF u = t THEN TRUE
                                     ELSE active[u] /\ ~(resumes_thread(t) /\ u = ThreadTimer)]
         /\ stat' = IF resumes_thread(t) THEN "READY" ELSE stat
    BY DEF start
  <1>22. active \in [Timers -> BOOLEAN]
    BY DEF TimerInv, Scalars
  <1>23. active' \in [Timers -> BOOLEAN]
    BY <1>21, <1>22
  <1>24. \A u \in Timers : active'[u] <=> u = t \/ (active[u] /\ u \notin Woken(t))
    BY <1>21 DEF Woken
  <1> QED
    BY <1>11, <1>15, <1>16, <1>17, <1>18, <1>20, <1>21, <1>23, <1>24

-----------------------------------------------------------------------------
(* The steps that start or stop a timer *)

\* What the starting and the stopping of a timer leave alone, and the temporary list of
\* rt_soft_timer_check, from which the timer goes.
Quiet(t) ==
    /\ UNCHANGED <<tick, periodic, init_tick, next_timeout>>
    /\ section' \in {None, "tick", "soft"}
    /\ firing' = IF t = firing THEN None ELSE firing

\* A step that stops a timer; the timeout of the thread's own one makes it ready.
LEMMA StopKeeps ==
    ASSUME TimerInv, NEW t \in Timers, stop(t), Quiet(t), UNCHANGED <<pc, soft_timer_status>>,
           stat' = IF t = ThreadTimer THEN "READY" ELSE stat
    PROVE  TimerInv'
  <1>1. /\ running' = running \ {t} /\ ListsHold'
        /\ timeout_tick' \in [Timers -> Ticks] /\ active' \in [Timers -> BOOLEAN]
        /\ \A u \in Timers : active'[u] <=> active[u] /\ u # t
        /\ \A u \in Timers : u # t => Ahead(u)' = Ahead(u) /\ timeout_tick'[u] = timeout_tick[u]
    BY StopEffect DEF Quiet
  <1>2. /\ tick' = tick /\ periodic' = periodic /\ init_tick' = init_tick
        /\ next_timeout' = next_timeout /\ pc' = pc /\ soft_timer_status' = soft_timer_status
        /\ section' \in {None, "tick", "soft"} /\ firing' = IF t = firing THEN None ELSE firing
        /\ stat' = IF t = ThreadTimer THEN "READY" ELSE stat
    BY DEF Quiet
  <1>3. Scalars'
    BY <1>1, <1>2 DEF TimerInv, Scalars
  <1>4. running \in SUBSET Timers /\ ThreadTimer \in Timers /\ Soft \subseteq Timers /\ None \notin Timers
    BY TimerTypes, Kind
  <1>5. FlagAgrees'
    BY <1>1, <1>2, <1>4 DEF TimerInv, FlagAgrees
  <1>6. ThreadAgrees'
    BY <1>1, <1>2 DEF TimerInv, ThreadAgrees
  <1>7. ASSUME NEW u \in running' PROVE u \in running /\ Ahead(u)' = Ahead(u) /\ timeout_tick'[u] = timeout_tick[u]
    BY <1>1, <1>4
  <1>8. ASSUME NEW u \in running', u \in Soft PROVE SoftInTime(u)'
    <2>1. SoftInTime(u)
      BY <1>7, <1>8 DEF TimerInv, InTime
    <2>2. ThreadTimer \in running' => ThreadTimer \in running /\ Ahead(ThreadTimer)' = Ahead(ThreadTimer)
      BY <1>7
    <2> QED
      BY <1>2, <1>7, <2>1, <2>2 DEF SoftInTime
  <1>9. ASSUME NEW u \in running', u \notin Soft PROVE HardInTime(u)'
    BY <1>7, <1>9 DEF TimerInv, InTime, HardInTime
  <1> QED
    BY <1>1, <1>3, <1>5, <1>6, <1>8, <1>9 DEF TimerInv, InTime

\* A step that starts a timer, also the one whose callback returns.
LEMMA StartKeeps ==
    ASSUME TimerInv, NEW t \in Hard \cup Soft, start(t), Quiet(t), t \in Soft => ~Gap,
           \/ UNCHANGED <<pc, soft_timer_status>>
           \/ /\ ThreadAt("callback") /\ firing' = None
              /\ pc' = "check" /\ soft_timer_status' = "IDLE"
    PROVE  TimerInv'
  <1>0. t \in Timers /\ t # ThreadTimer
    BY Kind
  <1>1. /\ running' = (running \ Woken(t)) \cup {t} /\ ListsHold'
        /\ timeout_tick' \in [Timers -> Ticks] /\ active' \in [Timers -> BOOLEAN]
        /\ \A u \in Timers : active'[u] <=> u = t \/ (active[u] /\ u \notin Woken(t))
        /\ \A u \in running' : u # t => Ahead(u)' = Ahead(u) /\ timeout_tick'[u] = timeout_tick[u]
        /\ Ahead(t)' = init_tick[t]
        /\ stat' = IF resumes_thread(t) THEN "READY" ELSE stat
    BY StartEffect DEF Quiet
  <1>2. /\ tick' = tick /\ periodic' = periodic /\ init_tick' = init_tick
        /\ next_timeout' = next_timeout
        /\ section' \in {None, "tick", "soft"} /\ firing' = IF t = firing THEN None ELSE firing
    BY DEF Quiet
  <1>3. \/ pc' = pc /\ soft_timer_status' = soft_timer_status
        \/ pc = "callback" /\ stat = "READY" /\ firing' = None /\ pc' = "check" /\ soft_timer_status' = "IDLE"
    BY DEF ThreadAt
  <1>4. running \in SUBSET Timers /\ ThreadTimer \in Timers /\ Soft \subseteq Timers /\ None \notin Timers
        /\ ThreadTimer \notin Soft
    BY TimerTypes, Kind
  <1>5. /\ Woken(t) = {} \/ Woken(t) = {ThreadTimer}
        /\ ThreadTimer \in Woken(t) <=> resumes_thread(t)
        /\ resumes_thread(t) <=> t \in Soft /\ soft_timer_status = "IDLE" /\ stat = "SUSPEND"
    BY DEF Woken, resumes_thread
  <1>6. Scalars'
    BY <1>1, <1>2, <1>3 DEF TimerInv, Scalars
  <1>7. FlagAgrees'
    <2> SUFFICES ASSUME NEW u \in Timers
                 PROVE  active'[u] <=> u \in running' \/ (u = firing' /\ periodic'[u])
      BY DEF FlagAgrees
    <2>1. active[u] <=> u \in running \/ (u = firing /\ periodic[u])
      BY DEF TimerInv, FlagAgrees
    <2>2. ~periodic[ThreadTimer]
      BY DEF TimerInv, ThreadAgrees
    <2>3. CASE u = t
      BY <1>1, <2>3
    <2>4. CASE u # t
      <3>1. u = firing' <=> u = firing
        BY <1>2, <1>3, <1>4, <2>4 DEF Scalars, TimerInv, ThreadAgrees
      <3> QED
        BY <1>1, <1>2, <1>5, <2>1, <2>2, <2>4, <3>1
    <2> QED
      BY <2>3, <2>4
  <1>8. /\ stat = "SUSPEND" => pc = "check" /\ soft_timer_status = "IDLE"
        /\ stat = "SUSPEND" \/ stat = "READY"
        /\ pc \in {"suspend", "delay", "sleep"} => t \notin Soft
    BY DEF TimerInv, ThreadAgrees, Scalars, Gap
  <1>9. ThreadAgrees'
    <2>1. firing' # None => firing' \notin running' /\ pc' = "callback"
      BY <1>1, <1>2, <1>3 DEF TimerInv, ThreadAgrees
    <2>2. pc' = "callback" <=> soft_timer_status' = "BUSY"
      BY <1>3 DEF TimerInv, ThreadAgrees
    <2>3. stat' = "SUSPEND" => stat = "SUSPEND" /\ ~resumes_thread(t) /\ t \notin Soft
      BY <1>1, <1>5, <1>8
    <2>4. ThreadTimer \in running' => ThreadTimer \in running /\ ~resumes_thread(t)
      BY <1>0, <1>1, <1>5
    <2>5. ThreadTimer \in running' => stat' = "SUSPEND"
      BY <1>1, <2>4 DEF TimerInv, ThreadAgrees
    <2>6. stat' = "SUSPEND" => ThreadTimer \in running' \/ \A u \in Soft : u \notin running'
      BY <1>1, <1>5, <2>3 DEF TimerInv, ThreadAgrees
    <2>7. pc' = "suspend" => \A u \in Soft : u \notin running'
      BY <1>1, <1>3, <1>8 DEF TimerInv, ThreadAgrees
    <2>8. stat' = "SUSPEND" => pc' = "check"
      BY <1>3, <1>8, <2>3
    <2>9. ~periodic'[ThreadTimer] /\ (pc' = "sleep" => 1 <= next_timeout' /\ next_timeout' < Half)
      BY <1>2, <1>3 DEF TimerInv, ThreadAgrees
    <2> QED
      BY <2>1, <2>2, <2>5, <2>6, <2>7, <2>8, <2>9 DEF ThreadAgrees
  <1>10. init_tick[t] \in Nat /\ 1 <= init_tick[t] /\ init_tick[t] <= Longest /\ MostLate \in Nat
         /\ MaxLate \in Nat
    BY Wheel DEF TimerInv, Scalars
  <1>11. ASSUME NEW u \in running', u \notin Soft PROVE HardInTime(u)'
    <2>1. CASE u = t
      BY <1>1, <1>10, <2>1 DEF HardInTime
    <2>2. CASE u # t
      BY <1>1, <1>11, <2>2 DEF TimerInv, InTime, HardInTime
    <2> QED
      BY <2>1, <2>2
  <1>12. ASSUME NEW u \in running', u \in Soft PROVE SoftInTime(u)'
    <2>1. CASE u = t
      <3>1. ThreadTimer \notin running'
        BY <1>0, <1>1, <1>5, <1>8, <1>12, <2>1 DEF TimerInv, ThreadAgrees
      <3>2. pc' # "delay" /\ pc' # "sleep"
        BY <1>3, <1>8, <1>12, <2>1
      <3>3. 0 - MostLate <= Ahead(u)' /\ Ahead(u)' <= Longest /\ 0 - MaxLate <= Ahead(u)'
        BY <1>1, <1>10, <2>1
      <3> QED
        BY <3>1, <3>2, <3>3 DEF SoftInTime
    <2>2. CASE u # t
      <3>1. u \in running /\ Ahead(u)' = Ahead(u) /\ timeout_tick'[u] = timeout_tick[u]
        BY <1>1, <2>2
      <3>2. SoftInTime(u)
        BY <1>12, <3>1 DEF TimerInv, InTime
      <3>3. ThreadTimer \in running' => ThreadTimer \in running /\ Ahead(ThreadTimer)' = Ahead(ThreadTimer)
        BY <1>0, <1>1
      <3> QED
        BY <1>2, <1>3, <3>1, <3>2, <3>3 DEF SoftInTime
    <2> QED
      BY <2>1, <2>2
  <1> QED
    BY <1>1, <1>6, <1>7, <1>9, <1>11, <1>12 DEF TimerInv, InTime

-----------------------------------------------------------------------------
(* The steps that look at the lists *)

\* The lists stay as they are.
LEMMA SameLists ==
    ASSUME TimerInv, UNCHANGED <<timer_list, timeout_tick, tick>>
    PROVE  running' = running /\ ListsHold' /\ \A u : Ahead(u)' = Ahead(u)
  <1>1. \A u : Ahead(u)' = Ahead(u)
    BY DEF Ahead
  <1>2. running \in SUBSET Timers /\ HoldInOrder(timer_list', aheads, running)
    BY TimerTypes
  <1>3. \A u \in running : aheads[u] = Ahead(u)'
    BY <1>1, TimerTypes
  <1> QED
    BY <1>1, <1>2, <1>3, ListsFollow

\* (current_tick - t->timeout_tick) < RT_TICK_MAX / 2 says that the timeout has come.
LEMMA ExpiredMeans ==
    ASSUME TimerInv, NEW u \in running
    PROVE  /\ expired(u) <=> Ahead(u) <= 0
           /\ Ahead(u) <= 0 => minus(tick, timeout_tick[u]) = 0 - Ahead(u)
  <1> DEFINE a == Ahead(u)
  <1>1. tick \in Ticks /\ timeout_tick[u] \in Ticks /\ a \in Int /\ a < Half
    BY TimerTypes
  <1>2. minus(tick, timeout_tick[u]) = IF a <= 0 THEN 0 - a ELSE TickRange - a
    BY <1>1, Distances DEF Ahead
  <1>3. 0 - a < Half
    <2>1. 0 \in 0 .. Longest
      BY Wheel
    <2> QED
      BY <2>1, NoneIsTooLate
  <1>4. expired(u) <=> minus(tick, timeout_tick[u]) < Half
    BY DEF expired
  <1> HIDE DEF a
  <1>5. minus(tick, timeout_tick[u]) < Half <=> a <= 0
    BY <1>1, <1>2, <1>3, Wheel
  <1> QED
    BY <1>1, <1>2, <1>4, <1>5 DEF a

\* The heads of the two lists.
LEMMA Heads ==
    ASSUME TimerInv
    PROVE  /\ HardDue => HardHead \in running /\ HardHead \notin Soft
           /\ ~HardDue => \A u \in running : u \notin Soft => 1 <= Ahead(u)
           /\ timer_list["soft"] = << >> <=> \A u \in Soft : u \notin running
           /\ timer_list["soft"] # << >> =>
                 /\ SoftHead \in running /\ SoftHead \in Soft
                 /\ \A u \in running : u \in Soft => Ahead(SoftHead) <= Ahead(u)
                 /\ HoldInOrder([timer_list EXCEPT !["soft"] = Tail(@)], aheads, running \ {SoftHead})
  <1>0. /\ running \in SUBSET Timers /\ HoldInOrder(timer_list, aheads, running)
        /\ aheads \in [Timers -> Int] /\ \A u \in Timers : aheads[u] = Ahead(u) /\ Ahead(u) \in Int
        /\ "hard" \in Kinds /\ "soft" \in Kinds
        /\ \A u \in Timers : (Which(u) = "soft" <=> u \in Soft) /\ (Which(u) = "hard" <=> u \notin Soft)
    BY TimerTypes, Kind
  <1>1. \A k \in Kinds : timer_list[k] = << >> <=> \A u \in running : Which(u) # k
    BY <1>0, HoldMembers
  <1>2. ASSUME timer_list["hard"] # << >>
        PROVE  /\ HardHead \in running /\ Which(HardHead) = "hard"
               /\ \A u \in running : Which(u) = "hard" => aheads[HardHead] <= aheads[u]
    BY <1>0, <1>2, HoldTail DEF HardHead
  <1>3. ASSUME timer_list["soft"] # << >>
        PROVE  /\ SoftHead \in running /\ Which(SoftHead) = "soft"
               /\ \A u \in running : Which(u) = "soft" => aheads[SoftHead] <= aheads[u]
               /\ HoldInOrder([timer_list EXCEPT !["soft"] = Tail(@)], aheads, running \ {SoftHead})
    BY <1>0, <1>3, HoldTail DEF SoftHead
  <1>4. HardDue => HardHead \in running /\ HardHead \notin Soft
    BY <1>0, <1>2 DEF HardDue
  <1>5. ASSUME ~HardDue, NEW u \in running, u \notin Soft PROVE 1 <= Ahead(u)
    <2>1. timer_list["hard"] # << >>
      BY <1>0, <1>1, <1>5
    <2>2. ~expired(HardHead) /\ HardHead \in running
      BY <1>2, <1>5, <2>1 DEF HardDue
    <2>3. ~(Ahead(HardHead) <= 0) /\ Ahead(HardHead) \in Int /\ Ahead(u) \in Int
      BY <1>0, <2>2, ExpiredMeans
    <2>4. Ahead(HardHead) <= Ahead(u)
      BY <1>0, <1>2, <1>5, <2>1
    <2> QED
      BY <2>3, <2>4
  <1>6. timer_list["soft"] = << >> <=> \A u \in Soft : u \notin running
    BY <1>0, <1>1, Kind
  <1>7. ASSUME timer_list["soft"] # << >>
        PROVE  /\ SoftHead \in running /\ SoftHead \in Soft
               /\ \A u \in running : u \in Soft => Ahead(SoftHead) <= Ahead(u)
    BY <1>0, <1>3, <1>7
  <1> QED
    BY <1>3, <1>4, <1>5, <1>6, <1>7

\* RT_TIMER_CTRL_SET_TIME and RT_TIMER_CTRL_SET_PERIODIC.
LEMMA SetTimeKeeps ==
    ASSUME TimerInv, NEW t \in Hard \cup Soft, NEW time \in Periods, set_time(t, time)
    PROVE  TimerInv'
  <1>1. running' = running /\ ListsHold' /\ \A u : Ahead(u)' = Ahead(u)
    BY SameLists DEF set_time
  <1>2. Scalars'
    BY DEF TimerInv, Scalars, set_time
  <1>3. FlagAgrees' /\ ThreadAgrees'
    BY <1>1 DEF TimerInv, FlagAgrees, ThreadAgrees, set_time
  <1>4. InTime'
    BY <1>1 DEF TimerInv, InTime, HardInTime, SoftInTime, set_time
  <1> QED
    BY <1>1, <1>2, <1>3, <1>4 DEF TimerInv

\* A timer is made periodic or not, but not inside its own callback.
LEMMA SetPeriodicKeeps ==
    ASSUME TimerInv, Disciplined, NEW t \in Hard \cup Soft, NEW p \in BOOLEAN, set_periodic(t, p)
    PROVE  TimerInv'
  <1>1. running' = running /\ ListsHold' /\ \A u : Ahead(u)' = Ahead(u)
    BY SameLists DEF set_periodic
  <1>2. t # firing /\ t # ThreadTimer /\ periodic' = [periodic EXCEPT ![t] = p]
    BY Kind DEF set_periodic
  <1>3. periodic \in [Timers -> BOOLEAN] /\ t \in Timers /\ ThreadTimer \in Timers
    BY Kind DEF TimerInv, Scalars
  <1>4. periodic' \in [Timers -> BOOLEAN]
    BY <1>2, <1>3
  <1>5. \A u \in Timers : u # t => periodic'[u] = periodic[u]
    BY <1>2, <1>3
  <1>6. Scalars'
    BY <1>4 DEF TimerInv, Scalars, set_periodic
  <1>7. FlagAgrees'
    <2> SUFFICES ASSUME NEW u \in Timers
                 PROVE  active'[u] <=> u \in running' \/ (u = firing' /\ periodic'[u])
      BY DEF FlagAgrees
    <2>1. active' = active /\ firing' = firing
      BY DEF set_periodic
    <2>2. active[u] <=> u \in running \/ (u = firing /\ periodic[u])
      BY DEF TimerInv, FlagAgrees
    <2> QED
      BY <1>1, <1>2, <1>5, <2>1, <2>2
  <1>8. ThreadAgrees'
    <2>1. ~periodic'[ThreadTimer]
      BY <1>2, <1>3, <1>5 DEF TimerInv, ThreadAgrees
    <2> QED
      BY <1>1, <2>1 DEF TimerInv, ThreadAgrees, set_periodic
  <1>9. InTime'
    BY <1>1 DEF TimerInv, InTime, HardInTime, SoftInTime, set_periodic
  <1> QED
    BY <1>1, <1>6, <1>7, <1>8, <1>9 DEF TimerInv

\* The tick interrupt takes and releases the lock.
LEMMA SectionKeeps ==
    ASSUME TimerInv, timer_check_enter \/ timer_check_leave \/ UNCHANGED vars
    PROVE  TimerInv'
  <1>0. /\ UNCHANGED <<tick, active, periodic, init_tick, timeout_tick, timer_list, firing,
                       soft_timer_status, stat, pc, next_timeout>>
        /\ section' \in {None, "tick"} \/ section' = section
    BY DEF timer_check_enter, timer_check_leave, vars
  <1>1. running' = running /\ ListsHold' /\ \A u : Ahead(u)' = Ahead(u)
    BY <1>0, SameLists
  <1>2. Scalars'
    BY <1>0 DEF TimerInv, Scalars
  <1>3. FlagAgrees' /\ ThreadAgrees'
    BY <1>0, <1>1 DEF TimerInv, FlagAgrees, ThreadAgrees
  <1>4. InTime'
    BY <1>0, <1>1 DEF TimerInv, InTime, HardInTime, SoftInTime
  <1> QED
    BY <1>1, <1>2, <1>3, <1>4 DEF TimerInv

-----------------------------------------------------------------------------
(* The tick *)

\* rt_tick_increase: every timeout comes one tick closer, and none is passed unseen.
LEMMA TickKeeps == ASSUME TimerInv, rt_tick_increase PROVE TimerInv'
  <1>0. /\ ~HardDue /\ tick' = plus(tick, 1)
        /\ \A t \in Soft : ~Late(t)
        /\ UNCHANGED <<active, periodic, init_tick, timeout_tick, timer_list, firing,
                       soft_timer_status, stat, pc, next_timeout, section>>
    BY DEF rt_tick_increase
  <1>1. running \in SUBSET Timers /\ Soft \subseteq Timers /\ tick \in Ticks
        /\ \A u \in Timers : timeout_tick[u] \in Ticks /\ Ahead(u) \in Int
    BY TimerTypes, Kind
  <1>2. \A u \in running : u \notin Soft => 1 <= Ahead(u)
    BY <1>0, Heads
  <1>3. ASSUME NEW u \in running, u \in Soft, stat = "READY" PROVE 1 - MaxLate <= Ahead(u)
    <2>1. Listed(u)
      BY <1>1 DEF running, members, Listed
    <2>2. ~(expired(u) /\ minus(tick, timeout_tick[u]) >= MaxLate)
      BY <1>0, <1>3, <2>1 DEF Late
    <2>3. CASE Ahead(u) <= 0
      <3>1. minus(tick, timeout_tick[u]) = 0 - Ahead(u) /\ expired(u) /\ Ahead(u) \in Int
        BY <1>1, <2>3, ExpiredMeans
      <3> QED
        BY <2>2, <3>1, Wheel
    <2>4. CASE ~(Ahead(u) <= 0)
      BY <1>1, <2>4, Wheel
    <2> QED
      BY <2>3, <2>4
  <1>4. ASSUME NEW u \in running, u \in Soft, stat = "SUSPEND"
        PROVE  /\ ThreadTimer \in running /\ 1 <= Ahead(ThreadTimer) /\ Ahead(ThreadTimer) \in Int
               /\ pc = "check"
               /\ Ahead(ThreadTimer) - MostLate <= Ahead(u)
    BY <1>1, <1>2, <1>4, Kind DEF TimerInv, ThreadAgrees, InTime, SoftInTime
  <1>5. stat = "SUSPEND" \/ stat = "READY"
    BY DEF TimerInv, Scalars
  <1>6. ASSUME NEW u \in running PROVE Ahead(u) > Half - TickRange
    <2>1. 0 \in 0 .. Longest
      BY Wheel
    <2>2. 0 - Ahead(u) < Half
      BY <2>1, NoneIsTooLate
    <2> QED
      BY <1>1, <2>2, Wheel
  <1>7. ASSUME NEW u \in running PROVE Ahead(u)' = Ahead(u) - 1
    <2>1. timeout_tick[u] \in Ticks /\ Distance(timeout_tick[u], tick) > Half - TickRange
      BY <1>1, <1>6 DEF Ahead
    <2>2. Distance(timeout_tick[u], plus(tick, 1)) = Distance(timeout_tick[u], tick) - 1
      BY <1>1, <2>1, Distances
    <2> QED
      BY <1>0, <2>2 DEF Ahead
  <1>8. Scalars'
    BY <1>0, <1>1, Distances DEF TimerInv, Scalars
  <1>9. running' = running /\ ListsHold'
    <2> DEFINE f == [u \in Timers |-> Ahead(u) - 1]
    <2>1. \A u \in running : f[u] = Ahead(u)'
      BY <1>1, <1>7
    <2>2. HoldInOrder(timer_list, aheads, running) /\ \A u \in Timers : aheads[u] = Ahead(u)
      BY TimerTypes
    <2>3. ASSUME NEW k \in Kinds PROVE Sorted(timer_list[k], f)
      <3> SUFFICES ASSUME NEW i \in 1 .. Len(timer_list[k]), NEW j \in 1 .. Len(timer_list[k]), i < j
                   PROVE  f[timer_list[k][i]] <= f[timer_list[k][j]]
        BY DEF Sorted
      <3>1. timer_list[k][i] \in running /\ timer_list[k][j] \in running
        BY <2>2 DEF HoldInOrder, InList
      <3>2. aheads[timer_list[k][i]] <= aheads[timer_list[k][j]]
        BY <2>2 DEF HoldInOrder, Sorted
      <3> QED
        BY <1>1, <2>2, <3>1, <3>2
    <2> HIDE DEF f
    <2>4. HoldInOrder(timer_list', f, running)
      BY <1>0, <2>2, <2>3 DEF HoldInOrder
    <2> QED
      BY <1>1, <2>1, <2>4, ListsFollow
  <1>10. FlagAgrees' /\ ThreadAgrees'
    BY <1>0, <1>9 DEF TimerInv, FlagAgrees, ThreadAgrees
  <1>11. ASSUME NEW u \in running', u \notin Soft PROVE HardInTime(u)'
    <2>1. u \in running /\ Ahead(u) \in Int /\ 1 <= Ahead(u) /\ Ahead(u)' = Ahead(u) - 1
      BY <1>1, <1>2, <1>7, <1>9, <1>11
    <2> QED
      BY <2>1 DEF HardInTime
  <1>12. ASSUME NEW u \in running', u \in Soft PROVE SoftInTime(u)'
    <2>1. u \in running /\ Ahead(u) \in Int /\ Ahead(u)' = Ahead(u) - 1 /\ SoftInTime(u)
      BY <1>1, <1>7, <1>9, <1>12 DEF TimerInv, InTime
    <2>2. pc' = pc /\ minus(timeout_tick[u], next_timeout)' = minus(timeout_tick[u], next_timeout)
          /\ next_timeout' = next_timeout
      BY <1>0
    <2>3. CASE stat = "READY"
      <3>1. ThreadTimer \notin running
        BY <2>3 DEF TimerInv, ThreadAgrees
      <3>2. 1 - MaxLate <= Ahead(u)
        BY <1>3, <1>12, <2>1, <2>3
      <3>3. /\ 0 - MaxLate <= Ahead(u)' /\ 0 - MostLate <= Ahead(u)' /\ Ahead(u)' <= Longest
        BY <2>1, <3>2, Wheel DEF MostLate, SoftInTime
      <3> QED
        BY <1>9, <2>1, <2>2, <3>1, <3>3 DEF SoftInTime
    <2>4. CASE stat = "SUSPEND"
      <3>1. /\ ThreadTimer \in running /\ 1 <= Ahead(ThreadTimer) /\ Ahead(ThreadTimer) \in Int
            /\ pc = "check"
            /\ Ahead(ThreadTimer) - MostLate <= Ahead(u)
        BY <1>4, <1>12, <2>1, <2>4
      <3>2. Ahead(ThreadTimer)' = Ahead(ThreadTimer) - 1
        BY <1>7, <3>1
      <3>3. /\ 0 - MostLate <= Ahead(u)' /\ Ahead(u)' <= Longest
            /\ Ahead(ThreadTimer)' - MostLate <= Ahead(u)'
        BY <2>1, <3>1, <3>2, Wheel DEF SoftInTime
      <3> QED
        BY <2>2, <3>1, <3>3 DEF SoftInTime
    <2> QED
      BY <1>5, <2>3, <2>4
  <1> QED
    BY <1>8, <1>9, <1>10, <1>11, <1>12 DEF TimerInv, InTime

-----------------------------------------------------------------------------
(* The timer thread *)

\* _timer_list_next_timeout: the first soft timer is at most the longest period and
\* the thread's delay away.
LEMMA NextTimeoutKeeps == ASSUME TimerInv, timer_list_next_timeout PROVE TimerInv'
  <1>0. /\ pc = "next" /\ stat = "READY"
        /\ UNCHANGED <<tick, active, periodic, init_tick, timeout_tick, timer_list, firing,
                       soft_timer_status, stat, section>>
    BY DEF timer_list_next_timeout, ThreadAt
  <1>1. running' = running /\ ListsHold' /\ \A u : Ahead(u)' = Ahead(u)
    BY <1>0, SameLists
  <1>2. running \in SUBSET Timers /\ tick \in Ticks
        /\ \A u \in Timers : timeout_tick[u] \in Ticks /\ Ahead(u) \in Int
    BY TimerTypes
  <1>3. CASE timer_list["soft"] = << >>
    <2>1. pc' = "suspend" /\ next_timeout' = next_timeout
      BY <1>3 DEF timer_list_next_timeout
    <2>2. \A u \in Soft : u \notin running
      BY <1>3, Heads
    <2>3. Scalars'
      BY <1>0, <2>1 DEF TimerInv, Scalars
    <2>4. FlagAgrees' /\ ThreadAgrees'
      BY <1>0, <1>1, <2>1, <2>2 DEF TimerInv, FlagAgrees, ThreadAgrees
    <2>5. InTime'
      BY <1>1, <2>2 DEF TimerInv, InTime, HardInTime
    <2> QED
      BY <1>1, <2>3, <2>4, <2>5 DEF TimerInv
  <1>4. CASE timer_list["soft"] # << >>
    <2>1. pc' = "delay" /\ next_timeout' = timeout_tick[SoftHead]
      BY <1>4 DEF timer_list_next_timeout, SoftHead
    <2>2. /\ SoftHead \in running /\ SoftHead \in Soft
          /\ \A u \in running : u \in Soft => Ahead(SoftHead) <= Ahead(u)
      BY <1>4, Heads
    <2>3. next_timeout' \in Ticks
      BY <1>2, <2>1, <2>2
    <2>4. Scalars'
      BY <1>0, <2>1, <2>3 DEF TimerInv, Scalars
    <2>5. FlagAgrees' /\ ThreadAgrees'
      BY <1>0, <1>1, <2>1 DEF TimerInv, FlagAgrees, ThreadAgrees
    <2>6. ASSUME NEW u \in running, u \in Soft PROVE SoftInTime(u)'
      <3>1. SoftInTime(u) /\ SoftInTime(SoftHead) /\ Ahead(SoftHead) <= Ahead(u)
        BY <2>2, <2>6 DEF TimerInv, InTime
      <3>2. /\ Ahead(u) \in Int /\ Ahead(SoftHead) \in Int
            /\ timeout_tick[u] \in Ticks /\ timeout_tick[SoftHead] \in Ticks
        BY <1>2, <2>2
      <3>3. minus(timeout_tick[u], timeout_tick[SoftHead]) = Ahead(u) - Ahead(SoftHead)
        BY <1>2, <3>1, <3>2, Distances DEF Ahead
      <3>4. 0 - MaxLate <= Ahead(SoftHead) /\ Ahead(u) <= Longest
        BY <1>0, <3>1 DEF SoftInTime
      <3>5. minus(timeout_tick[u], timeout_tick[SoftHead]) <= Longest + MaxLate
        BY <3>2, <3>3, <3>4, Wheel
      <3>6. minus(timeout_tick[u], next_timeout)' <= Longest + MaxLate
        BY <1>0, <2>1, <3>5
      <3>7. /\ 0 - MostLate <= Ahead(u) /\ Ahead(u) <= Longest /\ 0 - MaxLate <= Ahead(u)
            /\ ThreadTimer \in running => Ahead(ThreadTimer) - MostLate <= Ahead(u)
        BY <1>0, <3>1 DEF SoftInTime
      <3> QED
        BY <1>1, <2>1, <3>6, <3>7 DEF SoftInTime
    <2>7. InTime'
      BY <1>1, <2>6 DEF TimerInv, InTime, HardInTime
    <2> QED
      BY <1>1, <2>4, <2>5, <2>7 DEF TimerInv
  <1> QED
    BY <1>3, <1>4

\* rt_thread_suspend of the timer thread, which has seen an empty list.
LEMMA SuspendSelfKeeps == ASSUME TimerInv, suspend_self PROVE TimerInv'
  <1>0. /\ pc = "suspend" /\ stat = "READY" /\ stat' = "SUSPEND" /\ pc' = "check"
        /\ UNCHANGED <<tick, active, periodic, init_tick, timeout_tick, timer_list, firing,
                       soft_timer_status, next_timeout, section>>
    BY DEF suspend_self, ThreadAt
  <1>1. running' = running /\ ListsHold' /\ \A u : Ahead(u)' = Ahead(u)
    BY <1>0, SameLists
  <1>2. \A u \in Soft : u \notin running
    BY <1>0 DEF TimerInv, ThreadAgrees
  <1>3. Scalars'
    BY <1>0 DEF TimerInv, Scalars
  <1>4. FlagAgrees' /\ ThreadAgrees'
    BY <1>0, <1>1, <1>2 DEF TimerInv, FlagAgrees, ThreadAgrees
  <1>5. InTime'
    BY <1>1, <1>2 DEF TimerInv, InTime, HardInTime
  <1> QED
    BY <1>1, <1>3, <1>4, <1>5 DEF TimerInv

\* The time left until a timeout that was read a while ago.
LEMMA ReadTickKeeps == ASSUME TimerInv, read_tick PROVE TimerInv'
  <1> DEFINE left == minus(next_timeout, tick)
  <1>0. /\ pc = "delay" /\ stat = "READY"
        /\ UNCHANGED <<tick, active, periodic, init_tick, timeout_tick, timer_list, firing,
                       soft_timer_status, stat, section>>
    BY DEF read_tick, ThreadAt
  <1>1. running' = running /\ ListsHold' /\ \A u : Ahead(u)' = Ahead(u)
    BY <1>0, SameLists
  <1>2. running \in SUBSET Timers /\ tick \in Ticks /\ next_timeout \in Ticks
        /\ \A u \in Timers : timeout_tick[u] \in Ticks /\ Ahead(u) \in Int
    BY TimerTypes DEF TimerInv, Scalars
  <1>3. left \in Ticks /\ 0 \in Ticks
    BY <1>2, TickArithmetic, Wheel DEF Ticks
  <1>4. left \in Nat /\ TickRange \in Nat
    BY <1>3, Wheel DEF Ticks
  <1>5. \/ left < Half /\ left # 0 /\ pc' = "sleep" /\ next_timeout' = left
        \/ pc' = "check" /\ next_timeout' = 0
    BY DEF read_tick
  <1>6. Scalars'
    BY <1>0, <1>3, <1>5 DEF TimerInv, Scalars
  <1>7. FlagAgrees'
    BY <1>0, <1>1 DEF TimerInv, FlagAgrees
  <1>8. ThreadAgrees'
    <2> HIDE DEF left
    <2>1. pc' = "sleep" => 1 <= next_timeout' /\ next_timeout' < Half
      BY <1>4, <1>5
    <2> QED
      BY <1>0, <1>1, <1>5, <2>1 DEF TimerInv, ThreadAgrees
  <1>9. ASSUME NEW u \in running, u \in Soft PROVE SoftInTime(u)'
    <2>1. SoftInTime(u) /\ u \in Timers /\ Ahead(u) \in Int /\ timeout_tick[u] \in Ticks
      BY <1>2, <1>9 DEF TimerInv, InTime
    <2>2. /\ 0 - MostLate <= Ahead(u) /\ Ahead(u) <= Longest /\ 0 - MaxLate <= Ahead(u)
          /\ ThreadTimer \in running => Ahead(ThreadTimer) - MostLate <= Ahead(u)
          /\ minus(timeout_tick[u], next_timeout) <= Longest + MaxLate
      BY <1>0, <2>1 DEF SoftInTime
    <2>3. ASSUME left < Half PROVE left <= Longest
      <3> DEFINE a == Ahead(u)
                 b == minus(timeout_tick[u], next_timeout)
      <3>1. Distance(next_timeout, tick) = left
        BY <2>3 DEF Distance
      <3>2. a = Distance(timeout_tick[u], tick)
        BY DEF Ahead
      <3>3. b = IF left <= a THEN a - left ELSE a - left + TickRange
        <4>1. \A x, y \in Ticks :
                 minus(y, x) = IF Distance(x, tick) <= Distance(y, tick)
                               THEN Distance(y, tick) - Distance(x, tick)
                               ELSE Distance(y, tick) - Distance(x, tick) + TickRange
          BY <1>2, Distances
        <4> HIDE DEF left, a
        <4> QED
          BY <1>2, <2>1, <3>1, <3>2, <4>1
      <3>4. a \in Int /\ a <= Longest /\ 0 - MaxLate <= a /\ b <= Longest + MaxLate
        BY <2>1, <2>2
      <3> HIDE DEF left, a, b
      <3> QED
        BY <1>4, <2>3, <3>3, <3>4, Wheel
    <2> HIDE DEF left
    <2>4. pc' = "sleep" => next_timeout' <= Longest
      BY <1>5, <2>3
    <2>5. pc' # "delay"
      BY <1>5
    <2> QED
      BY <1>1, <2>2, <2>4, <2>5 DEF SoftInTime
  <1>10. InTime'
    BY <1>1, <1>9 DEF TimerInv, InTime, HardInTime
  <1> QED
    BY <1>1, <1>6, <1>7, <1>8, <1>10 DEF TimerInv

\* rt_thread_delay: the alarm rings before a soft timer is later than MostLate.
LEMMA DelayKeeps == ASSUME TimerInv, rt_thread_delay PROVE TimerInv'
  <1> DEFINE n == next_timeout
             due == plus(tick, n)
             f == [u \in Timers |-> IF u = ThreadTimer THEN n ELSE Ahead(u)]
  <1>0. /\ pc = "sleep" /\ stat = "READY" /\ stat' = "SUSPEND" /\ pc' = "check" /\ next_timeout' = 0
        /\ UNCHANGED <<tick, periodic, init_tick, firing, soft_timer_status, section>>
    BY DEF rt_thread_delay, ThreadAt
  <1>1. /\ timeout_tick' = [timeout_tick EXCEPT ![ThreadTimer] = due]
        /\ timer_list' = [timer_list EXCEPT !["hard"] = inserted(@, ThreadTimer, due)]
        /\ active' = [active EXCEPT ![ThreadTimer] = TRUE]
    BY DEF rt_thread_delay
  <1>2. /\ ThreadTimer \in Timers /\ ThreadTimer \notin Soft /\ Which(ThreadTimer) = "hard"
        /\ Soft \subseteq Timers
    BY Kind
  <1>3. ThreadTimer \notin running
    BY <1>0 DEF TimerInv, ThreadAgrees
  <1>4. n \in Nat /\ 1 <= n /\ n < Half
    BY <1>0, Wheel DEF TimerInv, Scalars, ThreadAgrees, Ticks
  <1>5. n \in 0 .. Half - 1 /\ n \in Int /\ 0 \in Ticks
    BY <1>4, Wheel DEF Ticks
  <1>6. due \in Ticks /\ Distance(due, tick) = n
    BY <1>5, TimerTypes, Distances
  <1>7. /\ running \in SUBSET Timers /\ HoldInOrder(timer_list, aheads, running)
        /\ \A u \in Timers : Ahead(u) \in Int /\ aheads[u] = Ahead(u)
        /\ timeout_tick \in [Timers -> Ticks]
    BY TimerTypes
  <1>8. active \in [Timers -> BOOLEAN]
    BY DEF TimerInv, Scalars
  <1>9. f \in [Timers -> Int] /\ f[ThreadTimer] = n /\ \A u \in Timers : u # ThreadTimer => f[u] = Ahead(u)
    BY <1>2, <1>5, <1>7
  <1> HIDE DEF f, due
  <1>10. \A u \in running : u \in Soft => n <= Longest /\ 0 - MaxLate <= Ahead(u) /\ Ahead(u) <= Longest
    BY <1>0 DEF TimerInv, InTime, SoftInTime
  <1> HIDE DEF n
  <1>11. ASSUME NEW u \in running PROVE f[u] = Ahead(u) /\ n - Ahead(u) < Half
    <2>1. u \in Timers /\ u # ThreadTimer /\ Ahead(u) \in Int
      BY <1>3, <1>7
    <2>2. CASE u \in Soft
      BY <1>4, <1>9, <1>10, <2>1, <2>2, Wheel DEF MostLate
    <2>3. CASE u \notin Soft
      <3>1. 0 <= Ahead(u)
        BY <2>3 DEF TimerInv, InTime, HardInTime
      <3> QED
        BY <1>4, <1>9, <2>1, <3>1, Wheel
    <2> QED
      BY <2>2, <2>3
  <1>12. HoldInOrder(timer_list, f, running)
    BY <1>7, <1>11, HoldSame
  <1>13. HoldInOrder([timer_list EXCEPT ![Which(ThreadTimer)] = inserted(@, ThreadTimer, plus(tick, n))],
                     f, running \cup {ThreadTimer})
    BY <1>2, <1>3, <1>5, <1>7, <1>9, <1>11, <1>12, InsertEffect
  <1>14. HoldInOrder(timer_list', f, running \cup {ThreadTimer})
    BY <1>1, <1>2, <1>13 DEF due
  <1>15. timeout_tick' \in [Timers -> Ticks]
    BY <1>1, <1>6, <1>7
  <1>16. timeout_tick'[ThreadTimer] = due /\ \A u \in Timers : u # ThreadTimer => timeout_tick'[u] = timeout_tick[u]
    BY <1>1, <1>2, <1>7
  <1>17. Ahead(ThreadTimer)' = n
    BY <1>0, <1>6, <1>16 DEF Ahead
  <1>18. \A u \in Timers : u # ThreadTimer => Ahead(u)' = Ahead(u)
    BY <1>0, <1>16, AheadStays
  <1>19. \A u \in running \cup {ThreadTimer} : f[u] = Ahead(u)'
    BY <1>7, <1>9, <1>17, <1>18
  <1>20. running \cup {ThreadTimer} \in SUBSET Timers
    BY <1>2, <1>7
  <1>21. running' = running \cup {ThreadTimer} /\ ListsHold'
    BY <1>14, <1>19, <1>20, ListsFollow
  <1>22. active' \in [Timers -> BOOLEAN]
    BY <1>1, <1>8
  <1>23. active'[ThreadTimer] /\ \A u \in Timers : u # ThreadTimer => active'[u] = active[u]
    BY <1>1, <1>2, <1>8
  <1>24. Scalars'
    BY <1>0, <1>5, <1>15, <1>22 DEF TimerInv, Scalars
  <1>25. FlagAgrees'
    <2> SUFFICES ASSUME NEW u \in Timers
                 PROVE  active'[u] <=> u \in running' \/ (u = firing' /\ periodic'[u])
      BY DEF FlagAgrees
    <2>1. active[u] <=> u \in running \/ (u = firing /\ periodic[u])
      BY DEF TimerInv, FlagAgrees
    <2>2. firing' = firing /\ periodic' = periodic
      BY <1>0
    <2> QED
      BY <1>21, <1>23, <2>1, <2>2
  <1>26. ThreadAgrees'
    BY <1>0, <1>21 DEF TimerInv, ThreadAgrees
  <1>27. ASSUME NEW u \in running', u \in Soft PROVE SoftInTime(u)'
    <2>1. u \in running /\ u # ThreadTimer /\ u \in Timers /\ Ahead(u) \in Int /\ Ahead(u)' = Ahead(u)
      BY <1>2, <1>7, <1>18, <1>21, <1>27
    <2>2. n <= Longest /\ 0 - MaxLate <= Ahead(u) /\ Ahead(u) <= Longest
      BY <1>10, <1>27, <2>1
    <2>3. 0 - MostLate <= Ahead(u)' /\ Ahead(u)' <= Longest /\ Ahead(ThreadTimer)' - MostLate <= Ahead(u)'
      BY <1>4, <1>17, <2>1, <2>2, Wheel DEF MostLate
    <2> QED
      BY <1>0, <2>3 DEF SoftInTime
  <1>28. ASSUME NEW u \in running', u \notin Soft PROVE HardInTime(u)'
    <2>1. CASE u = ThreadTimer
      BY <1>4, <1>17, <2>1 DEF HardInTime
    <2>2. CASE u # ThreadTimer
      BY <1>7, <1>18, <1>21, <1>28, <2>2 DEF TimerInv, InTime, HardInTime
    <2> QED
      BY <2>1, <2>2
  <1> QED
    BY <1>21, <1>24, <1>25, <1>26, <1>27, <1>28 DEF TimerInv, InTime

\* rt_soft_timer_check: the first soft timer is taken off if it is due, and if it is
\* not then none is.
LEMMA SoftCheckKeeps == ASSUME TimerInv, rt_soft_timer_check PROVE TimerInv'
  <1>0. /\ pc = "check" /\ stat = "READY" /\ section' = None
        /\ UNCHANGED <<tick, periodic, init_tick, stat, next_timeout>>
    BY DEF rt_soft_timer_check, ThreadAt
  <1>1. firing = None /\ soft_timer_status = "IDLE" /\ ThreadTimer \notin running
    BY <1>0 DEF TimerInv, ThreadAgrees, Scalars
  <1>2. running \in SUBSET Timers /\ \A u \in Timers : Ahead(u) \in Int /\ aheads[u] = Ahead(u)
    BY TimerTypes
  <1>3. CASE timer_list["soft"] # << >> /\ expired(SoftHead)
    <2> DEFINE h == SoftHead
    <2>1. /\ timer_list' = [timer_list EXCEPT !["soft"] = Tail(@)]
          /\ active' = [active EXCEPT ![h] = periodic[h]]
          /\ timeout_tick' = [timeout_tick EXCEPT ![h] = 0]
          /\ firing' = h /\ soft_timer_status' = "BUSY" /\ pc' = "callback"
      BY <1>3 DEF rt_soft_timer_check
    <2>2. h \in running /\ h \in Soft /\ HoldInOrder(timer_list', aheads, running \ {h})
      BY <1>3, <2>1, Heads
    <2> HIDE DEF h
    <2>3. 0 \in Ticks /\ h \in Timers /\ h # None
      BY <1>2, <2>2, Wheel, Kind DEF Ticks
    <2>4. timeout_tick \in [Timers -> Ticks] /\ active \in [Timers -> BOOLEAN] /\ periodic \in [Timers -> BOOLEAN]
      BY DEF TimerInv, Scalars
    <2>5. timeout_tick' \in [Timers -> Ticks]
      BY <2>1, <2>3, <2>4
    <2>6. \A u \in Timers : u # h => timeout_tick'[u] = timeout_tick[u]
      BY <2>1, <2>4
    <2>7. \A u \in Timers : u # h => Ahead(u)' = Ahead(u)
      BY <1>0, <2>6, AheadStays
    <2>8. \A u \in running \ {h} : aheads[u] = Ahead(u)'
      BY <1>2, <2>7
    <2>9. running' = running \ {h} /\ ListsHold'
      <3>1. running \ {h} \in SUBSET Timers
        BY <1>2
      <3> QED
        BY <2>2, <2>8, <3>1, ListsFollow
    <2>10. active' \in [Timers -> BOOLEAN]
      BY <2>1, <2>4
    <2>11. (active'[h] <=> periodic[h]) /\ \A u \in Timers : u # h => (active'[u] <=> active[u])
      BY <2>1, <2>3, <2>4
    <2>12. Scalars'
      BY <1>0, <2>1, <2>2, <2>5, <2>10 DEF TimerInv, Scalars
    <2>13. FlagAgrees'
      <3> SUFFICES ASSUME NEW u \in Timers
                   PROVE  active'[u] <=> u \in running' \/ (u = firing' /\ periodic'[u])
        BY DEF FlagAgrees
      <3>1. active[u] <=> u \in running \/ (u = firing /\ periodic[u])
        BY DEF TimerInv, FlagAgrees
      <3>2. u # firing /\ firing' = h /\ periodic' = periodic
        BY <1>0, <1>1, <2>1, Kind
      <3> QED
        BY <2>9, <2>11, <3>1, <3>2
    <2>14. ThreadAgrees'
      BY <1>0, <1>1, <2>1, <2>3, <2>9 DEF TimerInv, ThreadAgrees
    <2>15. ASSUME NEW u \in running', u \in Soft PROVE SoftInTime(u)'
      <3>1. SoftInTime(u) /\ Ahead(u)' = Ahead(u)
        BY <1>2, <2>7, <2>9, <2>15 DEF TimerInv, InTime
      <3> QED
        BY <1>1, <2>1, <2>9, <3>1 DEF SoftInTime
    <2>16. ASSUME NEW u \in running', u \notin Soft PROVE HardInTime(u)'
      BY <1>2, <2>7, <2>9, <2>16 DEF TimerInv, InTime, HardInTime
    <2> QED
      BY <2>9, <2>12, <2>13, <2>14, <2>15, <2>16 DEF TimerInv, InTime
  <1>4. CASE ~(timer_list["soft"] # << >> /\ expired(SoftHead))
    <2>1. pc' = "next" /\ UNCHANGED <<timer_list, active, timeout_tick, firing, soft_timer_status>>
      BY <1>4 DEF rt_soft_timer_check
    <2>2. running' = running /\ ListsHold' /\ \A u : Ahead(u)' = Ahead(u)
      BY <1>0, <2>1, SameLists
    <2>3. Scalars'
      BY <1>0, <2>1 DEF TimerInv, Scalars
    <2>4. FlagAgrees' /\ ThreadAgrees'
      BY <1>0, <1>1, <2>1, <2>2 DEF TimerInv, FlagAgrees, ThreadAgrees
    <2>5. ASSUME NEW u \in running, u \in Soft PROVE SoftInTime(u)'
      <3>1. timer_list["soft"] # << >>
        BY <2>5, Heads
      <3>2. SoftHead \in running /\ Ahead(SoftHead) <= Ahead(u) /\ ~expired(SoftHead)
        BY <1>4, <2>5, <3>1, Heads
      <3>3. ~(Ahead(SoftHead) <= 0) /\ Ahead(SoftHead) \in Int /\ Ahead(u) \in Int
        BY <1>2, <2>5, <3>2, ExpiredMeans
      <3>4. 0 - MaxLate <= Ahead(u)
        BY <3>2, <3>3, Wheel
      <3>5. SoftInTime(u)
        BY <2>5 DEF TimerInv, InTime
      <3> QED
        BY <2>1, <2>2, <3>4, <3>5 DEF SoftInTime
    <2>6. InTime'
      BY <2>2, <2>5 DEF TimerInv, InTime, HardInTime
    <2> QED
      BY <2>2, <2>3, <2>4, <2>6 DEF TimerInv
  <1> QED
    BY <1>3, <1>4

\* The callback of a soft timer returns.
LEMMA CallbackReturnsKeeps == ASSUME TimerInv, callback_returns PROVE TimerInv'
  <1>0. /\ pc = "callback" /\ stat = "READY" /\ section' = "soft" /\ soft_timer_status' = "IDLE"
        /\ firing' = None /\ pc' = "check"
        /\ UNCHANGED <<tick, periodic, init_tick, next_timeout>>
    BY DEF callback_returns, ThreadAt
  <1>1. CASE firing # None /\ periodic[firing] /\ active[firing]
    <2>1. start(firing)
      BY <1>1 DEF callback_returns
    <2>2. firing \in Hard \cup Soft
      BY <1>1 DEF TimerInv, Scalars
    <2>3. Quiet(firing) /\ ~Gap /\ ThreadAt("callback")
      BY <1>0 DEF Quiet, Gap, ThreadAt
    <2> QED
      BY <1>0, <2>1, <2>2, <2>3, StartKeeps
  <1>2. CASE ~(firing # None /\ periodic[firing] /\ active[firing])
    <2>1. UNCHANGED <<active, timeout_tick, timer_list, stat>>
      BY <1>2 DEF callback_returns
    <2>2. running' = running /\ ListsHold' /\ \A u : Ahead(u)' = Ahead(u)
      BY <1>0, <2>1, SameLists
    <2>3. Scalars'
      BY <1>0, <2>1 DEF TimerInv, Scalars
    <2>4. FlagAgrees'
      BY <1>0, <1>2, <2>1, <2>2, Kind DEF TimerInv, FlagAgrees
    <2>5. ThreadAgrees'
      BY <1>0, <2>1, <2>2 DEF TimerInv, ThreadAgrees
    <2>6. InTime'
      BY <1>0, <2>1, <2>2 DEF TimerInv, InTime, HardInTime, SoftInTime
    <2> QED
      BY <2>2, <2>3, <2>4, <2>5, <2>6 DEF TimerInv
  <1> QED
    BY <1>1, <1>2

-----------------------------------------------------------------------------
(* The theorems *)

\* Every step keeps the invariant, if callers keep the discipline.
LEMMA TimerSteps == ASSUME Disciplined, TimerInv, [Next]_vars PROVE TimerInv'
  <1>0. firing \in Soft \cup {None} /\ section \in {None, "tick", "soft"}
    BY DEF TimerInv, Scalars
  <1>1. ASSUME NEW t \in Hard \cup Soft, rt_timer_start(t) PROVE TimerInv'
    <2>1. start(t) /\ Quiet(t) /\ (t \in Soft => ~Gap) /\ UNCHANGED <<pc, soft_timer_status>>
      BY <1>0, <1>1 DEF rt_timer_start, Quiet
    <2> QED
      BY <2>1, StartKeeps
  <1>2. ASSUME NEW t \in Hard \cup Soft, rt_timer_stop(t) PROVE TimerInv'
    <2>1. t \in Timers /\ t # ThreadTimer
      BY Kind
    <2>2. stop(t) /\ Quiet(t) /\ UNCHANGED <<pc, soft_timer_status>>
          /\ stat' = IF t = ThreadTimer THEN "READY" ELSE stat
      BY <1>0, <1>2, <2>1 DEF rt_timer_stop, Quiet
    <2> QED
      BY <2>1, <2>2, StopKeeps
  <1>3. ASSUME NEW t \in Hard \cup Soft, NEW time \in Periods, set_time(t, time) PROVE TimerInv'
    BY <1>3, SetTimeKeeps
  <1>4. ASSUME NEW t \in Hard \cup Soft, NEW p \in BOOLEAN, set_periodic(t, p) PROVE TimerInv'
    BY <1>4, SetPeriodicKeeps
  <1>5. CASE rt_tick_increase
    BY <1>5, TickKeeps
  <1>6. CASE timer_check_enter \/ timer_check_leave \/ UNCHANGED vars
    BY <1>6, SectionKeeps
  <1>7. CASE thread_timeout
    <2>1. ThreadTimer \in Timers /\ ThreadTimer # firing
      BY <1>0, Kind
    <2>2. stop(ThreadTimer) /\ Quiet(ThreadTimer) /\ UNCHANGED <<pc, soft_timer_status>>
          /\ stat' = "READY"
      BY <1>0, <1>7, <2>1 DEF thread_timeout, Quiet
    <2> QED
      BY <2>1, <2>2, StopKeeps
  <1>8. ASSUME NEW t \in Hard, NEW again \in BOOLEAN,
               IF again THEN start(t) ELSE stop(t) /\ UNCHANGED stat,
               UNCHANGED <<tick, periodic, init_tick, firing, soft_timer_status, pc, next_timeout,
                           section>>
        PROVE  TimerInv'
    <2>1. t \in Timers /\ t # ThreadTimer /\ t # firing /\ t \notin Soft
      BY <1>0, Kind
    <2>2. Quiet(t) /\ UNCHANGED <<pc, soft_timer_status>>
      BY <1>0, <1>8, <2>1 DEF Quiet
    <2>3. CASE again
      BY <1>8, <2>1, <2>2, <2>3, StartKeeps
    <2>4. CASE ~again
      <3>1. stop(t) /\ stat' = IF t = ThreadTimer THEN "READY" ELSE stat
        BY <1>8, <2>1, <2>4
      <3> QED
        BY <2>1, <2>2, <3>1, StopKeeps
    <2> QED
      BY <2>3, <2>4
  <1>9. ASSUME NEW t \in Hard, rt_timer_check(t) PROVE TimerInv'
    <2>1. t \in Timers /\ periodic[t] \in BOOLEAN
      BY Kind DEF TimerInv, Scalars
    <2> QED
      BY <1>8, <1>9, <2>1 DEF rt_timer_check
  <1>10. ASSUME NEW t \in Hard, NEW restart \in BOOLEAN, hard_callback(t, restart) PROVE TimerInv'
    BY <1>8, <1>10 DEF hard_callback
  <1>11. CASE ThreadStep
    BY <1>11, NextTimeoutKeeps, SuspendSelfKeeps, ReadTickKeeps, DelayKeeps, SoftCheckKeeps,
       CallbackReturnsKeeps DEF ThreadStep
  <1> QED
    BY <1>1, <1>2, <1>3, <1>4, <1>5, <1>6, <1>7, <1>9, <1>10, <1>11 DEF Next, TickStep

\* The inductive invariant is an invariant.
LEMMA TimerInvariant == Disciplined => (Spec => []TimerInv)
  <1> SUFFICES ASSUME Disciplined PROVE Spec => []TimerInv
    OBVIOUS
  <1>1. TimerInv /\ [Next]_vars => TimerInv'
    BY TimerSteps
  <1> QED
    BY <1>1, TimerStarts, PTL DEF Spec

(***************************************************************************)
(* The variables of timer.c keep their types: a list holds timers of its   *)
(* own kind, and the tick arithmetic stays within rt_tick_t.               *)
(***************************************************************************)
THEOREM TimerKeepsTypes == Disciplined => (Spec => []TypeOK)
  BY TimerInvariant, TimerInvMeans, PTL

(***************************************************************************)
(* RT_TIMER_FLAG_ACTIVATED agrees with the lists through rt_timer_start,   *)
(* rt_timer_stop, both checks and the callbacks.                           *)
(***************************************************************************)
THEOREM ActivatedTimersAreListed == Disciplined => (Spec => []ActivatedIsListed)
  BY TimerInvariant, TimerInvMeans, PTL

(***************************************************************************)
(* The scan of rt_timer_start keeps both lists in the order of their       *)
(* timeouts, also when the tick overflows between two of them.             *)
(***************************************************************************)
THEOREM TimerListsStayInOrder == Disciplined => (Spec => []ListsInOrder)
  BY TimerInvariant, TimerInvMeans, PTL

(***************************************************************************)
(* The timer thread never sleeps without an alarm while a soft timer runs, *)
(* and _thread_timeout finds it suspended.                                 *)
(***************************************************************************)
THEOREM TimerThreadIsWoken == Disciplined => (Spec => []AlarmIsSet)
  BY TimerInvariant, TimerInvMeans, PTL

(***************************************************************************)
(* The tick does not run past a timer: rt_timer_check takes every hard     *)
(* timer in the tick it is due; a soft one waits at most for the timer     *)
(* thread to run, MaxLate, and for an alarm that was computed before.      *)
(***************************************************************************)
THEOREM NoTimerIsMissed == Disciplined => (Spec => []NoneIsMissed)
  <1>1. TimerInv => NoneIsMissed
    <2> SUFFICES ASSUME TimerInv, NEW t \in Timers, Due(t)
                 PROVE  minus(tick, timeout_tick[t]) <= IF t \in Soft THEN MostLate ELSE 0
      BY DEF NoneIsMissed
    <2>1. t \in running /\ expired(t)
      BY DEF Due, Listed, running, members
    <2>2. minus(tick, timeout_tick[t]) = 0 - Ahead(t) /\ Ahead(t) <= 0 /\ Ahead(t) \in Int
      BY <2>1, ExpiredMeans, TimerTypes
    <2>3. t \in Soft => 0 - MostLate <= Ahead(t)
      BY <2>1 DEF TimerInv, InTime, SoftInTime
    <2>4. t \notin Soft => 0 <= Ahead(t)
      BY <2>1 DEF TimerInv, InTime, HardInTime
    <2> QED
      BY <2>2, <2>3, <2>4, Wheel
  <1> QED
    BY <1>1, TimerInvariant, PTL
=============================================================================
