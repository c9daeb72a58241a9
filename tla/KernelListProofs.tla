-------------------------- MODULE KernelListProofs ---------------------------
(***************************************************************************)
(* What the operations on the kernel's lists do to the nodes in them.      *)
(***************************************************************************)
EXTENDS KernelList, Integers, SequenceTheorems, WellFoundedInduction, TLAPS

\* A set of natural numbers has a least one.
LEMMA LeastExists ==
    ASSUME NEW T \in SUBSET Nat, T # {}
    PROVE  \E x \in T : \A y \in T : x <= y
  <1>1. PICK x \in T : \A y \in T : ~(<<y, x>> \in OpToRel(<, Nat))
    BY NatLessThanWellFounded, WFMin
  <1>2. ASSUME NEW y \in T PROVE x <= y
    <2>1. ~(<<y, x>> \in {ss \in Nat \X Nat : ss[1] < ss[2]})
      BY <1>1 DEF OpToRel
    <2> QED
      BY <2>1
  <1> QED
    BY <1>2

\* A function on the places of a list is a list.
LEMMA PlacesMakeList ==
    ASSUME NEW S, NEW n \in Nat, NEW f \in [1 .. n -> S]
    PROVE  f \in Seq(S) /\ Len(f) = n
  <1>1. f \in Seq(S)
    BY SeqDef
  <1>2. DOMAIN f = 1 .. n /\ DOMAIN f = 1 .. Len(f) /\ Len(f) \in Nat
    BY <1>1, LenProperties
  <1> QED
    BY <1>1, <1>2

\* rt_list_remove takes out one node and leaves the others in their order.
LEMMA Removed ==
    ASSUME NEW S, NEW l \in Seq(S), NEW x
    PROVE  LET r == rt_list_remove(l, x)
           IN  /\ r \in Seq(S)
               /\ ~InList(l, x) => r = l
               /\ Len(r) = IF InList(l, x) THEN Len(l) - 1 ELSE Len(l)
               /\ \A i \in 1 .. Len(r) : \E a \in 1 .. Len(l) : r[i] = l[a]
               /\ \A i, j \in 1 .. Len(r) : i < j =>
                     \E a, b \in 1 .. Len(l) : a < b /\ r[i] = l[a] /\ r[j] = l[b]
               /\ \A a \in 1 .. Len(l) : l[a] # x => \E i \in 1 .. Len(r) : r[i] = l[a]
               /\ Once(l) => Once(r) /\ ~InList(r, x)
  <1> DEFINE r == rt_list_remove(l, x)
  <1>0. Len(l) \in Nat /\ l \in [1 .. Len(l) -> S]
    BY LenProperties
  <1>1. CASE ~InList(l, x)
    <2>1. r = l
      BY <1>1 DEF rt_list_remove
    <2> QED
      BY <1>0, <1>1, <2>1 DEF InList
  <1>2. CASE InList(l, x)
    <2> DEFINE k == CHOOSE j \in 1 .. Len(l) : l[j] = x
    <2>1. k \in 1 .. Len(l) /\ l[k] = x
      BY <1>2 DEF InList
    <2> HIDE DEF k
    <2>2. r = [j \in 1 .. Len(l) - 1 |-> IF j < k THEN l[j] ELSE l[j + 1]]
      BY <1>2 DEF rt_list_remove, k
    <2> HIDE DEF r
    <2>3. r \in [1 .. Len(l) - 1 -> S] /\ Len(l) - 1 \in Nat
      BY <1>0, <2>1, <2>2
    <2>4. r \in Seq(S) /\ Len(r) = Len(l) - 1
      BY <2>3, PlacesMakeList
    <2>5. \A i \in 1 .. Len(r) : r[i] = IF i < k THEN l[i] ELSE l[i + 1]
      BY <2>2, <2>4
    <2>6. \A i \in 1 .. Len(r) : \E a \in 1 .. Len(l) : r[i] = l[a]
      BY <1>0, <2>4, <2>5
    <2>7. ASSUME NEW i \in 1 .. Len(r), NEW j \in 1 .. Len(r), i < j
          PROVE  \E a, b \in 1 .. Len(l) : a < b /\ r[i] = l[a] /\ r[j] = l[b]
      <3>1. CASE j < k
        BY <1>0, <2>1, <2>4, <2>5, <2>7, <3>1
      <3>2. CASE ~(j < k) /\ i < k
        BY <1>0, <2>1, <2>4, <2>5, <2>7, <3>2
      <3>3. CASE ~(i < k)
        BY <1>0, <2>1, <2>4, <2>5, <2>7, <3>3
      <3> QED
        BY <2>1, <2>7, <3>1, <3>2, <3>3
    <2>8. ASSUME NEW a \in 1 .. Len(l), l[a] # x
          PROVE  \E i \in 1 .. Len(r) : r[i] = l[a]
      <3>1. a # k
        BY <2>1, <2>8
      <3>2. CASE a < k
        BY <1>0, <2>1, <2>4, <2>5, <3>2
      <3>3. CASE a > k
        <4>1. a - 1 \in 1 .. Len(r) /\ ~(a - 1 < k) /\ (a - 1) + 1 = a
          BY <1>0, <2>1, <2>4, <3>3
        <4> QED
          BY <2>5, <4>1
      <3> QED
        BY <1>0, <2>1, <3>1, <3>2, <3>3
    <2>9. ASSUME Once(l) PROVE Once(r) /\ ~InList(r, x)
      <3>1. \A i \in 1 .. Len(r) : r[i] # x
        <4> SUFFICES ASSUME NEW i \in 1 .. Len(r), r[i] = x PROVE FALSE
          OBVIOUS
        <4>1. CASE i < k
          BY <1>0, <2>1, <2>4, <2>5, <2>9, <4>1 DEF Once
        <4>2. CASE ~(i < k)
          <5>1. i + 1 \in 1 .. Len(l) /\ i + 1 # k /\ l[i + 1] = x
            BY <1>0, <2>1, <2>4, <2>5, <4>2
          <5> QED
            BY <2>1, <2>9, <5>1 DEF Once
        <4> QED
          BY <4>1, <4>2
      <3>2. ASSUME NEW i \in 1 .. Len(r), NEW j \in 1 .. Len(r), r[i] = r[j], i < j
            PROVE  FALSE
        <4>1. PICK a \in 1 .. Len(l), b \in 1 .. Len(l) : a < b /\ r[i] = l[a] /\ r[j] = l[b]
          BY <2>7, <3>2
        <4>2. a = b
          BY <2>9, <3>2, <4>1 DEF Once
        <4> QED
          BY <1>0, <4>1, <4>2
      <3>3. Once(r)
        BY <2>4, <3>2, <1>0 DEF Once
      <3> QED
        BY <3>1, <3>3 DEF InList
    <2> QED
      BY <1>2, <2>4, <2>6, <2>7, <2>8, <2>9 DEF r
  <1> QED
    BY <1>1, <1>2

\* The members of a list after a removal.
LEMMA RemovedMembers ==
    ASSUME NEW S, NEW l \in Seq(S), NEW x
    PROVE  LET r == rt_list_remove(l, x)
           IN  /\ r \in Seq(S)
               /\ ~InList(l, x) => r = l
               /\ \A y : InList(r, y) => InList(l, y)
               /\ \A y : y # x => (InList(r, y) <=> InList(l, y))
               /\ Once(l) => Once(r) /\ ~InList(r, x)
  <1> DEFINE r == rt_list_remove(l, x)
  <1> HIDE DEF r
  <1>1. /\ r \in Seq(S)
        /\ ~InList(l, x) => r = l
        /\ \A i \in 1 .. Len(r) : \E a \in 1 .. Len(l) : r[i] = l[a]
        /\ \A a \in 1 .. Len(l) : l[a] # x => \E i \in 1 .. Len(r) : r[i] = l[a]
        /\ Once(l) => Once(r) /\ ~InList(r, x)
    BY Removed DEF r
  <1>2. \A y : InList(r, y) => InList(l, y)
    BY <1>1 DEF InList
  <1>3. \A y : y # x => (InList(r, y) <=> InList(l, y))
    BY <1>1 DEF InList
  <1> QED
    BY <1>1, <1>2, <1>3 DEF r

\* r is l with x in front of the first node whose place is in W, or at the end.
InsertedAt(l, W, x, r, at) ==
    /\ at \in 1 .. Len(r) /\ r[at] = x
    /\ \A i \in 1 .. Len(l) : i < at => r[i] = l[i] /\ i \notin W
    /\ \A i \in 1 .. Len(l) : i >= at => r[i + 1] = l[i]
    /\ at = Len(l) + 1 \/ at \in W

\* rt_list_insert_before adds one node at a place no later than any in W.
LEMMA Inserted ==
    ASSUME NEW S, NEW l \in Seq(S), NEW x \in S, NEW W \in SUBSET (1 .. Len(l))
    PROVE  LET r == rt_list_insert_before(l, W, x)
           IN  /\ r \in Seq(S)
               /\ Len(r) = Len(l) + 1
               /\ \E at : InsertedAt(l, W, x, r, at)
               /\ \A y : InList(r, y) <=> InList(l, y) \/ y = x
               /\ Once(l) /\ ~InList(l, x) => Once(r)
  <1> DEFINE r == rt_list_insert_before(l, W, x)
             at == IF W = {} THEN Len(l) + 1 ELSE CHOOSE i \in W : \A j \in W : i <= j
  <1>0. Len(l) \in Nat /\ l \in [1 .. Len(l) -> S]
    BY LenProperties
  <1>1. at \in 1 .. Len(l) + 1 /\ (\A i \in W : at <= i) /\ (at = Len(l) + 1 \/ at \in W)
    <2>1. CASE W = {}
      BY <1>0, <2>1
    <2>2. CASE W # {}
      <3>1. W \in SUBSET Nat
        OBVIOUS
      <3>2. \E i \in W : \A j \in W : i <= j
        BY <2>2, <3>1, LeastExists
      <3>3. at \in W /\ \A j \in W : at <= j
        BY <2>2, <3>2
      <3> HIDE DEF at
      <3> QED
        BY <1>0, <3>3
    <2> QED
      BY <2>1, <2>2
  <1>2. r = [j \in 1 .. Len(l) + 1 |->
                IF j < at THEN l[j] ELSE IF j = at THEN x ELSE l[j - 1]]
    BY DEF rt_list_insert_before
  <1> HIDE DEF r, at
  <1>3. r \in [1 .. Len(l) + 1 -> S] /\ Len(l) + 1 \in Nat
    BY <1>0, <1>1, <1>2
  <1>4. r \in Seq(S) /\ Len(r) = Len(l) + 1
    BY <1>3, PlacesMakeList
  <1>5. r[at] = x
    BY <1>0, <1>1, <1>2
  <1>6. \A i \in 1 .. Len(l) : i < at => r[i] = l[i] /\ i \notin W
    BY <1>0, <1>1, <1>2
  <1>7. \A i \in 1 .. Len(l) : i >= at => r[i + 1] = l[i]
    BY <1>0, <1>1, <1>2
  <1>8. ASSUME NEW j \in 1 .. Len(r), j # at PROVE \E i \in 1 .. Len(l) : r[j] = l[i]
    <2>1. CASE j < at
      BY <1>0, <1>1, <1>4, <1>6, <2>1
    <2>2. CASE j > at
      <3>1. j - 1 \in 1 .. Len(l) /\ j - 1 >= at /\ (j - 1) + 1 = j
        BY <1>0, <1>1, <1>4, <2>2
      <3> QED
        BY <1>7, <3>1
    <2> QED
      BY <1>0, <1>1, <1>4, <1>8, <2>1, <2>2
  <1>9. \A i \in 1 .. Len(l) : \E j \in 1 .. Len(r) : r[j] = l[i]
    BY <1>0, <1>1, <1>4, <1>6, <1>7
  <1>10. \A y : InList(r, y) <=> InList(l, y) \/ y = x
    BY <1>1, <1>4, <1>5, <1>8, <1>9 DEF InList
  <1>11. ASSUME Once(l), ~InList(l, x) PROVE Once(r)
    <2> SUFFICES ASSUME NEW i \in 1 .. Len(r), NEW j \in 1 .. Len(r), r[i] = r[j], i < j
                 PROVE  FALSE
      BY <1>0, <1>4 DEF Once
    <2>1. CASE i = at \/ j = at
      BY <1>0, <1>1, <1>2, <1>4, <1>11, <2>1 DEF InList
    <2>2. CASE j < at
      BY <1>0, <1>1, <1>2, <1>4, <1>11, <2>2 DEF Once
    <2>3. CASE i < at /\ j > at
      <3>1. r[i] = l[i] /\ r[j] = l[j - 1] /\ i \in 1 .. Len(l) /\ j - 1 \in 1 .. Len(l) /\ i # j - 1
        BY <1>0, <1>1, <1>2, <1>4, <2>3
      <3> QED
        BY <1>11, <3>1 DEF Once
    <2>4. CASE i > at
      <3>1. r[i] = l[i - 1] /\ r[j] = l[j - 1] /\ i - 1 \in 1 .. Len(l) /\ j - 1 \in 1 .. Len(l)
            /\ i - 1 # j - 1
        BY <1>0, <1>1, <1>2, <1>4, <2>4
      <3> QED
        BY <1>11, <3>1 DEF Once
    <2> QED
      BY <1>0, <1>1, <1>4, <2>1, <2>2, <2>3, <2>4
  <1>12. InsertedAt(l, W, x, r, at)
    BY <1>1, <1>4, <1>5, <1>6, <1>7 DEF InsertedAt
  <1> QED
    BY <1>4, <1>10, <1>11, <1>12 DEF r

\* A node linked behind all others.
LEMMA Appended ==
    ASSUME NEW S, NEW l \in Seq(S), NEW x \in S
    PROVE  LET r == Append(l, x)
           IN  /\ r \in Seq(S)
               /\ \A y : InList(r, y) <=> InList(l, y) \/ y = x
               /\ Once(l) /\ ~InList(l, x) => Once(r)
  <1> DEFINE r == Append(l, x)
  <1>0. Len(l) \in Nat
    BY LenProperties
  <1>1. /\ r \in Seq(S) /\ Len(r) = Len(l) + 1
        /\ \A i \in 1 .. Len(l) : r[i] = l[i]
        /\ r[Len(l) + 1] = x
    BY AppendProperties
  <1> HIDE DEF r
  <1>2. \A y : InList(r, y) <=> InList(l, y) \/ y = x
    BY <1>0, <1>1 DEF InList
  <1>3. ASSUME Once(l), ~InList(l, x), NEW i \in 1 .. Len(r), NEW j \in 1 .. Len(r),
               r[i] = r[j]
        PROVE  i = j
    BY <1>0, <1>1, <1>3 DEF InList, Once
  <1> QED
    BY <1>1, <1>2, <1>3 DEF r, Once

\* A node linked before all others.
LEMMA Prepended ==
    ASSUME NEW S, NEW l \in Seq(S), NEW x \in S
    PROVE  LET r == <<x>> \o l
           IN  /\ r \in Seq(S)
               /\ \A y : InList(r, y) <=> InList(l, y) \/ y = x
               /\ Once(l) /\ ~InList(l, x) => Once(r)
  <1> DEFINE r == <<x>> \o l
  <1>0. Len(l) \in Nat /\ <<x>> \in Seq(S) /\ Len(<<x>>) = 1 /\ <<x>>[1] = x
    BY LenProperties
  <1>1. /\ r \in Seq(S) /\ Len(r) = 1 + Len(l)
        /\ \A i \in 1 .. 1 + Len(l) : r[i] = IF i <= 1 THEN <<x>>[i] ELSE l[i - 1]
    BY <1>0, ConcatProperties
  <1> HIDE DEF r
  <1>2. r[1] = x /\ \A i \in 1 .. Len(l) : r[i + 1] = l[i]
    <2>1. r[1] = x
      BY <1>0, <1>1
    <2>2. ASSUME NEW i \in 1 .. Len(l) PROVE r[i + 1] = l[i]
      <3>1. i + 1 \in 1 .. 1 + Len(l) /\ ~(i + 1 <= 1) /\ (i + 1) - 1 = i
        BY <1>0
      <3> QED
        BY <1>1, <3>1
    <2> QED
      BY <2>1, <2>2
  <1>3. ASSUME NEW j \in 1 .. Len(r)
        PROVE  j = 1 \/ \E i \in 1 .. Len(l) : j = i + 1 /\ r[j] = l[i]
    <2>1. CASE j # 1
      <3>1. j - 1 \in 1 .. Len(l) /\ j = (j - 1) + 1
        BY <1>0, <1>1, <2>1
      <3> QED
        BY <1>2, <3>1
    <2> QED
      BY <2>1
  <1>4. 1 \in 1 .. Len(r) /\ \A i \in 1 .. Len(l) : i + 1 \in 1 .. Len(r)
    BY <1>0, <1>1
  <1>5. \A y : InList(r, y) <=> InList(l, y) \/ y = x
    BY <1>2, <1>3, <1>4 DEF InList
  <1>6. ASSUME Once(l), ~InList(l, x), NEW i \in 1 .. Len(r), NEW j \in 1 .. Len(r),
               r[i] = r[j]
        PROVE  i = j
    <2>1. CASE i = 1
      BY <1>2, <1>3, <1>6, <2>1 DEF InList
    <2>2. CASE j = 1
      BY <1>2, <1>3, <1>6, <2>2 DEF InList
    <2>3. CASE i # 1 /\ j # 1
      BY <1>3, <1>6, <2>3 DEF Once
    <2> QED
      BY <2>1, <2>2, <2>3
  <1> QED
    BY <1>1, <1>5, <1>6 DEF r, Once

\* The first node taken off.
LEMMA TailOf ==
    ASSUME NEW S, NEW l \in Seq(S), l # << >>
    PROVE  /\ Head(l) \in S /\ Tail(l) \in Seq(S)
           /\ InList(l, Head(l))
           /\ \A y : InList(l, y) <=> InList(Tail(l), y) \/ y = Head(l)
           /\ Once(l) => Once(Tail(l)) /\ ~InList(Tail(l), Head(l))
  <1> DEFINE t == Tail(l)
             h == Head(l)
  <1>1. /\ h \in S /\ t \in Seq(S) /\ Len(t) = Len(l) - 1
        /\ \A i \in 1 .. Len(t) : t[i] = l[i + 1]
    BY HeadTailProperties
  <1>2. h = l[1] /\ Len(l) \in Nat /\ Len(l) # 0
    BY EmptySeq, LenProperties
  <1> HIDE DEF t, h
  <1>3. 1 \in 1 .. Len(l) /\ \A i \in 1 .. Len(t) : i + 1 \in 1 .. Len(l) /\ i + 1 # 1
    BY <1>1, <1>2
  <1>4. ASSUME NEW j \in 1 .. Len(l)
        PROVE  j = 1 \/ \E i \in 1 .. Len(t) : j = i + 1 /\ t[i] = l[j]
    <2>1. CASE j # 1
      <3>1. j - 1 \in 1 .. Len(t) /\ j = (j - 1) + 1
        BY <1>1, <1>2, <2>1
      <3> QED
        BY <1>1, <3>1
    <2> QED
      BY <2>1
  <1>5. \A y : InList(l, y) <=> InList(t, y) \/ y = h
    BY <1>1, <1>2, <1>3, <1>4 DEF InList
  <1>6. ASSUME Once(l) PROVE ~InList(t, h)
    BY <1>1, <1>2, <1>3, <1>6 DEF InList, Once
  <1>7. ASSUME Once(l), NEW i \in 1 .. Len(t), NEW j \in 1 .. Len(t), t[i] = t[j]
        PROVE  i = j
    <2>1. i + 1 = j + 1
      BY <1>1, <1>3, <1>7 DEF Once
    <2> QED
      BY <2>1
  <1>8. InList(l, h)
    BY <1>2, <1>3 DEF InList
  <1> QED
    BY <1>1, <1>5, <1>6, <1>7, <1>8 DEF t, h, Once

\* A list is empty when it has no members.
LEMMA EmptyOf ==
    ASSUME NEW S, NEW l \in Seq(S)
    PROVE  /\ l # << >> <=> \E y \in S : InList(l, y)
           /\ \A y : InList(l, y) => y \in S
  <1>1. Len(l) \in Nat /\ (l = << >> <=> Len(l) = 0) /\ l \in [1 .. Len(l) -> S]
    BY EmptySeq, LenProperties
  <1>2. ASSUME Len(l) # 0 PROVE 1 \in 1 .. Len(l)
    BY <1>1, <1>2
  <1>3. \A y : InList(l, y) => y \in S /\ Len(l) # 0
    BY <1>1 DEF InList
  <1>4. Len(l) # 0 => l[1] \in S /\ InList(l, l[1])
    BY <1>1, <1>2 DEF InList
  <1> QED
    BY <1>1, <1>3, <1>4

\* The empty list.
LEMMA NothingListed == Once(<< >>) /\ \A y : ~InList(<< >>, y)
  <1>1. Len(<< >>) = 0
    OBVIOUS
  <1> QED
    BY <1>1 DEF Once, InList

-----------------------------------------------------------------------------
(* Lists in the order of a key *)

Sorted(l, f) == \A i, j \in 1 .. Len(l) : i < j => f[l[i]] <= f[l[j]]

\* Only the keys of the members matter.
LEMMA SortedSame ==
    ASSUME NEW S, NEW l \in Seq(S), NEW f, NEW g, Sorted(l, f), \A y : InList(l, y) => f[y] = g[y]
    PROVE  Sorted(l, g)
  <1>1. \A i \in 1 .. Len(l) : InList(l, l[i])
    BY DEF InList
  <1> QED
    BY <1>1 DEF Sorted

\* A list without one of its nodes.
LEMMA SortedRemoved ==
    ASSUME NEW S, NEW l \in Seq(S), NEW f, Sorted(l, f), NEW x
    PROVE  Sorted(rt_list_remove(l, x), f)
  <1> DEFINE r == rt_list_remove(l, x)
  <1>1. \A i, j \in 1 .. Len(r) : i < j =>
           \E a, b \in 1 .. Len(l) : a < b /\ r[i] = l[a] /\ r[j] = l[b]
    BY Removed
  <1> HIDE DEF r
  <1>2. Sorted(r, f)
    BY <1>1 DEF Sorted
  <1> QED
    BY <1>2 DEF r

\* The rest of a list, and its head, which is the first.
LEMMA SortedTail ==
    ASSUME NEW S, NEW l \in Seq(S), l # << >>, NEW f \in [S -> Int], Sorted(l, f)
    PROVE  /\ Sorted(Tail(l), f)
           /\ \A y : InList(l, y) => f[Head(l)] <= f[y]
  <1> DEFINE t == Tail(l)
             h == Head(l)
  <1>1. Len(l) \in Nat /\ Len(l) # 0
    BY EmptySeq, LenProperties
  <1>2. /\ t \in Seq(S) /\ Len(t) = Len(l) - 1
        /\ \A i \in 1 .. Len(t) : t[i] = l[i + 1]
    BY HeadTailProperties
  <1>3. h = l[1]
    OBVIOUS
  <1> HIDE DEF t, h
  <1>4. Sorted(t, f)
    <2> SUFFICES ASSUME NEW i \in 1 .. Len(t), NEW j \in 1 .. Len(t), i < j
                 PROVE  f[t[i]] <= f[t[j]]
      BY DEF Sorted
    <2>1. i + 1 \in 1 .. Len(l) /\ j + 1 \in 1 .. Len(l) /\ i + 1 < j + 1
      BY <1>1, <1>2
    <2> QED
      BY <1>2, <2>1 DEF Sorted
  <1>5. ASSUME NEW y, InList(l, y) PROVE f[h] <= f[y]
    <2>1. PICK i \in 1 .. Len(l) : l[i] = y
      BY <1>5 DEF InList
    <2>2. l[i] \in S /\ 1 \in 1 .. Len(l)
      BY <1>1, ElementOfSeq
    <2>3. f[y] \in Int
      BY <2>1, <2>2
    <2>4. CASE i = 1
      BY <1>3, <2>1, <2>3, <2>4
    <2>5. CASE i # 1
      <3>1. 1 < i
        BY <1>1, <2>5
      <3> QED
        BY <1>3, <2>1, <2>2, <3>1 DEF Sorted
    <2> QED
      BY <2>4, <2>5
  <1> QED
    BY <1>4, <1>5 DEF t, h

\* The scan of rt_timer_start: before the first node with a larger key.
LEMMA SortedInserted ==
    ASSUME NEW S, NEW l \in Seq(S), NEW x \in S, NEW f \in [S -> Int], Sorted(l, f)
    PROVE  Sorted(rt_list_insert_before(l, {i \in 1 .. Len(l) : f[x] < f[l[i]]}, x), f)
  <1> DEFINE W == {i \in 1 .. Len(l) : f[x] < f[l[i]]}
             r == rt_list_insert_before(l, W, x)
  <1>1. W \in SUBSET (1 .. Len(l)) /\ Len(l) \in Nat
    BY LenProperties
  <1>2. \A i \in 1 .. Len(l) : i \in W <=> f[x] < f[l[i]]
    OBVIOUS
  <1> HIDE DEF W
  <1>3. Len(r) = Len(l) + 1
    BY <1>1, Inserted
  <1>3a. \E at : InsertedAt(l, W, x, r, at)
    BY <1>1, Inserted
  <1> HIDE DEF r
  <1>3b. PICK at : InsertedAt(l, W, x, r, at)
    BY <1>3a
  <1>4. /\ at \in 1 .. Len(r) /\ r[at] = x
        /\ \A i \in 1 .. Len(l) : i < at => r[i] = l[i] /\ i \notin W
        /\ \A i \in 1 .. Len(l) : i >= at => r[i + 1] = l[i]
        /\ at = Len(l) + 1 \/ at \in W
    BY <1>3b DEF InsertedAt
  <1>5. \A i \in 1 .. Len(l) : f[l[i]] \in Int /\ f[x] \in Int
    BY ElementOfSeq
  <1>6. ASSUME NEW i \in 1 .. Len(l), i >= at PROVE f[x] < f[l[i]]
    <2>1. at \in 1 .. Len(l) /\ at \in W
      BY <1>1, <1>3, <1>4, <1>6
    <2>2. f[x] < f[l[at]]
      BY <1>2, <2>1
    <2>3. CASE i = at
      BY <2>2, <2>3
    <2>4. CASE i # at
      <3>1. at < i
        BY <1>1, <1>6, <2>1, <2>4
      <3>2. f[l[at]] <= f[l[i]]
        BY <2>1, <3>1 DEF Sorted
      <3> QED
        BY <1>5, <2>1, <2>2, <3>2
    <2> QED
      BY <2>3, <2>4
  <1>7. ASSUME NEW i \in 1 .. Len(l), i < at PROVE f[l[i]] <= f[x]
    BY <1>2, <1>4, <1>5, <1>7
  <1>8. ASSUME NEW i \in 1 .. Len(r)
        PROVE  \/ i = at
               \/ i \in 1 .. Len(l) /\ i < at /\ r[i] = l[i]
               \/ i > at /\ i - 1 \in 1 .. Len(l) /\ i - 1 >= at /\ r[i] = l[i - 1]
    <2>1. CASE i < at
      <3>1. i \in 1 .. Len(l)
        BY <1>1, <1>3, <1>4, <2>1
      <3> QED
        BY <1>4, <2>1, <3>1
    <2>2. CASE i > at
      <3>1. i - 1 \in 1 .. Len(l) /\ i - 1 >= at /\ (i - 1) + 1 = i
        BY <1>1, <1>3, <1>4, <2>2
      <3> QED
        BY <1>4, <2>2, <3>1
    <2> QED
      BY <1>1, <1>3, <1>4, <2>1, <2>2
  <1>9. ASSUME NEW i \in 1 .. Len(r), NEW j \in 1 .. Len(r), i < j
        PROVE  f[r[i]] <= f[r[j]]
    <2>0. i \in Nat /\ j \in Nat /\ at \in Nat
      BY <1>1, <1>3, <1>4
    <2>1. CASE i < at /\ j < at
      <3>1. i \in 1 .. Len(l) /\ r[i] = l[i] /\ j \in 1 .. Len(l) /\ r[j] = l[j]
        BY <1>8, <2>0, <2>1
      <3> QED
        BY <1>9, <3>1 DEF Sorted
    <2>2. CASE i < at /\ j = at
      BY <1>4, <1>7, <1>8, <2>0, <2>2
    <2>3. CASE i < at /\ j > at
      <3>1. i \in 1 .. Len(l) /\ r[i] = l[i] /\ j - 1 \in 1 .. Len(l) /\ j - 1 >= at /\ r[j] = l[j - 1]
        <4>1. i \in 1 .. Len(l) /\ r[i] = l[i]
          BY <1>8, <2>0, <2>3
        <4>2. j - 1 \in 1 .. Len(l) /\ j - 1 >= at /\ r[j] = l[j - 1]
          BY <1>8, <2>0, <2>3
        <4> QED
          BY <4>1, <4>2
      <3>2. i < j - 1
        BY <2>0, <2>3
      <3> QED
        BY <3>1, <3>2 DEF Sorted
    <2>4. CASE i = at
      <3>1. j - 1 \in 1 .. Len(l) /\ j - 1 >= at /\ r[j] = l[j - 1]
        BY <1>8, <1>9, <2>0, <2>4
      <3>2. f[x] < f[l[j - 1]]
        BY <1>6, <3>1
      <3> QED
        BY <1>4, <1>5, <2>4, <3>1, <3>2
    <2>5. CASE i > at
      <3>1. i - 1 \in 1 .. Len(l) /\ r[i] = l[i - 1] /\ j - 1 \in 1 .. Len(l) /\ r[j] = l[j - 1]
        <4>1. i - 1 \in 1 .. Len(l) /\ r[i] = l[i - 1]
          BY <1>8, <1>9, <2>0, <2>5
        <4>2. j > at /\ j - 1 \in 1 .. Len(l) /\ r[j] = l[j - 1]
          BY <1>8, <1>9, <2>0, <2>5
        <4> QED
          BY <4>1, <4>2
      <3>2. i - 1 < j - 1
        BY <1>9, <2>0
      <3>3. \A a, b \in 1 .. Len(l) : a < b => f[l[a]] <= f[l[b]]
        BY DEF Sorted
      <3>4. f[l[i - 1]] <= f[l[j - 1]]
        BY <3>1, <3>2, <3>3
      <3> QED
        BY <3>1, <3>4
    <2> QED
      BY <1>9, <2>0, <2>1, <2>2, <2>3, <2>4, <2>5
  <1> QED
    BY <1>9 DEF Sorted, r, W
=============================================================================
