-------------------------- MODULE DriversIpcProofs ---------------------------
(***************************************************************************)
(* Proofs about components/drivers/ipc: the ring buffer is a byte queue of *)
(* any size, and the work queue keeps what it accepts and forgets what it  *)
(* cancels for any number of works and cancellers.                         *)
(***************************************************************************)
EXTENDS RingBuffer, WorkQueue, KernelListProofs

-----------------------------------------------------------------------------
(* The ring buffer *)

Positions == [index : 0 .. RbSize - 1, mirror : BOOLEAN]

\* Where the byte i after position p is.
Place(p, i) == IF p.index + i - 1 < RbSize THEN p.index + i - 1
               ELSE p.index + i - 1 - RbSize

\* Why the ring is a queue: the writer is as many bytes ahead of the reader as are
\* kept, mirror bit included, and the byte i after the reader is byte i of the queue.
RingInv ==
    /\ rb_pool \in [0 .. RbSize - 1 -> Byte]
    /\ rb_read \in Positions /\ rb_write \in Positions
    /\ rb_kept \in Seq(Byte) /\ Len(rb_kept) <= RbSize
    /\ rb_write = advanced(rb_read, Len(rb_kept))
    /\ \A i \in 1 .. Len(rb_kept) : rb_kept[i] = rb_pool[Place(rb_read, i)]

\* The size of the buffer is what is left of the size given after aligning it down.
LEMMA RingSize == RbSize \in Nat \ {0} /\ RbBlocks \subseteq Seq(Byte) \ {<< >>}
  <1>1. /\ RbAlign \in Nat \ {0} /\ RbGiven \in Nat /\ RbGiven >= RbAlign
        /\ RbBlocks \subseteq Seq(Byte) \ {<< >>}
    BY RbAssumption
  <1>2. RbGiven % RbAlign \in 0 .. RbAlign - 1
    BY <1>1
  <1> QED
    BY <1>1, <1>2 DEF RbSize

\* A position less than two rounds from the start of the buffer.
LEMMA Wraps ==
    ASSUME NEW n \in Nat \ {0}, NEW a \in Nat, a < 2 * n
    PROVE  a % n = IF a < n THEN a ELSE a - n
  OBVIOUS

\* advanced in arithmetic, for up to one round.
LEMMA AdvancedIs ==
    ASSUME NEW p \in Positions, NEW n \in 0 .. RbSize
    PROVE  /\ advanced(p, n) \in Positions
           /\ advanced(p, n).index = IF p.index + n < RbSize THEN p.index + n
                                     ELSE p.index + n - RbSize
           /\ advanced(p, n).mirror = IF p.index + n < RbSize THEN p.mirror ELSE ~p.mirror
  <1>1. RbSize \in Nat \ {0}
    BY RingSize
  <1>2. p.index \in 0 .. RbSize - 1 /\ p.mirror \in BOOLEAN
    BY DEF Positions
  <1>3. CASE RbSize - p.index > n
    <2>1. advanced(p, n) = [p EXCEPT !.index = @ + n]
      BY <1>3 DEF advanced
    <2> QED
      BY <1>1, <1>2, <1>3, <2>1 DEF Positions
  <1>4. CASE ~(RbSize - p.index > n)
    <2>1. advanced(p, n) = [index |-> n - (RbSize - p.index), mirror |-> ~p.mirror]
      BY <1>4 DEF advanced
    <2> QED
      BY <1>1, <1>2, <1>4, <2>1 DEF Positions
  <1> QED
    BY <1>3, <1>4

\* A position is its index and its mirror bit.
LEMMA SamePosition ==
    ASSUME NEW p \in Positions, NEW q \in Positions,
           p.index = q.index, p.mirror = q.mirror
    PROVE  p = q
  BY DEF Positions

\* Moves add up as long as they stay within one round.
LEMMA AdvancedAdds ==
    ASSUME NEW p \in Positions, NEW a \in Nat, NEW b \in Nat, a + b <= RbSize
    PROVE  advanced(advanced(p, a), b) = advanced(p, a + b)
  <1>0. RbSize \in Nat \ {0} /\ p.index \in 0 .. RbSize - 1 /\ p.mirror \in BOOLEAN
    BY RingSize DEF Positions
  <1>1. a \in 0 .. RbSize /\ b \in 0 .. RbSize /\ a + b \in 0 .. RbSize
    BY <1>0
  <1> DEFINE q == advanced(p, a)
             s == advanced(q, b)
             u == advanced(p, a + b)
  <1>2. /\ q \in Positions
        /\ q.index = IF p.index + a < RbSize THEN p.index + a ELSE p.index + a - RbSize
        /\ q.mirror = IF p.index + a < RbSize THEN p.mirror ELSE ~p.mirror
    BY <1>1, AdvancedIs
  <1> HIDE DEF q
  <1>3. /\ s \in Positions
        /\ s.index = IF q.index + b < RbSize THEN q.index + b ELSE q.index + b - RbSize
        /\ s.mirror = IF q.index + b < RbSize THEN q.mirror ELSE ~q.mirror
    BY <1>1, <1>2, AdvancedIs
  <1>4. /\ u \in Positions
        /\ u.index = IF p.index + (a + b) < RbSize THEN p.index + (a + b)
                     ELSE p.index + (a + b) - RbSize
        /\ u.mirror = IF p.index + (a + b) < RbSize THEN p.mirror ELSE ~p.mirror
    BY <1>1, AdvancedIs
  <1> HIDE DEF s, u
  <1>5. s.index = u.index
    BY <1>0, <1>1, <1>2, <1>3, <1>4
  <1>6. s.mirror = u.mirror
    BY <1>0, <1>1, <1>2, <1>3, <1>4
  <1>7. s = u
    BY <1>3, <1>4, <1>5, <1>6, SamePosition
  <1> QED
    BY <1>7 DEF s, u, q

\* rt_ringbuffer_data_len finds the number of bytes kept.
LEMMA DataLen ==
    ASSUME RingInv
    PROVE  /\ rt_ringbuffer_data_len = Len(rb_kept)
           /\ (rt_ringbuffer_status = "FULL") <=> Len(rb_kept) = RbSize
           /\ space_len = RbSize - Len(rb_kept)
  <1>0. RbSize \in Nat \ {0} /\ rb_read.index \in 0 .. RbSize - 1 /\ rb_read.mirror \in BOOLEAN
    BY RingSize DEF RingInv, Positions
  <1>1. Len(rb_kept) \in 0 .. RbSize /\ Len(rb_kept) \in Nat
    BY <1>0, LenProperties DEF RingInv
  <1> DEFINE L == Len(rb_kept)
  <1>2. /\ rb_write.index = IF rb_read.index + L < RbSize THEN rb_read.index + L
                            ELSE rb_read.index + L - RbSize
        /\ rb_write.mirror = IF rb_read.index + L < RbSize THEN rb_read.mirror ELSE ~rb_read.mirror
    BY <1>1, AdvancedIs DEF RingInv
  <1> HIDE DEF L
  <1>L. L \in 0 .. RbSize
    BY <1>1 DEF L
  <1>3. CASE L = 0
    <2>1. rt_ringbuffer_status = "EMPTY"
      BY <1>0, <1>2, <1>3 DEF rt_ringbuffer_status
    <2> QED
      BY <1>0, <1>3, <2>1 DEF rt_ringbuffer_data_len, space_len, L
  <1>4. CASE L = RbSize
    <2>1. rt_ringbuffer_status = "FULL"
      BY <1>0, <1>2, <1>4 DEF rt_ringbuffer_status
    <2>2. rt_ringbuffer_data_len = RbSize
      BY <2>1 DEF rt_ringbuffer_data_len
    <2> QED
      BY <1>0, <1>4, <2>1, <2>2 DEF space_len, L
  <1>5. CASE L # 0 /\ L # RbSize
    <2>1. rt_ringbuffer_status = "HALFFULL"
      BY <1>0, <1>L, <1>2, <1>5 DEF rt_ringbuffer_status
    <2>2. rt_ringbuffer_data_len = IF rb_write.index > rb_read.index
                                   THEN rb_write.index - rb_read.index
                                   ELSE RbSize - (rb_read.index - rb_write.index)
      BY <2>1 DEF rt_ringbuffer_data_len
    <2>3. rt_ringbuffer_data_len = L
      BY <1>0, <1>L, <1>2, <1>5, <2>2
    <2> QED
      BY <1>0, <1>5, <2>1, <2>3 DEF space_len, L
  <1> QED
    BY <1>3, <1>4, <1>5

\* So what lies between the two positions is the queue.
LEMMA RingInvMeans == RingInv => RingIsQueue
  <1> SUFFICES ASSUME RingInv PROVE RingIsQueue
    OBVIOUS
  <1>0. RbSize \in Nat \ {0} /\ rb_read.index \in 0 .. RbSize - 1
    BY RingSize DEF RingInv, Positions
  <1>1. Len(rb_kept) \in 0 .. RbSize /\ rb_kept \in [1 .. Len(rb_kept) -> Byte]
    BY <1>0, LenProperties DEF RingInv
  <1>2. ASSUME NEW i \in 1 .. Len(rb_kept)
        PROVE  rb_pool[(rb_read.index + i - 1) % RbSize] = rb_kept[i]
    <2> DEFINE a == rb_read.index + i - 1
    <2>1. a \in Nat /\ a < 2 * RbSize
      BY <1>0, <1>1
    <2>2. a % RbSize = IF a < RbSize THEN a ELSE a - RbSize
      <3> HIDE DEF a
      <3> QED
        BY <1>0, <2>1, Wraps
    <2>3. Place(rb_read, i) = IF a < RbSize THEN a ELSE a - RbSize
      <3>1. i \in Int /\ rb_read.index \in Int /\ RbSize \in Int
        BY <1>0, <1>1
      <3> QED
        BY <3>1 DEF Place
    <2>4. a % RbSize = Place(rb_read, i)
      <3> HIDE DEF a
      <3> QED
        BY <2>2, <2>3
    <2> QED
      BY <2>4 DEF RingInv, a
  <1>3. [i \in 1 .. Len(rb_kept) |-> rb_pool[(rb_read.index + i - 1) % RbSize]] = rb_kept
    BY <1>1, <1>2
  <1> QED
    BY <1>3, DataLen DEF RingIsQueue

\* The first n bytes of a block, and the last n.
LEMMA FirstOf ==
    ASSUME NEW s \in Seq(Byte), NEW n \in Nat, n <= Len(s)
    PROVE  /\ first(s, n) \in Seq(Byte) /\ Len(first(s, n)) = n
           /\ \A i \in 1 .. n : first(s, n)[i] = s[i]
  <1>1. Len(s) \in Nat /\ s \in [1 .. Len(s) -> Byte]
    BY LenProperties
  <1>2. first(s, n) = SubSeq(s, 1, n)
    <2>1. Smaller(n, Len(s)) = n
      BY DEF Smaller
    <2> QED
      BY <2>1 DEF first
  <1>3. \A i \in 1 .. n : s[i] \in Byte
    BY <1>1
  <1>4. /\ SubSeq(s, 1, n) \in Seq(Byte)
        /\ Len(SubSeq(s, 1, n)) = IF 1 <= n THEN n - 1 + 1 ELSE 0
        /\ \A i \in 1 .. n - 1 + 1 : SubSeq(s, 1, n)[i] = s[1 + i - 1]
    BY <1>3, SubSeqProperties
  <1> QED
    BY <1>2, <1>4

\* All of the block if it has no more than n.
LEMMA LastOf ==
    ASSUME NEW s \in Seq(Byte), NEW n \in Nat
    PROVE  /\ last(s, n) \in Seq(Byte)
           /\ Len(last(s, n)) = IF n <= Len(s) THEN n ELSE Len(s)
           /\ \A i \in 1 .. Len(last(s, n)) :
                 last(s, n)[i] = s[Len(s) - Len(last(s, n)) + i]
  <1> DEFINE m == IF n <= Len(s) THEN n ELSE Len(s)
             a == Len(s) - m + 1
  <1>1. Len(s) \in Nat /\ s \in [1 .. Len(s) -> Byte]
    BY LenProperties
  <1>2. last(s, n) = SubSeq(s, a, Len(s))
    <2>1. CASE n < Len(s)
      <3>1. Len(s) > n /\ a = Len(s) - n + 1
        <4>1. Len(s) \in Nat
          BY LenProperties
        <4>2. m = n
          BY <2>1, <4>1
        <4> QED
          BY <2>1, <4>1, <4>2
      <3> HIDE DEF a
      <3> QED
        BY <3>1 DEF last
    <2>2. CASE ~(n < Len(s))
      <3>1. ~(Len(s) > n) /\ a = 1
        BY <2>2
      <3> HIDE DEF a
      <3> QED
        BY <3>1 DEF last
    <2> QED
      BY <2>1, <2>2
  <1>3. m \in Nat /\ m <= Len(s) /\ a \in Int /\ a >= 1 /\ Len(s) - a + 1 = m
    BY <1>1
  <1> HIDE DEF m
  <1>4. \A i \in a .. Len(s) : s[i] \in Byte
    BY <1>1, <1>3
  <1> HIDE DEF a
  <1>5. /\ SubSeq(s, a, Len(s)) \in Seq(Byte)
        /\ Len(SubSeq(s, a, Len(s))) = IF a <= Len(s) THEN Len(s) - a + 1 ELSE 0
        /\ \A i \in 1 .. Len(s) - a + 1 : SubSeq(s, a, Len(s))[i] = s[a + i - 1]
    BY <1>1, <1>3, <1>4, SubSeqProperties
  <1>6. Len(SubSeq(s, a, Len(s))) = m
    BY <1>1, <1>3, <1>5
  <1>7. \A i \in 1 .. m : last(s, n)[i] = s[Len(s) - m + i]
    BY <1>1, <1>2, <1>3, <1>5 DEF a
  <1>8. Len(last(s, n)) = m
    BY <1>2, <1>6
  <1>9. \A i \in 1 .. Len(last(s, n)) : last(s, n)[i] = s[Len(s) - Len(last(s, n)) + i]
    BY <1>7, <1>8
  <1> QED
    BY <1>2, <1>5, <1>8, <1>9 DEF m

\* Places counted from a position that has moved.
LEMMA PlaceAdvanced ==
    ASSUME NEW p \in Positions, NEW e \in Nat, NEW i \in Nat \ {0}, e + i <= RbSize
    PROVE  Place(advanced(p, e), i) = Place(p, e + i)
  <1>0. RbSize \in Nat \ {0} /\ p.index \in 0 .. RbSize - 1 /\ e \in 0 .. RbSize
    BY RingSize DEF Positions
  <1> DEFINE q == advanced(p, e)
  <1>1. q.index = IF p.index + e < RbSize THEN p.index + e ELSE p.index + e - RbSize
    BY <1>0, AdvancedIs
  <1> HIDE DEF q
  <1>2. Place(q, i) = Place(p, e + i)
    BY <1>0, <1>1 DEF Place
  <1> QED
    BY <1>2 DEF q

\* Within one round every place is in the buffer and none comes twice.
LEMMA PlacesDiffer ==
    ASSUME NEW p \in Positions
    PROVE  /\ \A i \in 1 .. RbSize : Place(p, i) \in 0 .. RbSize - 1
           /\ \A i, j \in 1 .. RbSize : Place(p, i) = Place(p, j) => i = j
  <1>0. RbSize \in Nat \ {0} /\ p.index \in 0 .. RbSize - 1
    BY RingSize DEF Positions
  <1> QED
    BY <1>0 DEF Place

\* What the copying of a block of at most the buffer's size leaves in the pool.
LEMMA Copied ==
    ASSUME RingInv, NEW d \in Seq(Byte), Len(d) <= RbSize
    PROVE  /\ copied(d) \in [0 .. RbSize - 1 -> Byte]
           /\ \A i \in 1 .. Len(d) : copied(d)[Place(rb_write, i)] = d[i]
           /\ \A j \in 0 .. RbSize - 1 :
                 (\A i \in 1 .. Len(d) : Place(rb_write, i) # j) => copied(d)[j] = rb_pool[j]
  <1>0. RbSize \in Nat \ {0} /\ rb_write.index \in 0 .. RbSize - 1 /\ rb_write \in Positions
    BY RingSize DEF RingInv, Positions
  <1>1. Len(d) \in Nat /\ \A i \in 1 .. Len(d) : d[i] \in Byte
    BY LenProperties
  <1>2. rb_pool \in [0 .. RbSize - 1 -> Byte] /\ DOMAIN rb_pool = 0 .. RbSize - 1
    BY DEF RingInv
  <1> DEFINE K(i) == IF i >= rb_write.index THEN i - rb_write.index + 1
                     ELSE RbSize - rb_write.index + i + 1
             c == copied(d)
  <1>3. c = [i \in 0 .. RbSize - 1 |-> IF K(i) <= Len(d) THEN d[K(i)] ELSE rb_pool[i]]
    BY <1>2 DEF copied
  <1> HIDE DEF c
  <1>4. \A i \in 0 .. RbSize - 1 : K(i) \in 1 .. RbSize /\ Place(rb_write, K(i)) = i
    BY <1>0 DEF Place
  <1>5. \A i \in 1 .. RbSize : Place(rb_write, i) \in 0 .. RbSize - 1 /\ K(Place(rb_write, i)) = i
    BY <1>0 DEF Place
  <1> HIDE DEF K
  <1>6. c \in [0 .. RbSize - 1 -> Byte]
    <2>1. ASSUME NEW i \in 0 .. RbSize - 1
          PROVE  (IF K(i) <= Len(d) THEN d[K(i)] ELSE rb_pool[i]) \in Byte
      <3>1. CASE K(i) <= Len(d)
        BY <1>0, <1>1, <1>4, <3>1
      <3>2. CASE ~(K(i) <= Len(d))
        BY <1>2, <3>2
      <3> QED
        BY <3>1, <3>2
    <2> QED
      BY <1>3, <2>1
  <1>7. ASSUME NEW i \in 1 .. Len(d) PROVE c[Place(rb_write, i)] = d[i]
    <2>1. i \in 1 .. RbSize /\ i <= Len(d)
      BY <1>0, <1>1
    <2>2. Place(rb_write, i) \in 0 .. RbSize - 1 /\ K(Place(rb_write, i)) = i
      BY <1>5, <2>1
    <2> QED
      BY <1>3, <2>1, <2>2
  <1>8. ASSUME NEW j \in 0 .. RbSize - 1, \A i \in 1 .. Len(d) : Place(rb_write, i) # j
        PROVE  c[j] = rb_pool[j]
    <2>1. ~(K(j) <= Len(d))
      BY <1>0, <1>1, <1>4, <1>8
    <2> QED
      BY <1>3, <2>1
  <1> QED
    BY <1>6, <1>7, <1>8 DEF c

\* A step that drops the e oldest bytes and writes block d behind the others.
LEMMA Moved ==
    ASSUME RingInv,
           NEW d \in Seq(Byte), NEW e \in Nat,
           e <= Len(rb_kept), Len(rb_kept) - e + Len(d) <= RbSize,
           rb_read' = advanced(rb_read, e),
           rb_write' = advanced(rb_write, Len(d)),
           rb_pool' \in [0 .. RbSize - 1 -> Byte],
           \A i \in 1 .. Len(d) : rb_pool'[Place(rb_write, i)] = d[i],
           \A j \in 0 .. RbSize - 1 :
              (\A i \in 1 .. Len(d) : Place(rb_write, i) # j) => rb_pool'[j] = rb_pool[j],
           rb_kept' \in Seq(Byte),
           Len(rb_kept') = Len(rb_kept) - e + Len(d),
           \A i \in 1 .. Len(rb_kept) - e : rb_kept'[i] = rb_kept[e + i],
           \A i \in 1 .. Len(d) : rb_kept'[Len(rb_kept) - e + i] = d[i]
    PROVE  RingInv'
  <1> DEFINE L == Len(rb_kept)
             n == Len(d)
             r == rb_read'
  <1>0. RbSize \in Nat \ {0} /\ L \in Nat /\ n \in Nat /\ L <= RbSize /\ n <= RbSize
    BY RingSize, LenProperties DEF RingInv
  <1>1. rb_read \in Positions /\ rb_write \in Positions /\ rb_write = advanced(rb_read, L)
    BY DEF RingInv
  <1>2. r \in Positions /\ rb_write' \in Positions
    BY <1>0, <1>1, AdvancedIs
  <1>3. rb_write = advanced(r, L - e)
    <2>1. L - e \in Nat /\ e + (L - e) = L
      BY <1>0
    <2> HIDE DEF L
    <2>2. advanced(advanced(rb_read, e), L - e) = advanced(rb_read, e + (L - e))
      BY <1>0, <1>1, <2>1, AdvancedAdds
    <2> QED
      BY <1>1, <2>1, <2>2
  <1>4. rb_write' = advanced(r, Len(rb_kept'))
    <2>1. L - e \in Nat /\ (L - e) + n = Len(rb_kept') /\ (L - e) + n <= RbSize
      BY <1>0
    <2> HIDE DEF L, n, r
    <2>2. advanced(advanced(r, L - e), n) = advanced(r, (L - e) + n)
      BY <1>0, <1>2, <2>1, AdvancedAdds
    <2>3. rb_write' = advanced(rb_write, n)
      BY DEF n
    <2> QED
      BY <1>3, <2>1, <2>2, <2>3
  <1>5. ASSUME NEW k \in 1 .. n PROVE Place(rb_write, k) = Place(r, (L - e) + k)
    <2>1. L - e \in Nat /\ k \in Nat \ {0} /\ (L - e) + k <= RbSize
      BY <1>0
    <2> HIDE DEF L, n, r
    <2> QED
      BY <1>2, <1>3, <2>1, PlaceAdvanced
  <1>6. /\ \A i \in 1 .. RbSize : Place(r, i) \in 0 .. RbSize - 1
        /\ \A i, j \in 1 .. RbSize : Place(r, i) = Place(r, j) => i = j
    BY <1>2, PlacesDiffer
  <1>7. ASSUME NEW i \in 1 .. L - e PROVE rb_kept'[i] = rb_pool'[Place(r, i)]
    <2>1. i \in 1 .. RbSize /\ i \in Nat \ {0} /\ e + i <= RbSize /\ e + i \in 1 .. L
      BY <1>0
    <2>2. ASSUME NEW k \in 1 .. n PROVE Place(rb_write, k) # Place(r, i)
      <3>1. (L - e) + k \in 1 .. RbSize /\ (L - e) + k # i
        BY <1>0
      <3> HIDE DEF L, n, r
      <3> QED
        BY <1>5, <1>6, <2>1, <3>1
    <2>3. Place(r, i) \in 0 .. RbSize - 1
      BY <1>6, <2>1
    <2>4. rb_pool'[Place(r, i)] = rb_pool[Place(r, i)]
      BY <2>2, <2>3
    <2>5. Place(r, i) = Place(rb_read, e + i)
      BY <1>1, <2>1, PlaceAdvanced
    <2>6. rb_kept[e + i] = rb_pool[Place(rb_read, e + i)]
      BY <2>1 DEF RingInv
    <2>7. rb_kept'[i] = rb_kept[e + i]
      OBVIOUS
    <2> QED
      BY <2>4, <2>5, <2>6, <2>7
  <1>8. ASSUME NEW k \in 1 .. n PROVE rb_kept'[(L - e) + k] = rb_pool'[Place(r, (L - e) + k)]
    BY <1>5
  <1>9. \A i \in 1 .. Len(rb_kept') : rb_kept'[i] = rb_pool'[Place(r, i)]
    <2> SUFFICES ASSUME NEW i \in 1 .. Len(rb_kept')
                 PROVE  rb_kept'[i] = rb_pool'[Place(r, i)]
      OBVIOUS
    <2>1. CASE i <= L - e
      <3>1. i \in 1 .. L - e
        BY <1>0, <2>1
      <3> QED
        BY <1>7, <3>1
    <2>2. CASE ~(i <= L - e)
      <3>1. i - (L - e) \in 1 .. n /\ (L - e) + (i - (L - e)) = i
        BY <1>0, <2>2
      <3> HIDE DEF L, n, r
      <3> QED
        BY <1>8, <3>1
    <2> QED
      BY <2>1, <2>2
  <1>10. Len(rb_kept') <= RbSize
    BY <1>0
  <1> QED
    BY <1>2, <1>4, <1>9, <1>10 DEF RingInv

\* Two lists joined: what is before the seam and behind it.
LEMMA Joined ==
    ASSUME NEW s \in Seq(Byte), NEW d \in Seq(Byte)
    PROVE  /\ s \o d \in Seq(Byte) /\ Len(s \o d) = Len(s) + Len(d)
           /\ \A i \in 1 .. Len(s) : (s \o d)[i] = s[i]
           /\ \A i \in 1 .. Len(d) : (s \o d)[Len(s) + i] = d[i]
  <1>0. Len(s) \in Nat /\ Len(d) \in Nat
    BY LenProperties
  <1>1. /\ s \o d \in Seq(Byte) /\ Len(s \o d) = Len(s) + Len(d)
        /\ \A i \in 1 .. Len(s) + Len(d) :
              (s \o d)[i] = IF i <= Len(s) THEN s[i] ELSE d[i - Len(s)]
    BY ConcatProperties
  <1>2. ASSUME NEW i \in 1 .. Len(s) PROVE (s \o d)[i] = s[i]
    BY <1>0, <1>1
  <1>3. ASSUME NEW i \in 1 .. Len(d) PROVE (s \o d)[Len(s) + i] = d[i]
    <2>1. Len(s) + i \in 1 .. Len(s) + Len(d) /\ ~(Len(s) + i <= Len(s)) /\ (Len(s) + i) - Len(s) = i
      BY <1>0
    <2> QED
      BY <1>1, <2>1
  <1> QED
    BY <1>1, <1>2, <1>3

\* A move over no byte.
LEMMA NotMoved ==
    ASSUME NEW p \in Positions
    PROVE  advanced(p, 0) = p
  <1>1. RbSize \in Nat \ {0} /\ p.index \in 0 .. RbSize - 1 /\ 0 \in 0 .. RbSize
    BY RingSize DEF Positions
  <1>2. /\ advanced(p, 0) \in Positions
        /\ advanced(p, 0).index = IF p.index + 0 < RbSize THEN p.index + 0
                                  ELSE p.index + 0 - RbSize
        /\ advanced(p, 0).mirror = IF p.index + 0 < RbSize THEN p.mirror ELSE ~p.mirror
    BY <1>1, AdvancedIs
  <1>3. advanced(p, 0).index = p.index /\ advanced(p, 0).mirror = p.mirror
    BY <1>1, <1>2
  <1> QED
    BY <1>2, <1>3, SamePosition

\* rt_ringbuffer_put appends what there is room for.
LEMMA PutKeeps ==
    ASSUME RingInv, NEW d \in Seq(Byte), rt_ringbuffer_put(d)
    PROVE  RingInv'
  <1> DEFINE L == Len(rb_kept)
             n == Smaller(Len(d), space_len)
             b == first(d, n)
             j == rb_kept \o d
  <1>0. RbSize \in Nat \ {0} /\ L \in Nat /\ Len(d) \in Nat /\ L <= RbSize /\ rb_kept \in Seq(Byte)
    BY RingSize, LenProperties DEF RingInv
  <1>1. space_len = RbSize - L
    BY DataLen
  <1>2. n \in Nat /\ n <= Len(d) /\ n <= RbSize - L /\ (n = Len(d) \/ n = RbSize - L)
    BY <1>0, <1>1 DEF Smaller
  <1>3. /\ rb_pool' = copied(b) /\ rb_write' = advanced(rb_write, n)
        /\ rb_kept' = first(j, RbSize) /\ rb_read' = rb_read
    BY DEF rt_ringbuffer_put
  <1> HIDE DEF n
  <1>4. b \in Seq(Byte) /\ Len(b) = n /\ \A i \in 1 .. n : b[i] = d[i]
    BY <1>2, FirstOf
  <1> HIDE DEF b
  <1>5. /\ rb_pool' \in [0 .. RbSize - 1 -> Byte]
        /\ \A i \in 1 .. Len(b) : rb_pool'[Place(rb_write, i)] = b[i]
        /\ \A k \in 0 .. RbSize - 1 :
              (\A i \in 1 .. Len(b) : Place(rb_write, i) # k) => rb_pool'[k] = rb_pool[k]
    <2>1. Len(b) <= RbSize
      BY <1>0, <1>2, <1>4
    <2> QED
      BY <1>3, <1>4, <2>1, Copied
  <1>6. /\ j \in Seq(Byte) /\ Len(j) = L + Len(d)
        /\ \A i \in 1 .. L : j[i] = rb_kept[i]
        /\ \A i \in 1 .. Len(d) : j[L + i] = d[i]
    BY <1>0, Joined
  <1> HIDE DEF j
  <1>7. rb_kept' \in Seq(Byte) /\ Len(rb_kept') = L + n /\ \A i \in 1 .. L + n : rb_kept'[i] = j[i]
    <2>1. Smaller(RbSize, Len(j)) = L + n /\ Smaller(L + n, Len(j)) = L + n
      <3> HIDE DEF L
      <3>1. Len(j) = L + Len(d)
        BY <1>6
      <3> QED
        BY <1>0, <1>2, <3>1 DEF Smaller
    <2>2. rb_kept' = first(j, L + n) /\ L + n \in Nat /\ L + n <= Len(j)
      <3>1. first(j, RbSize) = first(j, L + n)
        BY <2>1 DEF first
      <3> QED
        BY <1>0, <1>2, <1>3, <1>6, <3>1
    <2> QED
      BY <1>6, <2>2, FirstOf
  <1>8. rb_read' = advanced(rb_read, 0)
    BY <1>3, NotMoved DEF RingInv
  <1>9. \A i \in 1 .. L - 0 : rb_kept'[i] = rb_kept[0 + i]
    BY <1>0, <1>2, <1>6, <1>7
  <1>10. \A i \in 1 .. Len(b) : rb_kept'[L - 0 + i] = b[i]
    <2> SUFFICES ASSUME NEW i \in 1 .. n PROVE rb_kept'[L - 0 + i] = b[i]
      BY <1>4
    <2>1. L - 0 + i = L + i /\ L + i \in 1 .. L + n /\ i \in 1 .. Len(d)
      BY <1>0, <1>2
    <2> HIDE DEF L
    <2> QED
      BY <1>4, <1>6, <1>7, <2>1
  <1>11. L - 0 + Len(b) <= RbSize /\ Len(rb_kept') = L - 0 + Len(b) /\ 0 <= L
    BY <1>0, <1>2, <1>4, <1>7
  <1>12. rb_write' = advanced(rb_write, Len(b))
    BY <1>3, <1>4
  <1> QED
    BY <1>4, <1>5, <1>7, <1>8, <1>9, <1>10, <1>11, <1>12, Moved

\* The overwritten reader ends up at the oldest byte that is left.
LEMMA PushedOn ==
    ASSUME RingInv, NEW n \in Nat, n <= RbSize, Len(rb_kept) + n > RbSize
    PROVE  pushed_on(n) = advanced(rb_read, Len(rb_kept) + n - RbSize)
  <1> DEFINE L == Len(rb_kept)
             e == L + n - RbSize
             to == advanced(rb_write, n)
             q == advanced(rb_read, e)
  <1>0. /\ RbSize \in Nat \ {0} /\ L \in Nat /\ L <= RbSize
        /\ rb_read \in Positions /\ rb_write \in Positions
        /\ rb_read.index \in 0 .. RbSize - 1 /\ rb_read.mirror \in BOOLEAN
        /\ rb_write.index \in 0 .. RbSize - 1 /\ rb_write.mirror \in BOOLEAN
    BY RingSize, LenProperties DEF RingInv, Positions
  <1>1. rb_write.index = IF rb_read.index + L < RbSize THEN rb_read.index + L
                         ELSE rb_read.index + L - RbSize
    BY <1>0, AdvancedIs DEF RingInv
  <1>2. /\ to \in Positions
        /\ to.index = IF rb_write.index + n < RbSize THEN rb_write.index + n
                      ELSE rb_write.index + n - RbSize
        /\ to.mirror = IF rb_write.index + n < RbSize THEN rb_write.mirror ELSE ~rb_write.mirror
    <2>1. n \in 0 .. RbSize /\ rb_write \in Positions
      BY <1>0
    <2> QED
      BY <2>1, AdvancedIs
  <1>3. e \in 1 .. RbSize /\ e = L + n - RbSize
    BY <1>0
  <1> HIDE DEF L, e, to
  <1>4. /\ q \in Positions
        /\ q.index = IF rb_read.index + e < RbSize THEN rb_read.index + e
                     ELSE rb_read.index + e - RbSize
        /\ q.mirror = IF rb_read.index + e < RbSize THEN rb_read.mirror ELSE ~rb_read.mirror
    <2>1. e \in 0 .. RbSize /\ rb_read \in Positions
      BY <1>0, <1>3
    <2> QED
      BY <2>1, AdvancedIs
  <1> HIDE DEF q
  <1>5. to.index = q.index
    BY SMTT(30), <1>0, <1>1, <1>2, <1>3, <1>4
  <1>6. to.index <= rb_read.index <=> rb_read.index + e >= RbSize
    BY <1>0, <1>3, <1>4, <1>5
  <1>7. rb_read.index + e >= RbSize => rb_write.index + n >= RbSize
    BY <1>0, <1>1, <1>3
  <1>8. (to.mirror # rb_write.mirror) <=> rb_write.index + n >= RbSize
    BY <1>0, <1>2
  <1>9. (to.mirror # rb_write.mirror /\ to.index <= rb_read.index) <=> ~(rb_read.index + e < RbSize)
    BY <1>0, <1>3, <1>6, <1>7, <1>8
  <1> DEFINE w == to.mirror # rb_write.mirror /\ to.index <= rb_read.index
             p == [index |-> to.index, mirror |-> IF w THEN ~rb_read.mirror ELSE rb_read.mirror]
  <1>10. p.index = q.index /\ p \in Positions
    BY <1>0, <1>2, <1>5 DEF Positions
  <1>11. p.mirror = q.mirror
    <2>1. p.mirror = IF w THEN ~rb_read.mirror ELSE rb_read.mirror
      OBVIOUS
    <2> HIDE DEF p, w
    <2>2. w <=> ~(rb_read.index + e < RbSize)
      BY <1>9 DEF w
    <2> QED
      BY <1>4, <2>1, <2>2
  <1>12. pushed_on(n) = p
    BY DEF pushed_on, to
  <1> HIDE DEF p
  <1>13. pushed_on(n) = q
    BY <1>4, <1>10, <1>11, <1>12, SamePosition
  <1> QED
    BY <1>13 DEF q, e, L

\* A forced write of the newest bytes of d, of which the buffer keeps the last ones.
LEMMA Forced ==
    ASSUME RingInv, NEW d \in Seq(Byte),
           rb_pool' = copied(last(d, RbSize)),
           rb_write' = advanced(rb_write, Len(last(d, RbSize))),
           rb_read' = IF Len(last(d, RbSize)) > RbSize - Len(rb_kept)
                      THEN advanced(rb_read, Len(rb_kept) + Len(last(d, RbSize)) - RbSize)
                      ELSE rb_read,
           rb_kept' = last(rb_kept \o d, RbSize)
    PROVE  RingInv'
  <1> DEFINE L == Len(rb_kept)
             b == last(d, RbSize)
             n == Len(b)
             j == rb_kept \o d
             D == Len(d)
             e == IF n > RbSize - L THEN L + n - RbSize ELSE 0
             m == IF RbSize <= Len(j) THEN RbSize ELSE Len(j)
  <1>0. /\ RbSize \in Nat \ {0} /\ L \in Nat /\ D \in Nat /\ L <= RbSize
        /\ rb_kept \in Seq(Byte) /\ rb_read \in Positions
    BY RingSize, LenProperties DEF RingInv
  <1>1. /\ b \in Seq(Byte) /\ n = IF RbSize <= D THEN RbSize ELSE D
        /\ \A i \in 1 .. n : b[i] = d[D - n + i]
    BY <1>0, LastOf
  <1>2. /\ j \in Seq(Byte) /\ Len(j) = L + D
        /\ \A i \in 1 .. L : j[i] = rb_kept[i]
        /\ \A i \in 1 .. D : j[L + i] = d[i]
    BY <1>0, Joined
  <1>3. /\ rb_kept' \in Seq(Byte) /\ Len(rb_kept') = m
        /\ \A i \in 1 .. m : rb_kept'[i] = j[Len(j) - m + i]
    <2> DEFINE k == last(j, RbSize)
    <2>1. RbSize \in Nat
      BY <1>0
    <2> HIDE DEF j
    <2>2. /\ k \in Seq(Byte) /\ Len(k) = m
          /\ \A i \in 1 .. Len(k) : k[i] = j[Len(j) - Len(k) + i]
      BY <1>2, <2>1, LastOf
    <2>3. rb_kept' = k
      BY DEF j
    <2> HIDE DEF k, m
    <2> QED
      BY <2>2, <2>3
  <1>4. /\ rb_pool' = copied(b) /\ rb_write' = advanced(rb_write, n)
        /\ rb_read' = IF n > RbSize - L THEN advanced(rb_read, L + n - RbSize) ELSE rb_read
    OBVIOUS
  <1> HIDE DEF b, j, D
  <1>5. /\ n \in Nat /\ n <= RbSize /\ e \in Nat /\ e <= L /\ m = L - e + n /\ m <= RbSize
        /\ L - e \in Nat
    <2> HIDE DEF L, n
    <2>1. Len(j) = L + D
      BY <1>2
    <2>2. n = IF RbSize <= D THEN RbSize ELSE D
      BY <1>1
    <2>3. m = IF RbSize <= L + D THEN RbSize ELSE L + D
      BY <2>1
    <2> HIDE DEF m
    <2>4. n \in Nat /\ n <= RbSize
      BY <1>0, <2>2
    <2>5. e \in Nat /\ e <= L
      BY <1>0, <2>4
    <2>6. m = L - e + n /\ m <= RbSize
      BY <1>0, <2>2, <2>3
    <2> QED
      BY <1>0, <2>4, <2>5, <2>6
  <1>6. rb_read' = advanced(rb_read, e)
    <2>1. CASE n > RbSize - L
      BY <1>4, <2>1
    <2>2. CASE ~(n > RbSize - L)
      BY <1>0, <1>4, <2>2, NotMoved
    <2> QED
      BY <2>1, <2>2
  <1>e. e = IF n > RbSize - L THEN L + n - RbSize ELSE 0
    OBVIOUS
  <1> HIDE DEF e, m
  <1>7. /\ rb_pool' \in [0 .. RbSize - 1 -> Byte]
        /\ \A i \in 1 .. Len(b) : rb_pool'[Place(rb_write, i)] = b[i]
        /\ \A k \in 0 .. RbSize - 1 :
              (\A i \in 1 .. Len(b) : Place(rb_write, i) # k) => rb_pool'[k] = rb_pool[k]
    BY ZenonT(60), <1>1, <1>4, <1>5, Copied
  <1>8. ASSUME NEW i \in 1 .. L - e PROVE rb_kept'[i] = rb_kept[e + i]
    <2> HIDE DEF L, n
    <2>1. D = n
      BY <1>0, <1>1, <1>5, <1>e
    <2>2. i \in 1 .. m /\ Len(j) - m + i = e + i /\ e + i \in 1 .. L
      BY <1>0, <1>2, <1>5, <2>1
    <2> QED
      BY <1>2, <1>3, <2>2
  <1>9. ASSUME NEW i \in 1 .. n PROVE rb_kept'[L - e + i] = b[i]
    <2> HIDE DEF L, n
    <2>1. /\ L - e + i \in 1 .. m /\ Len(j) - m + (L - e + i) = L + (D - n + i)
          /\ D - n + i \in 1 .. D
      BY <1>0, <1>1, <1>2, <1>5
    <2>2. rb_kept'[L - e + i] = j[L + (D - n + i)]
      BY <1>3, <2>1
    <2>3. j[L + (D - n + i)] = d[D - n + i]
      BY <1>2, <2>1
    <2>4. b[i] = d[D - n + i]
      BY <1>1
    <2> QED
      BY <2>2, <2>3, <2>4
  <1>10. e <= Len(rb_kept) /\ Len(rb_kept) - e + Len(b) <= RbSize
         /\ Len(rb_kept') = Len(rb_kept) - e + Len(b)
    BY <1>3, <1>5
  <1> QED
    BY <1>1, <1>4, <1>5, <1>6, <1>7, <1>3, <1>8, <1>9, <1>10, Moved

\* rt_ringbuffer_put_force
LEMMA PutForceKeeps ==
    ASSUME RingInv, NEW d \in Seq(Byte), rt_ringbuffer_put_force(d)
    PROVE  RingInv'
  <1> DEFINE b == last(d, RbSize)
             n == Len(b)
  <1>0. RbSize \in Nat \ {0} /\ Len(d) \in Nat /\ Len(rb_kept) \in Nat
    BY RingSize, LenProperties DEF RingInv
  <1>1. n = IF RbSize <= Len(d) THEN RbSize ELSE Len(d)
    BY <1>0, LastOf
  <1>2. n \in Nat /\ n <= RbSize
    BY <1>0, <1>1
  <1>3. /\ rb_pool' = copied(b) /\ rb_write' = advanced(rb_write, n)
        /\ rb_read' = IF n > RbSize - Len(rb_kept) THEN pushed_on(n) ELSE rb_read
        /\ rb_kept' = last(rb_kept \o d, RbSize)
    BY DataLen DEF rt_ringbuffer_put_force
  <1>4. n > RbSize - Len(rb_kept) => pushed_on(n) = advanced(rb_read, Len(rb_kept) + n - RbSize)
    <2> HIDE DEF n
    <2>1. n > RbSize - Len(rb_kept) => Len(rb_kept) + n > RbSize
      BY <1>0, <1>2
    <2> QED
      BY <1>2, <2>1, PushedOn
  <1> HIDE DEF b, n
  <1>5. rb_read' = IF n > RbSize - Len(rb_kept)
                   THEN advanced(rb_read, Len(rb_kept) + n - RbSize) ELSE rb_read
    BY <1>3, <1>4
  <1> QED
    BY <1>3, <1>5, Forced DEF b, n

\* rt_ringbuffer_putchar_force
LEMMA PutcharForceKeeps ==
    ASSUME RingInv, NEW c \in Byte, rt_ringbuffer_putchar_force(c)
    PROVE  RingInv'
  <1> DEFINE d == <<c>>
             to == advanced(rb_write, 1)
             q == advanced(rb_read, 1)
  <1>0. /\ RbSize \in Nat \ {0} /\ d \in Seq(Byte) /\ Len(d) = 1 /\ d[1] = c
        /\ Len(rb_kept) \in Nat /\ Len(rb_kept) <= RbSize
        /\ rb_kept \in Seq(Byte)
        /\ rb_read \in Positions /\ rb_write \in Positions
    BY RingSize, LenProperties DEF RingInv
  <1>1. last(d, RbSize) = d
    <2>1. ~(Len(d) > RbSize)
      BY <1>0
    <2>2. last(d, RbSize) = SubSeq(d, 1, Len(d))
      BY <2>1 DEF last
    <2>3. SubSeq(d, 1, 1) \in Seq(Byte) /\ Len(SubSeq(d, 1, 1)) = 1 /\ SubSeq(d, 1, 1)[1] = d[1]
      <3>1. \A i \in 1 .. 1 : d[i] \in Byte
        BY <1>0
      <3>2. /\ SubSeq(d, 1, 1) \in Seq(Byte)
            /\ Len(SubSeq(d, 1, 1)) = IF 1 <= 1 THEN 1 - 1 + 1 ELSE 0
            /\ \A i \in 1 .. 1 - 1 + 1 : SubSeq(d, 1, 1)[i] = d[1 + i - 1]
        BY <3>1, SubSeqProperties
      <3> QED
        BY <3>2
    <2>4. SubSeq(d, 1, 1) = d
      <3> HIDE DEF d
      <3> QED
        BY <1>0, <2>3, SeqEqual
    <2> QED
      BY <1>0, <2>2, <2>4
  <1>2. Append(rb_kept, c) = rb_kept \o d
    BY <1>0
  <1>3. /\ to.index = IF rb_write.index + 1 < RbSize THEN rb_write.index + 1
                      ELSE rb_write.index + 1 - RbSize
        /\ q \in Positions
        /\ q.index = IF rb_read.index + 1 < RbSize THEN rb_read.index + 1
                     ELSE rb_read.index + 1 - RbSize
        /\ q.mirror = IF rb_read.index + 1 < RbSize THEN rb_read.mirror ELSE ~rb_read.mirror
    <2>1. 1 \in 0 .. RbSize
      BY <1>0
    <2> QED
      BY <1>0, <2>1, AdvancedIs
  <1>4. rt_ringbuffer_status = "FULL" <=> 1 > RbSize - Len(rb_kept)
    <2>1. rt_ringbuffer_status = "FULL" <=> Len(rb_kept) = RbSize
      BY DataLen
    <2> QED
      BY <1>0, <2>1
  <1>5. CASE rt_ringbuffer_status = "FULL"
    <2>1. rb_write.index = rb_read.index
      BY <1>5 DEF rt_ringbuffer_status
    <2> DEFINE p == [index |-> to.index,
                     mirror |-> IF rb_write.index = RbSize - 1 THEN ~rb_read.mirror
                                ELSE rb_read.mirror]
    <2>2. rb_read' = p
      BY <1>5 DEF rt_ringbuffer_putchar_force
    <2>3. p.index = to.index
          /\ p.mirror = IF rb_write.index = RbSize - 1 THEN ~rb_read.mirror ELSE rb_read.mirror
      OBVIOUS
    <2>4. rb_read.index \in 0 .. RbSize - 1 /\ rb_read.mirror \in BOOLEAN
      BY <1>0 DEF Positions
    <2>5. to.index = q.index
      BY <1>3, <2>1
    <2>6. p \in Positions
      <3>1. to.index \in 0 .. RbSize - 1
        BY <1>3, <2>5 DEF Positions
      <3> QED
        BY <2>4, <3>1 DEF Positions
    <2> HIDE DEF p, q
    <2>7. (rb_write.index = RbSize - 1) <=> ~(rb_read.index + 1 < RbSize)
      BY <1>0, <2>1, <2>4
    <2>8. p.mirror = q.mirror
      BY <1>3, <2>3, <2>7
    <2>9. rb_read' = q
      BY <1>3, <2>2, <2>3, <2>5, <2>6, <2>8, SamePosition
    <2>10. Len(rb_kept) + 1 - RbSize = 1
      BY <1>0, <1>5, DataLen
    <2> QED
      BY <1>0, <1>1, <1>2, <1>4, <1>5, <2>9, <2>10, Forced DEF rt_ringbuffer_putchar_force, q
  <1>6. CASE rt_ringbuffer_status # "FULL"
    <2>1. rb_read' = rb_read
      BY <1>6 DEF rt_ringbuffer_putchar_force
    <2> QED
      BY <1>0, <1>1, <1>2, <1>4, <1>6, <2>1, Forced DEF rt_ringbuffer_putchar_force
  <1> QED
    BY <1>5, <1>6

\* The reader moves over n of the bytes kept.
LEMMA TakenKeeps ==
    ASSUME RingInv, NEW n \in Nat, n <= Len(rb_kept),
           rb_read' = advanced(rb_read, n),
           rb_pool' = rb_pool, rb_write' = rb_write,
           rb_kept' = last(rb_kept, Len(rb_kept) - n)
    PROVE  RingInv'
  <1> DEFINE L == Len(rb_kept)
             d == << >>
             k == last(rb_kept, L - n)
  <1>0. /\ RbSize \in Nat \ {0} /\ L \in Nat /\ L <= RbSize /\ rb_kept \in Seq(Byte)
        /\ L - n \in Nat /\ rb_write \in Positions /\ rb_pool \in [0 .. RbSize - 1 -> Byte]
    BY RingSize, LenProperties DEF RingInv
  <1>1. d \in Seq(Byte) /\ Len(d) = 0
    OBVIOUS
  <1> HIDE DEF d
  <1>2. /\ k \in Seq(Byte) /\ Len(k) = IF L - n <= L THEN L - n ELSE L
        /\ \A i \in 1 .. Len(k) : k[i] = rb_kept[L - Len(k) + i]
    BY <1>0, LastOf
  <1>3. rb_kept' = k
    OBVIOUS
  <1> HIDE DEF k
  <1>4. Len(k) = L - n
    BY <1>0, <1>2
  <1>5. \A i \in 1 .. L - n : rb_kept'[i] = rb_kept[n + i]
    <2>1. L - (L - n) = n
      BY <1>0
    <2> HIDE DEF L
    <2> QED
      BY <1>2, <1>3, <1>4, <2>1
  <1>6. rb_write' = advanced(rb_write, Len(d))
    BY <1>0, <1>1, NotMoved
  <1>7. \A i \in 1 .. Len(d) : FALSE
    BY <1>1
  <1>8. L - n + Len(d) <= RbSize /\ Len(rb_kept') = L - n + Len(d) /\ rb_kept' \in Seq(Byte)
    BY SMTT(30), <1>0, <1>1, <1>2, <1>3, <1>4
  <1> QED
    BY <1>0, <1>1, <1>5, <1>6, <1>7, <1>8, Moved

\* rt_ringbuffer_get
LEMMA GetKeeps ==
    ASSUME RingInv, NEW length \in Nat, rt_ringbuffer_get(length)
    PROVE  RingInv'
  <1> DEFINE L == Len(rb_kept)
             n == Smaller(length, L)
  <1>0. L \in Nat
    BY LenProperties DEF RingInv
  <1>1. /\ rb_read' = advanced(rb_read, n)
        /\ rb_kept' = last(rb_kept, IF length < L THEN L - length ELSE 0)
        /\ rb_pool' = rb_pool /\ rb_write' = rb_write
    BY DataLen DEF rt_ringbuffer_get
  <1>2. n \in Nat /\ n <= L /\ (IF length < L THEN L - length ELSE 0) = L - n
    BY <1>0 DEF Smaller
  <1> HIDE DEF n
  <1>3. rb_kept' = last(rb_kept, L - n)
    BY <1>1, <1>2
  <1> QED
    BY <1>1, <1>2, <1>3, TakenKeeps

\* rt_ringbuffer_peek
LEMMA PeekKeeps ==
    ASSUME RingInv, rt_ringbuffer_peek
    PROVE  RingInv'
  <1> DEFINE L == Len(rb_kept)
             n == Smaller(L, RbSize - rb_read.index)
  <1>0. L \in Nat /\ RbSize \in Nat \ {0} /\ rb_read.index \in 0 .. RbSize - 1
    BY RingSize, LenProperties DEF RingInv, Positions
  <1>1. /\ rb_read' = advanced(rb_read, n)
        /\ rb_kept' = last(rb_kept, L - n)
        /\ rb_pool' = rb_pool /\ rb_write' = rb_write
    BY DataLen DEF rt_ringbuffer_peek
  <1>2. n \in Nat /\ n <= L
    BY <1>0 DEF Smaller
  <1> HIDE DEF n
  <1> QED
    BY <1>1, <1>2, TakenKeeps

\* An empty buffer with both positions at the start.
LEMMA EmptyRing ==
    /\ RbStart \in Positions
    /\ RbStart = advanced(RbStart, Len(<< >>))
  <1>1. RbSize \in Nat \ {0}
    BY RingSize
  <1>2. RbStart \in Positions
    BY <1>1 DEF RbStart, Positions
  <1>3. Len(<< >>) = 0
    OBVIOUS
  <1> QED
    BY <1>2, <1>3, NotMoved

\* An empty ring.
LEMMA RingInitially == RbInit => RingInv
  <1> SUFFICES ASSUME RbInit PROVE RingInv
    OBVIOUS
  <1>1. rb_pool \in [0 .. RbSize - 1 -> Byte]
    BY DEF RbInit, Byte
  <1>2. /\ rb_read \in Positions /\ rb_write \in Positions
        /\ rb_write = advanced(rb_read, Len(rb_kept))
    BY EmptyRing DEF RbInit
  <1>3. rb_kept \in Seq(Byte) /\ Len(rb_kept) = 0
    BY DEF RbInit
  <1>4. Len(rb_kept) <= RbSize /\ \A i \in 1 .. Len(rb_kept) : FALSE
    BY <1>3, RingSize
  <1> QED
    BY <1>1, <1>2, <1>3, <1>4 DEF RingInv

\* Every step of the ring buffer keeps the invariant.
LEMMA RingStep == RingInv /\ [RbNext]_rbVars => RingInv'
  <1> SUFFICES ASSUME RingInv, [RbNext]_rbVars PROVE RingInv'
    OBVIOUS
  <1>1. ASSUME NEW d \in RbBlocks, rt_ringbuffer_put(d) PROVE RingInv'
    BY <1>1, PutKeeps, RingSize
  <1>2. ASSUME NEW d \in RbBlocks, rt_ringbuffer_put_force(d) PROVE RingInv'
    BY <1>2, PutForceKeeps, RingSize
  <1>3. ASSUME NEW d \in RbBlocks, Len(d) = 1, rt_ringbuffer_putchar_force(d[1])
        PROVE  RingInv'
    <2>1. d \in Seq(Byte) /\ 1 \in 1 .. Len(d)
      BY <1>3, RingSize
    <2>2. d[1] \in Byte
      BY <2>1, ElementOfSeq
    <2> QED
      BY <1>3, <2>2, PutcharForceKeeps
  <1>4. ASSUME NEW n \in 1 .. RbSize + 1, rt_ringbuffer_get(n) PROVE RingInv'
    <2>1. n \in Nat
      BY RingSize
    <2> QED
      BY <1>4, <2>1, GetKeeps
  <1>5. CASE rt_ringbuffer_peek
    BY <1>5, PeekKeeps
  <1>6. CASE rt_ringbuffer_reset
    <2>1. rb_read' = RbStart /\ rb_write' = RbStart /\ rb_kept' = << >> /\ rb_pool' = rb_pool
      BY <1>6 DEF rt_ringbuffer_reset
    <2>2. rb_kept' \in Seq(Byte) /\ Len(rb_kept') = 0
      BY <2>1
    <2>3. Len(rb_kept') <= RbSize /\ \A i \in 1 .. Len(rb_kept') : FALSE
      BY <2>2, RingSize
    <2>4. /\ rb_read' \in Positions /\ rb_write' \in Positions
          /\ rb_write' = advanced(rb_read', Len(rb_kept'))
      BY <2>1, EmptyRing
    <2> QED
      BY <2>1, <2>2, <2>3, <2>4 DEF RingInv
  <1>7. CASE UNCHANGED rbVars
    BY <1>7 DEF rbVars, RingInv
  <1> QED
    BY <1>1, <1>2, <1>3, <1>4, <1>5, <1>6, <1>7 DEF RbNext

\* The invariant holds always.
LEMMA RingKept == RbSpec => []RingInv
  BY RingInitially, RingStep, PTL DEF RbSpec

(***************************************************************************)
(* A ring buffer of any size, fed with any blocks of bytes, is a byte      *)
(* queue: rt_ringbuffer_put, _get, _peek and their forced variants of      *)
(* ringbuffer.c keep between the two mirrored positions what was put and   *)
(* not taken, or the newest part of it.                                    *)
(***************************************************************************)
THEOREM RingBufferIsQueue == RbSpec => []RingIsQueue
  BY RingKept, RingInvMeans, PTL

-----------------------------------------------------------------------------
(* The work queue *)

WorkFields == [queue : BOOLEAN, submitting : BOOLEAN, timer : BOOLEAN,
               accepted : BOOLEAN, cancelled : BOOLEAN]

\* One work: it is in the list of delayed works exactly while a delay of it is being
\* started, runs or ends, and these three exclude each other; then it is not also in
\* the list of the worker, and it knows its queue.  It is accepted while it is in one
\* of the lists.
WorkInv(w) ==
    /\ work[w].submitting <=> InList(wq_delayed, w)
    /\ work[w].submitting <=> work[w].timer \/ w \in wq_starting \/ Fires(w)
    /\ work[w].submitting => ~InList(wq_list, w) /\ work[w].queue
    /\ ~(work[w].timer /\ w \in wq_starting)
    /\ ~(work[w].timer /\ Fires(w))
    /\ ~(w \in wq_starting /\ Fires(w))
    /\ Fires(w) => wq_current # w
    /\ work[w].accepted <=> InList(wq_list, w) \/ work[w].submitting
    /\ work[w].cancelled =>
          ~InList(wq_list, w) /\ ~work[w].submitting /\ (wq_current = w => Awaited(w))

\* The worker: it has a current work exactly while it runs it, and does not sleep when
\* there is work.
WorkerInv ==
    /\ wq_pc = "run" <=> wq_current # NoWork
    /\ wq_pc = "ack" => wq_stat = "READY"
    /\ wq_pc = "look" /\ (\E w \in Works : InList(wq_list, w)) => wq_stat = "READY"

\* The threads in rt_workqueue_cancel_work_sync: what they saw of the current work is
\* still so.
SyncInv ==
    \A c \in Cancellers, w \in Works :
        /\ wq_sync[c] = <<w, "seen">> => wq_current = w
        /\ wq_sync[c] = <<w, "wait">> => wq_current = w \/ wq_pc = "ack"
        /\ wq_sync[c] = <<w, "cancel">> => wq_current # w

WqInv ==
    /\ WqTypeOK
    /\ Once(wq_list) /\ Once(wq_delayed)
    /\ WorkerInv
    /\ SyncInv
    /\ \A w \in Works : WorkInv(w)

\* The invariant says what the work queue promises.
LEMMA WqInvMeans ==
  WqInv => AcceptedIsKept /\ CancelsKept /\ TimeoutFindsQueue
  <1> SUFFICES ASSUME WqInv PROVE AcceptedIsKept /\ CancelsKept /\ TimeoutFindsQueue
    OBVIOUS
  <1>1. wq_list # << >> <=> \E w \in Works : InList(wq_list, w)
    BY EmptyOf DEF WqInv, WqTypeOK
  <1>2. AcceptedIsKept
    BY <1>1 DEF WqInv, WorkInv, WorkerInv, AcceptedIsKept
  <1>3. CancelledStaysOut
    BY DEF WqInv, WorkInv, CancelledStaysOut
  <1>4. BlocksUntilDone
    BY DEF WqInv, SyncInv, BlocksUntilDone
  <1>5. TimeoutFindsQueue
    BY DEF WqInv, WorkInv, Fires, TimeoutFindsQueue
  <1> QED
    BY <1>2, <1>3, <1>4, <1>5 DEF CancelsKept

\* At first there is no work.
LEMMA WqInitially == WqInit => WqInv
  <1> SUFFICES ASSUME WqInit PROVE WqInv
    OBVIOUS
  <1>1. wq_firing = NoWork /\ \A w \in Works : ~Fires(w)
    BY WqAssumption DEF WqInit, Fires
  <1>2. \A w \in Works : /\ ~InList(wq_list, w) /\ ~InList(wq_delayed, w)
                         /\ wq_current # w /\ w \notin wq_starting
    BY NothingListed, WqAssumption DEF WqInit
  <1>3. \A w \in Works : /\ ~work[w].submitting /\ ~work[w].timer /\ ~work[w].accepted
                         /\ ~work[w].cancelled
    BY DEF WqInit, Idle
  <1>4. \A w \in Works : WorkInv(w)
    BY <1>1, <1>2, <1>3 DEF WorkInv
  <1>5. WqTypeOK
    BY DEF WqInit, WqTypeOK, Idle
  <1>6. WorkerInv
    BY <1>2 DEF WqInit, WorkerInv
  <1>7. Once(wq_list) /\ Once(wq_delayed)
    BY NothingListed DEF WqInit
  <1>8. SyncInv
    BY WqAssumption DEF WqInit, SyncInv
  <1> QED
    BY <1>4, <1>5, <1>6, <1>7, <1>8 DEF WqInv

\* The worker's own steps.
LEMMA WorkerKeeps ==
    ASSUME WqInv, WqDisciplined, look_suspend \/ look_take \/ func_returns \/ work_completion
    PROVE  WqInv'
  <1>0. WqTypeOK /\ Once(wq_list) /\ Once(wq_delayed) /\ WorkerInv /\ \A w \in Works : WorkInv(w)
    BY DEF WqInv
  <1>s. SyncInv /\ \A v \in Works, p \in {"seen", "wait", "cancel"} : NoWork # v /\ NoWork # <<v, p>>
    BY WqAssumption DEF WqInv
  <1>1. CASE look_suspend
    <2>1. ~\E w \in Works : InList(wq_list, w)
      BY <1>1, NothingListed DEF look_suspend
    <2>2. WqTypeOK' /\ WorkerInv' /\ Once(wq_list)' /\ Once(wq_delayed)'
      BY <1>0, <1>1, <2>1 DEF look_suspend, WqTypeOK, WorkerInv
    <2>3. \A w \in Works : WorkInv(w)'
      BY <1>0, <1>1 DEF look_suspend, WorkInv, Fires, Awaited
    <2>4. SyncInv'
      BY <1>1, <1>s DEF look_suspend, SyncInv
    <2> QED
      BY <2>2, <2>3, <2>4 DEF WqInv
  <1>2. CASE look_take
    <2> DEFINE h == Head(wq_list)
    <2>1. /\ h \in Works /\ wq_list' \in Seq(Works) /\ InList(wq_list, h)
          /\ \A y : InList(wq_list, y) <=> InList(wq_list', y) \/ y = h
          /\ Once(wq_list') /\ ~InList(wq_list', h)
      BY <1>0, <1>2, TailOf DEF look_take, WqTypeOK
    <2>2. /\ wq_current' = h /\ wq_pc' = "run" /\ wq_pc = "look"
          /\ work' = [work EXCEPT ![h].queue = FALSE, ![h].accepted = FALSE]
          /\ UNCHANGED <<wq_delayed, wq_stat, wq_starting, wq_firing, wq_sync>>
      BY <1>2 DEF look_take
    <2> HIDE DEF h
    <2>3. WqTypeOK'
      BY ZenonT(60), <1>0, <2>1, <2>2 DEF WqTypeOK
    <2>4. WorkerInv' /\ Once(wq_list)' /\ Once(wq_delayed)'
      BY <1>0, <2>1, <2>2, WqAssumption DEF WorkerInv
    <2>5. \A v \in Works : /\ work'[v].submitting = work[v].submitting
                           /\ work'[v].timer = work[v].timer
                           /\ v # h => work'[v].queue = work[v].queue
                           /\ work'[v].cancelled = work[v].cancelled
                           /\ work'[v].accepted = IF v = h THEN FALSE ELSE work[v].accepted
      <3> SUFFICES ASSUME NEW v \in Works
                   PROVE  /\ work'[v].submitting = work[v].submitting
                          /\ work'[v].timer = work[v].timer
                          /\ v # h => work'[v].queue = work[v].queue
                          /\ work'[v].cancelled = work[v].cancelled
                          /\ work'[v].accepted = IF v = h THEN FALSE ELSE work[v].accepted
        OBVIOUS
      <3>1. work'[v] = IF v = h THEN [work[v] EXCEPT !.queue = FALSE, !.accepted = FALSE]
                       ELSE work[v]
        BY <1>0, <2>1, <2>2 DEF WqTypeOK
      <3>2. work[v] \in WorkFields
        BY <1>0 DEF WqTypeOK, WorkFields
      <3> QED
        BY <3>1, <3>2 DEF WorkFields
    <2>6. ASSUME NEW v \in Works PROVE WorkInv(v)'
      <3>1. WorkInv(v) /\ WorkInv(h)
        BY <1>0, <2>1
      <3>2. CASE v = h
        BY <2>1, <2>2, <2>5, <3>1, <3>2 DEF WorkInv, Fires, Awaited
      <3>3. CASE v # h
        BY <2>1, <2>2, <2>5, <3>1, <3>3 DEF WorkInv, Fires, Awaited
      <3> QED
        BY <3>2, <3>3
    <2>7. SyncInv'
      <3>1. \A c \in Cancellers : wq_sync[c] # <<h, "cancel">>
        BY <1>2 DEF look_take, h
      <3>2. wq_current = NoWork
        BY <1>0, <2>2 DEF WorkerInv
      <3> QED
        BY <1>s, <2>1, <2>2, <3>1, <3>2 DEF SyncInv
    <2> QED
      BY <2>3, <2>4, <2>6, <2>7 DEF WqInv
  <1>3. CASE func_returns
    <2>1. WqTypeOK' /\ WorkerInv' /\ Once(wq_list)' /\ Once(wq_delayed)'
      BY <1>0, <1>3 DEF func_returns, WqTypeOK, WorkerInv
    <2>2. \A w \in Works : WorkInv(w)'
      BY <1>0, <1>3, WqAssumption DEF func_returns, WorkInv, Fires
    <2>3. SyncInv'
      BY <1>3, <1>s DEF func_returns, SyncInv
    <2> QED
      BY <2>1, <2>2, <2>3 DEF WqInv
  <1>4. CASE work_completion
    <2>1. WqTypeOK'
      BY <1>0, <1>4 DEF work_completion, WqTypeOK
    <2>2. WorkerInv' /\ Once(wq_list)' /\ Once(wq_delayed)'
      BY <1>0, <1>4 DEF work_completion, WorkerInv
    <2>3. \A w \in Works : WorkInv(w)'
      <3>1. wq_current = NoWork
        BY <1>0, <1>4 DEF work_completion, WorkerInv
      <3> QED
        BY <1>0, <1>4, <1>s, <3>1 DEF work_completion, WorkInv, Fires
    <2>4. SyncInv'
      <3>1. ASSUME NEW c \in Cancellers, NEW w \in Works
            PROVE  /\ wq_sync'[c] = <<w, "wait">> => FALSE
                   /\ \A p \in {"seen", "cancel"} : wq_sync'[c] = <<w, p>> => wq_sync[c] = <<w, p>>
        BY <1>4, <1>s DEF work_completion, TakesSem
      <3> QED
        BY <1>4, <1>s, <3>1 DEF work_completion, SyncInv
    <2> QED
      BY <2>1, <2>2, <2>3, <2>4 DEF WqInv
  <1> QED
    BY <1>1, <1>2, <1>3, <1>4

\* The steps that touch neither list nor work nor canceller.
LEMMA WaitersKeep ==
    ASSUME WqInv,
           wq_stat' = wq_stat \/ (wq_pc = "run" /\ wq_stat' \in {"READY", "SUSPEND"}),
           UNCHANGED <<wq_list, wq_delayed, wq_current, wq_pc, work, wq_starting, wq_firing,
                       wq_sync>>
    PROVE  WqInv'
  <1>1. WqTypeOK' /\ WorkerInv' /\ Once(wq_list)' /\ Once(wq_delayed)'
    BY DEF WqInv, WqTypeOK, WorkerInv
  <1>2. \A w \in Works : WorkInv(w)'
    BY DEF WqInv, WorkInv, Fires, Awaited
  <1>3. SyncInv'
    BY DEF WqInv, SyncInv
  <1> QED
    BY <1>1, <1>2, <1>3 DEF WqInv

\* A list after w was taken off it, wherever it was.
LEMMA Unlinked ==
    ASSUME NEW l \in Seq(Works), Once(l), NEW w \in Works
    PROVE  LET r == rt_list_remove(l, w)
           IN  /\ r \in Seq(Works) /\ Once(r)
               /\ \A y : InList(r, y) <=> InList(l, y) /\ y # w
  BY RemovedMembers

\* The same with w linked again at the end, or at the front.
LEMMA Relinked ==
    ASSUME NEW l \in Seq(Works), Once(l), NEW w \in Works
    PROVE  LET r == rt_list_remove(l, w)
           IN  /\ Append(r, w) \in Seq(Works) /\ Once(Append(r, w))
               /\ \A y : InList(Append(r, w), y) <=> InList(l, y) \/ y = w
               /\ <<w>> \o r \in Seq(Works) /\ Once(<<w>> \o r)
               /\ \A y : InList(<<w>> \o r, y) <=> InList(l, y) \/ y = w
  <1> DEFINE r == rt_list_remove(l, w)
  <1>1. r \in Seq(Works) /\ Once(r) /\ \A y : InList(r, y) <=> InList(l, y) /\ y # w
    BY Unlinked
  <1> HIDE DEF r
  <1>2. /\ Append(r, w) \in Seq(Works) /\ Once(Append(r, w))
        /\ \A y : InList(Append(r, w), y) <=> InList(l, y) \/ y = w
    <2>1. /\ Append(r, w) \in Seq(Works)
          /\ \A y : InList(Append(r, w), y) <=> InList(r, y) \/ y = w
          /\ Once(r) /\ ~InList(r, w) => Once(Append(r, w))
      BY <1>1, Appended
    <2> QED
      BY <1>1, <2>1
  <1>3. /\ <<w>> \o r \in Seq(Works) /\ Once(<<w>> \o r)
        /\ \A y : InList(<<w>> \o r, y) <=> InList(l, y) \/ y = w
    <2>1. /\ <<w>> \o r \in Seq(Works)
          /\ \A y : InList(<<w>> \o r, y) <=> InList(r, y) \/ y = w
          /\ Once(r) /\ ~InList(r, w) => Once(<<w>> \o r)
      BY <1>1, Prepended
    <2> QED
      BY <1>1, <2>1
  <1> QED
    BY <1>2, <1>3 DEF r

\* worker_resumed leaves the worker awake unless it runs a work.
LEMMA WorkerResumed ==
    ASSUME WqInv, worker_resumed
    PROVE  wq_stat' \in {"READY", "SUSPEND"} /\ (wq_pc # "run" => wq_stat' = "READY")
  BY DEF WqInv, WqTypeOK, WorkerInv, worker_resumed

\* The fields of the works after some of w's were set.
LEMMA FieldsSet ==
    ASSUME WqInv, NEW w \in Works, NEW r \in WorkFields, work' = [work EXCEPT ![w] = r]
    PROVE  /\ work' \in [Works -> WorkFields] /\ work'[w] = r
           /\ \A v \in Works : v # w => work'[v] = work[v]
  BY DEF WqInv, WqTypeOK, WorkFields

\* What remains to be shown of a step that changes lists, works or cancellers,
LEMMA CallStep ==
    ASSUME WqInv, NEW w \in Works,
           wq_list' \in Seq(Works), Once(wq_list'),
           wq_delayed' \in Seq(Works), Once(wq_delayed'),
           work' \in [Works -> WorkFields],
           \A v \in Works : v # w =>
              /\ work'[v] = work[v]
              /\ InList(wq_list', v) <=> InList(wq_list, v)
              /\ InList(wq_delayed', v) <=> InList(wq_delayed, v)
              /\ Fires(v)' <=> Fires(v)
              /\ v \in wq_starting' <=> v \in wq_starting,
           wq_stat' \in {"READY", "SUSPEND"},
           wq_pc # "run" => wq_stat' = "READY" \/ (wq_stat' = wq_stat
               /\ \A v \in Works : InList(wq_list', v) => InList(wq_list, v)),
           wq_starting' \subseteq Works,
           wq_firing' \in {NoWork} \cup (Works \X {"read", "move"}),
           UNCHANGED <<wq_current, wq_pc>>,
           wq_sync' \in [Cancellers -> {NoWork} \cup (Works \X {"seen", "wait", "cancel"})],
           \A v \in Works : Awaited(v) => Awaited(v)',
           SyncInv',
           WorkInv(w)'
    PROVE  WqInv'
  <1>1. WqTypeOK' /\ WorkerInv'
    BY DEF WqInv, WqTypeOK, WorkerInv, WorkFields
  <1>2. ASSUME NEW v \in Works, v # w PROVE WorkInv(v)'
    <2>1. WorkInv(v)
      BY DEF WqInv
    <2> QED
      BY <1>2, <2>1 DEF WorkInv
  <1> QED
    BY <1>1, <1>2 DEF WqInv

\* and of one that leaves the cancellers alone.
LEMMA ListStep ==
    ASSUME WqInv, NEW w \in Works,
           wq_list' \in Seq(Works), Once(wq_list'),
           wq_delayed' \in Seq(Works), Once(wq_delayed'),
           work' \in [Works -> WorkFields],
           \A v \in Works : v # w =>
              /\ work'[v] = work[v]
              /\ InList(wq_list', v) <=> InList(wq_list, v)
              /\ InList(wq_delayed', v) <=> InList(wq_delayed, v)
              /\ Fires(v)' <=> Fires(v)
              /\ v \in wq_starting' <=> v \in wq_starting,
           wq_stat' \in {"READY", "SUSPEND"},
           wq_pc # "run" => wq_stat' = "READY" \/ (wq_stat' = wq_stat
               /\ \A v \in Works : InList(wq_list', v) => InList(wq_list, v)),
           wq_starting' \subseteq Works,
           wq_firing' \in {NoWork} \cup (Works \X {"read", "move"}),
           UNCHANGED <<wq_current, wq_pc, wq_sync>>,
           WorkInv(w)'
    PROVE  WqInv'
  <1>1. wq_sync' \in [Cancellers -> {NoWork} \cup (Works \X {"seen", "wait", "cancel"})]
    BY DEF WqInv, WqTypeOK
  <1>2. \A v \in Works : Awaited(v) => Awaited(v)'
    BY DEF Awaited
  <1>3. SyncInv'
    BY DEF WqInv, SyncInv
  <1> QED
    BY <1>1, <1>2, <1>3, CallStep

\* rt_workqueue_dowork
LEMMA DoworkKeeps ==
    ASSUME WqInv, WqDisciplined, NEW w \in Works, rt_workqueue_dowork(w)
    PROVE  WqInv'
  <1>0. /\ wq_list \in Seq(Works) /\ Once(wq_list) /\ wq_delayed \in Seq(Works) /\ Once(wq_delayed)
        /\ work[w] \in WorkFields /\ work \in [Works -> WorkFields] /\ WorkInv(w)
        /\ wq_starting \subseteq Works /\ wq_firing \in {NoWork} \cup (Works \X {"read", "move"})
    BY DEF WqInv, WqTypeOK, WorkFields
  <1>1. /\ ~work[w].submitting /\ ~work[w].timer /\ w \notin wq_starting /\ ~Fires(w)
        /\ wq_current = w => ~work[w].accepted
    BY <1>0 DEF rt_workqueue_dowork, NoDelay, NotAgain, Settled, WorkInv
  <1>2. /\ wq_delayed' = rt_list_remove(wq_delayed, w) /\ worker_resumed
        /\ UNCHANGED <<wq_current, wq_pc, wq_starting, wq_firing, wq_sync>>
    BY DEF rt_workqueue_dowork
  <1>3. /\ wq_delayed' \in Seq(Works) /\ Once(wq_delayed')
        /\ \A y : InList(wq_delayed', y) <=> InList(wq_delayed, y) /\ y # w
    BY <1>0, <1>2, Unlinked
  <1>4. wq_stat' \in {"READY", "SUSPEND"} /\ (wq_pc # "run" => wq_stat' = "READY")
    BY <1>2, WorkerResumed
  <1>5. CASE wq_current # w
    <2> DEFINE r == [work[w] EXCEPT !.queue = TRUE, !.accepted = TRUE, !.cancelled = FALSE]
    <2>1. wq_list' = Append(rt_list_remove(wq_list, w), w) /\ work' = [work EXCEPT ![w] = r]
      BY <1>5 DEF rt_workqueue_dowork
    <2>2. /\ r \in WorkFields /\ r.accepted /\ ~r.cancelled
          /\ r.submitting = work[w].submitting /\ r.timer = work[w].timer
      BY <1>0 DEF WorkFields
    <2> HIDE DEF r
    <2>3. /\ work' \in [Works -> WorkFields] /\ work'[w] = r
          /\ \A v \in Works : v # w => work'[v] = work[v]
      BY <2>1, <2>2, FieldsSet
    <2>4. /\ wq_list' \in Seq(Works) /\ Once(wq_list')
          /\ \A y : InList(wq_list', y) <=> InList(wq_list, y) \/ y = w
      BY <1>0, <2>1, Relinked
    <2>5. WorkInv(w)'
      BY <1>1, <1>2, <1>3, <1>5, <2>2, <2>3, <2>4 DEF WorkInv, Fires, Awaited
    <2>6. \A v \in Works : Fires(v)' <=> Fires(v)
      BY <1>2 DEF Fires
    <2> QED
      BY <1>0, <1>2, <1>3, <1>4, <2>3, <2>4, <2>5, <2>6, ListStep
  <1>6. CASE wq_current = w
    <2>1. wq_list' = rt_list_remove(wq_list, w) /\ work' = work
      BY <1>6 DEF rt_workqueue_dowork
    <2>2. /\ wq_list' \in Seq(Works) /\ Once(wq_list')
          /\ \A y : InList(wq_list', y) <=> InList(wq_list, y) /\ y # w
      BY <1>0, <2>1, Unlinked
    <2>3. WorkInv(w)'
      BY <1>0, <1>1, <1>2, <1>3, <1>6, <2>1, <2>2 DEF WorkInv, Fires, Awaited
    <2>4. \A v \in Works : Fires(v)' <=> Fires(v)
      BY <1>2 DEF Fires
    <2> QED
      BY <1>0, <1>2, <1>3, <1>4, <2>1, <2>2, <2>3, <2>4, ListStep
  <1> QED
    BY <1>5, <1>6

\* rt_workqueue_submit_work and the start of its timer
LEMMA SubmitKeeps ==
    ASSUME WqInv, WqDisciplined, NEW w \in Works, rt_workqueue_submit_work(w) \/ submit_start(w)
    PROVE  WqInv'
  <1>0. /\ wq_list \in Seq(Works) /\ Once(wq_list) /\ wq_delayed \in Seq(Works) /\ Once(wq_delayed)
        /\ work[w] \in WorkFields /\ work \in [Works -> WorkFields] /\ WorkInv(w)
        /\ wq_starting \subseteq Works /\ wq_firing \in {NoWork} \cup (Works \X {"read", "move"})
        /\ wq_stat \in {"READY", "SUSPEND"}
    BY DEF WqInv, WqTypeOK, WorkFields
  <1>1. CASE rt_workqueue_submit_work(w)
    <2> DEFINE r == [queue |-> TRUE, submitting |-> TRUE, timer |-> FALSE,
                     accepted |-> TRUE, cancelled |-> FALSE]
    <2>1. /\ wq_list' = rt_list_remove(wq_list, w)
          /\ wq_delayed' = Append(rt_list_remove(wq_delayed, w), w)
          /\ work' = [work EXCEPT ![w] = r]
          /\ wq_starting' = wq_starting \cup {w}
          /\ UNCHANGED <<wq_current, wq_pc, wq_stat, wq_firing, wq_sync>>
          /\ ~Fires(w)
      BY <1>1 DEF rt_workqueue_submit_work, Settled
    <2>2. /\ r \in WorkFields /\ r.queue /\ r.submitting /\ ~r.timer
          /\ r.accepted /\ ~r.cancelled
      BY DEF WorkFields
    <2> HIDE DEF r
    <2>3. /\ work' \in [Works -> WorkFields] /\ work'[w] = r
          /\ \A v \in Works : v # w => work'[v] = work[v]
      BY <2>1, <2>2, FieldsSet
    <2>4. /\ wq_list' \in Seq(Works) /\ Once(wq_list')
          /\ \A y : InList(wq_list', y) <=> InList(wq_list, y) /\ y # w
      BY <1>0, <2>1, Unlinked
    <2>5. /\ wq_delayed' \in Seq(Works) /\ Once(wq_delayed')
          /\ \A y : InList(wq_delayed', y) <=> InList(wq_delayed, y) \/ y = w
      BY <1>0, <2>1, Relinked
    <2>6. WorkInv(w)'
      BY <2>1, <2>2, <2>3, <2>4, <2>5 DEF WorkInv, Fires, Awaited
    <2>7. \A v \in Works : Fires(v)' <=> Fires(v)
      BY <2>1 DEF Fires
    <2> QED
      BY <1>0, <2>1, <2>3, <2>4, <2>5, <2>6, <2>7, ListStep
  <1>2. CASE submit_start(w)
    <2> DEFINE r == [work[w] EXCEPT !.timer = work[w].submitting]
    <2>1. /\ w \in wq_starting
          /\ wq_starting' = wq_starting \ {w}
          /\ work' = [work EXCEPT ![w] = r]
          /\ UNCHANGED <<wq_list, wq_delayed, wq_current, wq_pc, wq_stat, wq_firing, wq_sync>>
      BY <1>2 DEF submit_start
    <2>2. /\ r \in WorkFields /\ r.submitting = work[w].submitting /\ r.timer = work[w].submitting
          /\ r.accepted = work[w].accepted /\ r.cancelled = work[w].cancelled
          /\ r.queue = work[w].queue
      BY <1>0 DEF WorkFields
    <2> HIDE DEF r
    <2>3. /\ work' \in [Works -> WorkFields] /\ work'[w] = r
          /\ \A v \in Works : v # w => work'[v] = work[v]
      BY <2>1, <2>2, FieldsSet
    <2>4. WorkInv(w)'
      BY <1>0, <2>1, <2>2, <2>3 DEF WorkInv, Fires, Awaited
    <2>5. \A v \in Works : Fires(v)' <=> Fires(v)
      BY <2>1 DEF Fires
    <2> QED
      BY <1>0, <2>1, <2>3, <2>4, <2>5, ListStep
  <1> QED
    BY <1>1, <1>2

\* rt_workqueue_urgent_work
LEMMA UrgentKeeps ==
    ASSUME WqInv, WqDisciplined, NEW w \in Works, rt_workqueue_urgent_work(w)
    PROVE  WqInv'
  <1>0. /\ wq_list \in Seq(Works) /\ Once(wq_list) /\ wq_delayed \in Seq(Works) /\ Once(wq_delayed)
        /\ work[w] \in WorkFields /\ work \in [Works -> WorkFields] /\ WorkInv(w)
        /\ wq_starting \subseteq Works /\ wq_firing \in {NoWork} \cup (Works \X {"read", "move"})
        /\ wq_stat \in {"READY", "SUSPEND"}
    BY DEF WqInv, WqTypeOK, WorkFields
  <1> DEFINE r == [work[w] EXCEPT !.accepted = TRUE, !.cancelled = FALSE]
  <1>1. ~work[w].submitting /\ ~work[w].timer /\ w \notin wq_starting /\ ~Fires(w)
    BY <1>0 DEF rt_workqueue_urgent_work, NoDelay, Settled, WorkInv
  <1>2. /\ wq_delayed' = rt_list_remove(wq_delayed, w) /\ worker_resumed
        /\ wq_list' = <<w>> \o rt_list_remove(wq_list, w)
        /\ work' = [work EXCEPT ![w] = r]
        /\ UNCHANGED <<wq_current, wq_pc, wq_starting, wq_firing, wq_sync>>
    BY DEF rt_workqueue_urgent_work
  <1>3. /\ wq_delayed' \in Seq(Works) /\ Once(wq_delayed')
        /\ \A y : InList(wq_delayed', y) <=> InList(wq_delayed, y) /\ y # w
    BY <1>0, <1>2, Unlinked
  <1>4. wq_stat' \in {"READY", "SUSPEND"} /\ (wq_pc # "run" => wq_stat' = "READY")
    BY <1>2, WorkerResumed
  <1>5. /\ r \in WorkFields /\ r.accepted /\ ~r.cancelled
        /\ r.submitting = work[w].submitting /\ r.timer = work[w].timer
    BY <1>0 DEF WorkFields
  <1> HIDE DEF r
  <1>6. /\ work' \in [Works -> WorkFields] /\ work'[w] = r
        /\ \A v \in Works : v # w => work'[v] = work[v]
    BY <1>2, <1>5, FieldsSet
  <1>7. /\ wq_list' \in Seq(Works) /\ Once(wq_list')
        /\ \A y : InList(wq_list', y) <=> InList(wq_list, y) \/ y = w
    BY <1>0, <1>2, Relinked
  <1>8. WorkInv(w)'
    BY <1>1, <1>2, <1>3, <1>5, <1>6, <1>7 DEF WorkInv, Fires, Awaited
  <1>9. \A v \in Works : Fires(v)' <=> Fires(v)
    BY <1>2 DEF Fires
  <1> QED
    BY <1>0, <1>2, <1>3, <1>4, <1>6, <1>7, <1>8, <1>9, ListStep

\* _workqueue_cancel_work, when RT_EOK is not said of a work that is executing
LEMMA CancelKeeps ==
    ASSUME WqInv, WqDisciplined, NEW w \in Works, NEW ok \in BOOLEAN, cancel_work(w, ok),
           ok => wq_current # w,
           wq_sync' \in [Cancellers -> {NoWork} \cup (Works \X {"seen", "wait", "cancel"})],
           \A v \in Works : Awaited(v) => Awaited(v)',
           SyncInv'
    PROVE  WqInv'
  <1>0. /\ wq_list \in Seq(Works) /\ Once(wq_list) /\ wq_delayed \in Seq(Works) /\ Once(wq_delayed)
        /\ work[w] \in WorkFields /\ work \in [Works -> WorkFields] /\ WorkInv(w)
        /\ wq_starting \subseteq Works /\ wq_firing \in {NoWork} \cup (Works \X {"read", "move"})
        /\ wq_stat \in {"READY", "SUSPEND"}
    BY DEF WqInv, WqTypeOK, WorkFields
  <1>1. /\ w \notin wq_starting /\ ~Fires(w)
        /\ wq_list' = rt_list_remove(wq_list, w)
        /\ wq_delayed' = rt_list_remove(wq_delayed, w)
        /\ work' = [work EXCEPT ![w] = Cancelled(w, ok)]
        /\ UNCHANGED <<wq_current, wq_pc, wq_stat, wq_starting, wq_firing>>
    BY DEF cancel_work, Settled
  <1>2. /\ Cancelled(w, ok) \in WorkFields /\ ~Cancelled(w, ok).submitting /\ ~Cancelled(w, ok).accepted
        /\ Cancelled(w, ok).timer = (work[w].timer /\ ~work[w].submitting)
        /\ Cancelled(w, ok).cancelled = (ok \/ work[w].cancelled)
    BY <1>0 DEF Cancelled, WorkFields
  <1>3. /\ work' \in [Works -> WorkFields] /\ work'[w] = Cancelled(w, ok)
        /\ \A v \in Works : v # w => work'[v] = work[v]
    BY <1>1, <1>2, FieldsSet
  <1>4. /\ wq_list' \in Seq(Works) /\ Once(wq_list')
        /\ \A y : InList(wq_list', y) <=> InList(wq_list, y) /\ y # w
    BY <1>0, <1>1, Unlinked
  <1>5. /\ wq_delayed' \in Seq(Works) /\ Once(wq_delayed')
        /\ \A y : InList(wq_delayed', y) <=> InList(wq_delayed, y) /\ y # w
    BY <1>0, <1>1, Unlinked
  <1>6. ~work'[w].timer
    BY <1>0, <1>2, <1>3 DEF WorkInv
  <1>7. WorkInv(w)'
    <2>1. Fires(w)' <=> Fires(w)
      BY <1>1 DEF Fires
    <2> QED
      BY <1>0, <1>1, <1>2, <1>3, <1>4, <1>5, <1>6, <2>1 DEF WorkInv
  <1>8. \A v \in Works : Fires(v)' <=> Fires(v)
    BY <1>1 DEF Fires
  <1> QED
    BY <1>0, <1>1, <1>3, <1>4, <1>5, <1>7, <1>8, CallStep

\* rt_workqueue_cancel_work
LEMMA CancelWorkKeeps ==
    ASSUME WqInv, WqDisciplined, NEW w \in Works, rt_workqueue_cancel_work(w)
    PROVE  WqInv'
  <1>1. cancel_work(w, wq_current # w) /\ wq_sync' = wq_sync
    BY DEF rt_workqueue_cancel_work
  <1>2. wq_current' = wq_current /\ wq_pc' = wq_pc
    BY <1>1 DEF cancel_work
  <1>3. wq_sync' \in [Cancellers -> {NoWork} \cup (Works \X {"seen", "wait", "cancel"})]
    BY <1>1 DEF WqInv, WqTypeOK
  <1>4. \A v \in Works : Awaited(v) => Awaited(v)'
    BY <1>1 DEF Awaited
  <1>5. SyncInv'
    BY <1>1, <1>2 DEF WqInv, SyncInv
  <1> QED
    BY <1>1, <1>3, <1>4, <1>5, CancelKeeps

\* rt_workqueue_cancel_work_sync
LEMMA SyncKeeps ==
    ASSUME WqInv, WqDisciplined, NEW w \in Works, NEW c \in Cancellers,
           cancel_sync_test(c, w) \/ cancel_sync_cancel(c, w) \/ cancel_sync_wait(c, w)
    PROVE  WqInv'
  <1>0. /\ wq_list \in Seq(Works) /\ Once(wq_list) /\ wq_delayed \in Seq(Works) /\ Once(wq_delayed)
        /\ work[w] \in WorkFields /\ work \in [Works -> WorkFields] /\ WorkInv(w)
        /\ wq_starting \subseteq Works /\ wq_firing \in {NoWork} \cup (Works \X {"read", "move"})
        /\ wq_stat \in {"READY", "SUSPEND"} /\ SyncInv
        /\ wq_sync \in [Cancellers -> {NoWork} \cup (Works \X {"seen", "wait", "cancel"})]
    BY DEF WqInv, WqTypeOK, WorkFields
  <1>1. \A v \in Works, p \in {"seen", "wait", "cancel"} : NoWork # <<v, p>>
    BY WqAssumption
  <1>2. CASE cancel_sync_test(c, w)
    <2> DEFINE r == [work[w] EXCEPT !.cancelled = @ \/ wq_current = w]
               p == IF wq_current = w THEN "seen" ELSE "cancel"
    <2>1. /\ wq_sync[c] = NoWork /\ (wq_current = w => ~work[w].accepted)
          /\ wq_sync' = [wq_sync EXCEPT ![c] = <<w, p>>]
          /\ work' = [work EXCEPT ![w] = r]
          /\ UNCHANGED <<wq_list, wq_delayed, wq_current, wq_pc, wq_stat, wq_starting, wq_firing>>
      BY <1>2 DEF cancel_sync_test, NotAgain
    <2>2. /\ r \in WorkFields /\ r.submitting = work[w].submitting /\ r.timer = work[w].timer
          /\ r.accepted = work[w].accepted /\ r.cancelled = (work[w].cancelled \/ wq_current = w)
          /\ r.queue = work[w].queue
      BY <1>0 DEF WorkFields
    <2> HIDE DEF r
    <2>3. /\ work' \in [Works -> WorkFields] /\ work'[w] = r
          /\ \A v \in Works : v # w => work'[v] = work[v]
      BY <2>1, <2>2, FieldsSet
    <2>4. /\ wq_sync' \in [Cancellers -> {NoWork} \cup (Works \X {"seen", "wait", "cancel"})]
          /\ wq_sync'[c] = <<w, p>>
          /\ \A d \in Cancellers : d # c => wq_sync'[d] = wq_sync[d]
      BY <1>0, <2>1
    <2>5. \A v \in Works : Awaited(v) => Awaited(v)'
      <3> SUFFICES ASSUME NEW v \in Works, Awaited(v) PROVE Awaited(v)'
        OBVIOUS
      <3>1. PICK d \in Cancellers : wq_sync[d] \in {<<v, "seen">>, <<v, "wait">>}
        BY DEF Awaited
      <3>2. d # c
        BY <1>1, <2>1, <3>1
      <3>3. wq_sync'[d] \in {<<v, "seen">>, <<v, "wait">>}
        BY <2>4, <3>1, <3>2
      <3> QED
        BY <3>3 DEF Awaited
    <2>6. SyncInv'
      BY <1>0, <2>1, <2>4 DEF SyncInv
    <2>7. wq_current = w => Awaited(w)'
      BY <2>4 DEF Awaited
    <2>8. \A v \in Works : Fires(v)' <=> Fires(v)
      BY <2>1 DEF Fires
    <2>9. WorkInv(w)'
      <3>1. /\ work'[w].submitting = work[w].submitting /\ work'[w].timer = work[w].timer
            /\ work'[w].accepted = work[w].accepted /\ work'[w].queue = work[w].queue
            /\ work'[w].cancelled = (work[w].cancelled \/ wq_current = w)
        BY <2>2, <2>3
      <3>2. wq_current = w => ~InList(wq_list, w) /\ ~work[w].submitting
        BY <1>0, <2>1 DEF WorkInv
      <3>3. /\ wq_list' = wq_list /\ wq_delayed' = wq_delayed /\ wq_current' = wq_current
            /\ wq_starting' = wq_starting /\ (Fires(w)' <=> Fires(w)) /\ (Awaited(w) => Awaited(w)')
        BY <2>1, <2>5, <2>8
      <3> QED
        BY <1>0, <2>7, <3>1, <3>2, <3>3 DEF WorkInv
    <2> QED
      BY <1>0, <2>1, <2>3, <2>4, <2>5, <2>6, <2>8, <2>9, CallStep
  <1>3. CASE cancel_sync_cancel(c, w)
    <2>1. /\ wq_sync[c] = <<w, "cancel">> /\ cancel_work(w, TRUE)
          /\ wq_sync' = [wq_sync EXCEPT ![c] = NoWork]
      BY <1>3 DEF cancel_sync_cancel
    <2>2. wq_current' = wq_current /\ wq_pc' = wq_pc
      BY <2>1 DEF cancel_work
    <2>3. /\ wq_sync' \in [Cancellers -> {NoWork} \cup (Works \X {"seen", "wait", "cancel"})]
          /\ wq_sync'[c] = NoWork
          /\ \A d \in Cancellers : d # c => wq_sync'[d] = wq_sync[d]
      BY <1>0, <2>1
    <2>4. \A v \in Works : Awaited(v) => Awaited(v)'
      BY <2>1, <2>3 DEF Awaited
    <2>5. SyncInv'
      BY <1>0, <1>1, <2>2, <2>3 DEF SyncInv
    <2>6. wq_current # w
      BY <1>0, <2>1 DEF SyncInv
    <2> QED
      BY <2>1, <2>3, <2>4, <2>5, <2>6, CancelKeeps
  <1>4. CASE cancel_sync_wait(c, w)
    <2>1. /\ wq_sync[c] = <<w, "seen">>
          /\ wq_sync' = [wq_sync EXCEPT ![c] = <<w, "wait">>]
          /\ UNCHANGED <<wq_list, wq_delayed, wq_current, wq_pc, wq_stat, work, wq_starting,
                         wq_firing>>
      BY <1>4 DEF cancel_sync_wait
    <2>2. /\ wq_sync' \in [Cancellers -> {NoWork} \cup (Works \X {"seen", "wait", "cancel"})]
          /\ wq_sync'[c] = <<w, "wait">>
          /\ \A d \in Cancellers : d # c => wq_sync'[d] = wq_sync[d]
      BY <1>0, <2>1
    <2>3. \A v \in Works : Awaited(v) => Awaited(v)'
      BY <2>1, <2>2 DEF Awaited
    <2>4. SyncInv'
      BY <1>0, <2>1, <2>2 DEF SyncInv
    <2>5. \A v \in Works : Fires(v)' <=> Fires(v)
      BY <2>1 DEF Fires
    <2>6. WorkInv(w)'
      BY <1>0, <2>1, <2>3, <2>5 DEF WorkInv
    <2> QED
      BY <1>0, <2>1, <2>2, <2>3, <2>4, <2>5, <2>6, CallStep
  <1> QED
    BY <1>2, <1>3, <1>4

\* rt_workqueue_cancel_all_work
LEMMA CancelAllKeeps ==
    ASSUME WqInv, WqDisciplined, rt_workqueue_cancel_all_work
    PROVE  WqInv'
  <1>1. /\ \A w \in Works : Queued(w) => w \notin wq_starting /\ ~Fires(w)
        /\ wq_list' = << >> /\ wq_delayed' = << >>
        /\ work' = [w \in Works |-> IF Queued(w) THEN Cancelled(w, wq_current # w) ELSE work[w]]
        /\ UNCHANGED <<wq_current, wq_pc, wq_stat, wq_starting, wq_firing, wq_sync>>
    BY DEF rt_workqueue_cancel_all_work, Settled
  <1>2. /\ wq_list' \in Seq(Works) /\ Once(wq_list') /\ \A y : ~InList(wq_list', y)
        /\ wq_delayed' \in Seq(Works) /\ Once(wq_delayed') /\ \A y : ~InList(wq_delayed', y)
    BY <1>1, NothingListed
  <1>3. ASSUME NEW w \in Works
        PROVE  WorkInv(w) /\ work[w] \in WorkFields /\ Cancelled(w, wq_current # w) \in WorkFields
               /\ ~Cancelled(w, wq_current # w).submitting /\ ~Cancelled(w, wq_current # w).accepted
               /\ Cancelled(w, wq_current # w).timer = (work[w].timer /\ ~work[w].submitting)
               /\ Cancelled(w, wq_current # w).cancelled = (wq_current # w \/ work[w].cancelled)
    BY DEF WqInv, WqTypeOK, Cancelled, WorkFields
  <1>4. \A w \in Works : work'[w] = IF Queued(w) THEN Cancelled(w, wq_current # w) ELSE work[w]
    BY <1>1
  <1>5. work' \in [Works -> WorkFields]
    BY <1>1, <1>3
  <1>6. WqTypeOK'
    BY <1>1, <1>2, <1>5 DEF WqInv, WqTypeOK, WorkFields
  <1>7. WorkerInv'
    BY <1>1, <1>2 DEF WqInv, WorkerInv
  <1>8. ASSUME NEW w \in Works PROVE WorkInv(w)'
    <2>1. Fires(w)' <=> Fires(w)
      BY <1>1 DEF Fires
    <2>2. CASE Queued(w)
      <3>1. w \notin wq_starting /\ ~Fires(w) /\ work'[w] = Cancelled(w, wq_current # w)
        BY <1>1, <1>4, <2>2
      <3>2. ~work'[w].timer
        BY <1>3, <3>1 DEF WorkInv
      <3> QED
        BY <1>1, <1>2, <1>3, <2>1, <3>1, <3>2 DEF WorkInv, Awaited
    <2>3. CASE ~Queued(w)
      <3>1. work'[w] = work[w] /\ ~InList(wq_list, w) /\ ~InList(wq_delayed, w)
        BY <1>4, <2>3 DEF Queued
      <3> QED
        BY <1>1, <1>2, <1>3, <2>1, <3>1 DEF WorkInv, Awaited
    <2> QED
      BY <2>2, <2>3
  <1>9. SyncInv'
    BY <1>1 DEF WqInv, SyncInv
  <1> QED
    BY <1>2, <1>6, <1>7, <1>8, <1>9 DEF WqInv

\* The end of a delay: the timer thread and the two steps of the timeout handler.
LEMMA DelayKeeps ==
    ASSUME WqInv, WqDisciplined, NEW w \in Works,
           elapses(w) \/ handler_read(w) \/ handler_move(w)
    PROVE  WqInv'
  <1>0. /\ wq_list \in Seq(Works) /\ Once(wq_list) /\ wq_delayed \in Seq(Works) /\ Once(wq_delayed)
        /\ work[w] \in WorkFields /\ work \in [Works -> WorkFields] /\ WorkInv(w)
        /\ wq_starting \subseteq Works /\ wq_firing \in {NoWork} \cup (Works \X {"read", "move"})
        /\ wq_stat \in {"READY", "SUSPEND"}
    BY DEF WqInv, WqTypeOK, WorkFields
  <1>1. \A v \in Works, s \in {"read", "move"} : NoWork # <<v, s>>
    BY WqAssumption
  <1>2. CASE elapses(w)
    <2> DEFINE r == [work[w] EXCEPT !.timer = FALSE]
    <2>1. /\ wq_firing = NoWork /\ work[w].timer /\ wq_current # w
          /\ work' = [work EXCEPT ![w] = r]
          /\ wq_firing' = <<w, "read">>
          /\ UNCHANGED <<wq_list, wq_delayed, wq_current, wq_pc, wq_stat, wq_starting, wq_sync>>
      BY <1>2 DEF elapses
    <2>2. /\ r \in WorkFields /\ r.submitting = work[w].submitting /\ ~r.timer
          /\ r.accepted = work[w].accepted /\ r.cancelled = work[w].cancelled
          /\ r.queue = work[w].queue
      BY <1>0 DEF WorkFields
    <2> HIDE DEF r
    <2>3. /\ work' \in [Works -> WorkFields] /\ work'[w] = r
          /\ \A v \in Works : v # w => work'[v] = work[v]
      BY <2>1, <2>2, FieldsSet
    <2>4. \A v \in Works : ~Fires(v) /\ (Fires(v)' <=> v = w)
      BY <1>1, <2>1 DEF Fires
    <2>5. WorkInv(w)'
      BY <1>0, <2>1, <2>2, <2>3, <2>4 DEF WorkInv, Awaited
    <2>6. wq_firing' \in {NoWork} \cup (Works \X {"read", "move"})
      BY <2>1
    <2> QED
      BY <1>0, <2>1, <2>3, <2>4, <2>5, <2>6, ListStep
  <1>3. CASE handler_read(w)
    <2>1. /\ wq_firing = <<w, "read">> /\ wq_firing' = <<w, "move">>
          /\ UNCHANGED <<wq_list, wq_delayed, wq_current, wq_pc, wq_stat, work, wq_starting,
                         wq_sync>>
      BY <1>3 DEF handler_read
    <2>2. \A v \in Works : Fires(v)' <=> Fires(v)
      BY <2>1 DEF Fires
    <2>3. WorkInv(w)'
      BY <1>0, <2>1, <2>2 DEF WorkInv, Awaited
    <2>4. wq_firing' \in {NoWork} \cup (Works \X {"read", "move"})
      BY <2>1
    <2> QED
      BY <1>0, <2>1, <2>2, <2>3, <2>4, ListStep
  <1>4. CASE handler_move(w)
    <2> DEFINE r == [work[w] EXCEPT !.submitting = FALSE, !.timer = FALSE]
    <2>0. Fires(w)
      BY <1>4 DEF handler_move, Fires
    <2>1. wq_current # w /\ work[w].submitting /\ ~work[w].cancelled /\ w \notin wq_starting
      BY <1>0, <2>0 DEF WorkInv
    <2>2. /\ wq_firing = <<w, "move">> /\ wq_firing' = NoWork
          /\ wq_delayed' = rt_list_remove(wq_delayed, w)
          /\ wq_list' = Append(rt_list_remove(wq_list, w), w)
          /\ work' = [work EXCEPT ![w] = r]
          /\ worker_resumed
          /\ UNCHANGED <<wq_current, wq_pc, wq_starting, wq_sync>>
      BY <1>4, <2>1 DEF handler_move
    <2>3. /\ r \in WorkFields /\ ~r.submitting /\ ~r.timer
          /\ r.accepted = work[w].accepted /\ r.cancelled = work[w].cancelled
          /\ r.queue = work[w].queue
      BY <1>0 DEF WorkFields
    <2> HIDE DEF r
    <2>4. /\ work' \in [Works -> WorkFields] /\ work'[w] = r
          /\ \A v \in Works : v # w => work'[v] = work[v]
      BY <2>2, <2>3, FieldsSet
    <2>5. /\ wq_delayed' \in Seq(Works) /\ Once(wq_delayed')
          /\ \A y : InList(wq_delayed', y) <=> InList(wq_delayed, y) /\ y # w
      BY <1>0, <2>2, Unlinked
    <2>6. /\ wq_list' \in Seq(Works) /\ Once(wq_list')
          /\ \A y : InList(wq_list', y) <=> InList(wq_list, y) \/ y = w
      BY <1>0, <2>2, Relinked
    <2>7. \A v \in Works : ~Fires(v)' /\ (v # w => ~Fires(v))
      BY <1>1, <2>2 DEF Fires
    <2>8. wq_stat' \in {"READY", "SUSPEND"} /\ (wq_pc # "run" => wq_stat' = "READY")
      BY <2>2, WorkerResumed
    <2>9. WorkInv(w)'
      BY <1>0, <2>1, <2>2, <2>3, <2>4, <2>5, <2>6, <2>7 DEF WorkInv, Awaited
    <2> QED
      BY <1>0, <2>2, <2>4, <2>5, <2>6, <2>7, <2>8, <2>9, ListStep
  <1> QED
    BY <1>2, <1>3, <1>4

\* Every step of the work queue keeps its invariant.
LEMMA WqStep == WqDisciplined /\ WqInv /\ [WqNext]_wqVars => WqInv'
  <1> SUFFICES ASSUME WqDisciplined, WqInv, [WqNext]_wqVars PROVE WqInv'
    OBVIOUS
  <1>1. CASE look_suspend \/ look_take \/ func_returns \/ work_completion
    BY <1>1, WorkerKeeps
  <1>2. CASE /\ func_sleeps \/ func_wakes
             /\ UNCHANGED <<wq_list, wq_delayed, wq_current, wq_pc, work, wq_starting, wq_firing,
                            wq_sync>>
    <2>1. wq_pc = "run" /\ wq_stat' \in {"READY", "SUSPEND"}
      BY <1>2 DEF func_sleeps, func_wakes
    <2> QED
      BY <1>2, <2>1, WaitersKeep
  <1>3. ASSUME NEW w \in Works,
               \/ rt_workqueue_dowork(w) \/ rt_workqueue_submit_work(w) \/ submit_start(w)
               \/ rt_workqueue_urgent_work(w) \/ rt_workqueue_cancel_work(w)
               \/ elapses(w) \/ handler_read(w) \/ handler_move(w)
        PROVE  WqInv'
    BY <1>3, DoworkKeeps, SubmitKeeps, UrgentKeeps, CancelWorkKeeps, DelayKeeps
  <1>4. ASSUME NEW w \in Works, NEW c \in Cancellers,
               cancel_sync_test(c, w) \/ cancel_sync_cancel(c, w) \/ cancel_sync_wait(c, w)
        PROVE  WqInv'
    BY <1>4, SyncKeeps
  <1>5. CASE rt_workqueue_cancel_all_work
    BY <1>5, CancelAllKeeps
  <1>6. CASE UNCHANGED wqVars
    BY <1>6, WaitersKeep DEF wqVars
  <1> QED
    BY <1>1, <1>2, <1>3, <1>4, <1>5, <1>6 DEF WqNext

(***************************************************************************)
(* For any number of works and cancellers: work that workqueue.c accepted  *)
(* with RT_EOK is in the list of an awake worker or waits for a delay that *)
(* runs, until it runs or is withdrawn, if the callers keep to the         *)
(* discipline WqDisciplined describes.                                     *)
(***************************************************************************)
THEOREM WorkQueueKeepsAccepted == WqDisciplined => (WqSpec => []AcceptedIsKept)
  <1> SUFFICES ASSUME WqDisciplined PROVE WqSpec => []AcceptedIsKept
    OBVIOUS
  <1>1. WqInv /\ [WqNext]_wqVars => WqInv'
    BY WqStep
  <1> QED
    BY <1>1, WqInitially, WqInvMeans, PTL DEF WqSpec

(***************************************************************************)
(* Under the same discipline a work whose cancellation was answered with   *)
(* RT_EOK, by rt_workqueue_cancel_work or by either path of                *)
(* rt_workqueue_cancel_work_sync, is out of the worker's list and of every *)
(* delay, and does not execute once the call has returned; who blocks in   *)
(* the synchronous call does so while the work executes or its completion  *)
(* is being told, and no longer.                                           *)
(***************************************************************************)
THEOREM WorkQueueForgetsCancelled == WqDisciplined => (WqSpec => []CancelsKept)
  <1> SUFFICES ASSUME WqDisciplined PROVE WqSpec => []CancelsKept
    OBVIOUS
  <1>1. WqInv /\ [WqNext]_wqVars => WqInv'
    BY WqStep
  <1> QED
    BY <1>1, WqInitially, WqInvMeans, PTL DEF WqSpec

(***************************************************************************)
(* Under the same discipline the assertion of the timeout handler holds:   *)
(* the work whose delay has ended still names its queue.                   *)
(***************************************************************************)
THEOREM TimeoutAssertsQueue == WqDisciplined => (WqSpec => []TimeoutFindsQueue)
  <1> SUFFICES ASSUME WqDisciplined PROVE WqSpec => []TimeoutFindsQueue
    OBVIOUS
  <1>1. WqInv /\ [WqNext]_wqVars => WqInv'
    BY WqStep
  <1> QED
    BY <1>1, WqInitially, WqInvMeans, PTL DEF WqSpec

\* Every step keeps the types, whatever the callers do.
LEMMA WqTypes == WqTypeOK /\ [WqNext]_wqVars => WqTypeOK'
  <1> SUFFICES ASSUME WqTypeOK, [WqNext]_wqVars PROVE WqTypeOK'
    OBVIOUS
  <1>0. /\ wq_list \in Seq(Works) /\ wq_delayed \in Seq(Works)
        /\ work \in [Works -> WorkFields] /\ wq_starting \subseteq Works
        /\ wq_stat \in {"READY", "SUSPEND"}
        /\ wq_firing \in {NoWork} \cup (Works \X {"read", "move"})
        /\ wq_sync \in [Cancellers -> {NoWork} \cup (Works \X {"seen", "wait", "cancel"})]
    BY DEF WqTypeOK, WorkFields
  <1>l. ASSUME NEW w \in Works, NEW l \in Seq(Works)
        PROVE  /\ rt_list_remove(l, w) \in Seq(Works)
               /\ Append(rt_list_remove(l, w), w) \in Seq(Works)
               /\ <<w>> \o rt_list_remove(l, w) \in Seq(Works)
    <2>1. rt_list_remove(l, w) \in Seq(Works)
      BY RemovedMembers
    <2> QED
      BY <2>1, Appended, Prepended
  <1>f. ASSUME NEW w \in Works, NEW r \in WorkFields, work' = [work EXCEPT ![w] = r]
        PROVE  work' \in [Works -> WorkFields]
    BY <1>0, <1>f
  <1>c. ASSUME NEW w \in Works
        PROVE  /\ work[w] \in WorkFields /\ \A ok \in BOOLEAN : Cancelled(w, ok) \in WorkFields
               /\ [work[w] EXCEPT !.cancelled = @ \/ wq_current = w] \in WorkFields
               /\ [work[w] EXCEPT !.queue = TRUE, !.accepted = TRUE, !.cancelled = FALSE] \in WorkFields
               /\ [work[w] EXCEPT !.queue = FALSE, !.accepted = FALSE] \in WorkFields
               /\ [work[w] EXCEPT !.accepted = TRUE, !.cancelled = FALSE] \in WorkFields
               /\ [work[w] EXCEPT !.submitting = FALSE, !.timer = FALSE] \in WorkFields
               /\ [work[w] EXCEPT !.timer = FALSE] \in WorkFields
               /\ [work[w] EXCEPT !.timer = work[w].submitting] \in WorkFields
    <2>1. work[w] \in WorkFields
      BY <1>0
    <2>2. work[w].timer \in BOOLEAN /\ work[w].submitting \in BOOLEAN
      BY <2>1 DEF WorkFields
    <2> QED
      BY <2>1, <2>2 DEF WorkFields, Cancelled
  <1>1. CASE look_suspend \/ func_returns \/ work_completion
    BY <1>1 DEF look_suspend, func_returns, work_completion, WqTypeOK
  <1>2. CASE look_take
    <2>1. Head(wq_list) \in Works /\ Tail(wq_list) \in Seq(Works)
      BY <1>0, <1>2, TailOf DEF look_take
    <2>2. work' \in [Works -> WorkFields]
      <3>1. work' = [work EXCEPT ![Head(wq_list)] = [work[Head(wq_list)] EXCEPT !.queue = FALSE, !.accepted = FALSE]]
        BY <1>2 DEF look_take
      <3> QED
        BY <1>c, <1>f, <2>1, <3>1
    <2> QED
      BY <1>2, <2>1, <2>2 DEF look_take, WqTypeOK, WorkFields
  <1>3. CASE /\ func_sleeps \/ func_wakes
             /\ UNCHANGED <<wq_list, wq_delayed, wq_current, wq_pc, work, wq_starting, wq_firing,
                            wq_sync>>
    BY <1>3 DEF func_sleeps, func_wakes, WqTypeOK
  <1>4. ASSUME NEW w \in Works, rt_workqueue_dowork(w) PROVE WqTypeOK'
    <2>1. wq_list' \in Seq(Works) /\ wq_delayed' \in Seq(Works)
      <3>1. /\ wq_delayed' = rt_list_remove(wq_delayed, w)
            /\ \/ wq_list' = Append(rt_list_remove(wq_list, w), w)
               \/ wq_list' = rt_list_remove(wq_list, w)
        BY <1>4 DEF rt_workqueue_dowork
      <3> QED
        BY <1>0, <1>l, <3>1
    <2>2. work' \in [Works -> WorkFields]
      <3>1. \/ work' = work
            \/ work' = [work EXCEPT ![w] = [work[w] EXCEPT !.queue = TRUE, !.accepted = TRUE,
                                                           !.cancelled = FALSE]]
        BY <1>4 DEF rt_workqueue_dowork
      <3> QED
        BY <1>0, <1>c, <1>f, <3>1
    <2> QED
      BY <1>4, <2>1, <2>2 DEF rt_workqueue_dowork, worker_resumed, WqTypeOK, WorkFields
  <1>5. ASSUME NEW w \in Works, rt_workqueue_submit_work(w) PROVE WqTypeOK'
    <2>1. wq_list' \in Seq(Works) /\ wq_delayed' \in Seq(Works)
      BY <1>0, <1>l, <1>5 DEF rt_workqueue_submit_work
    <2>2. work' \in [Works -> WorkFields]
      BY <1>0, <1>5 DEF rt_workqueue_submit_work, WorkFields
    <2> QED
      BY <1>5, <2>1, <2>2 DEF rt_workqueue_submit_work, WqTypeOK, WorkFields
  <1>6. ASSUME NEW w \in Works, submit_start(w) PROVE WqTypeOK'
    <2>2. work' \in [Works -> WorkFields]
      BY <1>c, <1>f, <1>6 DEF submit_start
    <2> QED
      BY <1>6, <2>2 DEF submit_start, WqTypeOK, WorkFields
  <1>7. ASSUME NEW w \in Works, rt_workqueue_urgent_work(w) PROVE WqTypeOK'
    <2>1. wq_list' \in Seq(Works) /\ wq_delayed' \in Seq(Works)
      BY <1>0, <1>l, <1>7 DEF rt_workqueue_urgent_work
    <2>2. work' \in [Works -> WorkFields]
      <3>1. work' = [work EXCEPT ![w] = [work[w] EXCEPT !.accepted = TRUE, !.cancelled = FALSE]]
        BY <1>7 DEF rt_workqueue_urgent_work
      <3> QED
        BY <1>c, <1>f, <3>1
    <2> QED
      BY <1>7, <2>1, <2>2 DEF rt_workqueue_urgent_work, worker_resumed, WqTypeOK, WorkFields
  <1>8. ASSUME NEW w \in Works, NEW ok \in BOOLEAN, cancel_work(w, ok),
               wq_sync' \in [Cancellers -> {NoWork} \cup (Works \X {"seen", "wait", "cancel"})]
        PROVE  WqTypeOK'
    <2>1. wq_list' \in Seq(Works) /\ wq_delayed' \in Seq(Works)
      BY <1>0, <1>l, <1>8 DEF cancel_work
    <2>2. work' \in [Works -> WorkFields]
      BY <1>c, <1>f, <1>8 DEF cancel_work
    <2> QED
      BY <1>8, <2>1, <2>2 DEF cancel_work, WqTypeOK, WorkFields
  <1>9. ASSUME NEW w \in Works, elapses(w) PROVE WqTypeOK'
    <2>2. work' \in [Works -> WorkFields]
      BY <1>c, <1>f, <1>9 DEF elapses
    <2> QED
      BY <1>9, <2>2 DEF elapses, WqTypeOK, WorkFields
  <1>10. ASSUME NEW w \in Works, handler_read(w) PROVE WqTypeOK'
    BY <1>10 DEF handler_read, WqTypeOK
  <1>11. ASSUME NEW w \in Works, handler_move(w) PROVE WqTypeOK'
    <2>1. wq_list' \in Seq(Works) /\ wq_delayed' \in Seq(Works)
      BY <1>0, <1>l, <1>11 DEF handler_move
    <2>2. work' \in [Works -> WorkFields]
      <3>1. work' = [work EXCEPT ![w] = [work[w] EXCEPT !.submitting = FALSE, !.timer = FALSE]]
        BY <1>11 DEF handler_move
      <3> QED
        BY <1>c, <1>f, <3>1
    <2> QED
      BY <1>11, <2>1, <2>2 DEF handler_move, worker_resumed, WqTypeOK, WorkFields
  <1>12. ASSUME NEW w \in Works, NEW c \in Cancellers, cancel_sync_test(c, w) PROVE WqTypeOK'
    <2>1. wq_sync' \in [Cancellers -> {NoWork} \cup (Works \X {"seen", "wait", "cancel"})]
      BY <1>0, <1>12 DEF cancel_sync_test
    <2>2. work' = [work EXCEPT ![w] = [work[w] EXCEPT !.cancelled = @ \/ wq_current = w]]
      BY <1>12 DEF cancel_sync_test
    <2>3. work' \in [Works -> WorkFields]
      BY <1>c, <1>f, <2>2
    <2> QED
      BY <1>12, <2>1, <2>3 DEF cancel_sync_test, WqTypeOK, WorkFields
  <1>13. CASE rt_workqueue_cancel_all_work
    <2>1. work' \in [Works -> WorkFields]
      BY <1>0, <1>c, <1>13 DEF rt_workqueue_cancel_all_work
    <2> QED
      BY <1>13, <2>1 DEF rt_workqueue_cancel_all_work, WqTypeOK, WorkFields
  <1>14. ASSUME NEW w \in Works, NEW c \in Cancellers,
                cancel_sync_cancel(c, w) \/ cancel_sync_wait(c, w)
         PROVE  WqTypeOK'
    <2>1. CASE cancel_sync_cancel(c, w)
      <3>1. wq_sync' \in [Cancellers -> {NoWork} \cup (Works \X {"seen", "wait", "cancel"})]
        BY <1>0, <2>1 DEF cancel_sync_cancel
      <3> QED
        BY <1>8, <2>1, <3>1 DEF cancel_sync_cancel
    <2>2. CASE cancel_sync_wait(c, w)
      BY <2>2 DEF cancel_sync_wait, WqTypeOK
    <2> QED
      BY <1>14, <2>1, <2>2
  <1>15. CASE UNCHANGED wqVars
    BY <1>15 DEF wqVars, WqTypeOK
  <1>16. ASSUME NEW w \in Works, rt_workqueue_cancel_work(w) PROVE WqTypeOK'
    <2>1. cancel_work(w, wq_current # w) /\ wq_sync' = wq_sync
      BY <1>16 DEF rt_workqueue_cancel_work
    <2> QED
      BY <1>0, <1>8, <2>1
  <1> QED
    BY <1>1, <1>2, <1>3, <1>4, <1>5, <1>6, <1>7, <1>9, <1>10, <1>11, <1>12, <1>13, <1>14, <1>15,
       <1>16 DEF WqNext
=============================================================================
