----------------------------- MODULE RingBuffer ------------------------------
(***************************************************************************)
(* The ring buffer of components/drivers/ipc/ringbuffer.c, which serial    *)
(* drivers, pipes and USB use with a lock of their own: positions carry a  *)
(* mirror bit that tells a full buffer from an empty one.  rb_kept is what *)
(* a byte queue would hold after the same calls.                           *)
(***************************************************************************)
EXTENDS Naturals, Sequences, FiniteSets

CONSTANTS
    RbGiven,    \* the size that rt_ringbuffer_init is given
    RbAlign,    \* RT_ALIGN_SIZE
    RbBlocks    \* the blocks of data that callers put: sequences of bytes

Byte == 0 .. 255

\* A size below the alignment would give a buffer of no bytes at all.
ASSUME RbAssumption ==
    /\ RbAlign \in Nat \ {0} /\ RbGiven \in Nat /\ RbGiven >= RbAlign
    /\ RbBlocks \subseteq Seq(Byte) \ {<< >>}

\* buffer_size: RT_ALIGN_DOWN of the size
RbSize == RbGiven - (RbGiven % RbAlign)

VARIABLES
    rb_pool,    \* buffer_ptr
    rb_read,    \* read_index and read_mirror
    rb_write,   \* write_index and write_mirror
    rb_kept     \* ghost

rbVars == <<rb_pool, rb_read, rb_write, rb_kept>>

RbStart == [index |-> 0, mirror |-> FALSE]

RbInit ==
    /\ rb_pool = [i \in 0 .. RbSize - 1 |-> 0]
    /\ rb_read = RbStart /\ rb_write = RbStart
    /\ rb_kept = << >>

Smaller(a, b) == IF a < b THEN a ELSE b

rt_ringbuffer_status ==
    IF rb_read.index # rb_write.index THEN "HALFFULL"
    ELSE IF rb_read.mirror = rb_write.mirror THEN "EMPTY" ELSE "FULL"

rt_ringbuffer_data_len ==
    CASE rt_ringbuffer_status = "EMPTY" -> 0
      [] rt_ringbuffer_status = "FULL" -> RbSize
      [] OTHER -> IF rb_write.index > rb_read.index THEN rb_write.index - rb_read.index
                  ELSE RbSize - (rb_read.index - rb_write.index)

space_len == RbSize - rt_ringbuffer_data_len

\* Position p moves over n bytes, perhaps into the other side of the mirror.
advanced(p, n) ==
    IF RbSize - p.index > n THEN [p EXCEPT !.index = @ + n]
    ELSE [index |-> n - (RbSize - p.index), mirror |-> ~p.mirror]

\* The one or two memcpy of block d at the write index.
copied(d) ==
    [i \in DOMAIN rb_pool |->
        LET k == IF i >= rb_write.index THEN i - rb_write.index + 1
                 ELSE RbSize - rb_write.index + i + 1
        IN  IF k <= Len(d) THEN d[k] ELSE rb_pool[i]]

\* The first, and the last, n elements of s; all of them if there are fewer.
first(s, n) == SubSeq(s, 1, Smaller(n, Len(s)))

last(s, n) == SubSeq(s, IF Len(s) > n THEN Len(s) - n + 1 ELSE 1, Len(s))

\* rt_ringbuffer_put, and rt_ringbuffer_putchar for a block of one.
rt_ringbuffer_put(d) ==
    LET n == Smaller(Len(d), space_len)
    IN  /\ n > 0
        /\ rb_pool' = copied(first(d, n))
        /\ rb_write' = advanced(rb_write, n)
        /\ rb_kept' = first(rb_kept \o d, RbSize)
        /\ UNCHANGED rb_read

\* Mutant of pushed_on: the mirror bit stays when the indices meet.
pushed_on_strict(n) ==
    LET to == advanced(rb_write, n)
        wraps == to.mirror # rb_write.mirror
    IN  [index |-> to.index,
         mirror |-> IF wraps /\ to.index < rb_read.index THEN ~rb_read.mirror
                    ELSE rb_read.mirror]

\* Where the reader goes when n bytes were written over what it has not read.
pushed_on(n) ==
    LET to == advanced(rb_write, n)
        wraps == to.mirror # rb_write.mirror
    IN  [index |-> to.index,
         mirror |-> IF wraps /\ to.index <= rb_read.index THEN ~rb_read.mirror
                    ELSE rb_read.mirror]

rt_ringbuffer_put_force(d) ==
    LET kept == last(d, RbSize)
        n == Len(kept)
    IN  /\ rb_pool' = copied(kept)
        /\ rb_write' = advanced(rb_write, n)
        /\ rb_read' = IF n > space_len THEN pushed_on(n) ELSE rb_read
        /\ rb_kept' = last(rb_kept \o d, RbSize)

rt_ringbuffer_putchar_force(c) ==
    LET to == advanced(rb_write, 1)
        flips == rb_write.index = RbSize - 1
    IN  /\ rb_pool' = copied(<<c>>)
        /\ rb_write' = to
        /\ rb_read' = IF rt_ringbuffer_status # "FULL" THEN rb_read
                      ELSE [index |-> to.index,
                            mirror |-> IF flips THEN ~rb_read.mirror ELSE rb_read.mirror]
        /\ rb_kept' = last(Append(rb_kept, c), RbSize)

\* rt_ringbuffer_get, and rt_ringbuffer_getchar for a length of one.
rt_ringbuffer_get(length) ==
    LET n == Smaller(length, rt_ringbuffer_data_len)
    IN  /\ n > 0
        /\ rb_read' = advanced(rb_read, n)
        /\ rb_kept' = last(rb_kept, IF length < Len(rb_kept) THEN Len(rb_kept) - length ELSE 0)
        /\ UNCHANGED <<rb_pool, rb_write>>

\* Takes what can be had in one piece.
rt_ringbuffer_peek ==
    LET n == Smaller(rt_ringbuffer_data_len, RbSize - rb_read.index)
    IN  /\ n > 0
        /\ rb_read' = advanced(rb_read, n)
        /\ rb_kept' = last(rb_kept, Len(rb_kept) - n)
        /\ UNCHANGED <<rb_pool, rb_write>>

rt_ringbuffer_reset ==
    /\ rb_read' = RbStart /\ rb_write' = RbStart
    /\ rb_kept' = << >>
    /\ UNCHANGED rb_pool

RbNext ==
    \/ \E d \in RbBlocks :
          \/ rt_ringbuffer_put(d) \/ rt_ringbuffer_put_force(d)
          \/ Len(d) = 1 /\ rt_ringbuffer_putchar_force(d[1])
    \/ \E n \in 1 .. RbSize + 1 : rt_ringbuffer_get(n)
    \/ rt_ringbuffer_peek
    \/ rt_ringbuffer_reset

RbSpec == RbInit /\ [][RbNext]_rbVars

-----------------------------------------------------------------------------

(***************************************************************************)
(* The two positions and their mirror bits describe a byte queue through   *)
(* every wrap and every forced overwrite: what lies between them is what   *)
(* was put and not taken, in order, or the newest part of it.              *)
(***************************************************************************)
RingIsQueue ==
    [i \in 1 .. rt_ringbuffer_data_len |-> rb_pool[(rb_read.index + i - 1) % RbSize]] = rb_kept
=============================================================================
