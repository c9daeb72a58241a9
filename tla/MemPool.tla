------------------------------- MODULE MemPool -------------------------------
(***************************************************************************)
(* The memory pool of mempool.c.  A thread that is woken for a freed block *)
(* reads the clock before it takes the lock and looks again; the thread    *)
(* that came last is woken first.                                          *)
(***************************************************************************)
EXTENDS IpcList

CONSTANT MpCount    \* block_total_count

ASSUME MpAssumption == MpCount \in Nat

MpBlocks == 1 .. MpCount    \* in the order of their addresses

VARIABLES
    mp_list,        \* block_list: the free blocks, first one first
    mp_free_count,  \* block_free_count
    mp_held         \* thread -> the blocks it was given

mpVars == <<mp_list, mp_free_count, mp_held>>

MpInit ==
    /\ mp_list = [i \in 1 .. MpCount |-> i]
    /\ mp_free_count = MpCount
    /\ mp_held = [t \in Threads |-> {}]

\* One turn of the loop of rt_mp_alloc.
mp_alloc(t, T, b) ==
    \/ /\ mp_free_count > 0
       /\ mp_free_count' = mp_free_count - 1
       /\ mp_held' = [mp_held EXCEPT ![t] = @ \cup {Head(mp_list)}]
       /\ mp_list' = Tail(mp_list)
       /\ th' = Returned(t)
       /\ UNCHANGED <<flag, waiting>>
    \/ /\ mp_free_count = 0 /\ T # 0
       /\ waiting' = [waiting EXCEPT ![Receivers] = <<t>> \o @]
       /\ th' = [th EXCEPT ![t] = Suspended("alloc", T, b)]
       /\ UNCHANGED <<flag, mpVars>>
    \/ /\ mp_free_count = 0 /\ T = 0
       /\ th' = Returned(t)
       /\ UNCHANGED <<flag, waiting, mpVars>>

rt_mp_alloc(t, T) == Calls(t) /\ mp_alloc(t, T, Asked(T))

\* After a wait, without the lock: the remaining time is worked out.
mp_read_tick(t) ==
    /\ Resumed(t, "alloc")
    /\ th' = [th EXCEPT ![t] = [At(t, "again") EXCEPT !.timeout = Remaining(t), !.spent = 0]]
    /\ UNCHANGED <<flag, waiting, mpVars>>

mp_alloc_again(t) == Resumed(t, "again") /\ mp_alloc(t, th[t].timeout, th[t].budget)

\* Any thread may free a block that is in use.
rt_mp_free(t, b) ==
    /\ b \in mp_held[t]
    /\ mp_held' = [mp_held EXCEPT ![t] = @ \ {b}]
    /\ mp_free_count' = mp_free_count + 1
    /\ mp_list' = <<b>> \o mp_list
    /\ first_resumed(th, Receivers)

MpNext ==
    \/ \E t \in Threads :
          \/ \E T \in Timeouts : rt_mp_alloc(t, T)
          \/ mp_read_tick(t) \/ mp_alloc_again(t)
          \/ \E b \in MpBlocks : rt_mp_free(t, b)
    \/ IpcStep /\ UNCHANGED mpVars

-----------------------------------------------------------------------------

MpNoneForgotten ==
    waiting[Receivers] # << >> =>
        mp_free_count <= Cardinality(WokenIn("alloc") \cup WokenIn("again"))

\* Every block is free or with one thread, and the counter counts the free ones.
MpBlocksKept ==
    /\ mp_free_count = Len(mp_list)
    /\ \A b \in MpBlocks :
          Cardinality({i \in DOMAIN mp_list : mp_list[i] = b})
            + Cardinality({t \in Threads : b \in mp_held[t]}) = 1
=============================================================================
