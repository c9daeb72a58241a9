---------------------------- MODULE MessageQueue -----------------------------
(***************************************************************************)
(* The message queue of ipc.c.  Messages are linked blocks; a sender takes *)
(* a free block in one section, fills it without the lock and links it in  *)
(* another one, a receiver unlinks, copies and frees in the same way.      *)
(***************************************************************************)
EXTENDS IpcList

CONSTANT MqMax   \* mq->max_msgs

ASSUME MqAssumption == MqMax \in Nat \ {0} /\ None \notin 1 .. MqMax

Blocks == 1 .. MqMax

Link == Blocks \cup {None}

VARIABLES
    mq_next,                    \* block -> msg->next
    mq_head, mq_tail, mq_free,  \* msg_queue_head, msg_queue_tail, msg_queue_free
    mq_entry,
    mq_data,                    \* block -> its contents: the thread that sent it
    mq_hand                     \* thread -> msg, the block it copies to or from

mqVars == <<mq_next, mq_head, mq_tail, mq_free, mq_entry, mq_data, mq_hand>>

\* rt_mq_init puts the blocks into the free list, the last one first.
MqInit ==
    /\ mq_next = [b \in Blocks |-> IF b = 1 THEN None ELSE b - 1]
    /\ mq_head = None /\ mq_tail = None /\ mq_free = MqMax
    /\ mq_entry = 0
    /\ mq_data = [b \in Blocks |-> None]
    /\ mq_hand = [t \in Threads |-> None]

\* t has taken the first free block, to fill it in the stage pc.
take_block(t, pc) ==
    /\ mq_free # None
    /\ mq_hand' = [mq_hand EXCEPT ![t] = mq_free]
    /\ mq_free' = mq_next[mq_free]
    /\ mq_next' = IF pc = "fill" THEN [mq_next EXCEPT ![mq_free] = None] ELSE mq_next
    /\ th' = [th EXCEPT ![t] = [Outside EXCEPT !.pc = pc]]
    /\ UNCHANGED <<flag, waiting, mq_head, mq_tail, mq_entry, mq_data>>

\* One turn of the loop of rt_mq_send_wait.
mq_send(t, T, b) ==
    \/ take_block(t, "fill")
    \/ /\ mq_free = None /\ T # 0
       /\ suspend(t, Senders, "mq_send", T, b)
       /\ UNCHANGED mqVars
    \/ /\ mq_free = None /\ T = 0
       /\ th' = Returned(t)
       /\ UNCHANGED <<flag, waiting, mqVars>>

rt_mq_send_wait(t, T) == Calls(t) /\ mq_send(t, T, Asked(T))

mq_send_again(t) == Resumed(t, "mq_send") /\ mq_send(t, Remaining(t), th[t].budget)

\* The second section of rt_mq_send_wait.
link_last(t) ==
    LET msg == mq_hand[t]
    IN  /\ th[t].pc = "fill"
        /\ mq_data' = [mq_data EXCEPT ![msg] = t]
        /\ mq_next' = IF mq_tail = None THEN mq_next ELSE [mq_next EXCEPT ![mq_tail] = msg]
        /\ mq_tail' = msg
        /\ mq_head' = IF mq_head = None THEN msg ELSE mq_head
        /\ mq_entry' = mq_entry + 1
        /\ mq_hand' = [mq_hand EXCEPT ![t] = None]
        /\ first_resumed(Returned(t), Receivers)
        /\ UNCHANGED mq_free

rt_mq_urgent(t) == Calls(t) /\ take_block(t, "fill_urgent")

\* The second section of rt_mq_urgent.
link_first(t) ==
    LET msg == mq_hand[t]
    IN  /\ th[t].pc = "fill_urgent"
        /\ mq_data' = [mq_data EXCEPT ![msg] = t]
        /\ mq_next' = [mq_next EXCEPT ![msg] = mq_head]
        /\ mq_head' = msg
        /\ mq_tail' = IF mq_tail = None THEN msg ELSE mq_tail
        /\ mq_entry' = mq_entry + 1
        /\ mq_hand' = [mq_hand EXCEPT ![t] = None]
        /\ first_resumed(Returned(t), Receivers)
        /\ UNCHANGED mq_free

\* Mutant of tail_without: the tail keeps pointing to the block that leaves.
tail_without_kept(msg) == mq_tail

tail_without(msg) == IF mq_tail = msg THEN None ELSE mq_tail

\* One turn of the loop of rt_mq_recv.
mq_recv(t, T, b) ==
    \/ /\ mq_entry > 0
       /\ mq_hand' = [mq_hand EXCEPT ![t] = mq_head]
       /\ mq_head' = mq_next[mq_head]
       /\ mq_tail' = tail_without(mq_head)
       /\ mq_entry' = mq_entry - 1
       /\ th' = [th EXCEPT ![t] = [Outside EXCEPT !.pc = "drain"]]
       /\ UNCHANGED <<flag, waiting, mq_next, mq_free, mq_data>>
    \/ /\ mq_entry = 0 /\ T # 0
       /\ suspend(t, Receivers, "mq_recv", T, b)
       /\ UNCHANGED mqVars
    \/ /\ mq_entry = 0 /\ T = 0
       /\ th' = Returned(t)
       /\ UNCHANGED <<flag, waiting, mqVars>>

rt_mq_recv(t, T) == Calls(t) /\ mq_recv(t, T, Asked(T))

mq_recv_again(t) == Resumed(t, "mq_recv") /\ mq_recv(t, Remaining(t), th[t].budget)

\* The second section of rt_mq_recv.
free_block(t) ==
    LET msg == mq_hand[t]
    IN  /\ th[t].pc = "drain"
        /\ mq_next' = [mq_next EXCEPT ![msg] = mq_free]
        /\ mq_free' = msg
        /\ mq_hand' = [mq_hand EXCEPT ![t] = None]
        /\ first_resumed(Returned(t), Senders)
        /\ UNCHANGED <<mq_head, mq_tail, mq_entry, mq_data>>

\* The blocks that can be reached from b, in order; from[n] follows n links.
chain(b) ==
    LET from[n \in 0 .. MqMax + 1] ==
            [x \in Link |-> IF n = 0 \/ x = None THEN << >> ELSE <<x>> \o from[n - 1][mq_next[x]]]
    IN  from[MqMax + 1][b]

\* rt_mq_control with RT_IPC_CMD_RESET: the blocks go to the free list one by one,
\* so that the last one of the queue comes first.
rt_mq_reset ==
    LET q == chain(mq_head)
    IN  /\ resume_all
        /\ mq_next' = [b \in Blocks |->
                          IF InList(q, b)
                          THEN LET i == CHOOSE j \in DOMAIN q : q[j] = b
                               IN  IF i = 1 THEN mq_free ELSE q[i - 1]
                          ELSE mq_next[b]]
        /\ mq_free' = IF q = << >> THEN mq_free ELSE q[Len(q)]
        /\ mq_head' = None /\ mq_tail' = None
        /\ mq_entry' = 0
        /\ UNCHANGED <<mq_data, mq_hand>>

MqNext ==
    \/ \E t \in Threads :
          \/ \E T \in Timeouts : rt_mq_send_wait(t, T) \/ rt_mq_recv(t, T)
          \/ rt_mq_urgent(t) \/ mq_send_again(t) \/ mq_recv_again(t)
          \/ link_last(t) \/ link_first(t) \/ free_block(t)
    \/ rt_mq_reset
    \/ IpcStep /\ UNCHANGED mqVars

-----------------------------------------------------------------------------

\* The messages in the queue, oldest first.
MqContents == LET q == chain(mq_head) IN [i \in DOMAIN q |-> mq_data[q[i]]]

MqQueue == INSTANCE BoundedQueue WITH Values <- Threads, Size <- MqMax, queue <- MqContents

MqNoneForgotten ==
    /\ waiting[Receivers] # << >> => mq_entry <= Cardinality(WokenIn("mq_recv"))
    /\ waiting[Senders] # << >> => Len(chain(mq_free)) <= Cardinality(WokenIn("mq_send"))

\* Every block is in one place, and the list fits its counter and its tail.
MqBlocksKept ==
    LET q == chain(mq_head)
        f == chain(mq_free)
        hands == {t \in Threads : mq_hand[t] # None}
    IN  /\ Len(q) = mq_entry
        /\ mq_tail = IF q = << >> THEN None ELSE q[Len(q)]
        /\ Len(q) + Len(f) + Cardinality(hands) = MqMax
        /\ \A b \in Blocks : InList(q, b) \/ InList(f, b) \/ \E t \in hands : mq_hand[t] = b
=============================================================================
