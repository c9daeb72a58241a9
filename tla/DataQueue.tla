------------------------------ MODULE DataQueue ------------------------------
(***************************************************************************)
(* The data queue of components/drivers/ipc/dataqueue.c: a ring with flags *)
(* for full and empty.  A pop wakes a sender only at the low water mark.   *)
(***************************************************************************)
EXTENDS IpcList

CONSTANTS DqSize, DqLwm     \* size and low water mark

ASSUME DqAssumption == DqSize \in Nat \ {0} /\ DqLwm \in Nat

VARIABLES dq_queue, dq_put, dq_get, dq_empty, dq_full,
          dq_resetting  \* somebody is between the two parts of rt_data_queue_reset

dqRing == <<dq_queue, dq_put, dq_get, dq_empty, dq_full>>

dqVars == <<dqRing, dq_resetting>>

DqInit ==
    /\ dq_queue = [i \in 0 .. DqSize - 1 |-> None]
    /\ dq_put = 0 /\ dq_get = 0
    /\ dq_empty = TRUE /\ dq_full = FALSE
    /\ dq_resetting = FALSE

index_after(i) == IF i + 1 = DqSize THEN 0 ELSE i + 1

\* rt_data_queue_len
dq_len(empty, put, get) ==
    IF empty THEN 0 ELSE IF put > get THEN put - get ELSE DqSize + put - get

\* t is suspended in list l, or its call returns because it would not wait.
dq_block(t, l, pc, T, b) ==
    /\ \/ T # 0 /\ suspend(t, l, pc, T, b)
       \/ T = 0 /\ th' = Returned(t) /\ UNCHANGED <<flag, waiting>>
    /\ UNCHANGED dqVars

\* One turn of the loop of rt_data_queue_push.
dq_push(t, T, b) ==
    \/ /\ ~dq_full
       /\ dq_queue' = [dq_queue EXCEPT ![dq_put] = t]
       /\ dq_put' = index_after(dq_put)
       /\ dq_empty' = FALSE
       /\ dq_full' = (dq_put' = dq_get)
       /\ first_resumed(Returned(t), Receivers)
       /\ UNCHANGED <<dq_get, dq_resetting>>
    \/ dq_full /\ dq_block(t, Senders, "dq_push", T, b)

rt_data_queue_push(t, T) == Calls(t) /\ dq_push(t, T, Asked(T))

\* The timeout starts again in full.
dq_push_again(t) == Resumed(t, "dq_push") /\ dq_push(t, th[t].timeout, th[t].budget)

\* At the mark or below it.  (The documentation, dataqueue.c:33 and :192, says "less
\* than" the mark.)
at_low_water(len) == len <= DqLwm

\* Mutant of dq_pop: the mark is looked at before the item is taken out.
dq_pop_early(t, T, b) ==
    \/ /\ ~dq_empty
       /\ dq_get' = index_after(dq_get)
       /\ dq_full' = FALSE
       /\ dq_empty' = (dq_put = dq_get')
       /\ IF at_low_water(dq_len(dq_empty, dq_put, dq_get))
          THEN first_resumed(Returned(t), Senders)
          ELSE th' = Returned(t) /\ UNCHANGED <<flag, waiting>>
       /\ UNCHANGED <<dq_queue, dq_put, dq_resetting>>
    \/ dq_empty /\ dq_block(t, Receivers, "dq_pop", T, b)

\* One turn of the loop of rt_data_queue_pop.
dq_pop(t, T, b) ==
    \/ /\ ~dq_empty
       /\ dq_get' = index_after(dq_get)
       /\ dq_full' = FALSE
       /\ dq_empty' = (dq_put = dq_get')
       /\ IF at_low_water(dq_len(dq_empty', dq_put, dq_get'))
          THEN first_resumed(Returned(t), Senders)
          ELSE th' = Returned(t) /\ UNCHANGED <<flag, waiting>>
       /\ UNCHANGED <<dq_queue, dq_put, dq_resetting>>
    \/ dq_empty /\ dq_block(t, Receivers, "dq_pop", T, b)

rt_data_queue_pop(t, T) == Calls(t) /\ dq_pop(t, T, Asked(T))

dq_pop_again(t) == Resumed(t, "dq_pop") /\ dq_pop(t, th[t].timeout, th[t].budget)

rt_data_queue_reset ==
    /\ ~dq_resetting
    /\ dq_put' = 0 /\ dq_get' = 0
    /\ dq_empty' = TRUE /\ dq_full' = FALSE
    /\ dq_resetting' = TRUE
    /\ UNCHANGED <<ipcVars, dq_queue>>

\* Its second part, a critical section, in which both lists are emptied.
reset_wakes ==
    /\ dq_resetting
    /\ resume_all
    /\ dq_resetting' = FALSE
    /\ UNCHANGED dqRing

DqNext ==
    \/ \E t \in Threads :
          \/ \E T \in Timeouts : rt_data_queue_push(t, T) \/ rt_data_queue_pop(t, T)
          \/ dq_push_again(t) \/ dq_pop_again(t)
    \/ rt_data_queue_reset \/ reset_wakes
    \/ IpcStep /\ UNCHANGED dqVars

-----------------------------------------------------------------------------

DqLen == dq_len(dq_empty, dq_put, dq_get)

DqContents == [i \in 1 .. DqLen |-> dq_queue[(dq_get + i - 1) % DqSize]]

DqQueue == INSTANCE BoundedQueue WITH Values <- Threads, Size <- DqSize, queue <- DqContents

\* A sender may sleep above the low water mark: the pop that reaches it wakes one.
DqNoneForgotten ==
    /\ waiting[Receivers] # << >> => DqLen <= Cardinality(WokenIn("dq_pop"))
    /\ waiting[Senders] # << >> => DqLen > DqLwm \/ WokenIn("dq_push") # {} \/ dq_resetting
=============================================================================
