------------------------------- MODULE Mailbox -------------------------------
(***************************************************************************)
(* The mailbox of ipc.c: a ring of values with blocking at both ends.  A   *)
(* woken thread looks again and may find that another one was faster.      *)
(***************************************************************************)
EXTENDS IpcList

CONSTANT MbSize   \* mb->size

ASSUME MbAssumption == MbSize \in Nat \ {0}

VARIABLES mb_pool, mb_entry, mb_in, mb_out

mbVars == <<mb_pool, mb_entry, mb_in, mb_out>>

MbSlots == 0 .. MbSize - 1

\* Values are the threads that sent them.
MbInit ==
    /\ mb_pool = [i \in MbSlots |-> None]
    /\ mb_entry = 0 /\ mb_in = 0 /\ mb_out = 0

\* Mutant of slot_after: the last slot is skipped.
slot_after_short(i) == IF i + 1 >= MbSize - 1 THEN 0 ELSE i + 1

slot_after(i) == IF i + 1 >= MbSize THEN 0 ELSE i + 1

slot_before(i) == IF i > 0 THEN i - 1 ELSE MbSize - 1

\* One turn of the loop of rt_mb_send_wait with timeout T and budget b.
mb_send(t, T, b) ==
    \/ /\ mb_entry < MbSize
       /\ mb_pool' = [mb_pool EXCEPT ![mb_in] = t]
       /\ mb_in' = slot_after(mb_in)
       /\ mb_entry' = mb_entry + 1
       /\ first_resumed(Returned(t), Receivers)
       /\ UNCHANGED mb_out
    \/ /\ mb_entry = MbSize /\ T # 0
       /\ suspend(t, Senders, "mb_send", T, b)
       /\ UNCHANGED mbVars
    \/ /\ mb_entry = MbSize /\ T = 0
       /\ th' = Returned(t)
       /\ UNCHANGED <<flag, waiting, mbVars>>

rt_mb_send_wait(t, T) == Calls(t) /\ mb_send(t, T, Asked(T))

mb_send_again(t) == Resumed(t, "mb_send") /\ mb_send(t, Remaining(t), th[t].budget)

rt_mb_urgent(t) ==
    /\ Calls(t)
    /\ mb_entry < MbSize
    /\ mb_out' = slot_before(mb_out)
    /\ mb_pool' = [mb_pool EXCEPT ![mb_out'] = t]
    /\ mb_entry' = mb_entry + 1
    /\ first_resumed(Returned(t), Receivers)
    /\ UNCHANGED mb_in

\* One turn of the loop of rt_mb_recv.
mb_recv(t, T, b) ==
    \/ /\ mb_entry > 0
       /\ mb_out' = slot_after(mb_out)
       /\ mb_entry' = mb_entry - 1
       /\ first_resumed(Returned(t), Senders)
       /\ UNCHANGED <<mb_pool, mb_in>>
    \/ /\ mb_entry = 0 /\ T # 0
       /\ suspend(t, Receivers, "mb_recv", T, b)
       /\ UNCHANGED mbVars
    \/ /\ mb_entry = 0 /\ T = 0
       /\ th' = Returned(t)
       /\ UNCHANGED <<flag, waiting, mbVars>>

rt_mb_recv(t, T) == Calls(t) /\ mb_recv(t, T, Asked(T))

mb_recv_again(t) == Resumed(t, "mb_recv") /\ mb_recv(t, Remaining(t), th[t].budget)

\* rt_mb_control with RT_IPC_CMD_RESET.
rt_mb_reset ==
    /\ resume_all
    /\ mb_entry' = 0 /\ mb_in' = 0 /\ mb_out' = 0
    /\ UNCHANGED mb_pool

MbNext ==
    \/ \E t \in Threads :
          \/ \E T \in Timeouts : rt_mb_send_wait(t, T) \/ rt_mb_recv(t, T)
          \/ rt_mb_urgent(t) \/ mb_send_again(t) \/ mb_recv_again(t)
    \/ rt_mb_reset
    \/ IpcStep /\ UNCHANGED mbVars

-----------------------------------------------------------------------------

\* The letters in the ring, oldest first.
MbContents == [i \in 1 .. mb_entry |-> mb_pool[(mb_out + i - 1) % MbSize]]

MbQueue == INSTANCE BoundedQueue WITH Values <- Threads, Size <- MbSize, queue <- MbContents

MbNoneForgotten ==
    /\ waiting[Receivers] # << >> => mb_entry <= Cardinality(WokenIn("mb_recv"))
    /\ waiting[Senders] # << >> => MbSize - mb_entry <= Cardinality(WokenIn("mb_send"))
=============================================================================
