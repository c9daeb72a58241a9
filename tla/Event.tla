-------------------------------- MODULE Event --------------------------------
(***************************************************************************)
(* The event set of ipc.c.  A send looks through the whole waiting list;   *)
(* what one waiter clears is gone for the ones behind it.                  *)
(***************************************************************************)
EXTENDS IpcList

CONSTANTS
    Bits,       \* the events
    Requests    \* what callers of rt_event_recv ask for

Sets == SUBSET Bits \ {{}}

\* RT_EVENT_FLAG_AND (all) or RT_EVENT_FLAG_OR, with or without RT_EVENT_FLAG_CLEAR.
ASSUME EventAssumption == Requests \subseteq [set : Sets, all : BOOLEAN, clear : BOOLEAN]

VARIABLES
    event_set,      \* event->set
    event_info      \* thread -> its event_set and event_info

eventVars == <<event_set, event_info>>

NoRequest == [set |-> {}, all |-> FALSE, clear |-> FALSE]

EventInit == event_set = {} /\ event_info = [t \in Threads |-> NoRequest]

satisfied(r, s) == IF r.all THEN r.set \subseteq s ELSE r.set \cap s # {}

\* rt_event_recv, the condition holds.
recv_now(t, r) ==
    /\ Calls(t)
    /\ satisfied(r, event_set)
    /\ event_set' = IF r.clear THEN event_set \ r.set ELSE event_set
    /\ UNCHANGED <<flag, waiting, th, event_info>>

recv_wait(t, r, T) ==
    /\ Calls(t)
    /\ ~satisfied(r, event_set) /\ T # 0
    /\ event_info' = [event_info EXCEPT ![t] = r]
    /\ suspend(t, Receivers, "recv", T, Asked(T))
    /\ UNCHANGED event_set

\* rt_event_recv returns after a wait, with what it received.
recv_done(t) ==
    /\ Resumed(t, "recv")
    /\ th' = Returned(t)
    /\ event_info' = [event_info EXCEPT ![t] = NoRequest]
    /\ UNCHANGED <<flag, waiting, event_set>>

recv_failed(t) ==
    /\ gives_up(t)
    /\ event_info' = [event_info EXCEPT ![t] = NoRequest]
    /\ UNCHANGED event_set

\* What the waiter with request r receives from s.
received(r, s) == IF r.all THEN r.set ELSE r.set \cap s

\* One turn of the loop of rt_event_send: the waiter t takes what it waits for from p,
\* the events, the requests and the waiting list so far, and leaves the list.
offered(p, t) ==
    LET r == p.info[t]
        g == received(r, p.set)
    IN  IF ~satisfied(r, p.set) THEN p
        ELSE [set |-> IF r.clear THEN p.set \ g ELSE p.set,
              info |-> [p.info EXCEPT ![t] = [r EXCEPT !.set = g]],
              list |-> rt_list_remove(p.list, t)]

\* The loop, over the threads that wait when it starts.
scanned(s) ==
    LET l == waiting[Receivers]
        after[i \in 0 .. Len(l)] ==
            IF i = 0 THEN [set |-> s, info |-> event_info, list |-> l]
            ELSE offered(after[i - 1], l[i])
    IN  after[Len(l)]

rt_event_send(s) ==
    LET r == scanned(event_set \cup s)
    IN  /\ event_set' = r.set
        /\ event_info' = r.info
        /\ th' = [t \in Threads |->
                     IF InList(waiting[Receivers], t) /\ ~InList(r.list, t) THEN Woken(t) ELSE th[t]]
        /\ waiting' = [waiting EXCEPT ![Receivers] = r.list]
        /\ UNCHANGED flag

\* rt_event_control with RT_IPC_CMD_RESET.
rt_event_reset == resume_all /\ event_set' = {} /\ UNCHANGED event_info

EventNext ==
    \/ \E s \in Sets : rt_event_send(s)
    \/ rt_event_reset
    \/ \E t \in Threads :
          \/ recv_done(t) \/ recv_failed(t)
          \/ \E r \in Requests : \/ recv_now(t, r)
                                 \/ \E T \in Timeouts : recv_wait(t, r, T)
          \/ thread_timeout(t) /\ UNCHANGED eventVars
    \/ rt_tick_increase /\ UNCHANGED eventVars

-----------------------------------------------------------------------------

EventNoneForgotten ==
    \A i \in DOMAIN waiting[Receivers] :
        ~satisfied(event_info[waiting[Receivers][i]], event_set)
=============================================================================
