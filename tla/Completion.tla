----------------------------- MODULE Completion ------------------------------
(***************************************************************************)
(* The completion of components/drivers/ipc/completion.c: a thread waits   *)
(* for an interrupt or another thread to say that something is done.  The  *)
(* flag is cleared by the waiter, after it has run again.                  *)
(***************************************************************************)
EXTENDS IpcList

VARIABLE comp_flag      \* RT_COMPLETED

CompInit == comp_flag = FALSE

comp_wait_now(t) ==
    /\ Calls(t)
    /\ comp_flag
    /\ comp_flag' = FALSE
    /\ UNCHANGED ipcVars

\* "only one thread can suspend on complete", as the code asserts.
comp_wait(t, T) ==
    /\ Calls(t)
    /\ ~comp_flag /\ T # 0
    /\ waiting[Receivers] = << >>
    /\ suspend(t, Receivers, "comp_wait", T, Asked(T))
    /\ UNCHANGED comp_flag

\* After the wait, whatever its result is, the flag is cleared.
comp_wait_over(t) ==
    /\ Resumed(t, "comp_wait") \/ Failed(t)
    /\ th' = Returned(t)
    /\ comp_flag' = FALSE
    /\ UNCHANGED <<flag, waiting>>

\* From a thread or an interrupt.  The early return, whose test is outside the lock,
\* changes nothing: the flag was set at that moment.
rt_completion_done ==
    /\ comp_flag' = TRUE
    /\ first_resumed(th, Receivers)

CompNext ==
    \/ rt_completion_done
    \/ \E t \in Threads :
          \/ comp_wait_now(t) \/ comp_wait_over(t)
          \/ \E T \in Timeouts : comp_wait(t, T)
          \/ thread_timeout(t) /\ UNCHANGED comp_flag
    \/ rt_tick_increase /\ UNCHANGED comp_flag

-----------------------------------------------------------------------------

CompNoneForgotten == comp_flag => waiting[Receivers] = << >>
=============================================================================
