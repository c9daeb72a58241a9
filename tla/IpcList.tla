------------------------------- MODULE IpcList -------------------------------
(***************************************************************************)
(* How a thread blocks on an IPC object: the waiting lists of ipc.c, the   *)
(* thread timer that bounds a wait, and the tick.  The objects extend this *)
(* module; each of their sections under _cpus_lock is one step.  A thread  *)
(* that blocks is off its CPU from the section that suspends it until it   *)
(* runs again, and in between come wakers, its timeout and other callers   *)
(* who take what it was woken for.                                         *)
(*                                                                         *)
(* Which of the threads that are ready runs next is left open.             *)
(***************************************************************************)
EXTENDS Naturals, Sequences, FiniteSets, KernelList

CONSTANTS
    Threads,
    None,       \* RT_NULL; a timer that does not run
    Forever,    \* RT_WAITING_FOREVER
    Timeouts,   \* the timeouts that callers give, in ticks
    Flags,      \* how the waiting lists are ordered: a subset of {"FIFO", "PRIO"}
    priority    \* thread -> current_priority

ASSUME IpcAssumption ==
    /\ IsFiniteSet(Threads) /\ None \notin Threads
    /\ Forever \notin Nat /\ None \notin Nat
    /\ Timeouts \subseteq Nat \cup {Forever}
    /\ Flags \subseteq {"FIFO", "PRIO"}
    /\ priority \in [Threads -> Nat]

VARIABLES
    flag,       \* parent.flag of the object
    waiting,    \* parent.suspend_thread and suspend_sender_thread of the object
    th          \* what a thread keeps while it is in a call

ipcVars == <<flag, waiting, th>>

Receivers == "suspend_thread"

Senders == "suspend_sender_thread"

Lists == {Receivers, Senders}

\* A thread outside of every call.
Outside ==
    [pc |-> "user",         \* which call, and where in it
     stat |-> "READY",
     error |-> "EOK",
     left |-> None,         \* ticks until the thread timer fires
     timeout |-> 0,         \* the local variable of the call
     spent |-> 0,           \* rt_tick_get() - tick_delta
     budget |-> 0]          \* ghost: ticks left of what the caller asked for

\* Where a thread can be in the calls of the objects.
Stages == {"user", "take", "recv", "mb_send", "mb_recv", "mq_send", "mq_recv", "fill",
           "fill_urgent", "drain", "alloc", "again", "comp_wait", "dq_push", "dq_pop"}

Records ==
    [pc : Stages, stat : {"READY", "SUSPEND"}, error : {"EOK", "ETIMEOUT", "ERROR"},
     left : Nat \cup {None}, timeout : Nat \cup {Forever}, spent : Nat, budget : Nat]

IpcTypeOK ==
    /\ flag \in Flags
    /\ waiting \in [Lists -> Seq(Threads)]
    /\ th \in [Threads -> Records]

IpcInit ==
    /\ flag \in Flags
    /\ waiting = [l \in Lists |-> << >>]
    /\ th = [t \in Threads |-> Outside]

-----------------------------------------------------------------------------

\* _ipc_list_suspend: at the end, or before the first less urgent thread.
enqueued(l, t) ==
    rt_list_insert_before(
        l, {i \in 1 .. Len(l) : flag = "PRIO" /\ priority[t] < priority[l[i]]}, t)

Finite(T) == T # Forever

Minus(a, b) == IF b >= a THEN 0 ELSE a - b

\* The thread in the call pc, suspended with timeout T out of a budget of b ticks.
Suspended(pc, T, b) ==
    [pc |-> pc, stat |-> "SUSPEND", error |-> "EOK", left |-> IF Finite(T) THEN T ELSE None,
     timeout |-> T, spent |-> 0, budget |-> b]

\* The same call in another stage.
At(t, pc) == [th[t] EXCEPT !.pc = pc]

\* t calls for the first time with timeout T: what it may spend.
Asked(T) == IF Finite(T) THEN T ELSE 0

\* Mutant of Remaining: the time that the first wait took is forgotten.
Remaining_all(t) == th[t].timeout

\* What is left of the timeout when a call waits again.
Remaining(t) == IF Finite(th[t].timeout) THEN Minus(th[t].timeout, th[t].spent)
                ELSE Forever

Woken(u) == [th[u] EXCEPT !.stat = "READY", !.left = None]

\* t suspends itself in list l.
suspend(t, l, pc, T, b) ==
    /\ waiting' = [waiting EXCEPT ![l] = enqueued(@, t)]
    /\ th' = [th EXCEPT ![t] = Suspended(pc, T, b)]
    /\ UNCHANGED flag

\* _ipc_list_resume on list l if somebody waits there, the threads being th0.
first_resumed(th0, l) ==
    /\ IF waiting[l] = << >> THEN th' = th0 /\ UNCHANGED waiting
       ELSE /\ th' = [th0 EXCEPT ![Head(waiting[l])] = Woken(Head(waiting[l]))]
            /\ waiting' = [waiting EXCEPT ![l] = Tail(@)]
    /\ UNCHANGED flag

\* The call of t returns.
Returned(t) == [th EXCEPT ![t] = Outside]

\* _ipc_list_resume_all on both lists, inside a section.
resume_all ==
    /\ th' = [t \in Threads |-> IF \E l \in Lists : InList(waiting[l], t)
                                THEN [Woken(t) EXCEPT !.error = "ERROR"] ELSE th[t]]
    /\ waiting' = [l \in Lists |-> << >>]
    /\ UNCHANGED flag

Calls(t) == th[t].pc = "user"

\* t runs again in the call pc, woken by somebody who had something for it.
Resumed(t, pc) == th[t].pc = pc /\ th[t].stat = "READY" /\ th[t].error = "EOK"

\* The call of t fails with thread->error.
Failed(t) == th[t].stat = "READY" /\ th[t].error # "EOK"

gives_up(t) == Failed(t) /\ th' = Returned(t) /\ UNCHANGED <<flag, waiting>>

\* Mutant of thread_timeout: the thread stays in the waiting list.
thread_timeout_listed(t) ==
    /\ th[t].left = 0
    /\ th' = [th EXCEPT ![t] = [Woken(t) EXCEPT !.error = "ETIMEOUT"]]
    /\ UNCHANGED <<flag, waiting>>

\* _thread_timeout, called by the tick's rt_timer_check.
thread_timeout(t) ==
    /\ th[t].left = 0
    /\ th' = [th EXCEPT ![t] = [Woken(t) EXCEPT !.error = "ETIMEOUT"]]
    /\ waiting' = [l \in Lists |-> rt_list_remove(waiting[l], t)]
    /\ UNCHANGED flag

\* The call of t counts ticks.  Ticks that fall between reading the clock and the
\* section that follows (stage "again") are not charged: the code cannot see them.
Counts(t) == th[t].timeout \notin {0, Forever}

ticked(t) ==
    IF ~Counts(t) THEN th[t]
    ELSE [th[t] EXCEPT !.left = IF @ = None THEN None ELSE @ - 1,
                       !.spent = IF @ < th[t].timeout THEN @ + 1 ELSE @,
                       !.budget = IF th[t].pc = "again" THEN @ ELSE Minus(@, 1)]

\* Mutant of rt_tick_increase: the timers are not checked at every tick.
rt_tick_increase_late ==
    /\ \E t \in Threads : Counts(t)
    /\ th' = [t \in Threads |-> ticked(t)]
    /\ UNCHANGED <<flag, waiting>>

\* rt_tick_increase; the timers that are due fire before the next one.
rt_tick_increase ==
    /\ \A t \in Threads : th[t].left # 0
    /\ \E t \in Threads : Counts(t)
    /\ th' = [t \in Threads |-> ticked(t)]
    /\ UNCHANGED <<flag, waiting>>

\* What happens whatever the object is.
IpcStep == rt_tick_increase \/ \E t \in Threads : thread_timeout(t) \/ gives_up(t)

-----------------------------------------------------------------------------

\* The threads that were woken in call pc and have not looked yet.
WokenIn(pc) == {t \in Threads : Resumed(t, pc)}

(***************************************************************************)
(* A wait never lasts longer than the caller asked, whatever number of     *)
(* times the thread is woken and finds that somebody was faster: the       *)
(* thread timer of a second or third round runs for what is left.          *)
(***************************************************************************)
DeadlineKept ==
    \A t \in Threads : th[t].left # None => th[t].left <= th[t].budget

(***************************************************************************)
(* The waiting lists hold exactly the suspended threads, each once, and a  *)
(* timer runs only for those: a wait ends one way, by its event, by its    *)
(* timeout or by a reset, and leaves nothing behind that ends it again.    *)
(***************************************************************************)
ListsHoldSuspended ==
    /\ \A t \in Threads :
        /\ (th[t].stat = "SUSPEND") <=> \E l \in Lists : InList(waiting[l], t)
        /\ th[t].stat = "READY" => th[t].left = None
        /\ \A l, k \in Lists : InList(waiting[l], t) /\ InList(waiting[k], t) => l = k
    /\ \A l \in Lists : Once(waiting[l])
=============================================================================
