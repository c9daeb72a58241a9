------------------------------ MODULE WorkQueue ------------------------------
(***************************************************************************)
(* The work queue of components/drivers/ipc/workqueue.c: a worker thread,  *)
(* works that are queued at once or after a delay, and cancellation.  The  *)
(* worker, the timer thread that ends a delay and the callers each run     *)
(* their sections on any CPU.                                              *)
(***************************************************************************)
EXTENDS Naturals, Sequences, FiniteSets, KernelList

CONSTANTS
    Works,
    Cancellers,     \* the threads that call rt_workqueue_cancel_work_sync
    NoWork,         \* RT_NULL
    WqDisciplined   \* what the callers avoid: see Settled, NoDelay, NotAgain, elapses,
                    \* look_take and func_returns

ASSUME WqAssumption ==
    /\ NoWork \notin Works \cup (Works \X {"read", "move", "seen", "wait", "cancel"})
    /\ WqDisciplined \in BOOLEAN

VARIABLES
    wq_list,        \* work_list
    wq_delayed,     \* delayed_list
    wq_current,     \* work_current
    wq_pc,          \* the worker: "look" for work, "run" one, "ack" its completion
    wq_stat,        \* the state of the worker thread
    work,           \* work -> its fields
    wq_starting,    \* the works whose submitter has not called rt_timer_start yet
    wq_firing,      \* the work whose timeout handler runs, and its stage; or NoWork
    wq_sync         \* canceller -> the work and the place in rt_workqueue_cancel_work_sync

wqVars == <<wq_list, wq_delayed, wq_current, wq_pc, wq_stat, work, wq_starting,
            wq_firing, wq_sync>>

\* queue: workqueue is set; submitting: RT_WORK_STATE_SUBMITTING; timer: the delay runs.
\* Ghosts: accepted, a submission was answered RT_EOK and has neither run nor been
\* withdrawn; cancelled, the last word was a cancellation that was answered RT_EOK, or
\* will be when the execution it waits for is over.
Idle == [queue |-> FALSE, submitting |-> FALSE, timer |-> FALSE,
         accepted |-> FALSE, cancelled |-> FALSE]

WqTypeOK ==
    /\ wq_list \in Seq(Works) /\ wq_delayed \in Seq(Works)
    /\ wq_current \in Works \cup {NoWork}
    /\ wq_pc \in {"look", "run", "ack"} /\ wq_stat \in {"READY", "SUSPEND"}
    /\ work \in [Works -> [queue : BOOLEAN, submitting : BOOLEAN, timer : BOOLEAN,
                           accepted : BOOLEAN, cancelled : BOOLEAN]]
    /\ wq_starting \subseteq Works
    /\ wq_firing \in {NoWork} \cup (Works \X {"read", "move"})
    /\ wq_sync \in [Cancellers -> {NoWork} \cup (Works \X {"seen", "wait", "cancel"})]

WqInit ==
    /\ wq_list = << >> /\ wq_delayed = << >>
    /\ wq_current = NoWork
    /\ wq_pc = "look" /\ wq_stat = "READY"
    /\ work = [w \in Works |-> Idle]
    /\ wq_starting = {}
    /\ wq_firing = NoWork
    /\ wq_sync = [c \in Cancellers |-> NoWork]

-----------------------------------------------------------------------------

Fires(w) == wq_firing \in {<<w, "read">>, <<w, "move">>}

\* Nobody is between two steps of an operation on w.
Settled(w) == WqDisciplined => w \notin wq_starting /\ ~Fires(w)

\* Nobody calls for a run at once while a delay of the same work is running.
NoDelay(w) == WqDisciplined => Settled(w) /\ ~work[w].timer

\* Nobody calls for a work that is executing and, submitted meanwhile, will run again.
NotAgain(w) == WqDisciplined /\ wq_current = w => ~work[w].accepted

\* rt_thread_resume of the worker, unless it works (and sleeps in a work function).
worker_resumed ==
    wq_stat' = IF wq_current = NoWork /\ wq_stat = "SUSPEND" THEN "READY" ELSE wq_stat

-----------------------------------------------------------------------------
(* The worker *)

look_suspend ==
    /\ wq_pc = "look" /\ wq_stat = "READY"
    /\ wq_list = << >>
    /\ wq_stat' = "SUSPEND"
    /\ UNCHANGED <<wq_list, wq_delayed, wq_current, wq_pc, work, wq_starting, wq_firing, wq_sync>>

\* The worker takes the first work.  (Not, with discipline, one that a canceller is about
\* to take off the list because it saw that it is not executing.)
look_take ==
    /\ wq_pc = "look" /\ wq_stat = "READY"
    /\ wq_list # << >>
    /\ WqDisciplined => \A c \in Cancellers : wq_sync[c] # <<Head(wq_list), "cancel">>
    /\ wq_list' = Tail(wq_list)
    /\ wq_current' = Head(wq_list)
    /\ work' = [work EXCEPT ![Head(wq_list)].queue = FALSE, ![Head(wq_list)].accepted = FALSE]
    /\ wq_pc' = "run"
    /\ UNCHANGED <<wq_delayed, wq_stat, wq_starting, wq_firing, wq_sync>>

\* The work function waits for something, and is woken.
func_sleeps == wq_pc = "run" /\ wq_stat = "READY" /\ wq_stat' = "SUSPEND"
func_wakes  == wq_pc = "run" /\ wq_stat = "SUSPEND" /\ wq_stat' = "READY"

\* The function returns; work_current is cleared without the lock.  (With discipline,
\* who has seen the work executing waits before it ends.)
func_returns ==
    /\ wq_pc = "run" /\ wq_stat = "READY"
    /\ WqDisciplined => \A c \in Cancellers : wq_sync[c] # <<wq_current, "seen">>
    /\ wq_current' = NoWork
    /\ wq_pc' = "ack"
    /\ UNCHANGED <<wq_list, wq_delayed, wq_stat, work, wq_starting, wq_firing, wq_sync>>

TakesSem(c) == \E w \in Works : wq_sync[c] = <<w, "wait">>

\* Mutant of work_completion: the semaphore is not released.
work_completion_quiet ==
    /\ wq_pc = "ack"
    /\ wq_pc' = "look"
    /\ UNCHANGED <<wq_list, wq_delayed, wq_current, wq_stat, work, wq_starting, wq_firing, wq_sync>>

\* _workqueue_work_completion: everybody who waits on the semaphore is woken, and its
\* value is zero afterwards.
work_completion ==
    /\ wq_pc = "ack"
    /\ wq_pc' = "look"
    /\ wq_sync' = [c \in Cancellers |-> IF TakesSem(c) THEN NoWork ELSE wq_sync[c]]
    /\ UNCHANGED <<wq_list, wq_delayed, wq_current, wq_stat, work, wq_starting, wq_firing>>

-----------------------------------------------------------------------------
(* The callers *)

\* _workqueue_submit_work without a delay.  A work that is executing is refused, after
\* a run that was pending has been taken off the list.
rt_workqueue_dowork(w) ==
    /\ NoDelay(w) /\ NotAgain(w)
    /\ wq_delayed' = rt_list_remove(wq_delayed, w)
    /\ IF wq_current # w
       THEN /\ wq_list' = Append(rt_list_remove(wq_list, w), w)
            /\ work' = [work EXCEPT ![w].queue = TRUE, ![w].accepted = TRUE,
                                    ![w].cancelled = FALSE]
       ELSE wq_list' = rt_list_remove(wq_list, w) /\ UNCHANGED work
    /\ worker_resumed
    /\ UNCHANGED <<wq_current, wq_pc, wq_starting, wq_firing, wq_sync>>

\* _workqueue_submit_work with a delay: a timer that may run is stopped.
rt_workqueue_submit_work(w) ==
    /\ Settled(w) /\ w \notin wq_starting
    /\ wq_list' = rt_list_remove(wq_list, w)
    /\ wq_delayed' = Append(rt_list_remove(wq_delayed, w), w)
    /\ work' = [work EXCEPT ![w] = [queue |-> TRUE, submitting |-> TRUE, timer |-> FALSE,
                                    accepted |-> TRUE, cancelled |-> FALSE]]
    /\ wq_starting' = wq_starting \cup {w}
    /\ UNCHANGED <<wq_current, wq_pc, wq_stat, wq_firing, wq_sync>>

\* Its rt_timer_start, after the section.  A timer that was detached meanwhile is not
\* started: the call asserts.
submit_start(w) ==
    /\ w \in wq_starting
    /\ wq_starting' = wq_starting \ {w}
    /\ work' = [work EXCEPT ![w].timer = work[w].submitting]
    /\ UNCHANGED <<wq_list, wq_delayed, wq_current, wq_pc, wq_stat, wq_firing, wq_sync>>

rt_workqueue_urgent_work(w) ==
    /\ NoDelay(w)
    /\ wq_delayed' = rt_list_remove(wq_delayed, w)
    /\ wq_list' = <<w>> \o rt_list_remove(wq_list, w)
    /\ work' = [work EXCEPT ![w].accepted = TRUE, ![w].cancelled = FALSE]
    /\ worker_resumed
    /\ UNCHANGED <<wq_current, wq_pc, wq_starting, wq_firing, wq_sync>>

\* Mutant of Cancelled: the timer of a delayed work keeps running.
Cancelled_timed(w, ok) ==
    [queue |-> FALSE, submitting |-> FALSE, timer |-> work[w].timer,
     accepted |-> FALSE, cancelled |-> ok \/ work[w].cancelled]

\* w after _workqueue_cancel_work, whose caller is told RT_EOK or not.
Cancelled(w, ok) ==
    [queue |-> FALSE, submitting |-> FALSE, timer |-> work[w].timer /\ ~work[w].submitting,
     accepted |-> FALSE, cancelled |-> ok \/ work[w].cancelled]

\* _workqueue_cancel_work
cancel_work(w, ok) ==
    /\ Settled(w)
    /\ wq_list' = rt_list_remove(wq_list, w)
    /\ wq_delayed' = rt_list_remove(wq_delayed, w)
    /\ work' = [work EXCEPT ![w] = Cancelled(w, ok)]
    /\ UNCHANGED <<wq_current, wq_pc, wq_stat, wq_starting, wq_firing>>

\* RT_EOK unless the work is executing.
rt_workqueue_cancel_work(w) == cancel_work(w, wq_current # w) /\ UNCHANGED wq_sync

Queued(w) == InList(wq_list, w) \/ InList(wq_delayed, w)

\* _workqueue_cancel_work of the first work until both lists are empty; the critical
\* section keeps the lock from the first to the last.
rt_workqueue_cancel_all_work ==
    /\ \A w \in Works : Queued(w) => Settled(w)
    /\ wq_list' = << >> /\ wq_delayed' = << >>
    /\ work' = [w \in Works |-> IF Queued(w) THEN Cancelled(w, wq_current # w) ELSE work[w]]
    /\ UNCHANGED <<wq_current, wq_pc, wq_stat, wq_starting, wq_firing, wq_sync>>

\* rt_workqueue_cancel_work_sync: looks at the current work without the lock,
cancel_sync_test(c, w) ==
    /\ wq_sync[c] = NoWork
    /\ NotAgain(w)
    /\ wq_sync' = [wq_sync EXCEPT ![c] = <<w, IF wq_current = w THEN "seen" ELSE "cancel">>]
    /\ work' = [work EXCEPT ![w].cancelled = @ \/ wq_current = w]
    /\ UNCHANGED <<wq_list, wq_delayed, wq_current, wq_pc, wq_stat, wq_starting, wq_firing>>

\* then cancels the work, the answer -RT_EBUSY being ignored,
cancel_sync_cancel(c, w) ==
    /\ wq_sync[c] = <<w, "cancel">>
    /\ cancel_work(w, TRUE)
    /\ wq_sync' = [wq_sync EXCEPT ![c] = NoWork]

\* or waits for the semaphore, whose value is zero.
cancel_sync_wait(c, w) ==
    /\ wq_sync[c] = <<w, "seen">>
    /\ wq_sync' = [wq_sync EXCEPT ![c] = <<w, "wait">>]
    /\ UNCHANGED <<wq_list, wq_delayed, wq_current, wq_pc, wq_stat, work, wq_starting, wq_firing>>

-----------------------------------------------------------------------------
(* The timer thread *)

\* The delay of w is over; its callback begins, without the lock.
elapses(w) ==
    /\ wq_firing = NoWork
    /\ work[w].timer
    /\ WqDisciplined => wq_current # w
    /\ work' = [work EXCEPT ![w].timer = FALSE]
    /\ wq_firing' = <<w, "read">>
    /\ UNCHANGED <<wq_list, wq_delayed, wq_current, wq_pc, wq_stat, wq_starting, wq_sync>>

\* _delayed_work_timeout_handler reads work->workqueue,
handler_read(w) ==
    /\ wq_firing = <<w, "read">>
    /\ wq_firing' = <<w, "move">>
    /\ UNCHANGED <<wq_list, wq_delayed, wq_current, wq_pc, wq_stat, work, wq_starting, wq_sync>>

\* Mutant of handler_move: the worker is not told.
handler_move_quiet(w) ==
    /\ wq_firing = <<w, "move">>
    /\ wq_firing' = NoWork
    /\ wq_delayed' = rt_list_remove(wq_delayed, w)
    /\ wq_list' = Append(rt_list_remove(wq_list, w), w)
    /\ work' = [work EXCEPT ![w].submitting = FALSE, ![w].timer = FALSE]
    /\ UNCHANGED <<wq_current, wq_pc, wq_stat, wq_starting, wq_sync>>

\* and moves the work to the list, unless it is being executed.
handler_move(w) ==
    /\ wq_firing = <<w, "move">>
    /\ wq_firing' = NoWork
    /\ wq_delayed' = rt_list_remove(wq_delayed, w)
    /\ wq_list' = IF wq_current # w THEN Append(rt_list_remove(wq_list, w), w)
                  ELSE rt_list_remove(wq_list, w)
    /\ work' = [work EXCEPT ![w].submitting = FALSE, ![w].timer = FALSE]
    /\ worker_resumed
    /\ UNCHANGED <<wq_current, wq_pc, wq_starting, wq_sync>>

WqNext ==
    \/ look_suspend \/ look_take \/ func_returns \/ work_completion
    \/ /\ func_sleeps \/ func_wakes
       /\ UNCHANGED <<wq_list, wq_delayed, wq_current, wq_pc, work, wq_starting, wq_firing, wq_sync>>
    \/ \E w \in Works :
          \/ rt_workqueue_dowork(w) \/ rt_workqueue_submit_work(w) \/ submit_start(w)
          \/ rt_workqueue_urgent_work(w) \/ rt_workqueue_cancel_work(w)
          \/ elapses(w) \/ handler_read(w) \/ handler_move(w)
          \/ \E c \in Cancellers :
                cancel_sync_test(c, w) \/ cancel_sync_cancel(c, w) \/ cancel_sync_wait(c, w)
    \/ rt_workqueue_cancel_all_work

WqSpec == WqInit /\ [][WqNext]_wqVars

-----------------------------------------------------------------------------

(***************************************************************************)
(* The assertion of the timeout handler: a delay that ends finds the queue *)
(* of its work.                                                            *)
(***************************************************************************)
TimeoutFindsQueue == \A w \in Works : wq_firing = <<w, "read">> => work[w].queue

(***************************************************************************)
(* Work that was accepted with RT_EOK is not lost: until it runs or is     *)
(* withdrawn it is in the list of the worker, who is awake then or has a   *)
(* function to finish, or its delay runs.                                  *)
(***************************************************************************)
AcceptedIsKept ==
    /\ \A w \in Works : work[w].accepted =>
          \/ InList(wq_list, w)
          \/ InList(wq_delayed, w) /\ (work[w].timer \/ w \in wq_starting \/ Fires(w))
    /\ wq_list # << >> /\ wq_pc = "look" => wq_stat = "READY"

\* Somebody in rt_workqueue_cancel_work_sync lets an execution of w end.
Awaited(w) == \E c \in Cancellers : wq_sync[c] \in {<<w, "seen">>, <<w, "wait">>}

(***************************************************************************)
(* A work whose cancellation was answered with RT_EOK does not run again   *)
(* unless it is submitted again: neither the worker's list nor a delay     *)
(* that is ending still holds it, and if it is executing, the cancellation *)
(* is a synchronous one that has not returned yet.                         *)
(***************************************************************************)
CancelledStaysOut ==
    \A w \in Works : work[w].cancelled =>
        /\ ~InList(wq_list, w) /\ ~work[w].timer /\ ~Fires(w)
        /\ wq_current = w => Awaited(w)

(***************************************************************************)
(* rt_workqueue_cancel_work_sync blocks while the work executes and no     *)
(* longer: who waits for the semaphore is woken by the completion of the   *)
(* execution that he saw.                                                  *)
(***************************************************************************)
BlocksUntilDone ==
    \A c \in Cancellers, w \in Works :
        wq_sync[c] = <<w, "wait">> => wq_current = w \/ wq_pc = "ack"

(***************************************************************************)
(* The calls that cancel keep their word: what they have cancelled stays   *)
(* out, and the synchronous one blocks exactly until the work is done.     *)
(***************************************************************************)
CancelsKept == CancelledStaysOut /\ BlocksUntilDone

(***************************************************************************)
(* When rt_workqueue_cancel_work_sync returns, the work is not executing:  *)
(* "If the work item is executing, this function will block until it is    *)
(* done."                                                                  *)
(***************************************************************************)
SyncCancelWaits ==
    [][\A c \in Cancellers, w \in Works :
          wq_sync[c] \in {<<w, "cancel">>, <<w, "wait">>} /\ wq_sync'[c] = NoWork
              => wq_current' # w]_wqVars
=============================================================================
