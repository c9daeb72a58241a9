------------------------------ MODULE Scheduler ------------------------------
(***************************************************************************)
(* The SMP scheduler and the life of threads: scheduler.c, thread.c, the   *)
(* tick of clock.c and the interrupt return.  A section under _cpus_lock is*)
(* one step (CpusLock proves that sections exclude each other); what a     *)
(* function does after its unlock, its call of rt_schedule above all, is a *)
(* step of its own, so that the other CPU and the interrupts get between.  *)
(***************************************************************************)
EXTENDS Naturals, Sequences, FiniteSets, KernelList

CONSTANTS
    CPUs,
    Threads,
    None,           \* RT_NULL, RT_CPU_DETACHED and, as a binding, RT_CPUS_NR
    Idle,           \* CPU -> its tidle thread
    Main,           \* the thread rt_application_init starts
    Boot,           \* CPU 0, the one rtthread_startup runs on
    Bind,           \* thread -> bind_cpu, or None
    InitPrio,       \* thread -> init_priority
    IdlePrio,       \* RT_THREAD_PRIORITY_MAX - 1
    InitTick,       \* init_tick of every thread
    NewPrios,       \* the priorities RT_THREAD_CTRL_CHANGE_PRIORITY is given
    MaxCritical,    \* bound on the depth of rt_enter_critical
    CarefulEnd      \* a thread ends, by itself or deleted, only while no call is about it

Prios == 0 .. IdlePrio

ASSUME SchedulerAssumption ==
    /\ None \notin CPUs \cup Threads
    /\ Idle \in [CPUs -> Threads]
    /\ Main \in Threads /\ Boot \in CPUs
    /\ Bind \in [Threads -> CPUs \cup {None}]
    /\ IdlePrio \in Nat /\ InitTick \in Nat \ {0} /\ MaxCritical \in Nat
    /\ InitPrio \in [Threads -> Prios]
    /\ NewPrios \subseteq Prios
    /\ \A c \in CPUs : Bind[Idle[c]] = c /\ InitPrio[Idle[c]] = IdlePrio
    /\ \A c \in CPUs : Main # Idle[c]
    /\ InitPrio[Main] # IdlePrio
    /\ CarefulEnd \in BOOLEAN

Idlers == {Idle[c] : c \in CPUs}

Queues == CPUs \cup {None}      \* None: the table all CPUs share

VARIABLES
    stat, yield, oncpu, prio,   \* per thread: the fields of struct rt_thread
    remaining_tick,
    timer,          \* per thread: thread_timer is in the timer list
    critical,       \* per thread: critical_lock_nest
    pc,             \* per thread: which call it is in the middle of
    target,         \* per thread: the thread that call is about
    rq,             \* priority_table and priority_group of every queue
    current,        \* per CPU: current_thread
    irq,            \* per CPU: where its interrupt handler is (irq_nest = 1)
    irq_switch_flag,\* per CPU
    ipi,            \* per CPU: RT_SCHEDULE_IPI is pending
    owed            \* per CPU: a caller left the rescheduling to a later one

vars == <<stat, yield, oncpu, prio, remaining_tick, timer, critical, pc, target,
          rq, current, irq, irq_switch_flag, ipi, owed>>

Stats == {"INIT", "READY", "RUNNING", "SUSPEND", "CLOSE"}

TypeOK ==
    /\ stat \in [Threads -> Stats]
    /\ yield \in [Threads -> BOOLEAN]
    /\ oncpu \in [Threads -> CPUs \cup {None}]
    /\ prio \in [Threads -> Prios]
    /\ remaining_tick \in [Threads -> 1 .. InitTick]
    /\ timer \in [Threads -> BOOLEAN]
    /\ critical \in [Threads -> 0 .. MaxCritical]
    /\ pc \in [Threads -> {"user", "sched", "resume", "delete"}]
    /\ target \in [Threads -> Threads \cup {None}]
    /\ rq \in [Queues -> [list : [Prios -> Seq(Threads)], group : SUBSET Prios]]
    /\ current \in [CPUs -> Threads \cup {None}]
    /\ irq \in [CPUs -> {"none", "tick", "leave"}]
    /\ irq_switch_flag \in [CPUs -> BOOLEAN]
    /\ ipi \in [CPUs -> BOOLEAN]
    /\ owed \in [CPUs -> BOOLEAN]

-----------------------------------------------------------------------------
(* Ready queues: operators on a value r of rq, since one section may update *)
(* the queues more than once.                                               *)

\* Mutant of remove_ready: the group bit is left set.
remove_ready_keeps_bit(r, t) ==
    [r EXCEPT ![Bind[t]].list[prio[t]] = rt_list_remove(@, t)]

\* rt_schedule_remove_thread
remove_ready(r, t) ==
    LET q == Bind[t]
        rest == rt_list_remove(r[q].list[prio[t]], t)
    IN  [r EXCEPT ![q].list[prio[t]] = rest,
                  ![q].group = IF rest = << >> THEN @ \ {prio[t]} ELSE @]

\* rt_schedule_insert_thread of a detached thread at priority p: behind its
\* peers if its time slice is used up, else in front of them.
insert_ready(r, t, p, yielded) ==
    [r EXCEPT ![Bind[t]].list[p] = IF yielded THEN Append(@, t) ELSE <<t>> \o @,
              ![Bind[t]].group = @ \cup {p}]

\* Mutant of ipi_targets: a bound thread is left for its CPU to find.
ipi_targets_unbound(c, t) == IF Bind[t] = None THEN CPUs \ {c} ELSE {}

\* The CPUs that an insertion made on CPU c interrupts.
ipi_targets(c, t) == IF Bind[t] = None THEN CPUs \ {c} ELSE {Bind[t]} \ {c}

\* Mutant of insert_thread: a thread on its way out is queued all the same.
insert_thread_detached(c, r, t) ==
    /\ stat' = [stat EXCEPT ![t] = "READY"]
    /\ rq' = insert_ready(r, t, prio[t], yield[t])
    /\ ipi' = [d \in CPUs |-> ipi[d] \/ d \in ipi_targets(c, t)]

\* rt_schedule_insert_thread on CPU c: a thread that has not left its CPU yet
\* just goes on running.
insert_thread(c, r, t) ==
    IF oncpu[t] # None
    THEN /\ stat' = [stat EXCEPT ![t] = "RUNNING"]
         /\ rq' = r
         /\ UNCHANGED ipi
    ELSE /\ stat' = [stat EXCEPT ![t] = "READY"]
         /\ rq' = insert_ready(r, t, prio[t], yield[t])
         /\ ipi' = [d \in CPUs |-> ipi[d] \/ d \in ipi_targets(c, t)]

\* __rt_ffs(group) - 1; of an empty group it is the largest rt_ubase_t.
ffs(group) == IF group = {} THEN IdlePrio + 1
              ELSE CHOOSE p \in group : \A r \in group : p <= r

\* _scheduler_get_highest_priority_thread: the shared table only if strictly
\* better than the CPU's own.
highest_queue(c) == IF ffs(rq[None].group) < ffs(rq[c].group) THEN None ELSE c

highest_ready_priority(c) == ffs(rq[highest_queue(c)].group)

highest_priority_thread(c) == Head(rq[highest_queue(c)].list[highest_ready_priority(c)])

anything_ready(c) == rq[None].group # {} \/ rq[c].group # {}

\* Mutant of keeps_cpu: equal priority keeps the CPU even after the time slice.
keeps_cpu_always(t, hp, yielded) == stat[t] = "RUNNING" /\ prio[t] <= hp

\* Mutant of keeps_cpu: the state of the thread is not looked at.
keeps_cpu_blocked(t, hp, yielded) == prio[t] < hp \/ (prio[t] = hp /\ ~yielded)

\* The running thread stays against a ready one of priority hp.
keeps_cpu(t, hp, yielded) ==
    /\ stat[t] = "RUNNING"
    /\ prio[t] < hp \/ (prio[t] = hp /\ ~yielded)

\* The choice that rt_schedule and rt_scheduler_do_irq_switch make under the
\* lock, and the switch it leads to; yielded is the running thread's YIELD bit.
switch(c, yielded) ==
    LET t == current[c]
        hp == highest_ready_priority(c)
        keep == keeps_cpu(t, hp, yielded)
        to == IF keep THEN t ELSE highest_priority_thread(c)
        requeue == stat[t] = "RUNNING" /\ ~keep
        r == IF requeue THEN insert_ready(rq, t, prio[t], yielded) ELSE rq
    IN
    /\ rq' = IF to # t THEN remove_ready(r, to) ELSE r
    /\ stat' = [u \in Threads |-> IF u = to THEN (IF to = t THEN stat[t] ELSE "RUNNING")
                                  ELSE IF u = t /\ requeue THEN "READY"
                                  ELSE stat[u]]
    /\ yield' = [yield EXCEPT ![t] = yielded /\ stat[t] # "RUNNING"]
    /\ oncpu' = [u \in Threads |-> IF u = to THEN c ELSE IF u = t THEN None ELSE oncpu[u]]
    /\ ipi' = [d \in CPUs |-> ipi[d] \/ (requeue /\ d \in ipi_targets(c, t))]
    /\ current' = [current EXCEPT ![c] = to]
    /\ owed' = [owed EXCEPT ![c] = FALSE]

no_switch == UNCHANGED <<rq, stat, yield, oncpu, ipi, current, owed>>

-----------------------------------------------------------------------------

\* The shape of the system when rtthread_startup starts the scheduler.
BootReady == Idlers \cup {Main}

Init ==
    /\ stat = [t \in Threads |-> IF t \in BootReady THEN "READY" ELSE "INIT"]
    /\ yield = [t \in Threads |-> FALSE]
    /\ oncpu = [t \in Threads |-> None]
    /\ prio = InitPrio
    /\ remaining_tick = [t \in Threads |-> InitTick]
    /\ timer = [t \in Threads |-> FALSE]
    /\ critical = [t \in Threads |-> 0]
    /\ pc = [t \in Threads |-> "user"]
    /\ target = [t \in Threads |-> None]
    /\ rq = [q \in Queues |->
                LET here(p) == {t \in BootReady : Bind[t] = q /\ prio[t] = p} IN
                [list |-> [p \in Prios |->
                              IF here(p) = {} THEN << >> ELSE <<CHOOSE t \in here(p) : TRUE>>],
                 group |-> {p \in Prios : here(p) # {}}]]
    /\ current = [c \in CPUs |-> None]
    /\ irq = [c \in CPUs |-> "none"]
    /\ irq_switch_flag = [c \in CPUs |-> FALSE]
    /\ ipi = [c \in CPUs |-> FALSE]
    /\ owed = [c \in CPUs |-> FALSE]

\* Nobody else holds _cpus_lock; it stays held in a critical section.
LockFree(c) ==
    \A d \in CPUs \ {c} : current[d] # None => critical[current[d]] = 0

InThread(c) == current[c] # None /\ irq[c] = "none" /\ LockFree(c)

\* The thread on c runs its own code and calls the kernel now; the idle threads
\* only wait for interrupts (rt_thread_idle_entry).
Calls(c) == InThread(c) /\ current[c] \notin Idlers /\ pc[current[c]] = "user"

\* An application thread that may block or end.
AppCalls(c) == Calls(c) /\ critical[current[c]] = 0

BeingDeleted(t) == \E u \in Threads : pc[u] = "delete" /\ target[u] = t

BeingResumed(t) == \E u \in Threads : pc[u] = "resume" /\ target[u] = t

\* The discipline CarefulEnd: no call is about a thread that is being deleted ...
Touchable(t) == CarefulEnd => ~BeingDeleted(t)

\* ... and no thread ends while another one is in the middle of a call about it.
\* The code itself checks neither.
May_end(t) == CarefulEnd => ~BeingResumed(t) /\ ~BeingDeleted(t)

-----------------------------------------------------------------------------
(* Boot *)

rt_system_scheduler_start(c) ==
    LET to == highest_priority_thread(c) IN
    /\ current[c] = None
    /\ c = Boot \/ current[Boot] # None     \* main starts the other CPUs
    /\ LockFree(c)
    /\ oncpu' = [oncpu EXCEPT ![to] = c]
    /\ rq' = remove_ready(rq, to)
    /\ stat' = [stat EXCEPT ![to] = "RUNNING"]
    /\ current' = [current EXCEPT ![c] = to]
    /\ UNCHANGED <<yield, prio, remaining_tick, timer, critical, pc, target, irq,
                   irq_switch_flag, ipi, owed>>

-----------------------------------------------------------------------------
(* Thread context *)

\* rt_schedule in a thread; critical sections keep the thread on its CPU.
rt_schedule(c) ==
    LET t == current[c] IN
    /\ InThread(c)
    /\ pc[t] = "sched"
    /\ pc' = [pc EXCEPT ![t] = "user"]
    /\ IF critical[t] = 0 /\ anything_ready(c) THEN switch(c, yield[current[c]]) ELSE no_switch
    /\ UNCHANGED <<prio, remaining_tick, timer, critical, target, irq, irq_switch_flag>>

rt_thread_startup(c, t) ==
    /\ Calls(c)
    /\ stat[t] = "INIT" /\ Touchable(t)
    /\ insert_thread(c, rq, t)
    /\ pc' = [pc EXCEPT ![current[c]] = "sched"]
    /\ UNCHANGED <<yield, oncpu, prio, remaining_tick, timer, critical, target,
                   current, irq, irq_switch_flag, owed>>

\* rt_thread_yield: rt_schedule runs inside the section.
rt_thread_yield(c) ==
    LET t == current[c] IN
    /\ AppCalls(c)
    /\ remaining_tick' = [remaining_tick EXCEPT ![t] = InitTick]
    /\ IF anything_ready(c) THEN switch(c, TRUE)
       ELSE /\ yield' = [yield EXCEPT ![t] = TRUE]
            /\ UNCHANGED <<stat, oncpu, rq, ipi, current, owed>>
    /\ UNCHANGED <<prio, timer, critical, pc, target, irq, irq_switch_flag>>

\* rt_thread_suspend of the caller, and rt_timer_start if it waits for a time:
\* the blocking half of rt_thread_sleep, rt_thread_delay_until and of every
\* IPC call.  A thread that was closed meanwhile is not suspended.
rt_thread_suspend(c, timed) ==
    LET t == current[c] IN
    /\ AppCalls(c)
    /\ IF stat[t] = "RUNNING"
       THEN /\ rq' = remove_ready(rq, t)
            /\ stat' = [stat EXCEPT ![t] = "SUSPEND"]
       ELSE UNCHANGED <<rq, stat>>
    /\ timer' = [timer EXCEPT ![t] = timed]
    /\ pc' = [pc EXCEPT ![t] = "sched"]
    /\ UNCHANGED <<yield, oncpu, prio, remaining_tick, critical, target, current,
                   irq, irq_switch_flag, ipi, owed>>

\* Mutant of wake: the waiter's timer is left running.
wake_keeps_timer(c, t) ==
    /\ stat[t] = "SUSPEND"
    /\ insert_thread(c, rq, t)
    /\ UNCHANGED timer

\* Mutant of wake: whatever neither runs nor is ready counts as suspended.
wake_ended(c, t) ==
    /\ stat[t] \in {"SUSPEND", "CLOSE"}
    /\ timer' = [timer EXCEPT ![t] = FALSE]
    /\ insert_thread(c, rq, t)

\* rt_thread_resume inside a section: how every IPC call wakes a waiter.
wake(c, t) ==
    /\ stat[t] = "SUSPEND"
    /\ timer' = [timer EXCEPT ![t] = FALSE]
    /\ insert_thread(c, rq, t)

\* A thread that is being deleted is in no waiting list any more: its tlist was
\* unlinked together with the ready queue's.
ipc_wakeup(c, t) ==
    /\ Calls(c)
    /\ ~BeingDeleted(t)
    /\ wake(c, t)
    /\ pc' = [pc EXCEPT ![current[c]] = "sched"]
    /\ UNCHANGED <<yield, oncpu, prio, remaining_tick, critical, target, current,
                   irq, irq_switch_flag, owed>>

\* rt_thread_resume called by a thread: the state is tested before the section.
rt_thread_resume(c, t) ==
    /\ Calls(c)
    /\ stat[t] = "SUSPEND" /\ t # current[c] /\ Touchable(t)
    /\ pc' = [pc EXCEPT ![current[c]] = "resume"]
    /\ target' = [target EXCEPT ![current[c]] = t]
    /\ UNCHANGED <<stat, yield, oncpu, prio, remaining_tick, timer, critical, rq,
                   current, irq, irq_switch_flag, ipi, owed>>

\* The section, which tests nothing again; no rt_schedule follows.
rt_thread_resume_locked(c) ==
    LET self == current[c]
        t == target[self]
    IN
    /\ InThread(c)
    /\ pc[self] = "resume"
    /\ timer' = [timer EXCEPT ![t] = FALSE]
    /\ insert_thread(c, [rq EXCEPT ![Bind[t]].list[prio[t]] = rt_list_remove(@, t)], t)
    /\ pc' = [pc EXCEPT ![self] = "user"]
    /\ target' = [target EXCEPT ![self] = None]
    /\ owed' = [owed EXCEPT ![c] = TRUE]
    /\ UNCHANGED <<yield, oncpu, prio, remaining_tick, critical, current, irq,
                   irq_switch_flag>>

\* rt_thread_control, RT_THREAD_CTRL_CHANGE_PRIORITY: no rt_schedule, and no
\* interrupt for a CPU that runs the thread.
change_priority(c, t, p) ==
    /\ Calls(c)
    /\ t \notin Idlers /\ Touchable(t) /\ stat[t] # "CLOSE"
    /\ prio' = [prio EXCEPT ![t] = p]
    /\ IF stat[t] = "READY"
       THEN /\ rq' = insert_ready(remove_ready(rq, t), t, p, yield[t])
            /\ ipi' = [d \in CPUs |-> ipi[d] \/ d \in ipi_targets(c, t)]
       ELSE UNCHANGED <<rq, ipi>>
    /\ owed' = [d \in CPUs |-> owed[d] \/ d = c \/ d = oncpu[t]]
    /\ UNCHANGED <<stat, yield, oncpu, remaining_tick, timer, critical, pc, target,
                   current, irq, irq_switch_flag>>

rt_enter_critical(c) ==
    /\ Calls(c)
    /\ critical[current[c]] < MaxCritical
    /\ critical' = [critical EXCEPT ![current[c]] = @ + 1]
    /\ UNCHANGED <<stat, yield, oncpu, prio, remaining_tick, timer, pc, target, rq,
                   current, irq, irq_switch_flag, ipi, owed>>

rt_exit_critical(c) ==
    LET t == current[c] IN
    /\ Calls(c)
    /\ critical[t] > 0
    /\ critical' = [critical EXCEPT ![t] = @ - 1]
    /\ pc' = [pc EXCEPT ![t] = IF critical[t] = 1 THEN "sched" ELSE "user"]
    /\ UNCHANGED <<stat, yield, oncpu, prio, remaining_tick, timer, target, rq,
                   current, irq, irq_switch_flag, ipi, owed>>

\* _thread_exit, up to its rt_schedule.
thread_exit(c) ==
    LET t == current[c] IN
    /\ AppCalls(c)
    /\ May_end(t)
    /\ rq' = remove_ready(rq, t)
    /\ timer' = [timer EXCEPT ![t] = FALSE]
    /\ stat' = [stat EXCEPT ![t] = "CLOSE"]
    /\ yield' = [yield EXCEPT ![t] = FALSE]
    /\ pc' = [pc EXCEPT ![t] = "sched"]
    /\ UNCHANGED <<oncpu, prio, remaining_tick, critical, target, current, irq,
                   irq_switch_flag, ipi, owed>>

\* Any thread but an idle one may be named, the caller too.  The discipline: it
\* is on no CPU, and neither a timer nor another call can touch it meanwhile.
May_delete(c, t) ==
    /\ Calls(c)
    /\ t \notin Idlers
    /\ May_end(t)
    /\ CarefulEnd => oncpu[t] = None /\ ~timer[t]

\* rt_thread_delete and rt_thread_detach, first section: out of the ready queue.
rt_thread_delete(c, t) ==
    /\ May_delete(c, t)
    /\ stat[t] # "CLOSE"
    /\ rq' = IF stat[t] = "INIT" THEN rq ELSE remove_ready(rq, t)
    /\ pc' = [pc EXCEPT ![current[c]] = "delete"]
    /\ target' = [target EXCEPT ![current[c]] = t]
    /\ UNCHANGED <<stat, yield, oncpu, prio, remaining_tick, timer, critical, current,
                   irq, irq_switch_flag, ipi, owed>>

\* Second section: the timer, the state, the defunct list.  RT_THREAD_CTRL_CLOSE
\* calls rt_schedule afterwards, the functions themselves do not.
rt_thread_delete_locked(c, resched) ==
    LET self == current[c]
        t == target[self]
    IN
    /\ InThread(c)
    /\ pc[self] = "delete"
    /\ timer' = [timer EXCEPT ![t] = FALSE]
    /\ stat' = [stat EXCEPT ![t] = "CLOSE"]
    /\ yield' = [yield EXCEPT ![t] = FALSE]
    /\ pc' = [pc EXCEPT ![self] = IF resched THEN "sched" ELSE "user"]
    /\ target' = [target EXCEPT ![self] = None]
    /\ UNCHANGED <<oncpu, prio, remaining_tick, critical, rq, current, irq,
                   irq_switch_flag, ipi, owed>>

-----------------------------------------------------------------------------
(* Interrupt context: rt_interrupt_enter and the handler, then the return. *)

Interrupts(c) == current[c] # None /\ irq[c] = "none" /\ LockFree(c)

\* Mutant of time_slice: the slice is not refilled at its end.
time_slice_no_refill(t) ==
    /\ remaining_tick' = [remaining_tick EXCEPT ![t] = @ - 1]
    /\ yield' = [yield EXCEPT ![t] = @ \/ remaining_tick[t] = 1]

time_slice(t) ==
    /\ remaining_tick' = [remaining_tick EXCEPT ![t] = IF @ = 1 THEN InitTick ELSE @ - 1]
    /\ yield' = [yield EXCEPT ![t] = @ \/ remaining_tick[t] = 1]

\* The tick interrupt: rt_tick_increase up to rt_timer_check.
rt_tick_increase(c) ==
    LET t == current[c] IN
    /\ Interrupts(c)
    /\ time_slice(t)
    /\ irq' = [irq EXCEPT ![c] = "tick"]
    /\ irq_switch_flag' = [irq_switch_flag EXCEPT ![c] = @ \/ remaining_tick[t] = 1]
    /\ UNCHANGED <<stat, oncpu, prio, timer, critical, pc, target, rq, current, ipi, owed>>

\* rt_timer_check: no (other) thread timer is due ...
rt_timer_check(c) ==
    /\ irq[c] = "tick" /\ LockFree(c)
    /\ irq' = [irq EXCEPT ![c] = "leave"]
    /\ UNCHANGED <<stat, yield, oncpu, prio, remaining_tick, timer, critical, pc, target, rq,
                   current, irq_switch_flag, ipi, owed>>

\* ... or that of u is, and _thread_timeout wakes it; the loop goes on.  (It does so
\* with the lock held; here the other CPUs may also act between two timers.)
thread_timeout(c, u) ==
    /\ irq[c] = "tick" /\ LockFree(c)
    /\ timer[u]
    /\ timer' = [timer EXCEPT ![u] = FALSE]
    /\ insert_thread(c, rq, u)
    /\ irq_switch_flag' = [irq_switch_flag EXCEPT ![c] = TRUE]
    /\ UNCHANGED <<yield, oncpu, prio, remaining_tick, critical, pc, target, current,
                   irq, owed>>

\* A device interrupt wakes a thread (rt_sem_release and the like).
device_isr(c, t) ==
    /\ Interrupts(c)
    /\ ~BeingDeleted(t)
    /\ wake(c, t)
    /\ irq' = [irq EXCEPT ![c] = "leave"]
    /\ irq_switch_flag' = [irq_switch_flag EXCEPT ![c] = TRUE]
    /\ UNCHANGED <<yield, oncpu, prio, remaining_tick, critical, pc, target, current, owed>>

rt_scheduler_ipi_handler(c) ==
    /\ Interrupts(c)
    /\ ipi[c]
    /\ ipi' = [ipi EXCEPT ![c] = FALSE]
    /\ irq' = [irq EXCEPT ![c] = "leave"]
    /\ irq_switch_flag' = [irq_switch_flag EXCEPT ![c] = TRUE]
    /\ UNCHANGED <<stat, yield, oncpu, prio, remaining_tick, timer, critical, pc, target,
                   rq, current, owed>>

\* Mutant of rt_scheduler_do_irq_switch: the request is dropped when the
\* scheduler is locked, and a critical section does not protect.
do_irq_switch_in_critical(c) ==
    /\ irq[c] = "leave" /\ LockFree(c)
    /\ irq' = [irq EXCEPT ![c] = "none"]
    /\ irq_switch_flag' = [irq_switch_flag EXCEPT ![c] = FALSE]
    /\ IF irq_switch_flag[c] /\ anything_ready(c) THEN switch(c, yield[current[c]]) ELSE no_switch
    /\ UNCHANGED <<prio, remaining_tick, timer, critical, pc, target>>

\* rt_interrupt_leave and rt_scheduler_do_irq_switch.
rt_scheduler_do_irq_switch(c) ==
    LET armed == irq_switch_flag[c] /\ critical[current[c]] = 0 IN
    /\ irq[c] = "leave" /\ LockFree(c)
    /\ irq' = [irq EXCEPT ![c] = "none"]
    /\ irq_switch_flag' = [irq_switch_flag EXCEPT ![c] = @ /\ ~armed]
    /\ IF armed /\ anything_ready(c) THEN switch(c, yield[current[c]]) ELSE no_switch
    /\ UNCHANGED <<prio, remaining_tick, timer, critical, pc, target>>

Next ==
    \E c \in CPUs :
        \/ rt_system_scheduler_start(c)
        \/ rt_schedule(c)
        \/ rt_thread_yield(c)
        \/ \E timed \in BOOLEAN : rt_thread_suspend(c, timed)
        \/ rt_thread_resume_locked(c)
        \/ rt_enter_critical(c) \/ rt_exit_critical(c)
        \/ thread_exit(c)
        \/ \E resched \in BOOLEAN : rt_thread_delete_locked(c, resched)
        \/ rt_tick_increase(c) \/ rt_timer_check(c)
        \/ rt_scheduler_ipi_handler(c)
        \/ rt_scheduler_do_irq_switch(c)
        \/ \E t \in Threads :
              \/ rt_thread_startup(c, t)
              \/ ipc_wakeup(c, t)
              \/ rt_thread_resume(c, t)
              \/ rt_thread_delete(c, t)
              \/ thread_timeout(c, t)
              \/ device_isr(c, t)
              \/ \E p \in NewPrios : change_priority(c, t, p)

Spec == Init /\ [][Next]_vars

\* Thread t goes on with the call it is in.
Goes_on(t) ==
    \E c \in CPUs :
        /\ current[c] = t
        /\ \/ rt_schedule(c) \/ rt_thread_resume_locked(c)
           \/ \E resched \in BOOLEAN : rt_thread_delete_locked(c, resched)

\* Handlers end; the tick comes again, an interrupt that is pending is taken,
\* and a thread that gets the CPU again and again executes its instructions.
FairSpec ==
    /\ Spec
    /\ \A c \in CPUs :
          /\ WF_vars(rt_system_scheduler_start(c))
          /\ WF_vars(rt_timer_check(c))
          /\ WF_vars(rt_scheduler_do_irq_switch(c))
          /\ SF_vars(rt_tick_increase(c))
          /\ SF_vars(rt_scheduler_ipi_handler(c))
    /\ \A t \in Threads \ Idlers : SF_vars(Goes_on(t))

-----------------------------------------------------------------------------

Occurs(t, q, p) == InList(rq[q].list[p], t)

(***************************************************************************)
(* The ready queues hold exactly the READY threads, each once, in the list *)
(* of its binding and its current priority, and a group bit is set exactly *)
(* for a list that is not empty: else the head of an empty list would be   *)
(* run, or a ready thread never.  (Between the two sections of a delete the*)
(* thread is READY and queued nowhere.)                                    *)
(***************************************************************************)
QueuesHoldReady ==
    /\ \A q \in Queues, p \in Prios :
          /\ p \in rq[q].group <=> rq[q].list[p] # << >>
          /\ Once(rq[q].list[p])
    /\ \A t \in Threads, q \in Queues, p \in Prios :
          Occurs(t, q, p) <=>
              /\ stat[t] = "READY" /\ ~BeingDeleted(t)
              /\ q = Bind[t] /\ p = prio[t]

(***************************************************************************)
(* A thread runs on one CPU at a time and the kernel knows on which:       *)
(* oncpu, current_thread and the RUNNING state agree, also while a thread  *)
(* that has suspended itself is resumed by another CPU before it is off.   *)
(***************************************************************************)
OneCpuPerThread ==
    /\ \A c \in CPUs, t \in Threads : current[c] = t <=> oncpu[t] = c
    /\ \A t \in Threads :
          /\ stat[t] = "RUNNING" => oncpu[t] # None
          /\ stat[t] \in {"INIT", "READY"} => oncpu[t] = None
          /\ oncpu[t] # None /\ Bind[t] # None => oncpu[t] = Bind[t]

(***************************************************************************)
(* A blocking call returns only after the thread was made runnable again:  *)
(* past rt_schedule, a thread that executes is RUNNING.                    *)
(***************************************************************************)
BlockedDoNotRun ==
    \A t \in Threads :
        oncpu[t] # None /\ pc[t] # "sched" => stat[t] = "RUNNING"

(***************************************************************************)
(* _thread_timeout's assertion: a thread whose timer is armed is suspended.*)
(***************************************************************************)
TimeoutFindsSuspended ==
    \A t \in Threads : timer[t] => stat[t] = "SUSPEND"

\* Nothing on c is about to reschedule: no interrupt, request or call.
Settled(c) ==
    /\ current[c] # None
    /\ irq[c] = "none" /\ ~irq_switch_flag[c] /\ ~ipi[c] /\ ~owed[c]
    /\ pc[current[c]] = "user" /\ critical[current[c]] = 0

(***************************************************************************)
(* No ready thread is forgotten: whenever a CPU has no rescheduling ahead, *)
(* it runs something at least as urgent as every thread ready for it.      *)
(***************************************************************************)
HighestRuns ==
    \A c \in CPUs : Settled(c) =>
        \A t \in Threads :
            stat[t] = "READY" /\ ~BeingDeleted(t) /\ Bind[t] \in {None, c} =>
                prio[current[c]] <= prio[t]

(***************************************************************************)
(* rt_enter_critical keeps the thread on its CPU, whatever the interrupts  *)
(* and the other CPUs ask for.                                             *)
(***************************************************************************)
CriticalStays ==
    [][\A t \in Threads : critical[t] > 0 => oncpu'[t] = oncpu[t]]_vars

\* Ready for a CPU, and nobody is deleting it.
Queued(t) == stat[t] = "READY" /\ ~BeingDeleted(t)

\* Every CPU has a thread bound to it that can run.
KeptBusy ==
    \A c \in CPUs : \E u \in Threads \ Idlers :
        Bind[u] = c /\ stat[u] \in {"READY", "RUNNING"}

(***************************************************************************)
(* Threads of one priority share the CPUs: if none of them is raised above *)
(* the others, one that is ready gets to run, by the time slice of the one *)
(* it waits for.  Only an unbound thread may wait for ever, and only while *)
(* every CPU again and again has threads of its own: a CPU prefers its own *)
(* table to the shared one, also when both are as urgent.                  *)
(***************************************************************************)
EqualsTakeTurns ==
    \A t \in Threads \ Idlers :
        <>[]Queued(t) => Bind[t] = None /\ []<>KeptBusy

(***************************************************************************)
(* A deleted thread is gone: it is in no ready queue and starts nowhere    *)
(* ("The thread object will be removed from thread queue").                *)
(***************************************************************************)
DeletedIsGone ==
    \A t \in Threads : stat[t] = "CLOSE" =>
        \A q \in Queues, p \in Prios : ~Occurs(t, q, p)

(***************************************************************************)
(* A thread that has ended stays so: nothing that was under way when it    *)
(* exited or was deleted (a resume, a timeout, a rescheduling) brings it   *)
(* back while its memory is being freed.                                   *)
(***************************************************************************)
EndedStaysEnded ==
    [][\A t \in Threads : stat[t] = "CLOSE" => stat'[t] = "CLOSE"]_vars
=============================================================================
