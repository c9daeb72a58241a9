------------------------------ MODULE CpusLock ------------------------------
(***************************************************************************)
(* The lock protocol of the SMP kernel (src/cpu.c, the critical sections of*)
(* src/scheduler.c, src/irq.c): what rt_hw_interrupt_disable really is.    *)
(* One lock, _cpus_lock, is taken by a CPU on behalf of its current thread,*)
(* counted in three nesting counters of that thread, and handed from one   *)
(* thread to the next when rt_schedule switches with the lock held.        *)
(*                                                                         *)
(* Which thread the scheduler picks is left open here (Scheduler models    *)
(* it); the spinlock is the one TicketLock shows correct, seen as a holder.*)
(***************************************************************************)
EXTENDS Naturals

CONSTANTS
    CPUs,
    Threads,
    None,           \* RT_NULL
    MaxNest         \* bound on the depth of nested sections

ASSUME NoneIsNobody == None \notin CPUs /\ None \notin Threads
ASSUME MaxNestNat == MaxNest \in Nat

VARIABLES
    holder,         \* the CPU that holds _cpus_lock, or None
    spinning,       \* per CPU: inside rt_hw_spin_lock(&_cpus_lock)
    current,        \* per CPU: pcpu->current_thread
    irq,            \* per CPU: the stage of vector_irq, or "none"
    irq_nest,       \* per CPU: pcpu->irq_nest
    irq_switch_flag,\* per CPU: pcpu->irq_switch_flag
    cpus_lock_nest,         \* per thread
    scheduler_lock_nest,    \* per thread
    critical_lock_nest,     \* per thread
    spins,          \* per thread: how many rt_spinlocks it holds
    pc              \* per thread: where its own code is

clVars == <<holder, spinning, current, irq, irq_nest, irq_switch_flag,
            cpus_lock_nest, scheduler_lock_nest, critical_lock_nest, spins, pc>>

irqVars == <<irq, irq_nest, irq_switch_flag>>

\* "call": about to call rt_schedule with IRQs on; "calloff": with IRQs off;
\* "sched": inside rt_schedule; "crit": inside rt_enter_critical.
PCs == {"run", "call", "calloff", "sched", "crit"}

IrqStages == {"none", "enter", "handler", "leave", "switch"}

TypeOK ==
    /\ holder \in CPUs \cup {None}
    /\ spinning \in [CPUs -> BOOLEAN]
    /\ current \in [CPUs -> Threads \cup {None}]
    /\ irq \in [CPUs -> IrqStages]
    /\ irq_nest \in [CPUs -> Nat]
    /\ irq_switch_flag \in [CPUs -> BOOLEAN]
    /\ cpus_lock_nest \in [Threads -> Nat]
    /\ scheduler_lock_nest \in [Threads -> Nat]
    /\ critical_lock_nest \in [Threads -> Nat]
    /\ spins \in [Threads -> Nat]
    /\ pc \in [Threads -> PCs]

\* Every CPU is before its rt_hw_spin_lock(&_cpus_lock) of the boot code.
Init ==
    /\ holder = None
    /\ spinning = [c \in CPUs |-> FALSE]
    /\ current = [c \in CPUs |-> None]
    /\ irq = [c \in CPUs |-> "none"]
    /\ irq_nest = [c \in CPUs |-> 0]
    /\ irq_switch_flag = [c \in CPUs |-> FALSE]
    /\ cpus_lock_nest = [t \in Threads |-> 0]
    /\ scheduler_lock_nest = [t \in Threads |-> 0]
    /\ critical_lock_nest = [t \in Threads |-> 0]
    /\ spins = [t \in Threads |-> 0]
    /\ pc = [t \in Threads |-> "run"]

Running(t) == \E c \in CPUs : current[c] = t

-----------------------------------------------------------------------------
(* The pieces every operation is made of; t is current on c. *)

\* Mutant of lock: the test of lock_nest after the increment.
lock_after_increment(c, t) ==
    /\ cpus_lock_nest' = [cpus_lock_nest EXCEPT ![t] = @ + 1]
    /\ scheduler_lock_nest' = [scheduler_lock_nest EXCEPT ![t] = @ + 1]
    /\ spinning' = [spinning EXCEPT ![c] = cpus_lock_nest[t] = 1]
    /\ UNCHANGED holder

\* rt_cpus_lock: counts, and spins for the lock when it is the outermost one.
lock(c, t) ==
    /\ cpus_lock_nest' = [cpus_lock_nest EXCEPT ![t] = @ + 1]
    /\ IF cpus_lock_nest[t] = 0
       THEN /\ scheduler_lock_nest' = [scheduler_lock_nest EXCEPT ![t] = @ + 1]
            /\ spinning' = [spinning EXCEPT ![c] = TRUE]
       ELSE UNCHANGED <<scheduler_lock_nest, spinning>>
    /\ UNCHANGED holder

\* Mutant of unlock: the scheduler stays locked after the outermost unlock.
unlock_keeps_scheduler(t) ==
    /\ cpus_lock_nest' = [cpus_lock_nest EXCEPT ![t] = @ - 1]
    /\ UNCHANGED scheduler_lock_nest
    /\ holder' = IF cpus_lock_nest[t] = 1 THEN None ELSE holder
    /\ UNCHANGED spinning

\* rt_cpus_unlock: the outermost one gives the lock back.
unlock(t) ==
    /\ cpus_lock_nest' = [cpus_lock_nest EXCEPT ![t] = @ - 1]
    /\ IF cpus_lock_nest[t] = 1
       THEN /\ scheduler_lock_nest' = [scheduler_lock_nest EXCEPT ![t] = @ - 1]
            /\ holder' = None
       ELSE UNCHANGED <<scheduler_lock_nest, holder>>
    /\ UNCHANGED spinning

\* Mutant of rt_cpus_lock_status_restore: the lock is always given back.
always_unlock(c, to) ==
    /\ current' = [current EXCEPT ![c] = to]
    /\ holder' = None

\* The context switch keeps the lock exactly when to was switched out with it.
rt_cpus_lock_status_restore(c, to) ==
    /\ current' = [current EXCEPT ![c] = to]
    /\ holder' = IF cpus_lock_nest[to] = 0 THEN None ELSE holder

\* rt_hw_spin_lock(&_cpus_lock) returns.
acquire(c) ==
    /\ spinning[c]
    /\ holder = None
    /\ holder' = c
    /\ spinning' = [spinning EXCEPT ![c] = FALSE]
    /\ UNCHANGED <<current, irqVars, cpus_lock_nest, scheduler_lock_nest,
                   critical_lock_nest, spins, pc>>

-----------------------------------------------------------------------------
(* Boot: rtthread_startup and secondary_cpu_c_start. *)

boot_lock(c) ==
    /\ current[c] = None
    /\ ~spinning[c]
    /\ holder # c
    /\ spinning' = [spinning EXCEPT ![c] = TRUE]
    /\ UNCHANGED <<holder, current, irqVars, cpus_lock_nest, scheduler_lock_nest,
                   critical_lock_nest, spins, pc>>

rt_system_scheduler_start(c, to) ==
    /\ current[c] = None
    /\ holder = c
    /\ ~Running(to)
    /\ rt_cpus_lock_status_restore(c, to)
    /\ UNCHANGED <<spinning, irqVars, cpus_lock_nest, scheduler_lock_nest,
                   critical_lock_nest, spins, pc>>

-----------------------------------------------------------------------------
(* Thread context. *)

InThread(c) == current[c] # None /\ irq[c] = "none" /\ ~spinning[c]

rt_cpus_lock(c) ==
    LET t == current[c] IN
    /\ InThread(c)
    /\ pc[t] = "run"
    /\ cpus_lock_nest[t] < MaxNest
    /\ lock(c, t)
    /\ UNCHANGED <<current, irqVars, critical_lock_nest, spins, pc>>

\* A section opened by rt_cpus_lock is closed by rt_cpus_unlock; the levels
\* of rt_enter_critical are closed by rt_exit_critical.
rt_cpus_unlock(c) ==
    LET t == current[c] IN
    /\ InThread(c)
    /\ pc[t] = "run"
    /\ cpus_lock_nest[t] > critical_lock_nest[t]
    /\ unlock(t)
    /\ UNCHANGED <<current, irqVars, critical_lock_nest, spins, pc>>

rt_enter_critical(c) ==
    LET t == current[c] IN
    /\ InThread(c)
    /\ pc[t] = "run"
    /\ cpus_lock_nest[t] < MaxNest
    /\ lock(c, t)
    /\ pc' = [pc EXCEPT ![t] = "crit"]
    /\ UNCHANGED <<current, irqVars, critical_lock_nest, spins>>

\* The rest of rt_enter_critical, once the lock is held; IRQs are on again
\* afterwards, with the lock still held.
enter_critical_locked(c) ==
    LET t == current[c] IN
    /\ InThread(c)
    /\ pc[t] = "crit"
    /\ critical_lock_nest' = [critical_lock_nest EXCEPT ![t] = @ + 1]
    /\ scheduler_lock_nest' = [scheduler_lock_nest EXCEPT ![t] = @ + 1]
    /\ pc' = [pc EXCEPT ![t] = "run"]
    /\ UNCHANGED <<holder, spinning, current, irqVars, cpus_lock_nest, spins>>

\* Mutant of rt_exit_critical: every level is taken for the outermost one.
exit_critical_double(c) ==
    LET t == current[c] IN
    /\ InThread(c)
    /\ pc[t] = "run"
    /\ critical_lock_nest[t] > 0
    /\ critical_lock_nest' = [critical_lock_nest EXCEPT ![t] = @ - 1]
    /\ cpus_lock_nest' = [cpus_lock_nest EXCEPT ![t] = @ - 1]
    /\ scheduler_lock_nest' = [scheduler_lock_nest EXCEPT ![t] = @ - 2]
    /\ holder' = IF cpus_lock_nest[t] = 1 THEN None ELSE holder
    /\ pc' = [pc EXCEPT ![t] = "run"]
    /\ UNCHANGED <<spinning, current, irqVars, spins>>

rt_exit_critical(c) ==
    LET t == current[c]
        outermost == cpus_lock_nest[t] = 1
        sched == scheduler_lock_nest[t] - (IF outermost THEN 2 ELSE 1)
    IN
    /\ InThread(c)
    /\ pc[t] = "run"
    /\ critical_lock_nest[t] > 0
    /\ critical_lock_nest' = [critical_lock_nest EXCEPT ![t] = @ - 1]
    /\ cpus_lock_nest' = [cpus_lock_nest EXCEPT ![t] = @ - 1]
    /\ scheduler_lock_nest' = [scheduler_lock_nest EXCEPT ![t] = sched]
    /\ holder' = IF outermost THEN None ELSE holder
    /\ pc' = [pc EXCEPT ![t] = IF sched = 0 THEN "call" ELSE "run"]
    /\ UNCHANGED <<spinning, current, irqVars, spins>>

\* rt_spin_lock and rt_spin_lock_irqsave as the scheduler sees them; the
\* second only masks the IRQs in between, which removes behaviours.
rt_spin_lock(c) ==
    LET t == current[c] IN
    /\ InThread(c)
    /\ pc[t] = "run"
    /\ spins[t] < MaxNest
    /\ scheduler_lock_nest' = [scheduler_lock_nest EXCEPT ![t] = @ + 1]
    /\ spins' = [spins EXCEPT ![t] = @ + 1]
    /\ UNCHANGED <<holder, spinning, current, irqVars, cpus_lock_nest,
                   critical_lock_nest, pc>>

\* _cpu_preempt_enable calls rt_schedule with the local IRQs masked.
rt_spin_unlock(c) ==
    LET t == current[c] IN
    /\ InThread(c)
    /\ pc[t] = "run"
    /\ spins[t] > 0
    /\ scheduler_lock_nest' = [scheduler_lock_nest EXCEPT ![t] = @ - 1]
    /\ spins' = [spins EXCEPT ![t] = @ - 1]
    /\ pc' = [pc EXCEPT ![t] = "calloff"]
    /\ UNCHANGED <<holder, spinning, current, irqVars, cpus_lock_nest,
                   critical_lock_nest>>

\* Any thread may call rt_schedule, also inside its own sections.
rt_schedule(c) ==
    LET t == current[c] IN
    /\ InThread(c)
    /\ pc[t] \in {"run", "call", "calloff"}
    /\ cpus_lock_nest[t] < MaxNest + 1
    /\ lock(c, t)
    /\ pc' = [pc EXCEPT ![t] = "sched"]
    /\ UNCHANGED <<current, irqVars, critical_lock_nest, spins>>

\* Exactly the level that rt_schedule's own lock contributes.
may_switch(t) == scheduler_lock_nest[t] = 1

rt_schedule_switch(c, to) ==
    LET t == current[c] IN
    /\ InThread(c)
    /\ pc[t] = "sched"
    /\ may_switch(t)
    /\ ~Running(to)
    /\ rt_cpus_lock_status_restore(c, to)
    /\ UNCHANGED <<spinning, irqVars, cpus_lock_nest, scheduler_lock_nest,
                   critical_lock_nest, spins, pc>>

\* The end of rt_schedule: not switched, or switched back in.
rt_schedule_return(c) ==
    LET t == current[c] IN
    /\ InThread(c)
    /\ pc[t] = "sched"
    /\ unlock(t)
    /\ pc' = [pc EXCEPT ![t] = "run"]
    /\ UNCHANGED <<current, irqVars, critical_lock_nest, spins>>

-----------------------------------------------------------------------------
(* Interrupt context: vector_irq runs rt_interrupt_enter, the handler,     *)
(* rt_interrupt_leave and rt_scheduler_do_irq_switch with IRQs masked, all *)
(* of them on the counters of the interrupted thread.                      *)

InIrq(c, stage) == irq[c] = stage /\ ~spinning[c]

\* The interrupt code holds a section of its own.
IrqLocked(c) == cpus_lock_nest[current[c]] > critical_lock_nest[current[c]]

\* IRQs are masked from rt_cpus_lock to rt_cpus_unlock, inside rt_schedule and
\* rt_enter_critical, not between rt_enter_critical and rt_exit_critical.
vector_irq(c) ==
    LET t == current[c] IN
    /\ InThread(c)
    /\ pc[t] \in {"run", "call"}
    /\ cpus_lock_nest[t] = critical_lock_nest[t]
    /\ irq' = [irq EXCEPT ![c] = "enter"]
    /\ UNCHANGED <<holder, spinning, current, irq_nest, irq_switch_flag,
                   cpus_lock_nest, scheduler_lock_nest, critical_lock_nest,
                   spins, pc>>

irq_lock(c) ==
    LET t == current[c] IN
    /\ irq[c] # "none" /\ ~spinning[c]
    /\ IrqLocked(c) => irq[c] = "handler" /\ cpus_lock_nest[t] < MaxNest
    /\ lock(c, t)
    /\ UNCHANGED <<current, irqVars, critical_lock_nest, spins, pc>>

rt_interrupt_enter(c) ==
    /\ InIrq(c, "enter") /\ IrqLocked(c)
    /\ irq_nest' = [irq_nest EXCEPT ![c] = @ + 1]
    /\ irq' = [irq EXCEPT ![c] = "handler"]
    /\ unlock(current[c])
    /\ UNCHANGED <<current, irq_switch_flag, critical_lock_nest, spins, pc>>

\* The handler leaves a section, in which it may have called rt_schedule.
handler_unlock(c) ==
    /\ InIrq(c, "handler") /\ IrqLocked(c)
    /\ \E wants \in BOOLEAN :
          irq_switch_flag' = [irq_switch_flag EXCEPT ![c] = @ \/ wants]
    /\ unlock(current[c])
    /\ UNCHANGED <<current, irq, irq_nest, critical_lock_nest, spins, pc>>

handler_return(c) ==
    /\ InIrq(c, "handler") /\ ~IrqLocked(c)
    /\ irq' = [irq EXCEPT ![c] = "leave"]
    /\ UNCHANGED <<holder, spinning, current, irq_nest, irq_switch_flag,
                   cpus_lock_nest, scheduler_lock_nest, critical_lock_nest,
                   spins, pc>>

rt_interrupt_leave(c) ==
    /\ InIrq(c, "leave") /\ IrqLocked(c)
    /\ irq_nest' = [irq_nest EXCEPT ![c] = @ - 1]
    /\ irq' = [irq EXCEPT ![c] = "switch"]
    /\ unlock(current[c])
    /\ UNCHANGED <<current, irq_switch_flag, critical_lock_nest, spins, pc>>

\* rt_scheduler_do_irq_switch without a switch.
irq_no_switch(c) ==
    LET t == current[c]
        armed == irq_switch_flag[c] /\ may_switch(t) /\ irq_nest[c] = 0 IN
    /\ InIrq(c, "switch") /\ IrqLocked(c)
    /\ irq_switch_flag' = [irq_switch_flag EXCEPT ![c] = @ /\ ~armed]
    /\ irq' = [irq EXCEPT ![c] = "none"]
    /\ unlock(t)
    /\ UNCHANGED <<current, irq_nest, critical_lock_nest, spins, pc>>

\* Mutant of rt_scheduler_do_irq_switch: the interrupted thread keeps the level
\* of the interrupt's own section, as rt_schedule lets it.
do_irq_switch_keeps_nest(c, to) ==
    LET t == current[c] IN
    /\ InIrq(c, "switch") /\ IrqLocked(c)
    /\ irq_switch_flag[c] /\ may_switch(t) /\ irq_nest[c] = 0
    /\ ~Running(to)
    /\ irq_switch_flag' = [irq_switch_flag EXCEPT ![c] = FALSE]
    /\ irq' = [irq EXCEPT ![c] = "none"]
    /\ rt_cpus_lock_status_restore(c, to)
    /\ UNCHANGED <<spinning, irq_nest, cpus_lock_nest, scheduler_lock_nest,
                   critical_lock_nest, spins, pc>>

\* The interrupted thread resumes outside rt_schedule, so its share of the
\* section is dropped before the switch.
rt_scheduler_do_irq_switch(c, to) ==
    LET t == current[c] IN
    /\ InIrq(c, "switch") /\ IrqLocked(c)
    /\ irq_switch_flag[c] /\ may_switch(t) /\ irq_nest[c] = 0
    /\ ~Running(to)
    /\ irq_switch_flag' = [irq_switch_flag EXCEPT ![c] = FALSE]
    /\ irq' = [irq EXCEPT ![c] = "none"]
    /\ cpus_lock_nest' = [cpus_lock_nest EXCEPT ![t] = @ - 1]
    /\ scheduler_lock_nest' = [scheduler_lock_nest EXCEPT ![t] = @ - 1]
    /\ rt_cpus_lock_status_restore(c, to)
    /\ UNCHANGED <<spinning, irq_nest, critical_lock_nest, spins, pc>>

Next ==
    \E c \in CPUs :
        \/ acquire(c)
        \/ boot_lock(c)
        \/ rt_cpus_lock(c) \/ rt_cpus_unlock(c)
        \/ rt_enter_critical(c) \/ enter_critical_locked(c) \/ rt_exit_critical(c)
        \/ rt_spin_lock(c) \/ rt_spin_unlock(c)
        \/ rt_schedule(c) \/ rt_schedule_return(c)
        \/ vector_irq(c) \/ irq_lock(c)
        \/ rt_interrupt_enter(c) \/ handler_unlock(c) \/ handler_return(c)
        \/ rt_interrupt_leave(c) \/ irq_no_switch(c)
        \/ \E to \in Threads :
              \/ rt_system_scheduler_start(c, to)
              \/ rt_schedule_switch(c, to)
              \/ rt_scheduler_do_irq_switch(c, to)

Spec == Init /\ [][Next]_clVars

-----------------------------------------------------------------------------

\* The code that c executes now is inside a section of its current thread.
InSection(c) ==
    /\ current[c] # None
    /\ cpus_lock_nest[current[c]] > 0
    /\ ~spinning[c]

(***************************************************************************)
(* rt_hw_interrupt_disable makes a section exclusive over all the CPUs,    *)
(* although it is entered by one thread and may be left by another one.    *)
(***************************************************************************)
MutualExclusion ==
    \A c, d \in CPUs : InSection(c) /\ InSection(d) => c = d

(***************************************************************************)
(* The counters and the spinlock agree: a CPU holds _cpus_lock exactly when*)
(* its current thread counts a section, through every switch that hands the*)
(* lock over, from rt_schedule, the interrupt return and the boot code.    *)
(***************************************************************************)
LockFollowsThread ==
    \A c \in CPUs : current[c] # None => (holder = c <=> InSection(c))

(***************************************************************************)
(* scheduler_lock_nest is what rt_schedule believes it is when it tests it *)
(* for 1: one for the section, one per critical level and spinlock.        *)
(***************************************************************************)
CountsAdd(t) ==
    scheduler_lock_nest[t] =
        critical_lock_nest[t] + spins[t] + (IF cpus_lock_nest[t] > 0 THEN 1 ELSE 0)

SchedulerLockCounts == \A t \in Threads : CountsAdd(t)

(***************************************************************************)
(* A thread that is off its CPU counts a section exactly if it waits inside*)
(* rt_schedule; one taken off by an interrupt counts none, and neither is  *)
(* ever taken off inside a critical section or while it holds a spinlock.  *)
(***************************************************************************)
OffCpuHoldsNothing ==
    \A t \in Threads :
        ~Running(t) =>
            /\ cpus_lock_nest[t] > 0 <=> pc[t] = "sched"
            /\ critical_lock_nest[t] = 0
            /\ spins[t] = 0

-----------------------------------------------------------------------------
(* What makes these inductive. *)

OneCpuEach ==
    \A c, d \in CPUs : current[c] = current[d] /\ current[c] # None => c = d

\* What the interrupt stage of a CPU says about its thread.
StageOK(c) ==
    /\ current[c] = None => irq[c] = "none" /\ (holder = c => ~spinning[c])
    /\ irq_nest[c] = IF irq[c] \in {"handler", "leave"} THEN 1 ELSE 0
    /\ current[c] # None =>
         /\ spinning[c] => /\ cpus_lock_nest[current[c]] = 1
                           /\ critical_lock_nest[current[c]] = 0
         /\ irq[c] # "none" => pc[current[c]] \in {"run", "call"}
         /\ irq[c] \in {"enter", "leave", "switch"} =>
                cpus_lock_nest[current[c]] <= critical_lock_nest[current[c]] + 1

\* A critical level is also a level of the section, and rt_schedule and
\* rt_enter_critical add one of their own.
ThreadOK(t) ==
    /\ critical_lock_nest[t] <= cpus_lock_nest[t]
    /\ pc[t] \in {"sched", "crit"} => cpus_lock_nest[t] > critical_lock_nest[t]

LockInv ==
    /\ TypeOK
    /\ OneCpuEach
    /\ \A c \in CPUs : StageOK(c)
    /\ \A t \in Threads : ThreadOK(t)
    /\ LockFollowsThread
    /\ SchedulerLockCounts
    /\ OffCpuHoldsNothing
=============================================================================
