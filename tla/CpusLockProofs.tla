--------------------------- MODULE CpusLockProofs ---------------------------
(***************************************************************************)
(* The cpus lock excludes and the nesting counters are right, for any      *)
(* numbers of CPUs and threads.                                            *)
(***************************************************************************)
EXTENDS CpusLock, TLAPS

\* A step of CPU c that changes nothing but the counters of its thread t, its
\* own stage and the lock.
OnlyLocal(c, t) ==
    /\ current' = current
    /\ \A u \in Threads \ {t} :
          /\ cpus_lock_nest'[u] = cpus_lock_nest[u]
          /\ scheduler_lock_nest'[u] = scheduler_lock_nest[u]
          /\ critical_lock_nest'[u] = critical_lock_nest[u]
          /\ spins'[u] = spins[u]
          /\ pc'[u] = pc[u]
    /\ \A d \in CPUs \ {c} :
          /\ spinning'[d] = spinning[d]
          /\ irq'[d] = irq[d]
          /\ irq_nest'[d] = irq_nest[d]

\* The lock changes hands only between c and nobody, and follows the thread.
LockMoves(c) ==
    /\ \/ holder' = holder
       \/ holder = c /\ holder' = None
       \/ holder = None /\ holder' = c
    /\ current[c] # None => (holder' = c <=> InSection(c)')

\* What rt_cpus_lock does for the thread t that is current on c.
Locks(c, t) ==
    /\ cpus_lock_nest' \in [Threads -> Nat]
    /\ scheduler_lock_nest' \in [Threads -> Nat]
    /\ spinning' \in [CPUs -> BOOLEAN]
    /\ holder' = holder
    /\ cpus_lock_nest'[t] = cpus_lock_nest[t] + 1
    /\ scheduler_lock_nest'[t] =
          scheduler_lock_nest[t] + (IF cpus_lock_nest[t] = 0 THEN 1 ELSE 0)
    /\ spinning'[c] <=> cpus_lock_nest[t] = 0
    /\ \A u \in Threads \ {t} : /\ cpus_lock_nest'[u] = cpus_lock_nest[u]
                               /\ scheduler_lock_nest'[u] = scheduler_lock_nest[u]
    /\ \A d \in CPUs \ {c} : spinning'[d] = spinning[d]
    /\ LockMoves(c)

\* What rt_cpus_unlock does.
Unlocks(c, t) ==
    /\ cpus_lock_nest' \in [Threads -> Nat]
    /\ scheduler_lock_nest' \in [Threads -> Nat]
    /\ spinning' = spinning
    /\ holder' \in CPUs \cup {None}
    /\ cpus_lock_nest'[t] = cpus_lock_nest[t] - 1
    /\ scheduler_lock_nest'[t] =
          scheduler_lock_nest[t] - (IF cpus_lock_nest[t] = 1 THEN 1 ELSE 0)
    /\ \A u \in Threads \ {t} : /\ cpus_lock_nest'[u] = cpus_lock_nest[u]
                               /\ scheduler_lock_nest'[u] = scheduler_lock_nest[u]
    /\ LockMoves(c)

\* What is known about the thread t that is current on c.
Facts(c, t) ==
    /\ t \in Threads
    /\ \A d \in CPUs : current[d] = t => d = c
    /\ cpus_lock_nest[t] \in Nat /\ scheduler_lock_nest[t] \in Nat
    /\ critical_lock_nest[t] \in Nat /\ spins[t] \in Nat
    /\ spinning[c] \in BOOLEAN
    /\ StageOK(c) /\ ThreadOK(t) /\ CountsAdd(t)
    /\ holder = c <=> InSection(c)
    /\ c # None

LEMMA CurrentFacts ==
    ASSUME LockInv, NEW c \in CPUs, current[c] # None
    PROVE  Facts(c, current[c])
  BY NoneIsNobody
  DEF Facts, LockInv, TypeOK, OneCpuEach, LockFollowsThread, SchedulerLockCounts

(***************************************************************************)
(* A local step preserves the invariant if it does so for its own CPU and  *)
(* thread: the others see no difference.                                   *)
(***************************************************************************)
LEMMA LocalStep ==
    ASSUME LockInv, TypeOK', NEW c \in CPUs, current[c] # None,
           OnlyLocal(c, current[c]), LockMoves(c),
           StageOK(c)', ThreadOK(current[c])', CountsAdd(current[c])'
    PROVE  LockInv'
  <1> DEFINE t == current[c]
  <1>1. t \in Threads /\ t # None /\ c # None /\ (\A d \in CPUs : current[d] = t => d = c)
    BY CurrentFacts DEF Facts
  <1>2. current' = current /\ t' = t
    BY DEF OnlyLocal
  <1>3. OneCpuEach'
    BY <1>2 DEF LockInv, OneCpuEach
  <1>4. ASSUME NEW d \in CPUs, d # c PROVE StageOK(d)' /\ (holder' = d <=> holder = d)
    <2>1. holder' = d <=> holder = d
      BY <1>4, <1>1, NoneIsNobody DEF LockMoves
    <2>2. /\ spinning'[d] = spinning[d] /\ irq'[d] = irq[d] /\ irq_nest'[d] = irq_nest[d]
          /\ current'[d] = current[d]
      BY <1>4 DEF OnlyLocal
    <2>3. current[d] # None =>
            /\ cpus_lock_nest'[current[d]] = cpus_lock_nest[current[d]]
            /\ critical_lock_nest'[current[d]] = critical_lock_nest[current[d]]
            /\ pc'[current[d]] = pc[current[d]]
      BY <1>4, <1>1 DEF OnlyLocal, LockInv, TypeOK
    <2>4. StageOK(d)
      BY DEF LockInv
    <2> QED
      BY <2>1, <2>2, <2>3, <2>4 DEF StageOK
  <1>5. \A d \in CPUs : StageOK(d)'
    BY <1>4
  <1>6. \A u \in Threads : ThreadOK(u)' /\ CountsAdd(u)'
    <2> SUFFICES ASSUME NEW u \in Threads, u # t PROVE ThreadOK(u)' /\ CountsAdd(u)'
      BY <1>2
    <2>1. ThreadOK(u) /\ CountsAdd(u)
      BY DEF LockInv, SchedulerLockCounts
    <2> QED
      BY <2>1 DEF ThreadOK, CountsAdd, OnlyLocal
  <1>7. LockFollowsThread'
    <2> SUFFICES ASSUME NEW d \in CPUs, current'[d] # None
                 PROVE  holder' = d <=> InSection(d)'
      BY DEF LockFollowsThread
    <2>1. CASE d = c
      BY <2>1 DEF LockMoves
    <2>2. CASE d # c
      <3>1. current[d] \in Threads \ {t} /\ current'[d] = current[d]
        BY <2>2, <1>1, <1>2 DEF LockInv, TypeOK
      <3>2. InSection(d)' <=> InSection(d)
        BY <3>1, <2>2 DEF OnlyLocal, InSection
      <3>3. holder = d <=> InSection(d)
        BY <3>1, <1>2 DEF LockInv, LockFollowsThread
      <3> QED
        BY <3>2, <3>3, <2>2, <1>4
    <2> QED
      BY <2>1, <2>2
  <1>8. OffCpuHoldsNothing'
    <2> SUFFICES ASSUME NEW u \in Threads, ~Running(u)'
                 PROVE  /\ cpus_lock_nest'[u] > 0 <=> pc'[u] = "sched"
                        /\ critical_lock_nest'[u] = 0 /\ spins'[u] = 0
      BY DEF OffCpuHoldsNothing
    <2>1. ~Running(u) /\ u # t
      BY <1>2 DEF Running
    <2> QED
      BY <2>1 DEF OnlyLocal, LockInv, OffCpuHoldsNothing
  <1> QED
    BY <1>3, <1>5, <1>6, <1>7, <1>8 DEF LockInv, SchedulerLockCounts

(***************************************************************************)
(* rt_cpus_lock and rt_cpus_unlock, as effects on the calling thread.      *)
(***************************************************************************)
LEMMA LockEffect ==
    ASSUME LockInv, NEW c \in CPUs, current[c] # None, ~spinning[c],
           lock(c, current[c]), current' = current
    PROVE  Locks(c, current[c])
  <1> DEFINE t == current[c]
  <1>1. t \in Threads /\ cpus_lock_nest[t] \in Nat /\ scheduler_lock_nest[t] \in Nat
        /\ (holder = c <=> InSection(c))
    BY CurrentFacts DEF Facts
  <1>2. /\ cpus_lock_nest \in [Threads -> Nat] /\ scheduler_lock_nest \in [Threads -> Nat]
        /\ spinning \in [CPUs -> BOOLEAN]
    BY DEF LockInv, TypeOK
  <1>3. t = current'[c]
    OBVIOUS
  <1>4. /\ cpus_lock_nest' = [cpus_lock_nest EXCEPT ![t] = @ + 1]
        /\ IF cpus_lock_nest[t] = 0
            THEN /\ scheduler_lock_nest' = [scheduler_lock_nest EXCEPT ![t] = @ + 1]
                 /\ spinning' = [spinning EXCEPT ![c] = TRUE]
            ELSE scheduler_lock_nest' = scheduler_lock_nest /\ spinning' = spinning
        /\ holder' = holder
    BY DEF lock
  <1> HIDE DEF t
  <1>5. CASE cpus_lock_nest[t] = 0
    <2>1. spinning'[c] = TRUE /\ (\A d \in CPUs \ {c} : spinning'[d] = spinning[d])
          /\ spinning' \in [CPUs -> BOOLEAN]
      BY <1>2, <1>4, <1>5
    <2>2. ~InSection(c) /\ ~InSection(c)'
      BY <2>1, <1>5 DEF InSection, t
    <2> QED
      BY <1>1, <1>2, <1>4, <1>5, <2>1, <2>2 DEF LockMoves, Locks, t
  <1>6. CASE cpus_lock_nest[t] # 0
    <2>1. InSection(c) /\ InSection(c)'
      BY <1>1, <1>2, <1>3, <1>4, <1>6 DEF InSection, t
    <2> QED
      BY <1>1, <1>2, <1>4, <1>6, <2>1 DEF LockMoves, Locks, t
  <1> QED
    BY <1>5, <1>6

LEMMA UnlockEffect ==
    ASSUME LockInv, NEW c \in CPUs, current[c] # None, ~spinning[c],
           cpus_lock_nest[current[c]] > 0,
           unlock(current[c]), current' = current
    PROVE  Unlocks(c, current[c])
  <1> DEFINE t == current[c]
  <1>1. t \in Threads /\ cpus_lock_nest[t] \in Nat /\ scheduler_lock_nest[t] \in Nat
        /\ critical_lock_nest[t] \in Nat /\ spins[t] \in Nat
        /\ (holder = c <=> InSection(c)) /\ CountsAdd(t) /\ c # None
    BY CurrentFacts DEF Facts
  <1>2. /\ cpus_lock_nest \in [Threads -> Nat] /\ scheduler_lock_nest \in [Threads -> Nat]
        /\ holder \in CPUs \cup {None}
    BY DEF LockInv, TypeOK
  <1>3. /\ cpus_lock_nest' = [cpus_lock_nest EXCEPT ![t] = @ - 1]
        /\ IF cpus_lock_nest[t] = 1
            THEN /\ scheduler_lock_nest' = [scheduler_lock_nest EXCEPT ![t] = @ - 1]
                 /\ holder' = None
            ELSE scheduler_lock_nest' = scheduler_lock_nest /\ holder' = holder
        /\ spinning' = spinning
    BY DEF unlock
  <1>4. holder = c
    BY <1>1 DEF InSection
  <1>5. cpus_lock_nest[t] > 0
    OBVIOUS
  <1> HIDE DEF t
  <1>6. cpus_lock_nest'[t] = cpus_lock_nest[t] - 1 /\ cpus_lock_nest' \in [Threads -> Nat]
    BY <1>1, <1>2, <1>3, <1>5
  <1>7. scheduler_lock_nest' \in [Threads -> Nat]
        /\ scheduler_lock_nest'[t] =
             scheduler_lock_nest[t] - (IF cpus_lock_nest[t] = 1 THEN 1 ELSE 0)
    BY <1>1, <1>2, <1>3, <1>5 DEF CountsAdd
  <1>8. LockMoves(c)
    <2>1. t = current'[c] /\ current[c] # None /\ ~spinning'[c]
      BY <1>3 DEF t
    <2> QED
      BY <2>1, <1>1, <1>3, <1>4, <1>5, <1>6 DEF LockMoves, InSection
  <1> QED
    BY <1>1, <1>2, <1>3, <1>6, <1>7, <1>8 DEF Unlocks, t

(***************************************************************************)
(* The steps that stay on one thread: a section, a critical section, a     *)
(* spinlock, a call of rt_schedule, an interrupt.                          *)
(***************************************************************************)
LEMMA LocalActions ==
    ASSUME LockInv, NEW cpu \in CPUs,
           \/ rt_cpus_lock(cpu)
           \/ rt_enter_critical(cpu)
           \/ rt_schedule(cpu)
           \/ irq_lock(cpu)
           \/ rt_cpus_unlock(cpu)
           \/ rt_schedule_return(cpu)
           \/ rt_interrupt_enter(cpu)
           \/ handler_unlock(cpu)
           \/ rt_interrupt_leave(cpu)
           \/ irq_no_switch(cpu)
           \/ enter_critical_locked(cpu)
           \/ rt_spin_lock(cpu)
           \/ rt_spin_unlock(cpu)
           \/ vector_irq(cpu)
           \/ handler_return(cpu)
    PROVE  LockInv'
  <1>irq. \A c \in CPUs : irq[c] # "none" => current[c] # None
    BY DEF LockInv, StageOK
  <1>1. ASSUME NEW c \in CPUs, rt_cpus_lock(c) PROVE LockInv'
    <2> DEFINE t == current[c]
    <2>1. /\ current[c] # None /\ ~spinning[c] /\ current' = current
          /\ irq' = irq /\ irq_nest' = irq_nest /\ irq_switch_flag' = irq_switch_flag
          /\ critical_lock_nest' = critical_lock_nest /\ spins' = spins /\ pc' = pc
          /\ irq[c] = "none" /\ pc[t] = "run"
          /\ lock(c, t)
      BY <1>1, <1>irq DEF rt_cpus_lock, InThread, irqVars
    <2>2. Facts(c, t)
      BY <2>1, CurrentFacts
    <2>3. Locks(c, t)
      BY <2>1, LockEffect
    <2>4. TypeOK'
      BY <2>1, <2>2, <2>3 DEF Facts, Locks, LockInv, TypeOK, PCs, IrqStages, StageOK
    <2>5. OnlyLocal(c, t)
      BY <2>1, <2>2, <2>3 DEF Facts, Locks, OnlyLocal, LockInv, TypeOK
    <2>6. t = current[c] /\ t = current'[c] /\ t' = t
      BY <2>1
    <2> HIDE DEF t
    <2>7. StageOK(c)'
      BY <2>1, <2>2, <2>3, <2>6 DEF Facts, Locks, StageOK, ThreadOK, LockInv, TypeOK
    <2>8. ThreadOK(t)' /\ CountsAdd(t)'
      BY <2>1, <2>2, <2>3, <2>6 DEF Facts, Locks, ThreadOK, CountsAdd, LockInv, TypeOK
    <2> QED
      BY <2>1, <2>3, <2>4, <2>5, <2>7, <2>8, LocalStep DEF t, Locks
  <1>2. ASSUME NEW c \in CPUs, rt_enter_critical(c) PROVE LockInv'
    <2> DEFINE t == current[c]
    <2>1. /\ current[c] # None /\ ~spinning[c] /\ current' = current
          /\ irq' = irq /\ irq_nest' = irq_nest /\ irq_switch_flag' = irq_switch_flag
          /\ critical_lock_nest' = critical_lock_nest /\ spins' = spins
          /\ pc' = [pc EXCEPT ![t] = "crit"]
          /\ irq[c] = "none" /\ pc[t] = "run"
          /\ lock(c, t)
      BY <1>2, <1>irq DEF rt_enter_critical, InThread, irqVars
    <2>2. Facts(c, t)
      BY <2>1, CurrentFacts
    <2>3. Locks(c, t)
      BY <2>1, LockEffect
    <2>4. TypeOK'
      BY <2>1, <2>2, <2>3 DEF Facts, Locks, LockInv, TypeOK, PCs, IrqStages, StageOK
    <2>5. OnlyLocal(c, t)
      BY <2>1, <2>2, <2>3 DEF Facts, Locks, OnlyLocal, LockInv, TypeOK
    <2>6. t = current[c] /\ t = current'[c] /\ t' = t
      BY <2>1
    <2> HIDE DEF t
    <2>7. StageOK(c)'
      BY <2>1, <2>2, <2>3, <2>6 DEF Facts, Locks, StageOK, ThreadOK, LockInv, TypeOK
    <2>8. ThreadOK(t)' /\ CountsAdd(t)'
      BY <2>1, <2>2, <2>3, <2>6 DEF Facts, Locks, ThreadOK, CountsAdd, LockInv, TypeOK
    <2> QED
      BY <2>1, <2>3, <2>4, <2>5, <2>7, <2>8, LocalStep DEF t, Locks
  <1>3. ASSUME NEW c \in CPUs, rt_schedule(c) PROVE LockInv'
    <2> DEFINE t == current[c]
    <2>1. /\ current[c] # None /\ ~spinning[c] /\ current' = current
          /\ irq' = irq /\ irq_nest' = irq_nest /\ irq_switch_flag' = irq_switch_flag
          /\ critical_lock_nest' = critical_lock_nest /\ spins' = spins
          /\ pc' = [pc EXCEPT ![t] = "sched"]
          /\ irq[c] = "none"
          /\ lock(c, t)
      BY <1>3, <1>irq DEF rt_schedule, InThread, irqVars
    <2>2. Facts(c, t)
      BY <2>1, CurrentFacts
    <2>3. Locks(c, t)
      BY <2>1, LockEffect
    <2>4. TypeOK'
      BY <2>1, <2>2, <2>3 DEF Facts, Locks, LockInv, TypeOK, PCs, IrqStages, StageOK
    <2>5. OnlyLocal(c, t)
      BY <2>1, <2>2, <2>3 DEF Facts, Locks, OnlyLocal, LockInv, TypeOK
    <2>6. t = current[c] /\ t = current'[c] /\ t' = t
      BY <2>1
    <2> HIDE DEF t
    <2>7. StageOK(c)'
      BY <2>1, <2>2, <2>3, <2>6 DEF Facts, Locks, StageOK, ThreadOK, LockInv, TypeOK
    <2>8. ThreadOK(t)' /\ CountsAdd(t)'
      BY <2>1, <2>2, <2>3, <2>6 DEF Facts, Locks, ThreadOK, CountsAdd, LockInv, TypeOK
    <2> QED
      BY <2>1, <2>3, <2>4, <2>5, <2>7, <2>8, LocalStep DEF t, Locks
  <1>4. ASSUME NEW c \in CPUs, irq_lock(c) PROVE LockInv'
    <2> DEFINE t == current[c]
    <2>1. /\ current[c] # None /\ ~spinning[c] /\ current' = current
          /\ irq' = irq /\ irq_nest' = irq_nest /\ irq_switch_flag' = irq_switch_flag
          /\ critical_lock_nest' = critical_lock_nest /\ spins' = spins /\ pc' = pc
          /\ irq[c] # "none"
          /\ cpus_lock_nest[t] > critical_lock_nest[t] => irq[c] = "handler"
          /\ lock(c, t)
      BY <1>4, <1>irq DEF irq_lock, IrqLocked, irqVars
    <2>2. Facts(c, t)
      BY <2>1, CurrentFacts
    <2>3. Locks(c, t)
      BY <2>1, LockEffect
    <2>4. TypeOK'
      BY <2>1, <2>2, <2>3 DEF Facts, Locks, LockInv, TypeOK, PCs, IrqStages, StageOK
    <2>5. OnlyLocal(c, t)
      BY <2>1, <2>2, <2>3 DEF Facts, Locks, OnlyLocal, LockInv, TypeOK
    <2>6. t = current[c] /\ t = current'[c] /\ t' = t
      BY <2>1
    <2> HIDE DEF t
    <2>7. StageOK(c)'
      BY <2>1, <2>2, <2>3, <2>6 DEF Facts, Locks, StageOK, ThreadOK, LockInv, TypeOK
    <2>8. ThreadOK(t)' /\ CountsAdd(t)'
      BY <2>1, <2>2, <2>3, <2>6 DEF Facts, Locks, ThreadOK, CountsAdd, LockInv, TypeOK
    <2> QED
      BY <2>1, <2>3, <2>4, <2>5, <2>7, <2>8, LocalStep DEF t, Locks
  <1>5. ASSUME NEW c \in CPUs, rt_cpus_unlock(c) PROVE LockInv'
    <2> DEFINE t == current[c]
    <2>1. /\ current[c] # None /\ ~spinning[c] /\ current' = current
          /\ irq' = irq /\ irq_nest' = irq_nest /\ irq_switch_flag' = irq_switch_flag
          /\ critical_lock_nest' = critical_lock_nest /\ spins' = spins /\ pc' = pc
          /\ irq[c] = "none" /\ pc[t] = "run"
          /\ unlock(t) /\ cpus_lock_nest[t] > critical_lock_nest[t]
      BY <1>5, <1>irq DEF rt_cpus_unlock, InThread, irqVars
    <2>2. Facts(c, t)
      BY <2>1, CurrentFacts
    <2>3. Unlocks(c, t)
      BY <2>1, <2>2, UnlockEffect DEF Facts
    <2>4. TypeOK'
      BY <2>1, <2>2, <2>3 DEF Facts, Unlocks, LockInv, TypeOK, PCs, IrqStages, StageOK
    <2>5. OnlyLocal(c, t)
      BY <2>1, <2>2, <2>3 DEF Facts, Unlocks, OnlyLocal, LockInv, TypeOK
    <2>6. t = current[c] /\ t = current'[c] /\ t' = t
      BY <2>1
    <2> HIDE DEF t
    <2>7. StageOK(c)'
      BY <2>1, <2>2, <2>3, <2>6 DEF Facts, Unlocks, StageOK, ThreadOK, LockInv, TypeOK
    <2>8. ThreadOK(t)' /\ CountsAdd(t)'
      BY <2>1, <2>2, <2>3, <2>6 DEF Facts, Unlocks, ThreadOK, CountsAdd, LockInv, TypeOK
    <2> QED
      BY <2>1, <2>3, <2>4, <2>5, <2>7, <2>8, LocalStep DEF t, Unlocks
  <1>6. ASSUME NEW c \in CPUs, rt_schedule_return(c) PROVE LockInv'
    <2> DEFINE t == current[c]
    <2>1. /\ current[c] # None /\ ~spinning[c] /\ current' = current
          /\ irq' = irq /\ irq_nest' = irq_nest /\ irq_switch_flag' = irq_switch_flag
          /\ critical_lock_nest' = critical_lock_nest /\ spins' = spins
          /\ pc' = [pc EXCEPT ![t] = "run"]
          /\ irq[c] = "none"
          /\ unlock(t) /\ cpus_lock_nest[t] > critical_lock_nest[t]
      BY <1>6, <1>irq, CurrentFacts DEF Facts, ThreadOK, rt_schedule_return, InThread, irqVars
    <2>2. Facts(c, t)
      BY <2>1, CurrentFacts
    <2>3. Unlocks(c, t)
      BY <2>1, <2>2, UnlockEffect DEF Facts
    <2>4. TypeOK'
      BY <2>1, <2>2, <2>3 DEF Facts, Unlocks, LockInv, TypeOK, PCs, IrqStages, StageOK
    <2>5. OnlyLocal(c, t)
      BY <2>1, <2>2, <2>3 DEF Facts, Unlocks, OnlyLocal, LockInv, TypeOK
    <2>6. t = current[c] /\ t = current'[c] /\ t' = t
      BY <2>1
    <2> HIDE DEF t
    <2>7. StageOK(c)'
      BY <2>1, <2>2, <2>3, <2>6 DEF Facts, Unlocks, StageOK, ThreadOK, LockInv, TypeOK
    <2>8. ThreadOK(t)' /\ CountsAdd(t)'
      BY <2>1, <2>2, <2>3, <2>6 DEF Facts, Unlocks, ThreadOK, CountsAdd, LockInv, TypeOK
    <2> QED
      BY <2>1, <2>3, <2>4, <2>5, <2>7, <2>8, LocalStep DEF t, Unlocks
  <1>7. ASSUME NEW c \in CPUs, rt_interrupt_enter(c) PROVE LockInv'
    <2> DEFINE t == current[c]
    <2>1. /\ current[c] # None /\ ~spinning[c] /\ current' = current
          /\ irq_switch_flag' = irq_switch_flag /\ critical_lock_nest' = critical_lock_nest /\ spins' = spins
          /\ pc' = pc
          /\ irq' = [irq EXCEPT ![c] = "handler"]
          /\ irq_nest' = [irq_nest EXCEPT ![c] = @ + 1]
          /\ irq[c] = "enter"
          /\ unlock(t) /\ cpus_lock_nest[t] > critical_lock_nest[t]
      BY <1>7, <1>irq DEF rt_interrupt_enter, InIrq, IrqLocked
    <2>2. Facts(c, t)
      BY <2>1, CurrentFacts
    <2>3. Unlocks(c, t)
      BY <2>1, <2>2, UnlockEffect DEF Facts
    <2>4. TypeOK'
      BY <2>1, <2>2, <2>3 DEF Facts, Unlocks, LockInv, TypeOK, PCs, IrqStages, StageOK
    <2>5. OnlyLocal(c, t)
      BY <2>1, <2>2, <2>3 DEF Facts, Unlocks, OnlyLocal, LockInv, TypeOK
    <2>6. t = current[c] /\ t = current'[c] /\ t' = t
      BY <2>1
    <2> HIDE DEF t
    <2>7. StageOK(c)'
      BY <2>1, <2>2, <2>3, <2>6 DEF Facts, Unlocks, StageOK, ThreadOK, LockInv, TypeOK
    <2>8. ThreadOK(t)' /\ CountsAdd(t)'
      BY <2>1, <2>2, <2>3, <2>6 DEF Facts, Unlocks, StageOK, ThreadOK, CountsAdd, LockInv, TypeOK
    <2> QED
      BY <2>1, <2>3, <2>4, <2>5, <2>7, <2>8, LocalStep DEF t, Unlocks
  <1>8. ASSUME NEW c \in CPUs, handler_unlock(c) PROVE LockInv'
    <2> DEFINE t == current[c]
    <2>1. /\ current[c] # None /\ ~spinning[c] /\ current' = current
          /\ irq' = irq /\ irq_nest' = irq_nest /\ irq_switch_flag' \in [CPUs -> BOOLEAN]
          /\ critical_lock_nest' = critical_lock_nest /\ spins' = spins /\ pc' = pc
          /\ irq[c] = "handler"
          /\ unlock(t) /\ cpus_lock_nest[t] > critical_lock_nest[t]
      BY <1>8, <1>irq DEF LockInv, TypeOK, handler_unlock, InIrq, IrqLocked
    <2>2. Facts(c, t)
      BY <2>1, CurrentFacts
    <2>3. Unlocks(c, t)
      BY <2>1, <2>2, UnlockEffect DEF Facts
    <2>4. TypeOK'
      BY <2>1, <2>2, <2>3 DEF Facts, Unlocks, LockInv, TypeOK, PCs, IrqStages, StageOK
    <2>5. OnlyLocal(c, t)
      BY <2>1, <2>2, <2>3 DEF Facts, Unlocks, OnlyLocal, LockInv, TypeOK
    <2>6. t = current[c] /\ t = current'[c] /\ t' = t
      BY <2>1
    <2> HIDE DEF t
    <2>7. StageOK(c)'
      BY <2>1, <2>2, <2>3, <2>6 DEF Facts, Unlocks, StageOK, ThreadOK, LockInv, TypeOK
    <2>8. ThreadOK(t)' /\ CountsAdd(t)'
      BY <2>1, <2>2, <2>3, <2>6 DEF Facts, Unlocks, StageOK, ThreadOK, CountsAdd, LockInv, TypeOK
    <2> QED
      BY <2>1, <2>3, <2>4, <2>5, <2>7, <2>8, LocalStep DEF t, Unlocks
  <1>9. ASSUME NEW c \in CPUs, rt_interrupt_leave(c) PROVE LockInv'
    <2> DEFINE t == current[c]
    <2>1. /\ current[c] # None /\ ~spinning[c] /\ current' = current
          /\ irq_switch_flag' = irq_switch_flag /\ critical_lock_nest' = critical_lock_nest /\ spins' = spins
          /\ pc' = pc
          /\ irq' = [irq EXCEPT ![c] = "switch"]
          /\ irq_nest' = [irq_nest EXCEPT ![c] = @ - 1]
          /\ irq[c] = "leave"
          /\ unlock(t) /\ cpus_lock_nest[t] > critical_lock_nest[t]
      BY <1>9, <1>irq DEF rt_interrupt_leave, InIrq, IrqLocked
    <2>2. Facts(c, t)
      BY <2>1, CurrentFacts
    <2>3. Unlocks(c, t)
      BY <2>1, <2>2, UnlockEffect DEF Facts
    <2>4. TypeOK'
      BY <2>1, <2>2, <2>3 DEF Facts, Unlocks, LockInv, TypeOK, PCs, IrqStages, StageOK
    <2>5. OnlyLocal(c, t)
      BY <2>1, <2>2, <2>3 DEF Facts, Unlocks, OnlyLocal, LockInv, TypeOK
    <2>6. t = current[c] /\ t = current'[c] /\ t' = t
      BY <2>1
    <2> HIDE DEF t
    <2>7. StageOK(c)'
      BY <2>1, <2>2, <2>3, <2>6 DEF Facts, Unlocks, StageOK, ThreadOK, LockInv, TypeOK
    <2>8. ThreadOK(t)' /\ CountsAdd(t)'
      BY <2>1, <2>2, <2>3, <2>6 DEF Facts, Unlocks, StageOK, ThreadOK, CountsAdd, LockInv, TypeOK
    <2> QED
      BY <2>1, <2>3, <2>4, <2>5, <2>7, <2>8, LocalStep DEF t, Unlocks
  <1>10. ASSUME NEW c \in CPUs, irq_no_switch(c) PROVE LockInv'
    <2> DEFINE t == current[c]
    <2>1. /\ current[c] # None /\ ~spinning[c] /\ current' = current
          /\ irq_nest' = irq_nest /\ irq_switch_flag' \in [CPUs -> BOOLEAN] /\ critical_lock_nest' = critical_lock_nest
          /\ spins' = spins /\ pc' = pc
          /\ irq' = [irq EXCEPT ![c] = "none"]
          /\ irq[c] = "switch"
          /\ unlock(t) /\ cpus_lock_nest[t] > critical_lock_nest[t]
      BY <1>10, <1>irq DEF LockInv, TypeOK, irq_no_switch, InIrq, IrqLocked
    <2>2. Facts(c, t)
      BY <2>1, CurrentFacts
    <2>3. Unlocks(c, t)
      BY <2>1, <2>2, UnlockEffect DEF Facts
    <2>4. TypeOK'
      BY <2>1, <2>2, <2>3 DEF Facts, Unlocks, LockInv, TypeOK, PCs, IrqStages, StageOK
    <2>5. OnlyLocal(c, t)
      BY <2>1, <2>2, <2>3 DEF Facts, Unlocks, OnlyLocal, LockInv, TypeOK
    <2>6. t = current[c] /\ t = current'[c] /\ t' = t
      BY <2>1
    <2> HIDE DEF t
    <2>7. StageOK(c)'
      BY <2>1, <2>2, <2>3, <2>6 DEF Facts, Unlocks, StageOK, ThreadOK, LockInv, TypeOK
    <2>8. ThreadOK(t)' /\ CountsAdd(t)'
      BY <2>1, <2>2, <2>3, <2>6 DEF Facts, Unlocks, StageOK, ThreadOK, CountsAdd, LockInv, TypeOK
    <2> QED
      BY <2>1, <2>3, <2>4, <2>5, <2>7, <2>8, LocalStep DEF t, Unlocks
  <1>11. ASSUME NEW c \in CPUs, enter_critical_locked(c) PROVE LockInv'
    <2> DEFINE t == current[c]
    <2>1. /\ current[c] # None /\ ~spinning[c] /\ current' = current
          /\ irq' = irq /\ irq_nest' = irq_nest /\ irq_switch_flag' = irq_switch_flag
          /\ spins' = spins
          /\ critical_lock_nest' = [critical_lock_nest EXCEPT ![t] = @ + 1]
          /\ pc' = [pc EXCEPT ![t] = "run"]
          /\ scheduler_lock_nest' = [scheduler_lock_nest EXCEPT ![t] = @ + 1]
          /\ irq[c] = "none" /\ pc[t] = "crit"
          /\ holder' = holder /\ spinning' = spinning /\ cpus_lock_nest' = cpus_lock_nest
      BY <1>11, <1>irq DEF enter_critical_locked, InThread, irqVars
    <2>2. Facts(c, t)
      BY <2>1, CurrentFacts
    <2>3. LockMoves(c)
      BY <2>1, <2>2 DEF Facts, LockMoves, InSection
    <2>4. TypeOK'
      BY <2>1, <2>2, <2>3 DEF Facts, LockInv, TypeOK, PCs, IrqStages, StageOK
    <2>5. OnlyLocal(c, t)
      BY <2>1, <2>2, <2>3 DEF Facts, OnlyLocal, LockInv, TypeOK
    <2>6. t = current[c] /\ t = current'[c] /\ t' = t
      BY <2>1
    <2> HIDE DEF t
    <2>7. StageOK(c)'
      BY <2>1, <2>2, <2>3, <2>6 DEF Facts, StageOK, ThreadOK, LockInv, TypeOK
    <2>8. ThreadOK(t)' /\ CountsAdd(t)'
      BY <2>1, <2>2, <2>3, <2>6 DEF Facts, ThreadOK, CountsAdd, LockInv, TypeOK
    <2> QED
      BY <2>1, <2>3, <2>4, <2>5, <2>7, <2>8, LocalStep DEF t
  <1>12. ASSUME NEW c \in CPUs, rt_spin_lock(c) PROVE LockInv'
    <2> DEFINE t == current[c]
    <2>1. /\ current[c] # None /\ ~spinning[c] /\ current' = current
          /\ irq' = irq /\ irq_nest' = irq_nest /\ irq_switch_flag' = irq_switch_flag
          /\ critical_lock_nest' = critical_lock_nest /\ pc' = pc
          /\ spins' = [spins EXCEPT ![t] = @ + 1]
          /\ scheduler_lock_nest' = [scheduler_lock_nest EXCEPT ![t] = @ + 1]
          /\ irq[c] = "none" /\ pc[t] = "run"
          /\ holder' = holder /\ spinning' = spinning /\ cpus_lock_nest' = cpus_lock_nest
      BY <1>12, <1>irq DEF rt_spin_lock, InThread, irqVars
    <2>2. Facts(c, t)
      BY <2>1, CurrentFacts
    <2>3. LockMoves(c)
      BY <2>1, <2>2 DEF Facts, LockMoves, InSection
    <2>4. TypeOK'
      BY <2>1, <2>2, <2>3 DEF Facts, LockInv, TypeOK, PCs, IrqStages, StageOK
    <2>5. OnlyLocal(c, t)
      BY <2>1, <2>2, <2>3 DEF Facts, OnlyLocal, LockInv, TypeOK
    <2>6. t = current[c] /\ t = current'[c] /\ t' = t
      BY <2>1
    <2> HIDE DEF t
    <2>7. StageOK(c)'
      BY <2>1, <2>2, <2>3, <2>6 DEF Facts, StageOK, ThreadOK, LockInv, TypeOK
    <2>8. ThreadOK(t)' /\ CountsAdd(t)'
      BY <2>1, <2>2, <2>3, <2>6 DEF Facts, ThreadOK, CountsAdd, LockInv, TypeOK
    <2> QED
      BY <2>1, <2>3, <2>4, <2>5, <2>7, <2>8, LocalStep DEF t
  <1>13. ASSUME NEW c \in CPUs, rt_spin_unlock(c) PROVE LockInv'
    <2> DEFINE t == current[c]
    <2>1. /\ current[c] # None /\ ~spinning[c] /\ current' = current
          /\ irq' = irq /\ irq_nest' = irq_nest /\ irq_switch_flag' = irq_switch_flag
          /\ critical_lock_nest' = critical_lock_nest
          /\ spins' = [spins EXCEPT ![t] = @ - 1]
          /\ pc' = [pc EXCEPT ![t] = "calloff"]
          /\ scheduler_lock_nest' = [scheduler_lock_nest EXCEPT ![t] = @ - 1]
          /\ irq[c] = "none" /\ pc[t] = "run" /\ spins[t] > 0
          /\ holder' = holder /\ spinning' = spinning /\ cpus_lock_nest' = cpus_lock_nest
      BY <1>13, <1>irq DEF rt_spin_unlock, InThread, irqVars
    <2>2. Facts(c, t)
      BY <2>1, CurrentFacts
    <2>3. LockMoves(c)
      BY <2>1, <2>2 DEF Facts, LockMoves, InSection
    <2>4. TypeOK'
      BY <2>1, <2>2, <2>3 DEF Facts, LockInv, TypeOK, PCs, IrqStages, CountsAdd, StageOK
    <2>5. OnlyLocal(c, t)
      BY <2>1, <2>2, <2>3 DEF Facts, OnlyLocal, LockInv, TypeOK
    <2>6. t = current[c] /\ t = current'[c] /\ t' = t
      BY <2>1
    <2> HIDE DEF t
    <2>7. StageOK(c)'
      BY <2>1, <2>2, <2>3, <2>6 DEF Facts, StageOK, ThreadOK, LockInv, TypeOK
    <2>8. ThreadOK(t)' /\ CountsAdd(t)'
      BY <2>1, <2>2, <2>3, <2>6 DEF Facts, ThreadOK, CountsAdd, LockInv, TypeOK
    <2> QED
      BY <2>1, <2>3, <2>4, <2>5, <2>7, <2>8, LocalStep DEF t
  <1>14. ASSUME NEW c \in CPUs, vector_irq(c) PROVE LockInv'
    <2> DEFINE t == current[c]
    <2>1. /\ current[c] # None /\ ~spinning[c] /\ current' = current
          /\ irq_nest' = irq_nest /\ irq_switch_flag' = irq_switch_flag /\ critical_lock_nest' = critical_lock_nest
          /\ spins' = spins /\ pc' = pc
          /\ irq' = [irq EXCEPT ![c] = "enter"]
          /\ scheduler_lock_nest' = scheduler_lock_nest
          /\ irq[c] = "none" /\ pc[t] \in {"run", "call"}
          /\ cpus_lock_nest[t] = critical_lock_nest[t]
          /\ holder' = holder /\ spinning' = spinning /\ cpus_lock_nest' = cpus_lock_nest
      BY <1>14, <1>irq DEF vector_irq, InThread
    <2>2. Facts(c, t)
      BY <2>1, CurrentFacts
    <2>3. LockMoves(c)
      BY <2>1, <2>2 DEF Facts, LockMoves, InSection
    <2>4. TypeOK'
      BY <2>1, <2>2, <2>3 DEF Facts, LockInv, TypeOK, PCs, IrqStages, StageOK
    <2>5. OnlyLocal(c, t)
      BY <2>1, <2>2, <2>3 DEF Facts, OnlyLocal, LockInv, TypeOK
    <2>6. t = current[c] /\ t = current'[c] /\ t' = t
      BY <2>1
    <2> HIDE DEF t
    <2>7. StageOK(c)'
      BY <2>1, <2>2, <2>3, <2>6 DEF Facts, StageOK, ThreadOK, LockInv, TypeOK
    <2>8. ThreadOK(t)' /\ CountsAdd(t)'
      BY <2>1, <2>2, <2>3, <2>6 DEF Facts, ThreadOK, CountsAdd, LockInv, TypeOK
    <2> QED
      BY <2>1, <2>3, <2>4, <2>5, <2>7, <2>8, LocalStep DEF t
  <1>15. ASSUME NEW c \in CPUs, handler_return(c) PROVE LockInv'
    <2> DEFINE t == current[c]
    <2>1. /\ current[c] # None /\ ~spinning[c] /\ current' = current
          /\ irq_nest' = irq_nest /\ irq_switch_flag' = irq_switch_flag /\ critical_lock_nest' = critical_lock_nest
          /\ spins' = spins /\ pc' = pc
          /\ irq' = [irq EXCEPT ![c] = "leave"]
          /\ scheduler_lock_nest' = scheduler_lock_nest
          /\ irq[c] = "handler" /\ ~(cpus_lock_nest[t] > critical_lock_nest[t])
          /\ holder' = holder /\ spinning' = spinning /\ cpus_lock_nest' = cpus_lock_nest
      BY <1>15, <1>irq DEF handler_return, InIrq, IrqLocked
    <2>2. Facts(c, t)
      BY <2>1, CurrentFacts
    <2>3. LockMoves(c)
      BY <2>1, <2>2 DEF Facts, LockMoves, InSection
    <2>4. TypeOK'
      BY <2>1, <2>2, <2>3 DEF Facts, LockInv, TypeOK, PCs, IrqStages, StageOK
    <2>5. OnlyLocal(c, t)
      BY <2>1, <2>2, <2>3 DEF Facts, OnlyLocal, LockInv, TypeOK
    <2>6. t = current[c] /\ t = current'[c] /\ t' = t
      BY <2>1
    <2> HIDE DEF t
    <2>7. StageOK(c)'
      BY <2>1, <2>2, <2>3, <2>6 DEF Facts, StageOK, ThreadOK, LockInv, TypeOK
    <2>8. ThreadOK(t)' /\ CountsAdd(t)'
      BY <2>1, <2>2, <2>3, <2>6 DEF Facts, ThreadOK, CountsAdd, LockInv, TypeOK
    <2> QED
      BY <2>1, <2>3, <2>4, <2>5, <2>7, <2>8, LocalStep DEF t
  <1> QED
    BY <1>1, <1>2, <1>3, <1>4, <1>5, <1>6, <1>7, <1>8,
       <1>9, <1>10, <1>11, <1>12, <1>13, <1>14, <1>15

LEMMA ExitCritical ==
    ASSUME LockInv, NEW c \in CPUs, rt_exit_critical(c)
    PROVE  LockInv'
  <1> DEFINE t == current[c]
  <1> DEFINE sched == scheduler_lock_nest[t] - (IF cpus_lock_nest[t] = 1 THEN 2 ELSE 1)
  <1>1. /\ current[c] # None /\ ~spinning[c] /\ current' = current /\ irq[c] = "none"
        /\ pc[t] = "run" /\ critical_lock_nest[t] > 0
        /\ critical_lock_nest' = [critical_lock_nest EXCEPT ![t] = @ - 1]
        /\ cpus_lock_nest' = [cpus_lock_nest EXCEPT ![t] = @ - 1]
        /\ scheduler_lock_nest' = [scheduler_lock_nest EXCEPT ![t] = sched]
        /\ holder' = IF cpus_lock_nest[t] = 1 THEN None ELSE holder
        /\ pc' = [pc EXCEPT ![t] = IF sched = 0 THEN "call" ELSE "run"]
        /\ spinning' = spinning /\ spins' = spins
        /\ irq' = irq /\ irq_nest' = irq_nest /\ irq_switch_flag' = irq_switch_flag
    BY DEF rt_exit_critical, InThread, irqVars
  <1>2. Facts(c, t)
    BY <1>1, CurrentFacts
  <1>3. t = current[c] /\ t = current'[c] /\ t' = t
    BY <1>1
  <1>4. cpus_lock_nest[t] > 0 /\ holder = c
    BY <1>1, <1>2, <1>3 DEF Facts, ThreadOK, InSection
  <1>5. sched \in Nat
    BY <1>1, <1>2, <1>4 DEF Facts, CountsAdd
  <1> HIDE DEF t, sched
  <1>6. TypeOK'
    BY <1>1, <1>2, <1>4, <1>5 DEF Facts, LockInv, TypeOK, PCs
  <1>7. LockMoves(c)
    BY <1>1, <1>2, <1>3, <1>4 DEF Facts, LockMoves, InSection, LockInv, TypeOK
  <1>8. OnlyLocal(c, t)
    BY <1>1, <1>2 DEF Facts, OnlyLocal, LockInv, TypeOK
  <1>9. StageOK(c)'
    BY <1>1, <1>2, <1>3 DEF Facts, StageOK, LockInv, TypeOK
  <1>10. ThreadOK(t)'
    BY <1>1, <1>2, <1>3 DEF Facts, ThreadOK, LockInv, TypeOK
  <1>11. CountsAdd(t)'
    BY <1>1, <1>2, <1>3, <1>4 DEF Facts, CountsAdd, LockInv, TypeOK, sched
  <1> QED
    BY <1>1, <1>3, <1>6, <1>7, <1>8, <1>9, <1>10, <1>11, LocalStep

(***************************************************************************)
(* The boot lock and the end of a spin.                                    *)
(***************************************************************************)
LEMMA SpinSteps ==
    ASSUME LockInv, NEW c \in CPUs, boot_lock(c) \/ acquire(c)
    PROVE  LockInv'
  <1>1. /\ current' = current /\ irq' = irq /\ irq_nest' = irq_nest
        /\ irq_switch_flag' = irq_switch_flag
        /\ cpus_lock_nest' = cpus_lock_nest /\ scheduler_lock_nest' = scheduler_lock_nest
        /\ critical_lock_nest' = critical_lock_nest /\ spins' = spins /\ pc' = pc
        /\ \/ /\ current[c] = None /\ ~spinning[c] /\ holder # c
              /\ spinning' = [spinning EXCEPT ![c] = TRUE] /\ holder' = holder
           \/ /\ spinning[c] /\ holder = None
              /\ spinning' = [spinning EXCEPT ![c] = FALSE] /\ holder' = c
    BY DEF boot_lock, acquire, irqVars
  <1>2. TypeOK'
    BY <1>1 DEF LockInv, TypeOK
  <1>3. OneCpuEach' /\ SchedulerLockCounts' /\ OffCpuHoldsNothing'
    BY <1>1 DEF LockInv, OneCpuEach, SchedulerLockCounts, CountsAdd, OffCpuHoldsNothing,
                Running
  <1>4. \A t \in Threads : ThreadOK(t)'
    BY <1>1 DEF LockInv, ThreadOK
  <1>5. ASSUME NEW d \in CPUs PROVE StageOK(d)'
    <2>1. StageOK(d)
      BY DEF LockInv
    <2>2. CASE d = c
      BY <1>1, <2>1, <2>2, NoneIsNobody DEF StageOK, LockInv, TypeOK
    <2>3. CASE d # c
      <3>1. spinning'[d] = spinning[d] /\ (holder' = d => holder = d)
        BY <1>1, <2>3 DEF LockInv, TypeOK
      <3> QED
        BY <1>1, <2>1, <3>1 DEF StageOK
    <2> QED
      BY <2>2, <2>3
  <1>6. ASSUME NEW d \in CPUs, current'[d] # None PROVE holder' = d <=> InSection(d)'
    <2>1. holder = d <=> InSection(d)
      BY <1>1, <1>6 DEF LockInv, LockFollowsThread
    <2>2. CASE d = c
      <3>1. /\ spinning[c] /\ holder' = c /\ ~spinning'[c]
            /\ cpus_lock_nest[current[c]] = 1
        BY <1>1, <1>6, <2>2 DEF LockInv, TypeOK, StageOK
      <3> QED
        BY <3>1, <1>1, <1>6, <2>2 DEF InSection
    <2>3. CASE d # c
      <3>1. spinning'[d] = spinning[d] /\ (holder' = d <=> holder = d)
        BY <1>1, <2>3, NoneIsNobody DEF LockInv, TypeOK
      <3> QED
        BY <1>1, <2>1, <3>1 DEF InSection
    <2> QED
      BY <2>2, <2>3
  <1> QED
    BY <1>2, <1>3, <1>4, <1>5, <1>6 DEF LockInv, LockFollowsThread

\* The thread t that a switch leaves behind on no CPU, or nobody at boot.
LeftBehind(t) ==
    t # None =>
        /\ cpus_lock_nest'[t] > 0 <=> pc[t] = "sched"
        /\ critical_lock_nest[t] = 0 /\ spins[t] = 0
        /\ ThreadOK(t)' /\ CountsAdd(t)'

(***************************************************************************)
(* A switch from the thread of c to a thread that was on no CPU.           *)
(***************************************************************************)
LEMMA SwitchStep ==
    ASSUME LockInv, TypeOK', NEW c \in CPUs, NEW to \in Threads,
           ~Running(to), holder = c, ~spinning[c],
           rt_cpus_lock_status_restore(c, to),
           spinning' = spinning, irq' = [irq EXCEPT ![c] = "none"],
           irq_nest' = irq_nest, irq_nest[c] = 0,
           critical_lock_nest' = critical_lock_nest, spins' = spins, pc' = pc,
           \A u \in Threads \ {current[c]} :
               /\ cpus_lock_nest'[u] = cpus_lock_nest[u]
               /\ scheduler_lock_nest'[u] = scheduler_lock_nest[u],
           \A t \in Threads : t = current[c] => LeftBehind(t)
    PROVE  LockInv'
  <1>1. /\ current' = [current EXCEPT ![c] = to]
        /\ holder' = IF cpus_lock_nest[to] = 0 THEN None ELSE c
    BY DEF rt_cpus_lock_status_restore
  <1>2. /\ current'[c] = to /\ to # None /\ c # None
        /\ \A d \in CPUs : d # c => current'[d] = current[d]
        /\ \A d \in CPUs : current[d] # to
    BY <1>1, NoneIsNobody DEF LockInv, TypeOK, Running
  <1>3. OneCpuEach'
    BY <1>2 DEF LockInv, OneCpuEach
  <1>4. /\ cpus_lock_nest[to] > 0 <=> pc[to] = "sched"
        /\ critical_lock_nest[to] = 0 /\ spins[to] = 0
        /\ cpus_lock_nest'[to] = cpus_lock_nest[to] /\ cpus_lock_nest[to] \in Nat
    BY <1>2 DEF LockInv, OffCpuHoldsNothing, TypeOK
  <1>5. ASSUME NEW u \in Threads PROVE ThreadOK(u)' /\ CountsAdd(u)'
    <2>1. CASE u = current[c]
      BY <2>1, NoneIsNobody DEF LeftBehind
    <2>2. CASE u # current[c]
      <3>1. ThreadOK(u) /\ CountsAdd(u)
        BY DEF LockInv, SchedulerLockCounts
      <3> QED
        BY <3>1, <2>2 DEF ThreadOK, CountsAdd
    <2> QED
      BY <2>1, <2>2
  <1>6. ASSUME NEW d \in CPUs, d # c
        PROVE  /\ StageOK(d)'
               /\ current[d] # None => (holder' = d <=> InSection(d)')
    <2>1. StageOK(d) /\ (current[d] # None => (holder = d <=> InSection(d)))
      BY DEF LockInv, LockFollowsThread
    <2>2. /\ current'[d] = current[d] /\ irq'[d] = irq[d]
          /\ holder' # d /\ holder # d
      BY <1>1, <1>2, <1>6, NoneIsNobody DEF LockInv, TypeOK
    <2>3. current[d] # None => /\ current[d] \in Threads \ {current[c]}
                               /\ cpus_lock_nest'[current[d]] = cpus_lock_nest[current[d]]
      BY <1>6 DEF LockInv, OneCpuEach, TypeOK
    <2>4. StageOK(d)'
      BY <2>1, <2>2, <2>3 DEF StageOK
    <2> QED
      BY <2>1, <2>2, <2>3, <2>4 DEF InSection
  <1>7. StageOK(c)' /\ (holder' = c <=> InSection(c)')
    <2>1. irq'[c] = "none" /\ irq_nest'[c] = 0
      BY DEF LockInv, TypeOK
    <2>2. StageOK(c)'
      BY <2>1, <1>2 DEF StageOK
    <2> QED
      BY <2>2, <1>1, <1>2, <1>4 DEF InSection
  <1>8. LockFollowsThread'
    BY <1>2, <1>6, <1>7 DEF LockFollowsThread
  <1>9. OffCpuHoldsNothing'
    <2> SUFFICES ASSUME NEW u \in Threads, ~Running(u)'
                 PROVE  /\ cpus_lock_nest'[u] > 0 <=> pc'[u] = "sched"
                        /\ critical_lock_nest'[u] = 0 /\ spins'[u] = 0
      BY DEF OffCpuHoldsNothing
    <2>1. CASE u = current[c]
      BY <2>1, NoneIsNobody DEF LeftBehind
    <2>2. CASE u # current[c]
      <3>1. ~Running(u)
        BY <1>2, <2>2 DEF Running
      <3> QED
        BY <3>1, <2>2 DEF LockInv, OffCpuHoldsNothing
    <2> QED
      BY <2>1, <2>2
  <1> QED
    BY <1>3, <1>5, <1>6, <1>7, <1>8, <1>9 DEF LockInv, SchedulerLockCounts

LEMMA SwitchActions ==
    ASSUME LockInv, NEW cpu \in CPUs, NEW to \in Threads,
           \/ rt_system_scheduler_start(cpu, to)
           \/ rt_schedule_switch(cpu, to)
           \/ rt_scheduler_do_irq_switch(cpu, to)
    PROVE  LockInv'
  <1>1. ASSUME NEW c \in CPUs, rt_system_scheduler_start(c, to) PROVE LockInv'
    <2>1. /\ current[c] = None /\ holder = c /\ ~Running(to)
          /\ rt_cpus_lock_status_restore(c, to)
          /\ spinning' = spinning /\ irq' = irq /\ irq_nest' = irq_nest
          /\ irq_switch_flag' = irq_switch_flag
          /\ cpus_lock_nest' = cpus_lock_nest /\ scheduler_lock_nest' = scheduler_lock_nest
          /\ critical_lock_nest' = critical_lock_nest /\ spins' = spins /\ pc' = pc
      BY <1>1 DEF rt_system_scheduler_start, irqVars
    <2>2. StageOK(c)
      BY DEF LockInv
    <2>3. ~spinning[c] /\ irq_nest[c] = 0 /\ irq[c] = "none"
      BY <2>1, <2>2 DEF StageOK
    <2>4. irq' = [irq EXCEPT ![c] = "none"]
      BY <2>1, <2>3 DEF LockInv, TypeOK
    <2>5. TypeOK'
      BY <2>1 DEF LockInv, TypeOK, rt_cpus_lock_status_restore
    <2>6. \A t \in Threads : t # current[c]
      BY <2>1, NoneIsNobody
    <2> QED
      BY <2>1, <2>3, <2>4, <2>5, <2>6, SwitchStep
  <1>2. ASSUME NEW c \in CPUs, rt_schedule_switch(c, to) PROVE LockInv'
    <2> DEFINE t == current[c]
    <2>1. /\ t # None /\ irq[c] = "none" /\ ~spinning[c]
          /\ pc[t] = "sched" /\ scheduler_lock_nest[t] = 1 /\ ~Running(to)
          /\ rt_cpus_lock_status_restore(c, to)
          /\ spinning' = spinning /\ irq' = irq /\ irq_nest' = irq_nest
          /\ irq_switch_flag' = irq_switch_flag
          /\ cpus_lock_nest' = cpus_lock_nest /\ scheduler_lock_nest' = scheduler_lock_nest
          /\ critical_lock_nest' = critical_lock_nest /\ spins' = spins /\ pc' = pc
      BY <1>2 DEF rt_schedule_switch, InThread, may_switch, irqVars
    <2>2. Facts(c, t)
      BY <2>1, CurrentFacts
    <2>3. cpus_lock_nest[t] > 0 /\ critical_lock_nest[t] = 0 /\ spins[t] = 0
      BY <2>1, <2>2 DEF Facts, ThreadOK, CountsAdd
    <2>4. holder = c /\ irq_nest[c] = 0
      BY <2>1, <2>2, <2>3 DEF Facts, InSection, StageOK
    <2>5. irq' = [irq EXCEPT ![c] = "none"]
      BY <2>1 DEF LockInv, TypeOK
    <2>6. TypeOK'
      BY <2>1 DEF LockInv, TypeOK, rt_cpus_lock_status_restore
    <2>7. ASSUME NEW u \in Threads, u = t PROVE LeftBehind(u)
      BY <2>1, <2>2, <2>3, <2>7 DEF LeftBehind, Facts, ThreadOK, CountsAdd
    <2> QED
      BY <2>1, <2>4, <2>5, <2>6, <2>7, SwitchStep
  <1>3. ASSUME NEW c \in CPUs, rt_scheduler_do_irq_switch(c, to) PROVE LockInv'
    <2> DEFINE t == current[c]
    <2>1. /\ irq[c] = "switch" /\ ~spinning[c] /\ irq_nest[c] = 0
          /\ cpus_lock_nest[t] > critical_lock_nest[t]
          /\ scheduler_lock_nest[t] = 1 /\ ~Running(to)
          /\ rt_cpus_lock_status_restore(c, to)
          /\ irq' = [irq EXCEPT ![c] = "none"]
          /\ irq_switch_flag' = [irq_switch_flag EXCEPT ![c] = FALSE]
          /\ cpus_lock_nest' = [cpus_lock_nest EXCEPT ![t] = @ - 1]
          /\ scheduler_lock_nest' = [scheduler_lock_nest EXCEPT ![t] = @ - 1]
          /\ spinning' = spinning /\ irq_nest' = irq_nest
          /\ critical_lock_nest' = critical_lock_nest /\ spins' = spins /\ pc' = pc
      BY <1>3 DEF rt_scheduler_do_irq_switch, InIrq, IrqLocked, may_switch
    <2>2. t # None
      BY <2>1 DEF LockInv, StageOK
    <2>3. Facts(c, t)
      BY <2>2, CurrentFacts
    \* Level 1 is the interrupt's own: the thread was outside every section.
    <2>4. /\ cpus_lock_nest[t] = 1 /\ critical_lock_nest[t] = 0 /\ spins[t] = 0
          /\ pc[t] \in {"run", "call"}
      BY <2>1, <2>2, <2>3 DEF Facts, StageOK, CountsAdd
    <2>5. holder = c
      BY <2>1, <2>2, <2>3, <2>4 DEF Facts, InSection
    <2>6. /\ cpus_lock_nest'[t] = 0 /\ scheduler_lock_nest'[t] = 0
          /\ \A u \in Threads \ {t} : /\ cpus_lock_nest'[u] = cpus_lock_nest[u]
                                     /\ scheduler_lock_nest'[u] = scheduler_lock_nest[u]
          /\ cpus_lock_nest' \in [Threads -> Nat]
          /\ scheduler_lock_nest' \in [Threads -> Nat]
      BY <2>1, <2>3, <2>4 DEF Facts, LockInv, TypeOK
    <2>7. TypeOK'
      BY <2>1, <2>6 DEF LockInv, TypeOK, IrqStages, rt_cpus_lock_status_restore
    <2>8. ASSUME NEW u \in Threads, u = t PROVE LeftBehind(u)
      BY <2>1, <2>3, <2>4, <2>6, <2>8 DEF LeftBehind, Facts, ThreadOK, CountsAdd
    <2> QED
      BY <2>1, <2>5, <2>6, <2>7, <2>8, SwitchStep
  <1> QED
    BY <1>1, <1>2, <1>3

LEMMA LockInvInit == Init => LockInv
  <1> SUFFICES ASSUME Init PROVE LockInv
    OBVIOUS
  <1>1. TypeOK
    BY DEF Init, TypeOK, PCs, IrqStages
  <1>2. OneCpuEach /\ LockFollowsThread
    BY DEF Init, OneCpuEach, LockFollowsThread
  <1>3. \A c \in CPUs : StageOK(c)
    BY DEF Init, StageOK
  <1>4. \A t \in Threads : ThreadOK(t)
    BY DEF Init, ThreadOK
  <1>5. SchedulerLockCounts /\ OffCpuHoldsNothing
    BY DEF Init, SchedulerLockCounts, CountsAdd, OffCpuHoldsNothing
  <1> QED
    BY <1>1, <1>2, <1>3, <1>4, <1>5 DEF LockInv

LEMMA LockInvStep == LockInv /\ [Next]_clVars => LockInv'
  <1> SUFFICES ASSUME LockInv, [Next]_clVars PROVE LockInv'
    OBVIOUS
  <1>1. CASE UNCHANGED clVars
    BY <1>1 DEF clVars, LockInv, TypeOK, OneCpuEach, StageOK, ThreadOK,
                LockFollowsThread, InSection, SchedulerLockCounts, CountsAdd,
                OffCpuHoldsNothing, Running
  <1>2. CASE Next
    BY <1>2, LocalActions, ExitCritical, SpinSteps, SwitchActions DEF Next
  <1> QED
    BY <1>1, <1>2

(***************************************************************************)
(* The inductive invariant of the lock protocol.                           *)
(***************************************************************************)
THEOREM LockInvariant == Spec => []LockInv
  BY LockInvInit, LockInvStep, PTL DEF Spec

(***************************************************************************)
(* Every variable of the lock protocol keeps its type: no counter goes     *)
(* below zero, for any numbers of CPUs and threads.                        *)
(***************************************************************************)
THEOREM TypeCorrect == Spec => []TypeOK
  <1>1. LockInv => TypeOK
    BY DEF LockInv
  <1> QED
    BY <1>1, LockInvariant, PTL

(***************************************************************************)
(* rt_hw_interrupt_disable .. rt_hw_interrupt_enable exclude each other    *)
(* over all CPUs, through every context switch and interrupt.              *)
(***************************************************************************)
THEOREM SectionsExclude == Spec => []MutualExclusion
  <1>1. LockInv => MutualExclusion
    BY DEF LockInv, LockFollowsThread, MutualExclusion, InSection
  <1> QED
    BY <1>1, LockInvariant, PTL

(***************************************************************************)
(* _cpus_lock is held by a CPU exactly while its current thread counts a   *)
(* section.                                                                *)
(***************************************************************************)
THEOREM LockFollows == Spec => []LockFollowsThread
  <1>1. LockInv => LockFollowsThread
    BY DEF LockInv
  <1> QED
    BY <1>1, LockInvariant, PTL

(***************************************************************************)
(* scheduler_lock_nest counts what rt_schedule takes it to count.          *)
(***************************************************************************)
THEOREM CountsAreRight == Spec => []SchedulerLockCounts
  <1>1. LockInv => SchedulerLockCounts
    BY DEF LockInv
  <1> QED
    BY <1>1, LockInvariant, PTL

(***************************************************************************)
(* No thread leaves its CPU inside a critical section or with a spinlock.  *)
(***************************************************************************)
THEOREM NoSwitchInSection == Spec => []OffCpuHoldsNothing
  <1>1. LockInv => OffCpuHoldsNothing
    BY DEF LockInv
  <1> QED
    BY <1>1, LockInvariant, PTL
=============================================================================
