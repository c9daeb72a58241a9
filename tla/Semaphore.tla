------------------------------ MODULE Semaphore ------------------------------
(***************************************************************************)
(* The semaphore of ipc.c.  A release with a waiter does not count up: the *)
(* unit goes to the waiter, who has it although it has not run yet.        *)
(***************************************************************************)
EXTENDS IpcList

CONSTANTS
    SemMax,     \* RT_SEM_VALUE_MAX
    SemInits    \* the values a semaphore is made or reset with

ASSUME SemAssumption == SemMax \in Nat /\ SemInits \subseteq 0 .. SemMax

VARIABLES
    sem_value,
    sem_credit  \* ghost: what was put in, minus the takes that have returned

semVars == <<sem_value, sem_credit>>

SemInit == sem_value \in SemInits /\ sem_credit = sem_value

take_now(t) ==
    /\ Calls(t)
    /\ sem_value > 0
    /\ sem_value' = sem_value - 1
    /\ sem_credit' = sem_credit - 1
    /\ UNCHANGED ipcVars

take_wait(t, T) ==
    /\ Calls(t)
    /\ sem_value = 0 /\ T # 0
    /\ suspend(t, Receivers, "take", T, Asked(T))
    /\ UNCHANGED semVars

\* rt_sem_take returns RT_EOK after a wait.
take_granted(t) ==
    /\ Resumed(t, "take")
    /\ th' = Returned(t)
    /\ sem_credit' = sem_credit - 1
    /\ UNCHANGED <<flag, waiting, sem_value>>

\* Mutant of rt_sem_release: counts up also when the unit goes to a waiter.
rt_sem_release_both ==
    /\ sem_value < SemMax
    /\ sem_value' = sem_value + 1
    /\ first_resumed(th, Receivers)
    /\ sem_credit' = sem_credit + 1

\* From a thread or an interrupt.
rt_sem_release ==
    /\ IF waiting[Receivers] # << >> THEN UNCHANGED sem_value
       ELSE sem_value < SemMax /\ sem_value' = sem_value + 1
    /\ first_resumed(th, Receivers)
    /\ sem_credit' = sem_credit + 1

\* rt_sem_control with RT_IPC_CMD_RESET; threads that have a unit keep it.
rt_sem_reset(v) ==
    /\ resume_all
    /\ sem_value' = v
    /\ sem_credit' = v + Cardinality(WokenIn("take"))

SemNext ==
    \/ \E t \in Threads :
          \/ take_now(t) \/ take_granted(t)
          \/ \E T \in Timeouts : take_wait(t, T)
    \/ rt_sem_release
    \/ \E v \in SemInits : rt_sem_reset(v)
    \/ IpcStep /\ UNCHANGED semVars

-----------------------------------------------------------------------------

SemNoneForgotten == sem_value > 0 => waiting[Receivers] = << >>

(***************************************************************************)
(* Units are neither lost nor made, whoever wins the race between a release*)
(* and the timeout of the waiter it goes to: what was put in and not yet   *)
(* taken is in the counter or in the hands of a woken thread.              *)
(***************************************************************************)
SemUnitsKept == sem_credit = sem_value + Cardinality(WokenIn("take"))
=============================================================================
