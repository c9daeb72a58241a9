-------------------------------- MODULE Timer --------------------------------
(***************************************************************************)
(* The kernel's timers (timer.c): the two lists of running timers, kept in *)
(* the order of their timeout; rt_timer_check, which the tick interrupt    *)
(* runs on the hard list with _cpus_lock held; and the timer thread, which *)
(* runs the callbacks of the soft timers and sleeps in between on a hard   *)
(* timer, its own thread_timer.                                            *)
(*                                                                         *)
(* The tick wraps around, as the rt_tick_t of the code does.  A section    *)
(* under _cpus_lock that loops over a list takes one step per iteration    *)
(* and keeps the lock in between.                                          *)
(***************************************************************************)
EXTENDS Naturals, Sequences, KernelList

CONSTANTS
    Hard,           \* timers with RT_TIMER_FLAG_HARD_TIMER
    Soft,           \* timers with RT_TIMER_FLAG_SOFT_TIMER
    ThreadTimer,    \* _timer_thread.thread_timer
    None,           \* RT_NULL
    TickRange,      \* RT_TICK_MAX + 1
    Periods,        \* the init_tick values in use
    MaxLate,        \* bound on the ticks a due timer waits for a ready timer thread
    Disciplined     \* what callers of the soft timers avoid: see Gap and control

Timers == Hard \cup Soft \cup {ThreadTimer}

Ticks == 0 .. TickRange - 1

Kinds == {"hard", "soft"}           \* _timer_list and _soft_timer_list

Half == (TickRange - 1) \div 2      \* RT_TICK_MAX / 2

ASSUME TimerAssumption ==
    /\ Hard \cap Soft = {} /\ ThreadTimer \notin Hard \cup Soft
    /\ None \notin Timers
    /\ TickRange \in Nat \ {0} /\ MaxLate \in Nat
    /\ Periods \subseteq 1 .. Half - 1
    /\ Periods # {}
    \* "It supposes that the new tick shall less than the half duration of tick max"
    /\ \A p, q \in Periods : p + q + MaxLate < Half /\ p + 2 * MaxLate < Half
    /\ Disciplined \in BOOLEAN

VARIABLES
    tick,           \* rt_tick_get(): the tick counter of CPU 0
    active,         \* per timer: RT_TIMER_FLAG_ACTIVATED
    periodic,       \* per timer: RT_TIMER_FLAG_PERIODIC
    init_tick,      \* per timer; the alarm's is next_timeout
    timeout_tick,   \* per timer; 0 once it does not run any more
    timer_list,     \* _timer_list and _soft_timer_list
    firing,         \* the soft timer in the temporary list of rt_soft_timer_check
    soft_timer_status,
    stat,           \* of the timer thread: "SUSPEND", else "READY" or running
    pc,             \* where _timer_thread_entry is
    next_timeout,   \* its local variable, 0 when it is dead
    section         \* who is inside a loop with _cpus_lock held, or None

vars == <<tick, active, periodic, init_tick, timeout_tick, timer_list, firing,
          soft_timer_status, stat, pc, next_timeout, section>>

\* Mutant of plus: the sum is not cut to the width of rt_tick_t.
plus_wide(a, b) == a + b

\* rt_tick_t arithmetic.
plus(a, b) == (a + b) % TickRange

minus(a, b) == (a + TickRange - b) % TickRange

Which(t) == IF t \in Soft THEN "soft" ELSE "hard"

Listed(t) == InList(timer_list[Which(t)], t)

TypeOK ==
    /\ tick \in Ticks
    /\ active \in [Timers -> BOOLEAN]
    /\ periodic \in [Timers -> BOOLEAN]
    /\ init_tick \in [Hard \cup Soft -> Periods]
    /\ timeout_tick \in [Timers -> Ticks]
    /\ timer_list \in [Kinds -> Seq(Timers)]
    /\ \A k \in Kinds : \A i \in 1 .. Len(timer_list[k]) : Which(timer_list[k][i]) = k
    /\ firing \in Soft \cup {None}
    /\ soft_timer_status \in {"IDLE", "BUSY"}
    /\ stat \in {"READY", "SUSPEND"}
    /\ pc \in {"next", "suspend", "delay", "sleep", "check", "callback"}
    /\ next_timeout \in Ticks
    /\ section \in {None, "tick", "soft"}

-----------------------------------------------------------------------------
(* The lists *)

\* Mutant of goes_before: plain numbers instead of the distance on the wheel.
goes_before_plain(due, u) == timeout_tick[u] > due

\* The scan of rt_timer_start stops in front of a timer u that is due later; it
\* passes the ones due earlier or at the same tick.
goes_before(due, u) ==
    LET d == minus(timeout_tick[u], due) IN d # 0 /\ d < Half

inserted(l, t, due) ==
    rt_list_insert_before(l, {i \in 1 .. Len(l) : goes_before(due, l[i])}, t)

\* Mutant of expired: not yet in the tick of the timeout.
expired_after(t) == minus(tick, timeout_tick[t]) \in 1 .. Half

\* (current_tick - t->timeout_tick) < RT_TICK_MAX / 2
expired(t) == minus(tick, timeout_tick[t]) < Half

-----------------------------------------------------------------------------
(* rt_timer_start and rt_timer_stop inside a section *)

\* Mutant of resumes_thread: the timer thread is never told.
resumes_thread_never(t) == FALSE

\* A soft timer that starts wakes the timer thread if it sleeps.
resumes_thread(t) ==
    /\ t \in Soft
    /\ soft_timer_status = "IDLE"
    /\ stat = "SUSPEND"

\* rt_thread_resume stops the thread's own timer.
start(t) ==
    LET due == plus(tick, init_tick[t])
        rest == [k \in Kinds |-> rt_list_remove(timer_list[k], t)]
        with == [rest EXCEPT ![Which(t)] = inserted(@, t, due)]
        wake == resumes_thread(t)
    IN
    /\ timeout_tick' = [u \in Timers |-> IF u = t THEN due
                                         ELSE IF wake /\ u = ThreadTimer THEN 0
                                         ELSE timeout_tick[u]]
    /\ timer_list' = IF wake THEN [with EXCEPT !["hard"] = rt_list_remove(@, ThreadTimer)] ELSE with
    /\ active' = [u \in Timers |-> IF u = t THEN TRUE
                                   ELSE active[u] /\ ~(wake /\ u = ThreadTimer)]
    /\ stat' = IF wake THEN "READY" ELSE stat

\* Mutant of stop: the timer is unlinked and keeps its flag.
stop_keeps_flag(t) ==
    /\ timer_list' = [timer_list EXCEPT ![Which(t)] = rt_list_remove(@, t)]
    /\ timeout_tick' = [timeout_tick EXCEPT ![t] = 0]
    /\ UNCHANGED active

stop(t) ==
    /\ timer_list' = [timer_list EXCEPT ![Which(t)] = rt_list_remove(@, t)]
    /\ timeout_tick' = [timeout_tick EXCEPT ![t] = 0]
    /\ active' = [active EXCEPT ![t] = FALSE]

-----------------------------------------------------------------------------

Init ==
    /\ tick = 0
    /\ active = [t \in Timers |-> FALSE]
    /\ periodic \in {p \in [Timers -> BOOLEAN] : ~p[ThreadTimer]}
    /\ init_tick \in [Hard \cup Soft -> Periods]
    /\ timeout_tick = [t \in Timers |-> 0]
    /\ timer_list = [k \in Kinds |-> << >>]
    /\ firing = None
    /\ soft_timer_status = "IDLE"
    /\ stat = "READY"
    /\ pc = "next"
    /\ next_timeout = 0
    /\ section = None

Unlocked == section = None

-----------------------------------------------------------------------------
(* Callers: threads, interrupts, and the callbacks of the timers *)

\* Between its look at the list and its sleep the timer thread is not suspended
\* and is not woken by a timer that starts.
Gap == pc \in {"suspend", "delay", "sleep"} /\ stat = "READY"

rt_timer_start(t) ==
    /\ Unlocked
    /\ Disciplined /\ t \in Soft => ~Gap
    /\ start(t)
    /\ firing' = IF t = firing THEN None ELSE firing
    /\ UNCHANGED <<tick, periodic, init_tick, soft_timer_status, pc, next_timeout, section>>

\* rt_timer_stop, rt_timer_detach and rt_timer_delete.  The flag is tested before
\* the section; to stop a timer that has just expired changes nothing.
rt_timer_stop(t) ==
    /\ Unlocked
    /\ active[t]
    /\ stop(t)
    /\ firing' = IF t = firing THEN None ELSE firing
    /\ UNCHANGED <<tick, periodic, init_tick, soft_timer_status, stat, pc, next_timeout,
                   section>>

\* RT_TIMER_CTRL_SET_TIME
set_time(t, time) ==
    /\ Unlocked
    /\ init_tick' = [init_tick EXCEPT ![t] = time]
    /\ UNCHANGED <<tick, active, periodic, timeout_tick, timer_list, firing,
                   soft_timer_status, stat, pc, next_timeout, section>>

\* RT_TIMER_CTRL_SET_ONESHOT, RT_TIMER_CTRL_SET_PERIODIC.  One that becomes
\* one-shot inside its own callback would stay ACTIVATED in no list.
set_periodic(t, p) ==
    /\ Unlocked
    /\ Disciplined => t # firing
    /\ periodic' = [periodic EXCEPT ![t] = p]
    /\ UNCHANGED <<tick, active, init_tick, timeout_tick, timer_list, firing,
                   soft_timer_status, stat, pc, next_timeout, section>>

-----------------------------------------------------------------------------
(* The tick interrupt *)

HardHead == Head(timer_list["hard"])

HardDue == timer_list["hard"] # << >> /\ expired(HardHead)

\* The timer thread gets a CPU before a soft timer is later than the bound, and
\* the wheel does not turn past a timer that nobody serves.
Late(t) == /\ Listed(t) /\ expired(t)
           /\ minus(tick, timeout_tick[t]) >= IF stat = "READY" THEN MaxLate ELSE Half - 1

\* rt_tick_increase on CPU 0, which has finished the check of its last tick.
rt_tick_increase ==
    /\ Unlocked
    /\ ~HardDue
    /\ \A t \in Soft : ~Late(t)
    /\ tick' = plus(tick, 1)
    /\ UNCHANGED <<active, periodic, init_tick, timeout_tick, timer_list, firing,
                   soft_timer_status, stat, pc, next_timeout, section>>

\* rt_timer_check takes the lock, on any CPU.
timer_check_enter ==
    /\ Unlocked
    /\ HardDue
    /\ section' = "tick"
    /\ UNCHANGED <<tick, active, periodic, init_tick, timeout_tick, timer_list, firing,
                   soft_timer_status, stat, pc, next_timeout>>

\* The thread timer's turn: _thread_timeout.
thread_timeout ==
    /\ section = "tick" /\ HardDue /\ HardHead = ThreadTimer
    /\ stop(ThreadTimer)
    /\ stat' = "READY"
    /\ UNCHANGED <<tick, periodic, init_tick, firing, soft_timer_status, pc,
                   next_timeout, section>>

\* Another hard timer's: the callback leaves its timer alone, and it starts again
\* if it is periodic ...
rt_timer_check(t) ==
    /\ section = "tick" /\ HardDue /\ HardHead = t /\ t # ThreadTimer
    /\ IF periodic[t] THEN start(t) ELSE stop(t) /\ UNCHANGED stat
    /\ UNCHANGED <<tick, periodic, init_tick, firing, soft_timer_status, pc, next_timeout,
                   section>>

\* ... or the callback has started or stopped it.
hard_callback(t, restart) ==
    /\ section = "tick" /\ HardDue /\ HardHead = t /\ t # ThreadTimer
    /\ IF restart THEN start(t) ELSE stop(t) /\ UNCHANGED stat
    /\ UNCHANGED <<tick, periodic, init_tick, firing, soft_timer_status, pc, next_timeout,
                   section>>

timer_check_leave ==
    /\ section = "tick" /\ ~HardDue
    /\ section' = None
    /\ UNCHANGED <<tick, active, periodic, init_tick, timeout_tick, timer_list, firing,
                   soft_timer_status, stat, pc, next_timeout>>

-----------------------------------------------------------------------------
(* The timer thread: _timer_thread_entry and rt_soft_timer_check *)

ThreadAt(p) == pc = p /\ stat = "READY"

\* _timer_list_next_timeout(_soft_timer_list, &next_timeout)
timer_list_next_timeout ==
    /\ ThreadAt("next") /\ Unlocked
    /\ IF timer_list["soft"] = << >>
       THEN pc' = "suspend" /\ UNCHANGED next_timeout
       ELSE pc' = "delay" /\ next_timeout' = timeout_tick[Head(timer_list["soft"])]
    /\ UNCHANGED <<tick, active, periodic, init_tick, timeout_tick, timer_list, firing,
                   soft_timer_status, stat, section>>

\* rt_thread_suspend(rt_thread_self()) and rt_schedule()
suspend_self ==
    /\ ThreadAt("suspend") /\ Unlocked
    /\ stat' = "SUSPEND"
    /\ pc' = "check"
    /\ UNCHANGED <<tick, active, periodic, init_tick, timeout_tick, timer_list, firing,
                   soft_timer_status, next_timeout, section>>

\* current_tick = rt_tick_get() and the time that is left; of none, the thread
\* does not sleep.
read_tick ==
    /\ ThreadAt("delay")
    /\ LET left == minus(next_timeout, tick) IN
       IF left < Half /\ left # 0
       THEN pc' = "sleep" /\ next_timeout' = left
       ELSE pc' = "check" /\ next_timeout' = 0
    /\ UNCHANGED <<tick, active, periodic, init_tick, timeout_tick, timer_list, firing,
                   soft_timer_status, stat, section>>

\* rt_thread_delay(next_timeout)
rt_thread_delay ==
    LET due == plus(tick, next_timeout) IN
    /\ ThreadAt("sleep") /\ Unlocked
    /\ stat' = "SUSPEND"
    /\ timeout_tick' = [timeout_tick EXCEPT ![ThreadTimer] = due]
    /\ timer_list' = [timer_list EXCEPT !["hard"] = inserted(@, ThreadTimer, due)]
    /\ active' = [active EXCEPT ![ThreadTimer] = TRUE]
    /\ pc' = "check"
    /\ next_timeout' = 0
    /\ UNCHANGED <<tick, periodic, init_tick, firing, soft_timer_status, section>>

SoftHead == Head(timer_list["soft"])

\* One iteration of rt_soft_timer_check up to the callback, or the last one.
rt_soft_timer_check ==
    /\ ThreadAt("check") /\ section \in {None, "soft"}
    /\ section' = None
    /\ IF timer_list["soft"] # << >> /\ expired(SoftHead)
       THEN /\ timer_list' = [timer_list EXCEPT !["soft"] = Tail(@)]
            /\ active' = [active EXCEPT ![SoftHead] = periodic[SoftHead]]
            /\ timeout_tick' = [timeout_tick EXCEPT ![SoftHead] = 0]
            /\ firing' = SoftHead
            /\ soft_timer_status' = "BUSY"
            /\ pc' = "callback"
       ELSE /\ pc' = "next"
            /\ UNCHANGED <<timer_list, active, timeout_tick, firing, soft_timer_status>>
    /\ UNCHANGED <<tick, periodic, init_tick, stat, next_timeout>>

\* Mutant of callback_returns: the status stays busy.
callback_stays_busy ==
    /\ ThreadAt("callback") /\ Unlocked
    /\ section' = "soft"
    /\ firing' = None
    /\ pc' = "check"
    /\ IF firing # None /\ periodic[firing] /\ active[firing]
       THEN start(firing)
       ELSE UNCHANGED <<active, timeout_tick, timer_list, stat>>
    /\ UNCHANGED <<tick, periodic, init_tick, soft_timer_status, next_timeout>>

\* The iteration after the callback: a periodic timer that is still in the
\* temporary list and still active starts again.
callback_returns ==
    /\ ThreadAt("callback") /\ Unlocked
    /\ section' = "soft"
    /\ soft_timer_status' = "IDLE"
    /\ firing' = None
    /\ pc' = "check"
    /\ IF firing # None /\ periodic[firing] /\ active[firing]
       THEN start(firing)
       ELSE UNCHANGED <<active, timeout_tick, timer_list, stat>>
    /\ UNCHANGED <<tick, periodic, init_tick, next_timeout>>

ThreadStep ==
    \/ timer_list_next_timeout \/ suspend_self \/ read_tick \/ rt_thread_delay
    \/ rt_soft_timer_check \/ callback_returns

TickStep ==
    \/ timer_check_enter \/ thread_timeout \/ timer_check_leave
    \/ \E t \in Hard : rt_timer_check(t) \/ \E restart \in BOOLEAN : hard_callback(t, restart)

Next ==
    \/ \E t \in Hard \cup Soft :
          \/ rt_timer_start(t) \/ rt_timer_stop(t)
          \/ \E time \in Periods : set_time(t, time)
          \/ \E p \in BOOLEAN : set_periodic(t, p)
    \/ rt_tick_increase
    \/ TickStep
    \/ ThreadStep

Spec == Init /\ [][Next]_vars

\* The tick goes on, its handler ends, and the timer thread, which is more urgent
\* than the application, goes on with what it does.
FairSpec == Spec /\ SF_vars(rt_tick_increase) /\ SF_vars(TickStep) /\ SF_vars(ThreadStep)

-----------------------------------------------------------------------------

(***************************************************************************)
(* The flag and the lists agree: RT_TIMER_FLAG_ACTIVATED is set exactly for*)
(* a timer that is linked once into the list of its kind, and for a        *)
(* periodic one while its callback runs; so a timer that was stopped, also *)
(* by its own callback, does not expire again.                             *)
(***************************************************************************)
ActivatedIsListed ==
    /\ \A t \in Timers : active[t] <=> Listed(t) \/ (t = firing /\ periodic[t])
    /\ \A k \in Kinds : Once(timer_list[k])

(***************************************************************************)
(* The head of a list is the next timer due: the lists are ordered by the  *)
(* distance of the timeouts on the wheel, across the overflow of the tick. *)
(***************************************************************************)
ListsInOrder ==
    \A k \in Kinds : \A i, j \in 1 .. Len(timer_list[k]) :
        i < j => minus(timeout_tick[timer_list[k][j]], timeout_tick[timer_list[k][i]]) < Half

(***************************************************************************)
(* The timer thread sleeps without an alarm only if there is nothing to    *)
(* wait for: "no software timer exist, suspend self"; and its alarm finds  *)
(* it asleep, as _thread_timeout asserts.                                  *)
(***************************************************************************)
AlarmIsSet ==
    /\ stat = "SUSPEND" => timer_list["soft"] = << >> \/ Listed(ThreadTimer)
    /\ Listed(ThreadTimer) => stat = "SUSPEND"

\* A soft timer that is due.
Due(t) == Listed(t) /\ expired(t)

(***************************************************************************)
(* Every soft timer that becomes due is taken off the list (its callback   *)
(* runs), unless somebody stops or restarts it first.                      *)
(***************************************************************************)
SoftTimersFire == \A t \in Soft : Due(t) ~> ~Due(t)

\* The longest time a timer may be set to.
Longest == CHOOSE p \in Periods : \A q \in Periods : q <= p

\* How late a soft timer can be: the alarm of the timer thread is set up to MaxLate
\* ticks after the thread has read how long it is to sleep.
MostLate == MaxLate + Longest

(***************************************************************************)
(* The tick does not run past a timer: a hard one leaves its list in the   *)
(* tick of its timeout, and the timer thread's sleep, computed from the    *)
(* first soft timer before others were started, stopped or reprogrammed,   *)
(* makes no soft one later than MostLate.                                  *)
(***************************************************************************)
NoneIsMissed ==
    \A t \in Timers : Due(t) =>
        minus(tick, timeout_tick[t]) <= IF t \in Soft THEN MostLate ELSE 0
=============================================================================
