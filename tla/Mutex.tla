-------------------------------- MODULE Mutex --------------------------------
(***************************************************************************)
(* The mutex of ipc.c with its priority inheritance.  A section under      *)
(* _cpus_lock is one step; a thread that waits is off its CPU between the  *)
(* section that suspends it and the one it runs after rt_schedule returns, *)
(* and there the owner, the timer and other waiters get in between.        *)
(*                                                                         *)
(* Which of the threads that are not suspended runs next is left open: two *)
(* CPUs and the interrupts make almost every order possible.               *)
(***************************************************************************)
EXTENDS Naturals, Sequences, FiniteSets, KernelList

CONSTANTS
    Threads,
    None,           \* RT_NULL
    NMutex,         \* how many mutexes there are
    init_priority,  \* thread -> its own priority
    NoPrio,         \* 0xff, less urgent than every priority
    MaxHold,        \* RT_MUTEX_HOLD_MAX
    Impatient,      \* bound: the threads that wait with a timeout
    Sleepers,       \* bound: the threads that also wait for other things
    Asserts,        \* RT_ASSERT is compiled in (RT_DEBUG)
    Ordered,        \* callers take mutexes in one order: see InOrder
    Disciplined,    \* what the users of mutexes avoid: see Over, sleep, rt_thread_delete
    Prompts         \* the values of prompt

Mutexes == 1 .. NMutex

Prios == 0 .. NoPrio - 1

Updates == [thread : Threads, to : Prios]

ASSUME MutexAssumption ==
    /\ None \notin Threads \cup Mutexes \cup Updates
    /\ NMutex \in Nat /\ NoPrio \in Nat /\ MaxHold \in Nat \ {0}
    /\ init_priority \in [Threads -> Prios]
    /\ Impatient \subseteq Threads /\ Sleepers \subseteq Threads
    /\ Asserts \in BOOLEAN /\ Disciplined \in BOOLEAN /\ Ordered \in BOOLEAN
    /\ Prompts \subseteq BOOLEAN

VARIABLES
    owner, hold,        \* per mutex
    mutex_priority,     \* per mutex: its field priority
    suspend_thread,     \* per mutex: the list of waiting threads
    taken,              \* per thread: taken_object_list
    prio,               \* per thread: current_priority
    stat,               \* per thread
    pending_object,     \* per thread
    timed,              \* per thread: thread_timer runs
    pc,                 \* per thread: "user", "wait" or "failed" in rt_mutex_take,
                        \* "dying" between the two sections of its deletion
    want,               \* per thread: the mutex of that call
    update,             \* the priority change in progress under the lock, or None
    halted,             \* an assertion has failed
    prompt              \* a wait that has ended is wound up before anything else happens;
                        \* chosen once

vars == <<owner, hold, mutex_priority, suspend_thread, taken, prio, stat,
          pending_object, timed, pc, want, update, halted, prompt>>

TypeOK ==
    /\ owner \in [Mutexes -> Threads \cup {None}]
    /\ hold \in [Mutexes -> 0 .. MaxHold]
    /\ mutex_priority \in [Mutexes -> 0 .. NoPrio]
    /\ suspend_thread \in [Mutexes -> Seq(Threads)]
    /\ taken \in [Threads -> SUBSET Mutexes]
    /\ prio \in [Threads -> Prios]
    /\ stat \in [Threads -> {"READY", "SUSPEND", "CLOSE"}]
    /\ pending_object \in [Threads -> Mutexes \cup {None}]
    /\ timed \in [Threads -> BOOLEAN]
    /\ pc \in [Threads -> {"user", "wait", "failed", "dying"}]
    /\ want \in [Threads -> Mutexes \cup {None}]
    /\ update \in Updates \cup {None}
    /\ halted \in BOOLEAN /\ prompt \in Prompts

Init ==
    /\ owner = [m \in Mutexes |-> None]
    /\ hold = [m \in Mutexes |-> 0]
    /\ mutex_priority = [m \in Mutexes |-> NoPrio]
    /\ suspend_thread = [m \in Mutexes |-> << >>]
    /\ taken = [t \in Threads |-> {}]
    /\ prio = init_priority
    /\ stat = [t \in Threads |-> "READY"]
    /\ pending_object = [t \in Threads |-> None]
    /\ timed = [t \in Threads |-> FALSE]
    /\ pc = [t \in Threads |-> "user"]
    /\ want = [t \in Threads |-> None]
    /\ update = None
    /\ halted = FALSE
    /\ prompt \in Prompts

-----------------------------------------------------------------------------
(* The waiting list and the priorities *)

\* Mutant of queued: first come, first served.
queued_fifo(l, t, p, q) == Append(l, t)

\* _ipc_list_suspend with RT_IPC_FLAG_PRIO: thread t at priority p goes before the
\* first thread that is less urgent, q being the priorities of the others.
queued(l, t, p, q) ==
    rt_list_insert_before(l, {i \in 1 .. Len(l) : p < q[l[i]]}, t)

\* _mutex_update_priority: that of the first waiter.
first_priority(l, q) == IF l = << >> THEN NoPrio ELSE q[Head(l)]

Least(S) == CHOOSE p \in S : \A r \in S : p <= r

\* _thread_get_mutex_priority, with the mutexes' priorities mp and the mutexes T
\* the thread has taken.
inherited(t, mp, T) == Least({init_priority[t]} \cup {mp[m] : m \in T})

\* _thread_update_priority is called for u if that changes its priority.
request(u, p) == update' = IF p # prio[u] THEN [thread |-> u, to |-> p] ELSE None

\* The thread is out of the waiting list and its wait is not wound up yet.
Leaving(u) == pc[u] \in {"failed", "dying"}

\* Nobody is inside the section, and no wait but that of t is to be wound up first.
Free(t) ==
    /\ update = None /\ ~halted
    /\ prompt => \A u \in Threads \ {t} : ~Leaving(u)

\* t runs its own code.
Runs(t) == stat[t] = "READY" /\ Free(t)

-----------------------------------------------------------------------------
(* rt_mutex_take *)

take_free(t, m) ==
    /\ Runs(t) /\ pc[t] = "user"
    /\ owner[m] = None
    /\ owner' = [owner EXCEPT ![m] = t]
    /\ mutex_priority' = [mutex_priority EXCEPT ![m] = NoPrio]
    /\ hold' = [hold EXCEPT ![m] = 1]
    /\ taken' = [taken EXCEPT ![t] = @ \cup {m}]
    /\ UNCHANGED <<suspend_thread, prio, stat, pending_object, timed, pc, want, update, halted>>

\* Mutant of take_again: the count may overflow.
take_again_unbounded(t, m) ==
    /\ Runs(t) /\ pc[t] = "user"
    /\ owner[m] = t
    /\ hold' = [hold EXCEPT ![m] = @ + 1]
    /\ UNCHANGED <<owner, mutex_priority, suspend_thread, taken, prio, stat, pending_object,
                   timed, pc, want, update, halted>>

take_again(t, m) ==
    /\ Runs(t) /\ pc[t] = "user"
    /\ owner[m] = t
    /\ hold[m] < MaxHold
    /\ hold' = [hold EXCEPT ![m] = @ + 1]
    /\ UNCHANGED <<owner, mutex_priority, suspend_thread, taken, prio, stat, pending_object,
                   timed, pc, want, update, halted>>

\* Ordered callers never wait for each other in a circle; ipc.c does not see to it.
InOrder(t, m) == Ordered => \A h \in Mutexes : owner[h] = t => h < m

\* The section that suspends the caller; with a timeout its timer runs.
take_wait(t, m, timeout) ==
    LET p == prio[t]
        first == p < mutex_priority[m]
    IN
    /\ Runs(t) /\ pc[t] = "user"
    /\ owner[m] \notin {None, t} /\ InOrder(t, m)
    /\ timeout => t \in Impatient
    /\ suspend_thread' = [suspend_thread EXCEPT ![m] = queued(@, t, p, prio)]
    /\ stat' = [stat EXCEPT ![t] = "SUSPEND"]
    /\ pending_object' = [pending_object EXCEPT ![t] = m]
    /\ mutex_priority' = IF first THEN [mutex_priority EXCEPT ![m] = p] ELSE mutex_priority
    /\ update' = IF first /\ p < prio[owner[m]] THEN [thread |-> owner[m], to |-> p] ELSE None
    /\ timed' = [timed EXCEPT ![t] = timeout]
    /\ pc' = [pc EXCEPT ![t] = "wait"]
    /\ want' = [want EXCEPT ![t] = m]
    /\ UNCHANGED <<owner, hold, taken, prio, halted>>

\* Mutant of thread_update_priority: the change stops at a thread that waits.
update_no_chain ==
    /\ update # None /\ ~halted
    /\ prio' = [prio EXCEPT ![update.thread] = update.to]
    /\ update' = None
    /\ UNCHANGED <<owner, hold, mutex_priority, suspend_thread, taken, stat, pending_object,
                   timed, pc, want, halted>>

\* One call of _thread_update_priority.  A thread that waits for a mutex itself is
\* queued there anew, and that mutex's owner is next; rt_thread_suspend, which the
\* queueing calls first, asserts that the thread is the caller.
thread_update_priority ==
    LET u == update.thread
        q == [prio EXCEPT ![u] = update.to]
        m == pending_object[u]
        l == queued(rt_list_remove(suspend_thread[m], u), u, q[u], q)
        mp == [mutex_priority EXCEPT ![m] = first_priority(l, q)]
        o == owner[m]
        p == inherited(o, mp, taken[o])
        chained == stat[u] = "SUSPEND" /\ m # None
    IN
    /\ update # None /\ ~halted
    /\ prio' = q
    /\ halted' = (chained /\ Asserts)
    /\ IF chained /\ ~Asserts
       THEN /\ suspend_thread' = [suspend_thread EXCEPT ![m] = l]
            /\ mutex_priority' = mp
            /\ update' = IF p # q[o] THEN [thread |-> o, to |-> p] ELSE None
       ELSE /\ update' = None
            /\ UNCHANGED <<suspend_thread, mutex_priority>>
    /\ UNCHANGED <<owner, hold, taken, stat, pending_object, timed, pc, want>>

\* Mutant of thread_timeout: the thread stays in the waiting list.
timeout_stays_listed(t) ==
    /\ Free(t)
    /\ timed[t]
    /\ timed' = [timed EXCEPT ![t] = FALSE]
    /\ stat' = [stat EXCEPT ![t] = "READY"]
    /\ pc' = [pc EXCEPT ![t] = "failed"]
    /\ UNCHANGED <<owner, hold, mutex_priority, suspend_thread, taken, prio, pending_object,
                   want, update, halted>>

\* _thread_timeout of a waiting thread
thread_timeout(t) ==
    /\ Free(t)
    /\ timed[t]
    /\ timed' = [timed EXCEPT ![t] = FALSE]
    /\ suspend_thread' = [suspend_thread EXCEPT ![want[t]] = rt_list_remove(@, t)]
    /\ stat' = [stat EXCEPT ![t] = "READY"]
    /\ pc' = [pc EXCEPT ![t] = "failed"]
    /\ UNCHANGED <<owner, hold, mutex_priority, taken, prio, pending_object, want, update,
                   halted>>

\* A thread leaves the waiters of m, which are l from now on: the priority of m,
\* and that of its owner if it may have come from this thread.
left(t, m, l) ==
    LET mp == [mutex_priority EXCEPT ![m] = first_priority(l, prio)]
        o == owner[m]
    IN
    /\ mutex_priority' = mp
    /\ IF prio[o] = prio[t] THEN request(o, inherited(o, mp, taken[o])) ELSE update' = None

\* rt_mutex_take after rt_schedule, with an error: pending_object stays set.
take_failed(t) ==
    /\ Runs(t) /\ pc[t] = "failed"
    /\ left(t, want[t], suspend_thread[want[t]])
    /\ pc' = [pc EXCEPT ![t] = "user"]
    /\ want' = [want EXCEPT ![t] = None]
    /\ UNCHANGED <<owner, hold, suspend_thread, taken, prio, stat, pending_object, timed,
                   halted>>

\* A waiting thread is deleted.  rt_thread_delete first unlinks it, in a section of
\* its own.  The mutexes a thread owns are not given back, so it must own none.
rt_thread_delete(t) ==
    /\ Free(t)
    /\ pc[t] = "wait"
    /\ \A h \in Mutexes : owner[h] # t
    /\ Disciplined => ~timed[t]
    /\ suspend_thread' = [suspend_thread EXCEPT ![want[t]] = rt_list_remove(@, t)]
    /\ pc' = [pc EXCEPT ![t] = "dying"]
    /\ UNCHANGED <<owner, hold, mutex_priority, taken, prio, stat, pending_object, timed,
                   want, update, halted>>

\* The second section closes the thread and calls rt_mutex_drop_thread.
rt_mutex_drop_thread(t) ==
    LET m == pending_object[t] IN
    /\ Free(t)
    /\ pc[t] = "dying"
    /\ left(t, m, suspend_thread[m])
    /\ stat' = [stat EXCEPT ![t] = "CLOSE"]
    /\ timed' = [timed EXCEPT ![t] = FALSE]
    /\ pending_object' = [pending_object EXCEPT ![t] = None]
    /\ pc' = [pc EXCEPT ![t] = "user"]
    /\ want' = [want EXCEPT ![t] = None]
    /\ UNCHANGED <<owner, hold, suspend_thread, taken, prio, halted>>

-----------------------------------------------------------------------------
(* rt_mutex_release *)

release_again(t, m) ==
    /\ Runs(t) /\ pc[t] = "user"
    /\ owner[m] = t /\ hold[m] > 1
    /\ hold' = [hold EXCEPT ![m] = @ - 1]
    /\ UNCHANGED <<owner, mutex_priority, suspend_thread, taken, prio, stat, pending_object,
                   timed, pc, want, update, halted>>

\* Mutant of own_priority: the thread keeps what it had.
own_priority_kept(t, m) == prio[t]

\* The priority that the thread has left after m.
own_priority(t, m) ==
    IF prio[t] = mutex_priority[m]
    THEN inherited(t, mutex_priority, taken[t] \ {m})
    ELSE prio[t]

\* A thread that was taken out of the list of m and has not been wound up since
\* would read the priority of an owner that is no more.
Over(m) == Disciplined => \A u \in Threads : Leaving(u) => want[u] # m

\* Nobody waits.
released(t, m) ==
    /\ Runs(t) /\ pc[t] = "user"
    /\ owner[m] = t /\ hold[m] = 1
    /\ suspend_thread[m] = << >>
    /\ Over(m)
    /\ hold' = [hold EXCEPT ![m] = 0]
    /\ taken' = [taken EXCEPT ![t] = @ \ {m}]
    /\ prio' = [prio EXCEPT ![t] = own_priority(t, m)]
    /\ owner' = [owner EXCEPT ![m] = None]
    /\ mutex_priority' = [mutex_priority EXCEPT ![m] = NoPrio]
    /\ UNCHANGED <<suspend_thread, stat, pending_object, timed, pc, want, update, halted>>

\* Mutant of timer_stop: the timer goes on.
timer_stop_not(u) == UNCHANGED timed

\* rt_timer_stop of the thread's timer in rt_thread_resume
timer_stop(u) == timed' = [timed EXCEPT ![u] = FALSE]

\* The first waiter becomes the owner inside the section and resumes.
handed_over(t, m) ==
    LET u == Head(suspend_thread[m])
        rest == Tail(suspend_thread[m])
    IN
    /\ Runs(t) /\ pc[t] = "user"
    /\ owner[m] = t /\ hold[m] = 1
    /\ suspend_thread[m] # << >>
    /\ prio' = [prio EXCEPT ![t] = own_priority(t, m)]
    /\ taken' = [taken EXCEPT ![t] = @ \ {m}, ![u] = @ \cup {m}]
    /\ suspend_thread' = [suspend_thread EXCEPT ![m] = rest]
    /\ owner' = [owner EXCEPT ![m] = u]
    /\ pending_object' = [pending_object EXCEPT ![u] = None]
    /\ timer_stop(u)
    /\ stat' = [stat EXCEPT ![u] = "READY"]
    /\ pc' = [pc EXCEPT ![u] = "user"]
    /\ want' = [want EXCEPT ![u] = None]
    /\ mutex_priority' = [mutex_priority EXCEPT ![m] = first_priority(rest, prio)]
    /\ UNCHANGED <<hold, update, halted>>

-----------------------------------------------------------------------------
(* Other waits: a delay, a semaphore, a message *)

\* With a pending_object left from a failed take, a change of priority would move
\* the thread into that mutex's list.
sleep(t) ==
    /\ Runs(t) /\ pc[t] = "user"
    /\ t \in Sleepers
    /\ Disciplined => pending_object[t] = None
    /\ stat' = [stat EXCEPT ![t] = "SUSPEND"]
    /\ UNCHANGED <<owner, hold, mutex_priority, suspend_thread, taken, prio, pending_object,
                   timed, pc, want, update, halted>>

wakeup(t) ==
    /\ Free(t)
    /\ stat[t] = "SUSPEND" /\ pc[t] = "user"
    /\ stat' = [stat EXCEPT ![t] = "READY"]
    /\ UNCHANGED <<owner, hold, mutex_priority, suspend_thread, taken, prio, pending_object,
                   timed, pc, want, update, halted>>

Next ==
    /\ \/ thread_update_priority
       \/ \E t \in Threads :
             \/ thread_timeout(t) \/ take_failed(t)
             \/ rt_thread_delete(t) \/ rt_mutex_drop_thread(t)
             \/ sleep(t) \/ wakeup(t)
             \/ \E m \in Mutexes :
                   \/ take_free(t, m) \/ take_again(t, m)
                   \/ \E timeout \in BOOLEAN : take_wait(t, m, timeout)
                   \/ release_again(t, m) \/ released(t, m) \/ handed_over(t, m)
    /\ UNCHANGED prompt

Spec == Init /\ [][Next]_vars

-----------------------------------------------------------------------------

Waits(t, m) == InList(suspend_thread[m], t)

(***************************************************************************)
(* The owner, the count, the list of taken mutexes and the waiting list say*)
(* the same: a mutex that is waited for has an owner, and the threads in   *)
(* its list are the ones that wait for it in rt_mutex_take, each once.     *)
(***************************************************************************)
OwnershipAgrees ==
    /\ \A m \in Mutexes :
          /\ owner[m] = None <=> hold[m] = 0
          /\ owner[m] = None => suspend_thread[m] = << >>
          /\ \A t \in Threads : m \in taken[t] <=> owner[m] = t
          /\ Once(suspend_thread[m])
    /\ \A t \in Threads, m \in Mutexes :
          Waits(t, m) <=> pc[t] = "wait" /\ stat[t] = "SUSPEND" /\ want[t] = m

\* No priority is about to change.
Settled == update = None /\ \A t \in Threads : ~Leaving(t)

(***************************************************************************)
(* Priority inheritance: the owner of a mutex is as urgent as every thread *)
(* that waits for it, also through a chain of owners that wait themselves  *)
(* and while waits end by a timeout, a release or a deletion.              *)
(***************************************************************************)
PriorityIsInherited ==
    update = None => \A t \in Threads, m \in Mutexes, w \in Threads :
        owner[m] = t /\ Waits(w, m) => prio[t] <= prio[w]

(***************************************************************************)
(* Nobody keeps a priority he inherited from a wait that is over, as long  *)
(* as a wait that has ended is wound up before anything else happens.      *)
(***************************************************************************)
PriorityGoesBack ==
    prompt /\ Settled => \A t \in Threads : stat[t] # "CLOSE" =>
        prio[t] = Least({init_priority[t]} \cup
                        {prio[w] : w \in {u \in Threads : \E m \in Mutexes :
                                              owner[m] = t /\ Waits(u, m)}})

(***************************************************************************)
(* A mutex goes to the most urgent waiter: the lists stay sorted while the *)
(* priorities of the threads in them change.                               *)
(***************************************************************************)
MostUrgentFirst ==
    update = None =>
        \A m \in Mutexes : \A i, j \in 1 .. Len(suspend_thread[m]) :
            i < j => prio[suspend_thread[m][i]] <= prio[suspend_thread[m][j]]

(***************************************************************************)
(* A wait ends by the hand-over or by the timeout, never by both: the timer*)
(* runs only for a thread that still waits, and a thread that waits or     *)
(* whose take has failed does not own the mutex.                           *)
(***************************************************************************)
EndsOneWay ==
    \A t \in Threads :
        /\ timed[t] => stat[t] = "SUSPEND" /\ pc[t] = "wait"
        /\ pc[t] # "user" => owner[want[t]] # t

(***************************************************************************)
(* rt_thread_suspend suspends the calling thread only: "This function ONLY *)
(* can suspend current thread itself".                                     *)
(***************************************************************************)
SuspendsItself == ~halted
=============================================================================
