# NuMaker-IoT-MA35D05KI1 BSP: a verification project

The repository is the board support package of the Nuvoton NuMaker-IoT-MA35D05KI1: the RT-Thread 5.0.0
kernel and components (`src/rt-thread`), the MA35 drivers (`src/libraries/ma35`), chip packages
(`src/libraries/nu_packages`), third-party packages (`src/packages`) and a small application
(`src/applications`, `src/board`).  It is built for two Cortex-A35 cores in 32-bit mode
(`RT_USING_SMP`, `RT_CPUS_NR` 2, see `src/rtconfig.h`).

Everything that runs on the board rests on the SMP kernel: how the two cores exclude each other, which thread
runs where, how waits end, when timers fire.  That core is what these modules model.  Its difficulty is not in
any single function but in what two cores, two interrupt streams and a handful of threads do between two
critical sections.

## 1. Inventory

| Component | State | Operations | Hard behaviour |
|---|---|---|---|
| hardware spinlock (`libcpu/arm/cortex-a/cpu.c`) | two 16-bit tickets in one word; the event register of a CPU | `rt_hw_spin_lock`, `rt_hw_spin_unlock` | wrap-around, stale copies, lost events |
| global lock (`src/cpu.c`, `irq.c`, parts of `scheduler.c`, `start_gcc.S`) | `_cpus_lock`, three counters per thread, `irq_nest` and `irq_switch_flag` per CPU | `rt_cpus_lock/unlock`, `rt_cpus_lock_status_restore`, `rt_enter/exit_critical`, `rt_spin_lock/unlock`, interrupt entry and exit | the lock is taken by one thread and released by another |
| scheduler (`scheduler.c`) | a shared ready table and one per CPU, `oncpu`, `current_thread` | insert, remove, `rt_schedule`, the switch at the interrupt return, IPI | resume before the sleeper is off its CPU, missed IPIs, preemption in critical sections |
| threads (`thread.c`), tick (`clock.c`), idle (`idle.c`) | state, priority, time slice, thread timer, defunct list | start, suspend, resume, yield, sleep, priority change, exit, delete, timeout | wake-up racing a timeout; operations in two sections |
| timers (`timer.c`) | a hard and a soft list, the timer thread, the tick | start, stop, control, the tick's check, the timer thread's check | tick overflow, timers changed while they fire, lost wake-ups |
| mutex (`ipc.c`) | owner, count, priority and waiting list of a mutex; taken list and pending object of a thread | take, release, timeout, drop of a deleted waiter | priority inheritance along chains while waits end |
| semaphore, event, mailbox, message queue (`ipc.c`), memory pool (`mempool.c`) | a counter, bits, a ring, linked blocks; one or two waiting lists | take/release, send/receive, urgent send, alloc/free, reset | a woken thread that finds nothing, remaining time, blocks filled outside the lock, deletion under waiters |
| work queues, completions, data queues, ring buffers (`components/drivers/ipc`) | work lists, the current work, flags, rings with a full flag or a mirror bit | submit now or later, cancel, wait, done, push/pop, put/get | cancel racing the worker or the end of a delay, a timeout racing the event, full and empty |
| PDMA, hardware semaphore, wormhole, Ethernet drivers (`libraries/ma35/rtt_port`) | channel masks, actor pool, keys, rings | allocate, transfer, lock, send | allocation without a lock, keys that name a CPU |
| other drivers, file systems, network, shell, vendored code | - | - | register access or third party |

How they interact.  `rt_hw_interrupt_disable` *is* `rt_cpus_lock` (`rthw.h`): it masks the local interrupts,
counts in the current thread, and takes the hardware spinlock when it is the outermost section.  Every kernel
object is protected by this one lock.  A thread that blocks suspends itself inside a section, leaves it and
calls `rt_schedule`; between the two its waker or its timeout may already have come.  The tick interrupt runs
`rt_timer_check`, whose callbacks (`_thread_timeout`) insert threads into the ready queues.  An insertion sends
an IPI to the CPUs that may have to switch.  A mutex changes the priority of its owner, which moves a thread
between ready queues or inside another mutex's waiting list.

What makes the parts correct: the lock excludes and returns; counters agree with the lock; queues hold exactly
the ready threads and a thread runs on one CPU; the most urgent ready thread runs; a wait ends exactly one way;
lists are sorted; a timer that is due fires; an owner is as urgent as its waiters.  Each hazard in
`PROJECT.json` names the line where one of these could go wrong and the property that would notice.

## 2. Modules

| Module | Models | Composition |
|---|---|---|
| `KernelList` | the linked lists of `rtservice.h` as sequences | extended by every module with a list |
| `SpinLock` | what a lock promises: requests are served in their order | abstract specification |
| `TicketLock` | `rt_hw_spin_lock/unlock`, one step per access to shared memory | implements `SpinLock` by a refinement mapping |
| `CpusLock` | the global lock and the nesting counters | its `holder` is the lock that `TicketLock` shows correct |
| `Scheduler` | ready queues, switches, the life of a thread, tick and IPI | a section is one step, which `CpusLock` justifies |
| `Timer` | both timer lists, the tick's check, the timer thread | its `ThreadTimer` and `stat` are what `Scheduler` abstracts to `timer` and `stat` |
| `Mutex` | take, release, inheritance, timeouts, deletion of waiters | waits as in `Scheduler`, without CPUs |
| `IpcList` | how a thread blocks on an object: waiting list, thread timer, tick, the end of a wait | extended by the next seven; `Scheduler` says where a thread runs, this only that it is suspended or ready |
| `Semaphore`, `Event`, `Mailbox`, `MessageQueue` | the other IPC objects of `ipc.c` | |
| `MemPool` | blocking allocation of `mempool.c` | |
| `Completion`, `DataQueue` | `completion.c`, `dataqueue.c` | |
| `BoundedQueue` | what a mailbox, a message queue and a data queue promise | abstract specification of the three |
| `WorkQueue` | `workqueue.c`: the worker, the callers, the end of a delay | its delay is a soft timer of `Timer` |
| `RingBuffer` | `ringbuffer.c`, against the byte queue it stands for | |
| `IpcObjects` | one object, chosen in the initial state, with its users | composes the eleven modules above |
| `MC*` | model values and definitions for the TLC instances | |
| `KernelListProofs` | lemmas about lists | |
| `TicketLockProofs`, `CpusLockProofs`, `SchedulerProofs`, `TimerProofs`, `MutexProofs` | proofs about the module of that name | the last three use `KernelListProofs` |
| `DriversIpcProofs` | proofs about `RingBuffer` and `WorkQueue` | uses `KernelListProofs` |
| `IpcProofs` | proofs about `IpcObjects` and the modules it composes | uses `DriversIpcProofs` |

Names of actions and variables are the source's; where an action stands for one of several sections of a
function it is named for what the section does (`rt_thread_delete` and `rt_thread_delete_locked`).  The
operators whose comment says "Mutant of" are not part of the model: each is a plausible mistake in the
definition that follows it, and replacing the definition by it breaks a property.

**TicketLock.**  `take_ticket` is the `ldrex/add/strex` loop: it is one step because a store by another CPU or
an interrupt (`clrex` in `vector_irq`) makes `strex` fail and the loop repeat.  The comparison works on the
local copy `lockval`, of which only the owner half is read again after a `wfe`.  The release is a load, a store and a
`sev`, three steps.  The event register makes `wfe` return at once if a `sev` came since the last one.

**CpusLock.**  A section that is entered counts first and then spins; `acquire` is the moment the spinlock
returns.  `rt_schedule_switch` is the context switch inside `rt_schedule`: the old thread keeps
its counters (it will resume inside its own `rt_schedule`), and `rt_cpus_lock_status_restore` gives the lock back
only if the new thread was not switched out inside a section.  `rt_scheduler_do_irq_switch` takes the old thread's
share of the counters off, since that thread will resume outside.  An interrupt is five stages; its handler
takes nested sections and may ask for a switch.  Which thread is switched to is left open.  The levels of `rt_enter_critical` are paired with
`rt_exit_critical` and those of `rt_cpus_lock` with `rt_cpus_unlock`, as everywhere in the repository.  The
spinlocks of `rt_spin_lock` count for the scheduler only; who waits for which is `TicketLock`'s matter.

**Scheduler.**  A section under `_cpus_lock` is one step.  What a function does afterwards is another step, so
that the other CPU, the tick, devices and IPIs come between; `pc` and `target` say which call a thread is in.
`switch` is the choice and the switch shared by `rt_schedule` and `rt_scheduler_do_irq_switch`.  A critical section keeps the
lock (`LockFree`).  Blocking calls are `rt_thread_suspend`, with or without a timer, and wake-ups are
`ipc_wakeup` (from a thread), `device_isr` (from an interrupt), `thread_timeout` and the two halves of
`rt_thread_resume`.  `owed` remembers that a caller left the rescheduling to somebody else: neither
`rt_thread_resume` nor a change of priority calls `rt_schedule`; the tick or a later call does.
`rt_thread_defunct_enqueue` may call `rt_schedule` inside the section by way of `rt_sem_release`; the model
takes that as the `rt_schedule` that follows.

**Timer.**  The tick is a counter modulo `TickRange`; comparisons are the code's, by distance on the wheel.
Sections that loop over a list take one step per timer and keep the lock (`section`).  The timer thread's steps
are its look at the list, its suspension or the read of the tick and its sleep, then the check with the lock
released around each callback (`firing` is the timer in the temporary list).  Callers may start, stop and
reprogram timers at any moment, also from the callbacks.  The periods of an instance are short against the
wheel, as the code "supposes" (timer.c:651).

**Mutex.**  `take_wait` is the section that suspends the caller, `take_failed` what it does after a timeout,
`handed_over` and `released` the two ends of a release.  `_thread_update_priority` calls itself along a chain of owners; each call is a
step, with the lock held (`update`).  Deletion of a waiter is in two sections as in `thread.c`.  Mutexes are
made with `RT_IPC_FLAG_PRIO`, the only flag `rt_mutex_init` gives them; ceilings are not modelled, and neither is a
change of priority that the application asks for (section 5).

**IpcList and its objects.**  Each section is one step; after a section that suspends it, a thread is in `th`
with the call it is in (`pc`), the ticks its timer has left and the timeout variable of the call.  It runs again
by `first_resumed` (an event, or the hand-over of a unit), by `thread_timeout` or by `resume_all` (a reset), and
looks again in a step of its own: mailbox, queues and pool loop, because another thread may have been faster.
`budget` is a ghost: what is left of the time the caller asked for.  Values are the threads that sent them.
The tests of `entry` against `RT_MB_ENTRY_MAX` and `RT_MQ_ENTRY_MAX` cannot fail, since there are never more
entries than slots; `rt_mp_alloc` reads the clock before it takes the lock (`mp_read_tick`), the others
inside.  Sends and releases may come from interrupts.  In `MessageQueue` the copying between two sections is
the time a block is in `mq_hand`.  The pop of a data queue wakes a sender only when at most the low water mark
is left (`at_low_water`, the code's `<=`; its documentation says "less than", see section 3).

**BoundedQueue.**  The refinement mappings read the ring from the read index (`MbContents`, `DqContents`) and the list
from its head (`MqContents`).  A message is in the queue from the moment it is linked, which may be later than a message whose
block was taken after it: the order of linking is the order of the queue.

**WorkQueue.**  The worker looks, runs and acknowledges; `work_current` is cleared without the lock.  A delayed
submission starts its timer after the section (`wq_starting`); the end of a delay is three steps: the timer
thread takes the timer off its list (`elapses`), the handler reads `work->workqueue`, the handler's section.  The
function of a work may sleep (`func_sleeps`), which is why `worker_resumed` tests `work_current`.  One caller
at a time submits a given work with a delay.  `rt_workqueue_cancel_work_sync` is two steps on either path: the test of
`work_current` without the lock (`cancel_sync_test`), then the section of `_workqueue_cancel_work`
(`cancel_sync_cancel`, which may find the work executing by now; its answer is ignored) or the semaphore
(`cancel_sync_wait`).  `wq_sync` says where a canceller is.  The ghost field `cancelled` is set when a cancellation
tells its caller that the work is out: by the section with `RT_EOK`, and by a synchronous call that ends.

**RingBuffer.**  Sequential: its users lock it.  `rt_ringbuffer_init` aligns the size it is given (`RbGiven`) down to
`RT_ALIGN_SIZE` (`RbAlign`); `RbSize` is what is left.  `rt_ringbuffer_putchar` and `getchar` are `put` and `get` of one byte.
The ghost `rb_kept` is a plain sequence to which the same calls are applied.

## 3. Runs

| Run | Instance | Shows |
|---|---|---|
| `ticket_lock` | 3 CPUs, 4 tickets | exclusion, every lock call returns, first come first served; the tickets wrap many times, and 3 CPUs fill all the tickets that may be outstanding |
| `cpus_lock` | 2 CPUs, 3 threads, nesting up to 2 (`rt_schedule` adds one) | sections exclude; the lock follows the thread; the counters add up; nobody is switched off inside a section |
| `scheduler` | 2 CPUs, 2 idle threads, an unbound application thread and one bound to CPU 1, priorities 0-2, slices of one tick | queues, `oncpu`, states and timers agree; nobody who is ready is forgotten, in the shared table or in that of a CPU; critical sections are not preempted; a thread that has ended, by itself or deleted with care, is in no queue and stays ended |
| `scheduler_equals` | 1 CPU, 2 threads bound to it and an unbound one, all of one priority; fairness | with more equals than CPUs each gets its turn; only an unbound thread can wait for ever, and only if the CPU has bound threads to run again and again |
| `scheduler_delete` | deletion of any thread at any time | **violated**: see finding 1 |
| `timer` | 1 hard and 2 soft timers, the alarm, a wheel of 14, periods 1 and 2 | flag and lists agree, lists in order across the overflow, the timer thread has an alarm when there is a soft timer, and no timer is later than the bound of its list |
| `timer_live` | 2 soft timers; fairness | what is due is taken off the list |
| `timer_alarm` | callers start soft timers in the gap | **violated**: see finding 2 |
| `mutex` | 4 threads of different priority, 2 mutexes taken up to twice, timeouts, deletion; `prompt` either way | ownership agrees, inheritance along the chain, order of the lists, one end per wait; inherited priorities are given back when ended waits are wound up at once |
| `mutex_chain` | the build with assertions | **violated**: see finding 3 |
| `ipc` | 3 threads, two of them interchangeable (symmetry), timeouts 0, 2 and for ever, objects of size 2, 2 works and a synchronous canceller, a ring that is given 5 bytes and aligned to 2 (4 bytes) | waiting lists hold exactly the suspended threads; deadlines are kept through every retry; no wake-up, unit, block or accepted work is lost; cancelled work stays out; the end of a delay finds its queue; a synchronous canceller that waits does so for a work that executes; the ring buffer is a queue; mailbox, message queue and data queue implement `BoundedQueue` |
| `workqueue_sync` | the work queue with any caller at any time | **violated**: see finding 4 |

Why the bounds are enough.  Two CPUs are the hardware.  The third thread of `cpus_lock` makes every kind of
handover possible (from a thread, to one that was interrupted, to one inside `rt_schedule`), and `CpusLockProofs`
removes the bound.  In `scheduler` the unbound thread can be running, being woken and being preempted on either CPU while the
bound one, in the other table, does any of the calls; priorities 0, 1 and 2 give a more urgent, an equal and the idle priority; a slice
of one tick makes every tick an end of slice, and longer slices only add ticks without effect.  Turns are a question only with more
equals than CPUs: `scheduler_equals` has three, in both tables of one CPU.  The wheel of 14
keeps two periods and the lateness bound just inside its half range, the condition the code supposes.  Two mutexes and four threads give a chain of two owners with two competing waiters; the
count bound `MaxHold` stands for `RT_MUTEX_HOLD_MAX`.  With three threads on an object of size 2 one can be woken, one can be faster and one
can wait behind; a timeout of 2 leaves one tick for a second round; size 2 tells wrap-around, full and empty apart, and
message blocks in a free list of two can be linked in both orders.  `SemMax` is `RT_SEM_VALUE_MAX`.  Blocks of 1, 3, 4 and 5 bytes on a
ring of 4 bytes end before, at and after the end of the buffer and are as long as the buffer and longer.
For every safety property of these runs the proofs of section 4 remove the bounds; for liveness they are what is shown.

Fairness.  CPUs execute their instructions, sections are finite, handlers return, the tick comes again and
pending interrupts are taken: that is what `TicketLock!Fairness`, `Scheduler!FairSpec` and `Timer!FairSpec` say. Strong
fairness is used where interrupts may disable a step again and again between two occasions; in the scheduler it is
assumed of each thread separately (`Goes_on`: a thread that is on a CPU again and again gets on with the kernel call or the
critical section it is in). Nothing is assumed of the application: a thread may stop calling the kernel, and no wake-up or release is fair.

Disciplines.  Six constants exclude what the code does not protect against, so that the properties can be
checked beyond it.

- `CarefulEnd`: a thread exits or is deleted only while nobody is in the middle of another operation on it, and is
  deleted only if it is not running and has no timer running (finding 1, thread.c:930).
- `Timer!Disciplined`: no soft timer is started in the gap of finding 2, and no timer is made one-shot inside
  its own callback, which would leave it activated in no list.
- `Mutex!Disciplined`: an owner does not release a mutex between the timeout of a waiter and the waiter's next
  section (`Over`: the waiter would read the priority of a null owner, ipc.c:1240); a thread whose take has
  failed does not wait for other things while its `pending_object` still names the mutex; a thread with a timer
  running is not deleted.
- `Mutex!Ordered`: callers take mutexes in one order.  Without it two threads can wait for each other, as with any
  mutex; that is the only thing it is for.  The invariants hold without it: no theorem assumes it.
- `Mutex!Prompts`: in the behaviours with `prompt` an ended wait is wound up first.  `PriorityGoesBack` is about
  those: ipc.c:1240 compares two current priorities to find out whether the owner had inherited from the waiter,
  and another change in between defeats the comparison.  That situation is excluded, not shown; what is left is that each
  release and each timeout computes the priority again.  The other properties hold in all behaviours.
- `WqDisciplined`: nobody submits or cancels a work while its timeout handler runs or between a submission and
  its `rt_timer_start` (workqueue.c:185); no work is submitted for an immediate run while its delay runs, which does not
  stop the timer; a delay does not end while its work executes, which would drop the run (workqueue.c:194); a work that executes
  and is pending again is neither submitted, which would take the pending run off the list and refuse
  (workqueue.c:100), nor cancelled synchronously, which would wait and leave it pending; the worker does not take a work between the test
  and the section of a synchronous cancellation (finding 4); who has seen the work executing in
  `rt_workqueue_cancel_work_sync` waits before it ends (workqueue.c:409).

The runs expected to be violated lift them.  `scheduler_delete` shows that `CarefulEnd` is needed for `DeletedIsGone`,
`timer_alarm` that `Timer!Disciplined` is for `AlarmIsSet`, `workqueue_sync` that `WqDisciplined` is for the part of
`CancelsKept` about a work that executes.  With the constant set to `FALSE` in the cfg of such a run, TLC
also finds `EndedStaysEnded`, `TimeoutFindsQueue`, `BlocksUntilDone` (the other part of `CancelsKept`) and `AcceptedIsKept` violated.  Nothing of the kind
is claimed for `ActivatedIsListed` and `PriorityGoesBack`: they are checked under their discipline only.

One assumption on a constant also excludes something: `RbAssumption` wants a ring of at least `RT_ALIGN_SIZE` bytes (64
here); a smaller one is aligned to 0 and accepts nothing.

`Asserts` is `FALSE` in the passing mutex runs: they check what the algorithm does in a build without `RT_DEBUG`.
As configured (`RT_DEBUG` set) a chain of owners halts in the assertion of finding 3.

### Findings

1. `rt_thread_delete` (thread.c:531) and `rt_thread_detach` remove the thread from its queue in one section and
   close it in another.  A timeout in between makes a deleted thread ready.
2. `_timer_thread_entry` (timer.c:801-804) decides to suspend itself outside the section in which it does.  A
   soft timer started in between waits until somebody starts another one.
3. `_thread_update_priority` (ipc.c:770) requeues a waiting owner through `rt_thread_suspend`, which asserts
   that the thread is the caller (thread.c:883).
4. `rt_workqueue_cancel_work_sync` (workqueue.c:406) tests `work_current` without the lock and cancels in a later
   section.  If the worker takes the work in between, the call returns `RT_EOK` while the work executes; the documentation
   (workqueue.c:393) says that it will block until it is done.

Other disagreements between the code and what it says of itself, met while modelling; the models follow the code, the
passing runs exclude or allow them as the list says, and no run is devoted to them:

- `rt_data_queue_pop` (dataqueue.c:278) wakes a sender when the count is at the low water mark (`<=`); dataqueue.c:33
  and dataqueue.c:192 say when it is "less than" the mark.  With a mark of 0 the documented rule would wake nobody, so
  the code is what callers need.  `NoneForgotten` states the code's rule.
- `rt_data_queue_push` and `rt_data_queue_pop` (dataqueue.c:125) start the whole timeout again after a wake-up that
  was in vain; dataqueue.c:75-76 says that the thread suspends "for the specified amount of time".  `DeadlinesKept`
  leaves the data queue out.
- The choice of the next thread (scheduler.c:151) takes the shared table only if it is strictly more urgent than the CPU's own.
  Two threads bound to each CPU keep an unbound one of their priority from running for ever, although thread.c:465 says
  that the time slice is for "same priority thread".  `EqualsTakeTurns` allows exactly that.
- `rt_thread_resume` (thread.c:930) refuses a thread that is not suspended ("thread disorder"), but tests that before it takes
  the lock.  A thread that is woken by an interrupt and exits in between is made ready again.  Excluded by `CarefulEnd`.
- `_delayed_work_timeout_handler` (workqueue.c:185) reads `work->workqueue` outside the lock and asserts that it is
  set.  A cancellation on the other core, between the expiry and the read, clears it.  Excluded by `WqDisciplined`.
- `rt_workqueue_cancel_work_sync` may take the semaphore (workqueue.c:409) after the work it saw has completed, and then
  blocks until another work completes.  Excluded by `WqDisciplined`.
- `_workqueue_submit_work` (workqueue.c:100) takes a pending run off its list before it refuses a work that is executing:
  a run that was accepted is lost.  Excluded by `WqDisciplined`.

## 4. Proofs

Every invariant, every action property and every refinement that a passing run checks is also a theorem (and the types of
the ticket lock and `DeletedIsGone` are theorems only): it holds for
all values of the constants that satisfy the named assumptions, not only for the instance of the run.  The theorems
have one shape: an inductive invariant, one lemma per action (or group of actions) that keeps it, one lemma that
derives what the run checks.  The theorems about the scheduler, the timers, the mutex and the work queue have the discipline
of section 3 as a hypothesis (the mutex: `Disciplined`, not `Ordered`); section 3 says for which of them it is known
to be needed.

| Module | For | Theorems |
|---|---|---|
| `TicketLockProofs` | every finite set of CPUs smaller than the range of the tickets | `TicketLockExcludes`, `TicketTypes`, `TicketLockServesInOrder` (the refinement of `SpinLock`) |
| `CpusLockProofs` | every set of CPUs and threads, every nesting | `TypeCorrect`, `SectionsExclude`, `LockFollows`, `CountsAreRight`, `NoSwitchInSection` |
| `SchedulerProofs` | every set of CPUs and threads, any binding and priorities; `CarefulEnd` | `SchedulerTypes`, `ReadyQueuesAreExact`, `ThreadsRunOnOneCpu`, `BlockedStayBlocked`, `TimeoutAssertionHolds`, `MostUrgentRuns`, `DeletedThreadsAreGone`, `CriticalSectionsStay` and `EndedThreadsStayEnded` (action properties) |
| `TimerProofs` | every set of timers, every wheel whose half holds the periods and the lateness; `Disciplined` | `TimerKeepsTypes`, `ActivatedTimersAreListed`, `TimerListsStayInOrder`, `TimerThreadIsWoken`, `NoTimerIsMissed` |
| `MutexProofs` | every set of threads, any number of mutexes and any length of a chain; `Disciplined`, for the last three also `~Asserts` | `MutexKeepsTypes`, `MutexOwnershipAgrees`, `WaitsEndOneWay`, `WaitersStaySorted`, `OwnersInherit`, `InheritanceEnds` |
| `DriversIpcProofs` | every size of the ring from the alignment up and of the blocks; every set of works and cancellers; `WqDisciplined` for the works | `RingBufferIsQueue`, `WorkQueueKeepsAccepted`, `WorkQueueForgetsCancelled`, `TimeoutAssertsQueue` |
| `IpcProofs` | every finite set of threads, every size and timeout; for `NoLostWakeup` a low water mark below the size of the data queue | `ObjectsTypeCorrect`, `WaitingListsAreExact`, `TimeoutsAddUp`, `SemaphoreCounts`, `NoLostWakeup`, `NoBlockLost`, `QueuesImplemented` (the refinement of `BoundedQueue` by three objects) |

**KernelList.**  `rt_list_remove` and `rt_list_insert_before` are defined by places in a sequence.  The lemmas `Removed`,
`Inserted`, `Appended`, `Prepended` and `TailOf` say of each which nodes the result holds and that none is there twice
(`Once`); `SortedRemoved`, `SortedTail` and `SortedInserted` that order is kept.  The other proofs reason with membership
and order only.

**TicketLock.**  `TicketInv` says that the tickets from `owner` up to `next` (on the wheel, `Dist`) are each held by exactly one
CPU, and that a CPU is inside only with the ticket `owner`.  `MutualExclusion` alone is not inductive: that a stale
local copy which matches is never wrong follows only from the distinctness of the tickets, and that `next` does
not run into `owner` (`NextNeverMeetsOwner`) from counting: were all tickets outstanding, there would be as
many CPUs as tickets.  For the order of service, `DistBijective` makes the distance from `owner` the place in the
abstract queue (`QueueInPlaces`): taking a ticket appends, giving back takes the head, and everything else stutters.

**CpusLock.**  `LockInv` adds to the four
properties that a thread is current on one CPU at most, what the stage of an interrupt says about the counters
(`StageOK`), and that critical levels are levels of the section (`ThreadOK`).  Most actions change only the
current thread of one CPU; `LocalStep` shows once what such a step has to establish, `LockEffect` and
`UnlockEffect` what taking and giving back does, `SwitchStep` what a switch does.

**Scheduler.**  `SchedInv` says where every ready thread is listed, by binding and priority, and nowhere else (`Listed`); that the
bitmap of a table agrees with its lists (`RqGood`); what each thread may be in between two sections of a call on it
(`ThreadInv`, `CallsAgree`); and, for each CPU, that a ready thread more urgent than the current one has a rescheduling
ahead (`UrgentAt`).  `HighestRuns` is not inductive without the last for CPUs inside a handler.  The
assumption that the main thread does not have the idle priority (`RT_MAIN_THREAD_PRIORITY` is 10 in `rtconfig.h`) lets the
initial state have one thread per list at most.

**Timer.**  On a wheel `<` is not transitive, so order is proved of distances: `Ahead` is the signed distance of a timeout
from the tick.  The invariant `InTime` bounds it for every running timer from both sides: a hard timer is taken off in its tick, a soft
one is late by at most `MaxLate` (the delay of the timer thread) plus the longest period, and what the
thread has read (`next_timeout`) or set (its alarm) is not later than that.  With the bounds, the comparison of the code by
half range orders the timers as the distances do.  `TimerThreadIsWoken` says only that the alarm is listed; when it is due is the
bound of `NoTimerIsMissed`, which counts the ticks between the reading of the tick and the sleep as lateness: with it, no timer falls into the half of the wheel where it would look as if it lay ahead.  The
assumption on periods is the one timer.c:651 "supposes", with the lateness made explicit.

**Mutex.**  `Structure` says which list a thread waits in, that owner, count and taken list agree, and what a thread between
two sections has.  `Inheritance` says that the lists are sorted by the current priorities and that an owner is as urgent as
its mutexes.  While a change of priority travels along a chain, the owner it has not reached yet counts with the priority
it will get (`target`); that is what makes the invariant inductive for chains of any length.  `Reasons`, for
behaviours with `prompt`, says that each priority has a reason, so that priorities go down again.  A build with assertions may halt in the
middle (`halted`), after which only `Structure` is left.

**Ring buffer and work queue.**  `RingInv`: the writer is ahead of the reader by the number of bytes kept, mirror bit
included, and the byte `i` after the reader is byte `i` of the queue; a copy in one or two pieces keeps it.  `WqInv`: a work is in the
delayed list exactly while its delay is being started, runs or ends, these three exclude each other, and it is
not in the worker's list then and names its queue; the worker does not sleep when there is work.  `SyncInv` adds what a synchronous canceller between its
two steps may rely on: the work it is to wait for is executing or not yet acknowledged and not pending again, the work it is to
cancel is not executing.

**IpcObjects.**  `ObjectsInv` has a part per object.  `IpcInv`, shared by all: each suspended thread is in the list its call
says (`places`), once, and the time left to it fits what its caller asked for (`InBudget`).  The wake-up properties rest on
counting: a sleeper is allowed only while at least as many threads have been woken for the object and not looked yet (`Count`) as there is of it, and each
section that adds to it wakes one more.  A mailbox and a data queue are read as a ring (`RingOf`), a message queue as a chain
of blocks: `MqInv` says there are two sequences, linked through `mq_next` from `mq_head` and from `mq_free` (`Linked`), and
that each block is in one of them or in the hands of one copying thread (`Shared`).  The same lemmas that keep these shapes
give the step of `BoundedQueue` (`QueueSteps`), from which `QueuesImplemented` follows.  The condition of `NoLostWakeup` is what makes
its part about data queues meaningful: with a low water mark at the size, a sender that sleeps on a full queue is below the mark.

Only model-checked: the liveness properties `LockReturns`, `EqualsTakeTurns` and `SoftTimersFire`, which rest on fairness
and so on `ENABLED`, out of the prover's reach.

## 5. Not modelled

Memory (`mem.c`, `memheap.c`), objects and devices, formatting and string helpers, the register access of the drivers, file
systems, network, shell and third-party packages; `signal.c` and `slab.c` are not compiled.  In the
modelled parts: hooks, statistics, stack checks, priority ceilings, memory ordering below
sequential consistency (the barriers in `cpu.c` are taken to do their work).

Of the IPC objects, creation, detaching and deletion: a waiter that wakes up after the deletion reads an object that no longer
exists, and what it reads is not determined by the code.  Of `components/drivers/ipc`: pipes, block buffers, wait queues,
`rt_data_queue_peek`, notification callbacks and the destruction of queues.  Of the mutex, a change of priority by the application
(`rt_thread_control` with `RT_THREAD_CTRL_CHANGE_PRIORITY`, thread.c:793-805): it assigns the priority of a waiting thread without
sorting the waiting list or telling the owner, so after one `MostUrgentFirst` and `PriorityIsInherited` do not hold; `Scheduler`
has the call, for ready queues.

Two things that the code
does are in the models without a property, because nothing in the repository says what is right: a completion that is signalled
between the timeout of its waiter and the waiter's next section is cleared by it (completion.c:110); a work refused with
`-RT_EBUSY` is not run again (workqueue.c:105).  The second part of `rt_data_queue_reset` (dataqueue.c:383) is one step, because
`rt_enter_critical` keeps the global lock; an interrupt of the same core can still come between its tests and its sections and is not modelled there.

## 6. Plan

Done: the modules above, in the order of the table, and the proofs of all their safety properties.  Next, each with its
proofs:

1. `Defunct`: exit and deletion, the defunct list and `tsystem`, composed with `Scheduler`: no stack is freed
   while its thread is on a CPU, every closed thread is reclaimed once.
2. `HwSem`, `Pdma`, Ethernet rings: keys and migration, channel and actor allocation, descriptor ownership.
3. Pipes and the serial framework on top of `RingBuffer` and `Completion`.
