----------------------------- MODULE IpcObjects ------------------------------
(***************************************************************************)
(* Threads and one object of the kernel or of components/drivers/ipc; which*)
(* one is chosen once.  Work queues and ring buffers bring their own       *)
(* actors.                                                                 *)
(***************************************************************************)
EXTENDS Semaphore, Event, Mailbox, MessageQueue, MemPool, Completion, DataQueue,
        WorkQueue, RingBuffer

CONSTANT Objects    \* the kinds of objects to choose from

VARIABLE object

objectVars == <<semVars, eventVars, mbVars, mqVars, mpVars, comp_flag, dqVars, wqVars, rbVars>>

\* Only the object in question varies in its initial state.
Init ==
    /\ object \in Objects
    /\ IpcInit /\ SemInit /\ EventInit /\ MbInit /\ MqInit /\ MpInit
    /\ CompInit /\ DqInit /\ WqInit /\ RbInit
    /\ object \in {"mailbox", "mempool", "dataqueue", "workqueue", "ringbuffer", "completion"}
          => flag = "FIFO"
    /\ object \in {"event", "msgqueue"} => flag = "PRIO"
    /\ object # "semaphore" => sem_value = 0

Next ==
    /\ \/ /\ object = "semaphore" /\ SemNext
          /\ UNCHANGED <<eventVars, mbVars, mqVars, mpVars, comp_flag, dqVars, wqVars, rbVars>>
       \/ /\ object = "event" /\ EventNext
          /\ UNCHANGED <<semVars, mbVars, mqVars, mpVars, comp_flag, dqVars, wqVars, rbVars>>
       \/ /\ object = "mailbox" /\ MbNext
          /\ UNCHANGED <<semVars, eventVars, mqVars, mpVars, comp_flag, dqVars, wqVars, rbVars>>
       \/ /\ object = "msgqueue" /\ MqNext
          /\ UNCHANGED <<semVars, eventVars, mbVars, mpVars, comp_flag, dqVars, wqVars, rbVars>>
       \/ /\ object = "mempool" /\ MpNext
          /\ UNCHANGED <<semVars, eventVars, mbVars, mqVars, comp_flag, dqVars, wqVars, rbVars>>
       \/ /\ object = "completion" /\ CompNext
          /\ UNCHANGED <<semVars, eventVars, mbVars, mqVars, mpVars, dqVars, wqVars, rbVars>>
       \/ /\ object = "dataqueue" /\ DqNext
          /\ UNCHANGED <<semVars, eventVars, mbVars, mqVars, mpVars, comp_flag, wqVars, rbVars>>
       \/ /\ object = "workqueue" /\ WqNext
          /\ UNCHANGED <<ipcVars, semVars, eventVars, mbVars, mqVars, mpVars, comp_flag, dqVars, rbVars>>
       \/ /\ object = "ringbuffer" /\ RbNext
          /\ UNCHANGED <<ipcVars, semVars, eventVars, mbVars, mqVars, mpVars, comp_flag, dqVars, wqVars>>
    /\ UNCHANGED object

Spec == Init /\ [][Next]_<<object, ipcVars, objectVars>>

TypeOK == IpcTypeOK /\ WqTypeOK

(***************************************************************************)
(* No wake-up is lost: nobody sleeps on an object that has what he waits   *)
(* for, unless as many threads were woken for it as there is of it and     *)
(* have not looked yet.  A sender of a data queue may sleep above the low  *)
(* water mark.                                                             *)
(***************************************************************************)
NoneForgotten ==
    CASE object = "semaphore" -> SemNoneForgotten
      [] object = "event" -> EventNoneForgotten
      [] object = "mailbox" -> MbNoneForgotten
      [] object = "msgqueue" -> MqNoneForgotten
      [] object = "mempool" -> MpNoneForgotten
      [] object = "completion" -> CompNoneForgotten
      [] object = "dataqueue" -> DqNoneForgotten
      [] OTHER -> TRUE

(***************************************************************************)
(* No block is lost or used twice, although blocks are filled and emptied  *)
(* without the lock: every block of a message queue or a pool is free, in  *)
(* the queue or with one thread, and counters and tail fit the lists.      *)
(***************************************************************************)
BlocksKept == MqBlocksKept /\ MpBlocksKept

(***************************************************************************)
(* The kernel's objects keep the deadline of a caller through every round  *)
(* of a wait.  (A data queue starts the timeout again, dataqueue.c:125,    *)
(* although dataqueue.c:76 says that the thread suspends "for the specified*)
(* amount of time".)                                                       *)
(***************************************************************************)
DeadlinesKept == object # "dataqueue" => DeadlineKept

(***************************************************************************)
(* Mailbox, message queue and data queue implement a bounded queue: what   *)
(* is received is what was sent, in order, urgent things first, whoever    *)
(* blocks, times out or retries.                                           *)
(***************************************************************************)
ImplementsQueue == MbQueue!Spec /\ MqQueue!Spec /\ DqQueue!Spec
=============================================================================
