----------------------------- MODULE MCScheduler -----------------------------
(* One or two CPUs with their idle threads, the main thread and two others, *)
(* of which some are bound to a CPU.                                        *)
EXTENDS Scheduler, TLC

CONSTANTS c0, c1, idle0, idle1, main, worker, other,
          On0, On1      \* the application threads bound to c0 and to c1

MCIdle == [c \in CPUs |-> IF c = c0 THEN idle0 ELSE idle1]

MCBind == [t \in Threads |-> CASE t \in On0 \cup {idle0} -> c0
                               [] t \in On1 \cup {idle1} -> c1
                               [] OTHER -> None]

MCInitPrio == [t \in Threads |-> CASE t \in {idle0, idle1} -> IdlePrio
                                   [] OTHER -> 1]
=============================================================================
