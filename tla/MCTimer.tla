------------------------------- MODULE MCTimer -------------------------------
(* Model values for the timers of an instance. *)
EXTENDS Timer

CONSTANTS s1, s2, h1, alarm
=============================================================================
