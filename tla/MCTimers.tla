------------------------------ MODULE MCTimers ------------------------------
(* Small instances of Timers; a tick is about fifteen seconds, the period  *)
(* starts at two of them.                                                  *)
EXTENDS Timers
=============================================================================
