--------------------------- MODULE MCTimerEngine ---------------------------
(* Three messages. *)
EXTENDS TimerEngine
CONSTANTS m1, m2, m3
=============================================================================
