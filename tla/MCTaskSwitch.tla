---------------------------- MODULE MCTaskSwitch ----------------------------
(* A small instance of TaskSwitch for TLC.                                 *)
EXTENDS TaskSwitch, TLC

CONSTANTS user, kernel1, kernel2

\* two tasks share a priority and outrank a third
TwoLevels == (user :> 1) @@ (kernel1 :> 3) @@ (kernel2 :> 3)

=============================================================================
