----------------------------- MODULE MCMonitor -----------------------------
(* A parent, its child and a third task; a monitor of each of the first two. *)
EXTENDS Monitor

CONSTANTS parent, child, third, mon1, mon2, om

ParentOf == [t \in Task |-> IF t = child THEN parent ELSE None]
CreatorOf == [x \in Monitors |-> IF x = mon1 THEN parent ELSE child]
=============================================================================
