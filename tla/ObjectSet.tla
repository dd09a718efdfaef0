----------------------------- MODULE ObjectSet -----------------------------
(***************************************************************************)
(* What the kernel's object table promises: a set of objects with owners.  *)
(* An object comes and goes with its parts; whatever else there is stays,  *)
(* and an heir takes over what a task owned.                               *)
(***************************************************************************)
EXTENDS FiniteSets

CONSTANTS
  Obj,       \* object ids
  Parts,     \* the objects each object is created with
  Immortal,  \* those that nobody destroys
  None

VARIABLES
  alive,     \* the objects there are
  owner      \* the owner of each

Whole == [x \in Obj |-> {x} \cup Parts[x] \cup UNION {Parts[y] : y \in Parts[x]}]

Create(x) ==
  /\ x \notin alive
  /\ alive' = alive \cup Whole[x]
  /\ owner' \in [alive' -> Obj] /\ \A y \in alive : owner'[y] = owner[y]

(* The heir is None if nobody inherits from x. *)
Destroy(x) ==
  /\ x \in alive \ Immortal
  /\ alive' = alive \ Whole[x]
  /\ \E heir \in alive' \cup {None} :
       owner' = [y \in alive' |-> IF heir # None /\ owner[y] = x THEN heir ELSE owner[y]]

ChangeOwner(x) ==
  /\ UNCHANGED alive
  /\ x \in alive /\ owner'[x] \in alive
  /\ owner' = [owner EXCEPT ![x] = owner'[x]]

Init == alive = Immortal /\ owner = [x \in Immortal |-> x]

Next == \E x \in Obj : Create(x) \/ Destroy(x) \/ ChangeOwner(x)

Spec == Init /\ [][Next]_<<alive, owner>>
=============================================================================
