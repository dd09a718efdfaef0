---------------------------- MODULE MCFlashStore ----------------------------
(***************************************************************************)
(* FlashStore with two objects, and its bounds.  The objects are           *)
(* interchangeable: of two states that differ by an exchange of a and b one *)
(* is enough.  (A symmetry set would not do, with a liveness property.)     *)
(***************************************************************************)
EXTENDS FlashStore

CONSTANTS a, b

(* One half-written copy at a time; if a failed call has left it, it is of a.*)
OneHalfWritten ==
  LET half == {s \in InUse : versions[s].st \in {Replacing, Rewriting}}
  IN  Cardinality(half) <= 1 /\ (Idle => \A s \in half : s[1] = a)

(* newObject fails for b only, and only a comes to be spoiled: the properties*)
(* say nothing of a store that keeps no object.                             *)
OneKept == unborn \subseteq {b} /\ spoiled \subseteq {a} /\ Kept # {}
=============================================================================
