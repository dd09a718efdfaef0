---------------------------- MODULE AtomicStore ----------------------------
(***************************************************************************)
(* What a transactional object store promises its callers, without saying  *)
(* how: every object has a durable value, the one a power failure would    *)
(* leave, and a current value, the one a caller reads now.  Callers change *)
(* current values one at a time; all of them become durable in one step,   *)
(* or all of them are given up in one step.  An object may leave the       *)
(* store's care, and nothing is promised of it from then on.  CFlashStore  *)
(* is shown to implement this specification in module FlashStore.          *)
(***************************************************************************)

CONSTANTS Id,       \* objects of the store
          Content   \* what an object can hold, "no object" included

VARIABLES durable,  \* what survives a power failure
          current   \* what the callers read

vars == <<durable, current>>

Init == /\ durable \in [Id -> Content]
        /\ current = durable

(* An object is created, written, resized or deleted: nothing durable moves. *)
Change(id) == /\ id \in DOMAIN current
              /\ \E c \in Content : current' = [current EXCEPT ![id] = c]
              /\ UNCHANGED durable

(* The commit point: every change of the transaction, or none of them. *)
Commit == /\ durable' = current
          /\ UNCHANGED current

(* A caller's abort, or a power failure. *)
GiveUp == /\ current' = durable
          /\ UNCHANGED durable

(* The rest stays as it is. *)
Lose == \E S \in SUBSET DOMAIN durable : /\ durable' = [id \in S |-> durable[id]]
                                        /\ current' = [id \in S |-> current[id]]

Next == Commit \/ GiveUp \/ Lose \/ \E id \in Id : Change(id)

Spec == Init /\ [][Next]_vars
=============================================================================
