--------------------------- MODULE MCObjectTable ---------------------------
(* A system task, two tasks with shared memory, a monitor with its task and  *)
(* message, and an object that is kept; two entries.                          *)
EXTENDS ObjectTable, TLC

CONSTANTS idle, p, c, pMem, m, mTask, mMsg, e

KindOf == [o \in Obj |-> CASE o \in {idle, p, c, mTask} -> "task"
                           [] o = m -> "monitor"
                           [] o \in {pMem, mMsg} -> "leaf"
                           [] OTHER -> "kept"]
PartsOf == [o \in Obj |-> CASE o = p -> <<pMem>>
                            [] o = m -> <<mTask, mMsg>>
                            [] OTHER -> <<>>]
HashOf == [o \in Obj |-> IF o \in {p, pMem, mTask} THEN 1 ELSE 0]
=============================================================================
