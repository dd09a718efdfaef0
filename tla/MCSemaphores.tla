---------------------------- MODULE MCSemaphores ----------------------------
(***************************************************************************)
(* KernelSemaphore with three kinds of clients, each with semaphores of    *)
(* its own: readers and writers, tasks that draw on the screen, and tasks  *)
(* that move tokens between two semaphores, one or two at a time, some     *)
(* only into an empty one: legal lists with decrements, for which the      *)
(* other two never wait.  A task remains with the client it starts with.   *)
(***************************************************************************)
EXTENDS RdWrSemaphore, ScreenDrawing

CONSTANTS low1, low2, high, MaxTokens

\* two tasks share a priority, a third outranks them
TwoLevels == (low1 :> 1) @@ (low2 :> 1) @@ (high :> 2)

TokenLabels == {"post", "choose", "right", "pair", "left", "refill"}

TokenProgram ==
  [ post   |-> Call(<<SemListItem(0, MaxTokens)>>, kWaitOnBlock, "choose", "post"),
    right  |-> Call(<<SemListItem(0, -1), SemListItem(1, 1)>>,
                    kNoWaitOnBlock, "choose", "choose"),
    pair   |-> Call(<<SemListItem(0, -1), SemListItem(0, -1), SemListItem(1, 2)>>,
                    kNoWaitOnBlock, "choose", "choose"),
    left   |-> Call(<<SemListItem(0, 1), SemListItem(1, -2), SemListItem(0, 1)>>,
                    kNoWaitOnBlock, "choose", "choose"),
    refill |-> Call(<<SemListItem(1, -1), SemListItem(0, 0), SemListItem(0, 1)>>,
                    kNoWaitOnBlock, "choose", "choose") ]

TokenBranch == [l \in {"choose"} |-> {"right", "pair", "left", "refill"}]

AllLabels == RdWrLabels \cup ScreenLabels \cup TokenLabels
AllPrograms == RdWrProgram @@ ScreenProgram @@ TokenProgram
AllBranches == RdWrBranch @@ ScreenBranch @@ TokenBranch

AllEntries ==
  [t \in Task |-> {"unlocked", "idle", IF t = low1 THEN "post" ELSE "choose"}]

\* Tokens are neither lost nor made: a list that blocks half way through, even
\* in its second operation on the same semaphore, is undone completely.
TokensConserved ==
  fVal[0] + fVal[1] = IF pc[low1] \in TokenLabels \ {"post"} THEN MaxTokens ELSE 0

=============================================================================
