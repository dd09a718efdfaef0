--------------------------- MODULE ScreenDrawing ---------------------------
(***************************************************************************)
(* The tasks that draw on the screen (Graphics/Screen.cc).  Semaphore 2 of *)
(* gScreen counts the calls of StartDrawing without their StopDrawing yet; *)
(* who stops as the only one updates the hardware, with semaphore 0 as a   *)
(* lock.  A task may draw inside its own drawing, as the update of the     *)
(* root view does (RootView.cc:538, 560); two levels are modelled.         *)
(* BlockLCDActivity takes the lock too.                                    *)
(*                                                                         *)
(* The field names of gScreen are those of the source.  Its update task is *)
(* not built (#if defined(correct)), so that nobody looks at semaphore 1,  *)
(* gScreen.lock locks nothing, and ReleaseScreenLock has no caller left.   *)
(***************************************************************************)
EXTENDS KernelSemaphore

CONSTANT ScreenBase  \* where the semaphores of gScreen are in the group

ScreenLock == ScreenBase
Drawers == ScreenBase + 2

\* mutant: the test forgets to count the caller in again
TestAndLeave == <<SemListItem(Drawers, -1), SemListItem(Drawers, 0)>>

\* mutant: the test for other drawers is missing
TestNothing == <<SemListItem(Drawers, -1), SemListItem(Drawers, 1)>>

f24 == <<SemListItem(Drawers, 1)>>
f38 == <<SemListItem(Drawers, -1), SemListItem(Drawers, 0), SemListItem(Drawers, 1)>>
f1C == <<SemListItem(ScreenLock, 0), SemListItem(ScreenLock, 1)>>
f20 == <<SemListItem(ScreenLock, -1)>>
f28 == <<SemListItem(Drawers, -1)>>

StartDrawing(inside) == Call(f24, kWaitOnBlock, inside, inside)

\* StopDrawing, call by call
TestLast(last, notLast) == Call(f38, kNoWaitOnBlock, last, notLast)
LockScreen(update) == Call(f1C, kWaitOnBlock, update, update)
UnlockScreen(leave) == Call(f20, kWaitOnBlock, leave, leave)
LeaveDrawing(outside) == Call(f28, kNoWaitOnBlock, outside, outside)

BlockLCDActivity == Call(f1C, kWaitOnBlock, "LCDBlocked", "LCDBlocked")
AllowLCDActivity == Call(f20, kWaitOnBlock, "idle", "idle")

\* the labels of a StopDrawing; its task still counts as drawing at all of them
Stopping == {"test", "lock", "updating", "leave"}
InnerStopping == {"innerTest", "innerLock", "innerUpdating", "innerLeave"}

InDrawing == {"drawing", "innerStart", "innerDrawing"} \cup Stopping \cup InnerStopping
InInnerDrawing == {"innerDrawing"} \cup InnerStopping

ScreenLabels == {"idle", "start", "blockLCD", "LCDBlocked"} \cup InDrawing

ScreenProgram ==
  [ start         |-> StartDrawing("drawing"),
    test          |-> TestLast("lock", "leave"),
    lock          |-> LockScreen("updating"),
    updating      |-> UnlockScreen("leave"),
    leave         |-> LeaveDrawing("idle"),
    innerStart    |-> StartDrawing("innerDrawing"),
    innerTest     |-> TestLast("innerLock", "innerLeave"),
    innerLock     |-> LockScreen("innerUpdating"),
    innerUpdating |-> UnlockScreen("innerLeave"),
    innerLeave    |-> LeaveDrawing("drawing"),
    blockLCD      |-> BlockLCDActivity,
    LCDBlocked    |-> AllowLCDActivity ]

ScreenBranch ==
  [ idle         |-> {"start", "blockLCD"},
    drawing      |-> {"innerStart", "test"},
    innerDrawing |-> {"innerTest"} ]

-----------------------------------------------------------------------------

\* Semaphore 2 counts the drawings that are open, nested ones too, even while a
\* task has taken its own out of the count to test for others, and although the
\* same list may block at its second operation and be unwound.
DrawersCounted ==
  exists => fVal[Drawers] = Cardinality(At(InDrawing)) + Cardinality(At(InInnerDrawing))

\* No two tasks are at the same time between the test that finds them the only
\* one to draw and the end of their update of the hardware.  Others may begin
\* to draw meanwhile.
OneUpdate ==
  exists => Cardinality(At({"lock", "updating", "innerLock", "innerUpdating"})) <= 1

=============================================================================
