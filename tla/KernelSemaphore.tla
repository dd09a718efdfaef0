-------------------------- MODULE KernelSemaphore --------------------------
(***************************************************************************)
(* The kernel's semaphore groups (OS/KernelSemaphore.cc): a group holds    *)
(* fCount semaphores, and a task performs a list of operations on them all *)
(* or nothing, with CSemaphoreGroup::semOp.  An operation adds op to       *)
(* semaphore num if op is positive, subtracts -op if op is negative and    *)
(* the value is large enough, and tests for zero if op is 0.  A task that  *)
(* must wait joins a queue of the semaphore that stopped it, and when it   *)
(* runs again it performs the SWI from the start (DoSemOp of SWIHandler.s  *)
(* moves its pc back).                                                     *)
(*                                                                         *)
(* The clients are a program: Program[l] is the call made at label l, with *)
(* the labels to go on to when it succeeds and when it returns an error;   *)
(* Branch[l] the labels user code may go on to without a call.  A SWI runs *)
(* with interrupts disabled, so a call with its exit path is one step.     *)
(***************************************************************************)
EXTENDS CScheduler, SequencesExt

CONSTANTS
  fCount,     \* the number of semaphores of the group
  BigEndian,  \* the byte order of the machine
  Label,      \* labels of the client program
  Entry,      \* the labels each task may start at
  Program,    \* the calls of the client program
  Branch,     \* its choices
  MayDestroy  \* whether anybody destroys the group

Sem == 0..(fCount - 1)

\* the flags of a call, in the order KernelTypes.h declares them
kWaitOnBlock == 0
kNoWaitOnBlock == 1

(***************************************************************************)
(* CUSemaphoreOpList::init takes each operation from an integer made by    *)
(* MAKESEMLISTITEM, semNum in its upper half and the operation in its      *)
(* lower, by reading it as a SemOp, whose num comes first in memory.       *)
(***************************************************************************)
SemListItem(semNum, oper) ==
  IF BigEndian THEN [num |-> semNum, op |-> oper]
               ELSE [num |-> oper % 65536, op |-> semNum]

Call(list, inBlocking, ok, fail) ==
  [list |-> list, inBlocking |-> inBlocking, ok |-> ok, fail |-> fail]

\* no list names semaphore fCount: semOp would read beyond the group
ASSUME ProgramAssumption ==
  /\ fCount \in Nat \ {0}
  /\ BigEndian \in BOOLEAN
  /\ MayDestroy \in BOOLEAN
  /\ NoTask \notin Label
  /\ Entry \in [Task -> SUBSET Label]
  /\ DOMAIN Program \subseteq Label
  /\ Branch \in [Label \ DOMAIN Program -> SUBSET Label]
  /\ \A l \in DOMAIN Program :
       /\ Program[l].inBlocking \in {kWaitOnBlock, kNoWaitOnBlock}
       /\ {Program[l].ok, Program[l].fail} \subseteq Label
       /\ Program[l].list \in Seq([num : Nat, op : Int])
       /\ \A i \in DOMAIN Program[l].list : Program[l].list[i].num # fCount

VARIABLES
  sched,       \* the scheduler record
  fVal,        \* the value of each semaphore
  fZeroTasks,  \* the tasks that wait for it to become zero
  fIncTasks,   \* the tasks that wait for it to increase
  exists,      \* the group has not been destroyed
  pc           \* the label each task is at; NoTask before it is started

vars == <<sched, fVal, fZeroTasks, fIncTasks, exists, pc>>

\* Every variable has its type, and no value falls below zero, although
\* unwindOp subtracts without a test.
TypeOK ==
  /\ sched \in SchedulerRecord
  /\ fVal \in [Sem -> Nat]
  /\ fZeroTasks \in [Sem -> Seq(Task)]
  /\ fIncTasks \in [Sem -> Seq(Task)]
  /\ exists \in BOOLEAN
  /\ pc \in [Task -> Label \cup {NoTask}]

Init ==
  /\ sched = BootRecord
  /\ fVal = [n \in Sem |-> 0]
  /\ fZeroTasks = [n \in Sem |-> <<>>]
  /\ fIncTasks = [n \in Sem |-> <<>>]
  /\ exists = TRUE
  /\ pc = [t \in Task |-> NoTask]

-----------------------------------------------------------------------------
(* The operations of a list.                                               *)

\* the indexes of the operations that name a semaphore of the group
InGroup(list) == {i \in DOMAIN list : list[i].num < fCount}

\* what the operations of list before index i add to semaphore n
Added(list, i, n) ==
  LET sum[j \in 0..Len(list)] ==
        IF j = 0 THEN 0
        ELSE sum[j - 1] + (IF list[j].num = n THEN list[j].op ELSE 0)
  IN  sum[i - 1]

\* the values after the operations before index i
Applied(v, list, i) == [n \in Sem |-> v[n] + Added(list, i, n)]

\* mutant: the loop ends before it reaches the first operation
UnwindOpShort(v, list, i) ==
  [n \in Sem |-> v[n] - (Added(list, i, n) - IF i = 1 THEN 0 ELSE Added(list, 2, n))]

\* mutant: the loop starts one operation too early in the list
UnwindOpLate(v, list, i) ==
  [n \in Sem |-> v[n] - IF i = 1 THEN 0 ELSE Added(list, i - 1, n)]

\* CSemaphoreGroup::unwindOp
UnwindOp(v, list, i) == [n \in Sem |-> v[n] - Added(list, i, n)]

\* mutant: a decrement asks only for a positive value
WouldCauseBlockIfZero(v, list, i) ==
  LET val == Applied(v, list, i)[list[i].num]
  IN  \/ list[i].op = 0 /\ val # 0
      \/ list[i].op < 0 /\ val <= 0

\* the operation at index i cannot be performed
WouldCauseBlock(v, list, i) ==
  LET val == Applied(v, list, i)[list[i].num]
  IN  \/ list[i].op = 0 /\ val # 0
      \/ list[i].op < 0 /\ val < -list[i].op

Blocking(v, list) == {i \in InGroup(list) : WouldCauseBlock(v, list, i)}

\* the index of the operation that stops the list
BlockedAt(v, list) ==
  CHOOSE i \in Blocking(v, list) : \A j \in Blocking(v, list) : i <= j

-----------------------------------------------------------------------------
(* CSemaphoreGroup::semOp, called by the current task t.                   *)

Current(t) == sched.gCurrentTask = t

Goto(t, l) == pc' = [pc EXCEPT ![t] = l]

\* blockOnZero or blockOnInc, when it makes the task wait
Waits(t, n, oper) ==
  /\ sched' = SwapTask(UnScheduleTask(sched, t))
  /\ IF oper = 0
     THEN /\ fZeroTasks' = [fZeroTasks EXCEPT ![n] = Append(@, t)]
          /\ UNCHANGED fIncTasks
     ELSE /\ fIncTasks' = [fIncTasks EXCEPT ![n] = Append(@, t)]
          /\ UNCHANGED fZeroTasks
  /\ UNCHANGED pc

\* the list cannot be performed: what it did is undone
SemOpBlocks(t, call) ==
  LET list == call.list
      i == BlockedAt(fVal, list)
  IN  /\ Blocking(fVal, list) # {}
      /\ fVal' = UnwindOp(Applied(fVal, list, i), list, i)
      /\ IF call.inBlocking = kNoWaitOnBlock
         THEN Waits(t, list[i].num, list[i].op)
         ELSE /\ sched' = SwapTask(sched)
              /\ Goto(t, call.fail)
              /\ UNCHANGED <<fZeroTasks, fIncTasks>>
      /\ UNCHANGED exists

\* the semaphores whose waiters a performed list wakes
Increased(list) == {list[i].num : i \in {j \in InGroup(list) : list[j].op > 0}}

FoundZero(list, v) ==
  {n \in {list[i].num : i \in {j \in InGroup(list) : list[j].op = 0}} : v[n] = 0}

\* the woken tasks, in the order the loop over the list wakes them
Woken(list, v) ==
  LET Same(i, j) == /\ list[j].num = list[i].num
                    /\ (list[j].op > 0) = (list[i].op > 0)
                    /\ (list[j].op = 0) = (list[i].op = 0)
      First(i) == \A j \in 1..(i - 1) : ~Same(i, j)
      WokenAt(i) == IF i \notin InGroup(list) \/ ~First(i) THEN <<>>
                    ELSE IF list[i].op > 0 THEN fIncTasks[list[i].num]
                    ELSE IF list[i].op = 0 /\ v[list[i].num] = 0
                         THEN fZeroTasks[list[i].num] ELSE <<>>
  IN  FlattenSeq([i \in DOMAIN list |-> WokenAt(i)])

\* mutant: the waiters leave their queue but are not scheduled
WakeForgets(list, v) == WantSchedule(sched)

\* the scheduler that wakeTasksOnInc and wakeTasksOnZero leave
Wake(list, v) ==
  LET s == FoldLeft(ScheduleTask, sched, Woken(list, v))
  IN  IF Increased(list) \cup FoundZero(list, v) = {} THEN s ELSE WantSchedule(s)

\* mutant: only the longest waiting task is woken by an increase
SemOpWakesOne(t, call) ==
  LET list == call.list
      v == Applied(fVal, list, Len(list) + 1)
      heads == {n \in Increased(list) : fIncTasks[n] # <<>>}
  IN  /\ Blocking(fVal, list) = {}
      /\ fVal' = v
      /\ sched' = SwapTask(IF heads = {} THEN sched
                           ELSE WantSchedule(ScheduleTask(sched,
                                  Head(fIncTasks[CHOOSE n \in heads : TRUE]))))
      /\ fIncTasks' = [n \in Sem |-> IF heads # {} /\ n = CHOOSE m \in heads : TRUE
                                     THEN Tail(fIncTasks[n]) ELSE fIncTasks[n]]
      /\ Goto(t, call.ok)
      /\ UNCHANGED <<fZeroTasks, exists>>

\* every operation has been performed
SemOpDone(t, call) ==
  LET list == call.list
      v == Applied(fVal, list, Len(list) + 1)
  IN  /\ Blocking(fVal, list) = {}
      /\ fVal' = v
      /\ sched' = SwapTask(Wake(list, v))
      /\ fIncTasks' = [n \in Sem |-> IF n \in Increased(list) THEN <<>>
                                     ELSE fIncTasks[n]]
      /\ fZeroTasks' = [n \in Sem |-> IF n \in FoundZero(list, v) THEN <<>>
                                      ELSE fZeroTasks[n]]
      /\ Goto(t, call.ok)
      /\ UNCHANGED exists

\* DoSemaphoreOp with the id of a group that is gone
BadGroup(t, call) ==
  /\ sched' = SwapTask(sched)
  /\ Goto(t, call.fail)
  /\ UNCHANGED <<fVal, fZeroTasks, fIncTasks, exists>>

DoSemaphoreOp(t) ==
  /\ Current(t)
  /\ pc[t] \in DOMAIN Program
  /\ IF exists THEN \/ SemOpBlocks(t, Program[pc[t]])
                    \/ SemOpDone(t, Program[pc[t]])
     ELSE BadGroup(t, Program[pc[t]])

-----------------------------------------------------------------------------
(* The rest of the system.                                                 *)

\* user code chooses what to do
UserCode(t) ==
  /\ Current(t)
  /\ pc[t] \notin DOMAIN Program
  /\ \E l \in Branch[pc[t]] : Goto(t, l)
  /\ UNCHANGED <<sched, fVal, fZeroTasks, fIncTasks, exists>>

Start(t) ==
  /\ pc[t] = NoTask
  /\ sched' = SwapTask(ScheduleTask(sched, t))
  /\ \E l \in Entry[t] : Goto(t, l)
  /\ UNCHANGED <<fVal, fZeroTasks, fIncTasks, exists>>

TimerInterrupt ==
  /\ sched' = SwapTask(SetCurrentTask(WantSchedule(sched), NoTask))
  /\ UNCHANGED <<fVal, fZeroTasks, fIncTasks, exists, pc>>

\* the waiters of every semaphore, in the order the destructors wake them
Waiters ==
  FlattenSeq([i \in 1..fCount |-> fZeroTasks[fCount - i] \o fIncTasks[fCount - i]])

(***************************************************************************)
(* The object manager destroys the group: CSemaphore::~CSemaphore wakes    *)
(* every waiter, with an error as the result of its call.                  *)
(***************************************************************************)
DestroyGroup ==
  /\ MayDestroy
  /\ exists
  /\ exists' = FALSE
  /\ sched' = SwapTask(FoldLeft(ScheduleTask, sched, Waiters))
  /\ fZeroTasks' = [n \in Sem |-> <<>>]
  /\ fIncTasks' = [n \in Sem |-> <<>>]
  /\ pc' = [t \in Task |-> IF Contains(Waiters, t) THEN Program[pc[t]].fail
                           ELSE pc[t]]
  /\ UNCHANGED fVal

Next ==
  \/ \E t \in Task : DoSemaphoreOp(t) \/ UserCode(t) \/ Start(t)
  \/ TimerInterrupt
  \/ DestroyGroup

Spec == Init /\ [][Next]_vars

-----------------------------------------------------------------------------

At(L) == {t \in Task : pc[t] \in L}

\* A started task is in exactly one place: it owns the processor, or is queued
\* by the scheduler, or waits in a single queue of the group, once; and the
\* scheduler's mask, queues and time slice stay exact under the wake loops of
\* semOp and ~CSemaphore.  Nothing in CTaskQueue checks it: a task has one pair
\* of links for all these queues.
OnePlace ==
  /\ QueuesOK(sched) /\ BucketsOK(sched) /\ SliceOK(sched)
  /\ \A t \in Task :
       LET places(q) == UNION {{<<n, i>> : i \in {j \in DOMAIN q[n] : q[n][j] = t}}
                                 : n \in Sem}
       IN  Cardinality(places(fZeroTasks)) + Cardinality(places(fIncTasks))
             + (IF Current(t) THEN 1 ELSE 0) + (IF t \in sched.queued THEN 1 ELSE 0)
           = IF pc[t] = NoTask THEN 0 ELSE 1

\* A task that waits for an increase cannot perform its list yet: every
\* increase wakes it, and semOp undoes what the list did before it blocked.
NoLostIncrease ==
  \A n \in Sem : \A t \in Task :
    Holds(fIncTasks[n], t) => Blocking(fVal, Program[pc[t]].list) # {}

=============================================================================
