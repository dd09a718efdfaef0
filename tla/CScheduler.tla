----------------------------- MODULE CScheduler -----------------------------
(***************************************************************************)
(* The task scheduler of OS/Scheduler.cc: class CScheduler and the global  *)
(* flags that its operations read and write, as operators on one record.   *)
(*                                                                         *)
(* A scheduler record s has a field for each member of CScheduler          *)
(* (fTasks, fPriorityMask, fHighestPriority, fCurrentTask) and for each    *)
(* kernel global the scheduler owns (the g... fields).  s.queued holds the *)
(* tasks whose fState has the bit 0x00020000, "in a scheduler queue".      *)
(*                                                                         *)
(* gCurrentTask is the task that owns the processor (NoTask between an     *)
(* UnScheduleTask of the current task and the next task switch);           *)
(* fCurrentTask is only a hint: the task the scheduler should prefer.      *)
(*                                                                         *)
(* The operators are total and declare no variable, so that the modules    *)
(* that model kernel objects (semaphores, ports, monitors) can use them.   *)
(***************************************************************************)
EXTENDS Integers, Sequences

CONSTANTS
  Task,         \* every task but the idle task
  IdleTask,     \* gIdleTask: runs when there is nothing else to run
  NoTask,       \* NULL
  TopPriority,  \* 31 in the code, one bit of fPriorityMask per priority
  fPriority     \* the priority each task is initialised with

Priority == 0..TopPriority

ASSUME SchedulerAssumption ==
  /\ IdleTask \notin Task
  /\ NoTask \notin Task
  /\ NoTask # IdleTask
  /\ TopPriority \in Nat
  /\ fPriority \in [Task -> Priority]

\* kIdleTaskPriority is 0
PriorityOf(t) == IF t = IdleTask THEN 0 ELSE fPriority[t]

SchedulerRecord ==
  [ fTasks : [Priority -> Seq(Task)],
    fPriorityMask : SUBSET Priority,
    fHighestPriority : Priority,
    fCurrentTask : Task \cup {NoTask},
    queued : SUBSET Task,
    gCurrentTask : Task \cup {IdleTask, NoTask},
    gTaskPriority : Priority,
    gDoSchedule : BOOLEAN,
    gScheduleRequested : BOOLEAN,
    gHoldScheduleLevel : Nat,
    gWantSchedulerToRun : BOOLEAN,
    gSchedulerRunning : BOOLEAN ]

(***************************************************************************)
(* The scheduler as InitKernel leaves it: the idle task owns the           *)
(* processor, nothing is queued and the preemption timer has been started. *)
(***************************************************************************)
BootRecord ==
  [ fTasks |-> [p \in Priority |-> <<>>],
    fPriorityMask |-> {},
    fHighestPriority |-> 0,
    fCurrentTask |-> NoTask,
    queued |-> {},
    gCurrentTask |-> IdleTask,
    gTaskPriority |-> 0,
    gDoSchedule |-> FALSE,
    gScheduleRequested |-> FALSE,
    gHoldScheduleLevel |-> 0,
    gWantSchedulerToRun |-> FALSE,
    gSchedulerRunning |-> TRUE ]

-----------------------------------------------------------------------------
(* The preemption timer and the requests to schedule.                      *)

StartScheduler(s) ==
  [s EXCEPT !.gSchedulerRunning = TRUE, !.gWantSchedulerToRun = FALSE]

StopScheduler(s) ==
  [s EXCEPT !.gSchedulerRunning = FALSE, !.gWantSchedulerToRun = FALSE]

\* mutant: the hold level is not looked at
WantScheduleAnyway(s) == [s EXCEPT !.gDoSchedule = TRUE]

WantSchedule(s) ==
  IF s.gHoldScheduleLevel = 0
  THEN [s EXCEPT !.gDoSchedule = TRUE]
  ELSE [s EXCEPT !.gScheduleRequested = TRUE]

HoldSchedule(s) == [s EXCEPT !.gHoldScheduleLevel = @ + 1]

\* mutant: what was asked for under the hold is forgotten when it ends
AllowScheduleForgets(s) ==
  IF s.gHoldScheduleLevel = 1 /\ s.gScheduleRequested
  THEN [s EXCEPT !.gHoldScheduleLevel = 0, !.gScheduleRequested = FALSE]
  ELSE [s EXCEPT !.gHoldScheduleLevel = @ - 1]

AllowSchedule(s) ==
  IF s.gHoldScheduleLevel = 1 /\ s.gScheduleRequested
  THEN [s EXCEPT !.gHoldScheduleLevel = 0,
                 !.gScheduleRequested = FALSE,
                 !.gDoSchedule = TRUE]
  ELSE [s EXCEPT !.gHoldScheduleLevel = @ - 1]

SetCurrentTask(s, t) == [s EXCEPT !.fCurrentTask = t]

-----------------------------------------------------------------------------
(* The queues.                                                             *)

\* q without its i-th element
WithoutIndex(q, i) ==
  [j \in 1..(Len(q) - 1) |-> IF j < i THEN q[j] ELSE q[j + 1]]

\* q without the task t that it holds
Unlink(q, t) == WithoutIndex(q, CHOOSE i \in DOMAIN q : q[i] = t)

\* CTaskQueue::removeFromQueue: only the state bit says whether t is queued
RemoveFromQueue(s, t) ==
  IF t \in s.queued
  THEN [s EXCEPT !.fTasks[fPriority[t]] = Unlink(@, t),
                 !.queued = @ \ {t}]
  ELSE s

\* the highest priority below fHighestPriority that has its bit set, else 0
UpdateCurrentBucket(s) ==
  LET lower == {i \in s.fPriorityMask : 0 < i /\ i < s.fHighestPriority}
  IN  [s EXCEPT !.fHighestPriority =
         IF lower = {} THEN 0
         ELSE CHOOSE i \in lower : \A j \in lower : j <= i]

ClearPriorityBit(s, p) == [s EXCEPT !.fPriorityMask = @ \ {p}]

\* mutant: a task of the current task's own priority starts no time slices
AddStrictly(s, t) ==
  LET p == fPriority[t]
      q == [s EXCEPT
              !.fPriorityMask = @ \cup {p},
              !.fHighestPriority = IF p > @ THEN p ELSE @,
              !.fTasks[p] = Append(@, t),
              !.queued = @ \cup {t},
              !.gWantSchedulerToRun = @ \/ p > s.gTaskPriority]
  IN  IF s.gCurrentTask = IdleTask THEN WantSchedule(q) ELSE q

Add(s, t) ==
  LET p == fPriority[t]
      q == [s EXCEPT
              !.fPriorityMask = @ \cup {p},
              !.fHighestPriority = IF p > @ THEN p ELSE @,
              !.fTasks[p] = Append(@, t),
              !.queued = @ \cup {t},
              !.gWantSchedulerToRun = @ \/ p >= s.gTaskPriority]
  IN  IF s.gCurrentTask = IdleTask THEN WantSchedule(q) ELSE q

\* CScheduler::addWhenNotCurrent
ScheduleTask(s, t) == IF t = s.gCurrentTask THEN s ELSE Add(s, t)

\* t leaves the queue of priority p, and an emptied queue leaves the mask
Dequeue(s, t, p) ==
  LET r == RemoveFromQueue(s, t)
      c == ClearPriorityBit(r, p)
  IN  IF r.fTasks[p] # <<>> THEN r
      ELSE IF p = r.fHighestPriority THEN UpdateCurrentBucket(c) ELSE c

\* CScheduler::remove
UnScheduleTask(s, t) ==
  IF t = s.gCurrentTask
  THEN [WantSchedule(s) EXCEPT !.gCurrentTask = NoTask,
                               !.gWantSchedulerToRun = TRUE]
  ELSE Dequeue(s, t, fPriority[t])

-----------------------------------------------------------------------------
(* What the queues have to satisfy.                                        *)

Holds(q, t) == \E i \in 1..Len(q) : q[i] = t

Distinct(q) == \A i, j \in 1..Len(q) : q[i] = q[j] => i = j

\* a queue holds, once, exactly the tasks of its priority marked as queued
QueuesOK(s) ==
  /\ \A p \in Priority : Distinct(s.fTasks[p])
  /\ \A p \in Priority : \A t \in Task :
       Holds(s.fTasks[p], t) <=> t \in s.queued /\ fPriority[t] = p

\* the mask names the queues in use, fHighestPriority the highest of them
BucketsOK(s) ==
  /\ \A p \in Priority : p \in s.fPriorityMask <=> s.fTasks[p] # <<>>
  /\ \A p \in s.fPriorityMask : p <= s.fHighestPriority
  /\ s.fHighestPriority # 0 => s.fHighestPriority \in s.fPriorityMask

\* the preemption timer runs, or will before user code does, unless the
\* current task outranks every queued one
SliceOK(s) ==
  \/ s.gWantSchedulerToRun
  \/ s.gSchedulerRunning
  \/ /\ s.gCurrentTask # NoTask
     /\ \A t \in s.queued : fPriority[t] < s.gTaskPriority

-----------------------------------------------------------------------------
(* Choosing the next task.                                                 *)

\* mutant: any queued task may be hinted at
HintIsQueued(s) ==
  /\ s.fCurrentTask # NoTask
  /\ s.fCurrentTask \in s.queued

\* the hinted task counts only if it is queued at the highest priority
HintIsUsable(s) ==
  /\ s.fCurrentTask # NoTask
  /\ fPriority[s.fCurrentTask] = s.fHighestPriority
  /\ s.fCurrentTask \in s.queued

\* mutant: the queue is served from its tail
LatestPriorityTask(s) ==
  LET q == s.fTasks[s.fHighestPriority]
  IN  IF HintIsUsable(s) THEN s.fCurrentTask
      ELSE IF q # <<>> THEN q[Len(q)] ELSE NoTask

\* the task CScheduler::removeHighestPriority returns
HighestPriorityTask(s) ==
  IF HintIsUsable(s) THEN s.fCurrentTask
  ELSE IF s.fTasks[s.fHighestPriority] # <<>>
       THEN Head(s.fTasks[s.fHighestPriority])
       ELSE NoTask

\* the scheduler that CScheduler::removeHighestPriority leaves
RemoveHighestPriority(s) ==
  LET t == HighestPriorityTask(s)
      h == [s EXCEPT !.fCurrentTask = NoTask,
                     !.gWantSchedulerToRun = @ \/ HintIsUsable(s)]
      d == Dequeue(h, t, s.fHighestPriority)
  IN  IF t = NoTask THEN h
      ELSE IF d.fTasks[s.fHighestPriority] = <<>> THEN StopScheduler(d) ELSE d

\* mutant: the preempted task is forgotten
RequeueNothing(s) == [s EXCEPT !.gDoSchedule = FALSE]

\* CScheduler::schedule up to the choice: the current task rejoins its queue
Requeue(s) ==
  LET a == IF s.gCurrentTask \in Task THEN Add(s, s.gCurrentTask) ELSE s
  IN  [a EXCEPT !.gDoSchedule = FALSE]

\* CScheduler::schedule: the task it returns, and the scheduler it leaves
NextTask(s) ==
  LET t == HighestPriorityTask(Requeue(s)) IN IF t = NoTask THEN IdleTask ELSE t

Schedule(s) ==
  LET r == RemoveHighestPriority(Requeue(s))
      t == NextTask(s)
      u == IF t = IdleTask THEN StopScheduler(r) ELSE r
  IN  [u EXCEPT !.gTaskPriority = PriorityOf(t)]

-----------------------------------------------------------------------------
(* The end of every SWI.                                                   *)

StartIfWanted(s) == IF s.gWantSchedulerToRun THEN StartScheduler(s) ELSE s

\* the processor goes to the next task if a reschedule has been asked for
SwapTask(s) ==
  StartIfWanted(IF s.gDoSchedule
                THEN [Schedule(s) EXCEPT !.gCurrentTask = NextTask(s)]
                ELSE s)

=============================================================================
