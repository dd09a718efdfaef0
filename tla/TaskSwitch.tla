----------------------------- MODULE TaskSwitch -----------------------------
(***************************************************************************)
(* Task switching: the scheduler of OS/Scheduler.cc driven by the software *)
(* interrupts (SWIs) of the running task and by hardware interrupts, with  *)
(* the exit path that every SWI takes (label Done of SWIHandler.s).        *)
(*                                                                         *)
(* There is one processor.  mode says what it executes:                    *)
(*   "user"      the current task's code;                                  *)
(*   "swi"       a SWI handler, that may still call the scheduler;         *)
(*   "done"      a SWI handler that has finished, about to reach Done;      *)
(*   "deferring" DoDeferrals, called from Done with interrupts enabled;    *)
(*   "deferred"  the rest of Done, before interrupts are disabled again.   *)
(* A hardware interrupt may come in any mode, unless an atomic section     *)
(* masks it.                                                               *)
(*                                                                         *)
(* The kernel objects a task can wait for are abstracted to the set of     *)
(* blocked tasks, and the messages that interrupts have posted to the set  *)
(* of tasks those messages will wake (gDeferredSends).                     *)
(***************************************************************************)
EXTENDS CScheduler

CONSTANTS
  MaxHold,     \* bound on nested HoldSchedule
  MaxAtomic,   \* bound on nested EnterAtomic
  Suspendable  \* tasks whose fState has the bit 0x08, which nothing ever sets

ASSUME NestingAssumption == MaxHold \in Nat /\ MaxAtomic \in Nat

ASSUME SuspendAssumption == Suspendable \subseteq Task

VARIABLES
  sched,            \* the scheduler record
  life,             \* what each task is: "stopped" (not started yet, or
                    \* suspended), "runnable", "blocked" or "dead"
  gDeferredSends,   \* blocked tasks that a message posted by an interrupt wakes
  gWantDeferred,    \* an interrupt wants DoDeferrals to run
  gAtomicNestCount, \* depth of EnterAtomic
  mode

vars == <<sched, life, gDeferredSends, gWantDeferred, gAtomicNestCount, mode>>

Modes == {"user", "swi", "done", "deferring", "deferred"}

TypeOK ==
  /\ sched \in SchedulerRecord
  /\ life \in [Task -> {"stopped", "runnable", "blocked", "dead"}]
  /\ gDeferredSends \subseteq Task
  /\ gWantDeferred \in BOOLEAN
  /\ gAtomicNestCount \in Nat
  /\ mode \in Modes

Init ==
  /\ sched = BootRecord
  /\ life = [t \in Task |-> "stopped"]
  /\ gDeferredSends = {}
  /\ gWantDeferred = FALSE
  /\ gAtomicNestCount = 0
  /\ mode = "user"

\* no section that forbids task switching is open
MaySwitch == gAtomicNestCount = 0 /\ sched.gHoldScheduleLevel = 0

\* leaving the outermost atomic section in user mode issues DoSchedulerSWI if
\* there is something for Done to do
LeaveAtomic ==
  mode' = IF mode = "user" /\ (sched'.gDoSchedule \/ gWantDeferred')
          THEN "done" ELSE mode

-----------------------------------------------------------------------------
(* What a SWI handler may do before it reaches Done.                       *)

InHandler == mode \in {"user", "swi"} /\ mode' = "swi"

\* a SWI that does not concern the scheduler
OtherSWI ==
  /\ mode = "user"
  /\ mode' = "done"
  /\ UNCHANGED <<sched, life, gDeferredSends, gWantDeferred, gAtomicNestCount>>

(***************************************************************************)
(* The current task joins a wait queue of a kernel object.  Code that      *)
(* holds the scheduler or is in an atomic section makes no blocking call.  *)
(***************************************************************************)
BlockCurrentTask ==
  LET t == sched.gCurrentTask IN
  /\ InHandler
  /\ t \in Task
  /\ MaySwitch
  /\ sched' = UnScheduleTask(sched, t)
  /\ life' = [life EXCEPT ![t] = "blocked"]
  /\ UNCHANGED <<gDeferredSends, gWantDeferred, gAtomicNestCount>>

\* mutant: the message that would wake the task again stays queued
WakeTaskKeepsSend(t, hint, want) ==
  /\ InHandler
  /\ life[t] = "blocked"
  /\ sched' = LET h == IF hint THEN SetCurrentTask(sched, t) ELSE sched
                  a == ScheduleTask(h, t)
              IN  IF want THEN WantSchedule(a) ELSE a
  /\ life' = [life EXCEPT ![t] = "runnable"]
  /\ UNCHANGED <<gDeferredSends, gWantDeferred, gAtomicNestCount>>

(***************************************************************************)
(* A kernel object wakes a task: a semaphore asks for a reschedule, the    *)
(* completion of a message hints at the task instead, or does both.  A     *)
(* port may wake the very task that it has just blocked.                   *)
(***************************************************************************)
WakeTask(t, hint, want) ==
  /\ InHandler
  /\ life[t] = "blocked"
  /\ sched' = LET h == IF hint THEN SetCurrentTask(sched, t) ELSE sched
                  a == ScheduleTask(h, t)
              IN  IF want THEN WantSchedule(a) ELSE a
  /\ life' = [life EXCEPT ![t] = "runnable"]
  /\ gDeferredSends' = gDeferredSends \ {t}
  /\ UNCHANGED <<gWantDeferred, gAtomicNestCount>>

\* kTaskYield: the target need not be able to run.  Code that forbids task
\* switching does not yield either.
Yield(t) ==
  /\ mode = "user"
  /\ mode' = "done"
  /\ MaySwitch
  /\ life[t] # "dead"
  /\ sched' = WantSchedule(SetCurrentTask(sched, t))
  /\ UNCHANGED <<life, gDeferredSends, gWantDeferred, gAtomicNestCount>>

(***************************************************************************)
(* The object manager starts, suspends or destroys a task that is not the  *)
(* current one.  It runs as a monitor, whose exit is the SWI that follows. *)
(***************************************************************************)

\* ObjectStart itself tests nothing: a task in a queue would join a second one.
\* Its callers start the task that they have just made.
ObjectStart(t) ==
  /\ InHandler
  /\ MaySwitch
  /\ life[t] = "stopped"
  /\ sched' = ScheduleTask(sched, t)
  /\ life' = [life EXCEPT ![t] = "runnable"]
  /\ UNCHANGED <<gDeferredSends, gWantDeferred, gAtomicNestCount>>

\* A task that waits goes on waiting, and is no longer suspended when it wakes.
ObjectSuspend(t) ==
  /\ InHandler
  /\ MaySwitch
  /\ t # sched.gCurrentTask
  /\ life[t] # "dead"
  /\ IF t \in Suspendable
     THEN /\ sched' = UnScheduleTask(sched, t)
          /\ life' = IF life[t] = "runnable" THEN [life EXCEPT ![t] = "stopped"] ELSE life
     ELSE UNCHANGED <<sched, life>>
  /\ UNCHANGED <<gDeferredSends, gWantDeferred, gAtomicNestCount>>

DeleteTask(t) ==
  /\ InHandler
  /\ MaySwitch
  /\ t # sched.gCurrentTask
  /\ life[t] # "dead"
  /\ sched' = UnScheduleTask(
                IF sched.fCurrentTask = t THEN SetCurrentTask(sched, NoTask)
                                          ELSE sched, t)
  /\ life' = [life EXCEPT ![t] = "dead"]
  /\ gDeferredSends' = gDeferredSends \ {t}
  /\ UNCHANGED <<gWantDeferred, gAtomicNestCount>>

-----------------------------------------------------------------------------
(* Sections of user code that forbid task switching.                       *)

ByTask == mode = "user" /\ sched.gCurrentTask \in Task

EnterAtomic ==
  /\ ByTask
  /\ gAtomicNestCount < MaxAtomic
  /\ gAtomicNestCount' = gAtomicNestCount + 1
  /\ UNCHANGED <<sched, life, gDeferredSends, gWantDeferred, mode>>

ExitAtomic ==
  /\ ByTask
  /\ gAtomicNestCount > 0
  /\ gAtomicNestCount' = gAtomicNestCount - 1
  /\ UNCHANGED <<sched, life, gDeferredSends, gWantDeferred>>
  /\ IF gAtomicNestCount' = 0 THEN LeaveAtomic ELSE UNCHANGED mode

\* the stack manager holds the scheduler outside of any atomic section
Hold ==
  /\ ByTask
  /\ gAtomicNestCount = 0
  /\ sched.gHoldScheduleLevel < MaxHold
  /\ sched' = HoldSchedule(sched)
  /\ UNCHANGED <<life, gDeferredSends, gWantDeferred, gAtomicNestCount, mode>>

\* the decrement and the test are one atomic section
Allow ==
  /\ ByTask
  /\ sched.gHoldScheduleLevel > 0
  /\ sched' = AllowSchedule(sched)
  /\ UNCHANGED <<life, gDeferredSends, gWantDeferred, gAtomicNestCount>>
  /\ IF gAtomicNestCount = 0 THEN LeaveAtomic ELSE UNCHANGED mode

-----------------------------------------------------------------------------
(* Hardware interrupts.                                                    *)

\* PreemptiveTimerInterruptHandler.  The host build does not mask the timer
\* when the scheduler is stopped, so the interrupt may come at any time.
TimerInterrupt ==
  /\ gAtomicNestCount = 0
  /\ sched' = SetCurrentTask(WantSchedule(sched), NoTask)
  /\ UNCHANGED <<life, gDeferredSends, gWantDeferred, gAtomicNestCount>>
  /\ LeaveAtomic

\* a device posts a message that t waits for
SendForInterrupt(t) ==
  /\ gAtomicNestCount = 0
  /\ life[t] = "blocked"
  /\ gDeferredSends' = gDeferredSends \cup {t}
  /\ gWantDeferred' = TRUE
  /\ UNCHANGED <<sched, life, gAtomicNestCount>>
  /\ LeaveAtomic

-----------------------------------------------------------------------------
(* Done: the exit path of every SWI.                                       *)

\* the end of Done, for both of its outcomes: swap to the next task, or return
\* to the calling task
ReturnToUser ==
  /\ mode' = "user"
  /\ sched' = StartIfWanted(
                IF gAtomicNestCount = 0 /\ sched.gDoSchedule
                THEN [Schedule(sched) EXCEPT !.gCurrentTask = NextTask(sched)]
                ELSE sched)
  /\ UNCHANGED <<life, gDeferredSends, gWantDeferred, gAtomicNestCount>>

Done ==
  /\ mode \in {"swi", "done"}
  /\ gAtomicNestCount = 0 => ~gWantDeferred
  /\ ReturnToUser

DoDeferrals ==
  /\ mode \in {"swi", "done"}
  /\ gAtomicNestCount = 0
  /\ gWantDeferred
  /\ gWantDeferred' = FALSE
  /\ mode' = "deferring"
  /\ UNCHANGED <<sched, life, gDeferredSends, gAtomicNestCount>>

\* one turn of the loop of PortDeferredSendNotify
NotifySend(t) ==
  /\ mode = "deferring"
  /\ t \in gDeferredSends
  /\ sched' = ScheduleTask(SetCurrentTask(WantSchedule(sched), t), t)
  /\ life' = [life EXCEPT ![t] = "runnable"]
  /\ gDeferredSends' = gDeferredSends \ {t}
  /\ UNCHANGED <<gWantDeferred, gAtomicNestCount, mode>>

\* the loop has found its queue empty
EndDeferrals ==
  /\ mode = "deferring"
  /\ gDeferredSends = {}
  /\ mode' = "deferred"
  /\ UNCHANGED <<sched, life, gDeferredSends, gWantDeferred, gAtomicNestCount>>

\* an interrupt since the loop ended is not looked at again
DoneAfterDeferrals == mode = "deferred" /\ ReturnToUser

-----------------------------------------------------------------------------

SWIExit ==
  \/ Done
  \/ DoDeferrals
  \/ \E t \in Task : NotifySend(t)
  \/ EndDeferrals
  \/ DoneAfterDeferrals

Handler ==
  \/ OtherSWI
  \/ BlockCurrentTask
  \/ \E t \in Task, hint, want \in BOOLEAN : WakeTask(t, hint, want)
  \/ \E t \in Task : Yield(t) \/ ObjectStart(t) \/ ObjectSuspend(t) \/ DeleteTask(t)

UserSection == EnterAtomic \/ ExitAtomic \/ Hold \/ Allow

Interrupt == TimerInterrupt \/ \E t \in Task : SendForInterrupt(t)

Next == SWIExit \/ Handler \/ UserSection \/ Interrupt

Spec == Init /\ [][Next]_vars

\* the timer takes the processor from code that allows switching
TimeSlice ==
  /\ mode = "user"
  /\ MaySwitch
  /\ sched.gSchedulerRunning
  /\ TimerInterrupt

(***************************************************************************)
(* The handler code runs to its end, sections that forbid switching are    *)
(* straight-line code that closes again, the outermost one too, and the    *)
(* timer, once started, keeps interrupting user code.  A handler runs with *)
(* interrupts disabled in the 64-bit build, and the host may even lose an  *)
(* interrupt that comes meanwhile (Platform/MPController.mm), but the      *)
(* timer is periodic and the sections are short, so that not every one of  *)
(* its interrupts falls into a section.                                    *)
(***************************************************************************)
Fairness ==
  /\ WF_vars(SWIExit)
  /\ \A n \in 1 .. MaxAtomic : SF_vars(gAtomicNestCount = n /\ ExitAtomic)
  /\ \A n \in 1 .. MaxHold : SF_vars(sched.gHoldScheduleLevel = n /\ Allow)
  /\ SF_vars(TimeSlice)

FairSpec == Spec /\ Fairness

-----------------------------------------------------------------------------
(* Safety.                                                                 *)

\* A task that can run is never lost and never runs twice: it owns the
\* processor or stands exactly once, in the queue of its priority; a task
\* that cannot run stands in none.  Nothing in CTaskQueue::add checks this.
NoTaskLost ==
  \A t \in Task :
    /\ life[t] = "runnable" /\ t # sched.gCurrentTask =>
         Holds(sched.fTasks[fPriority[t]], t)
    /\ \A p \in Priority : Holds(sched.fTasks[p], t) =>
         /\ life[t] = "runnable" /\ t # sched.gCurrentTask
         /\ p = fPriority[t]
         /\ Distinct(sched.fTasks[p])

\* The bit mask names exactly the queues that hold a task, and
\* fHighestPriority the highest of them, after any sequence of additions and
\* removals: removeHighestPriority looks at no other queue.
BucketsExact == BucketsOK(sched)

\* While user code runs, a queued task that the current task does not outrank
\* is sure to get a time slice: the preemption timer is running.  StopScheduler
\* is called from three places and must not stop it for the wrong queue.
TimeSliceGuaranteed ==
  mode = "user" /\ (\E t \in sched.queued :
                      fPriority[t] >= PriorityOf(sched.gCurrentTask))
    => sched.gSchedulerRunning

\* The idle task never runs user code while another task could, unless a
\* section that forbids switching is open.
IdleOnlyWhenIdle ==
  mode = "user" /\ sched.gCurrentTask = IdleTask => sched.queued = {}

\* User code always runs on behalf of a task that can run.
UserCodeHasOwner ==
  mode = "user" => \/ sched.gCurrentTask = IdleTask
                   \/ /\ sched.gCurrentTask \in Task
                      /\ life[sched.gCurrentTask] = "runnable"

\* The hint never names a destroyed task: the scheduler dereferences it.
HintAlive ==
  sched.fCurrentTask # NoTask => life[sched.fCurrentTask] # "dead"

\* The inductive invariant behind them.

\* only a hold keeps a request back
OnlyHeldBack == sched.gScheduleRequested => sched.gHoldScheduleLevel > 0

Runnable == {t \in Task : life[t] = "runnable"}

CurrentOK ==
  /\ sched.queued = Runnable \ {sched.gCurrentTask}
  /\ sched.gCurrentTask \in Task => sched.gCurrentTask \in Runnable
  /\ sched.gCurrentTask # NoTask =>
       sched.gTaskPriority = PriorityOf(sched.gCurrentTask)
  /\ sched.gCurrentTask \notin Task => MaySwitch

RequestsOK ==
  /\ mode = "user" => /\ ~sched.gWantSchedulerToRun
                      /\ sched.gCurrentTask # NoTask
  /\ sched.gCurrentTask = NoTask => sched.gDoSchedule
  /\ sched.gCurrentTask = IdleTask /\ sched.queued # {} => sched.gDoSchedule
  /\ mode = "user" /\ gAtomicNestCount = 0 => ~sched.gDoSchedule
  /\ sched.gHoldScheduleLevel > 0 => ~sched.gDoSchedule

SwitchInv ==
  /\ TypeOK
  /\ QueuesOK(sched)
  /\ BucketsOK(sched)
  /\ CurrentOK
  /\ RequestsOK
  /\ SliceOK(sched)
  /\ OnlyHeldBack
  /\ HintAlive

\* a message posted by an interrupt wakes a task that still waits for it
SendsOK == \A t \in gDeferredSends : life[t] = "blocked"

IInv == SwitchInv /\ SendsOK

-----------------------------------------------------------------------------
(* Action properties.                                                      *)

\* The processor is never taken from a task that holds the scheduler or that
\* is in an atomic section, whatever interrupts and SWIs come meanwhile.
SectionsPin ==
  [][~MaySwitch => sched'.gCurrentTask = sched.gCurrentTask]_vars

\* the steps that ask for a reschedule, held or not
Asks ==
  \/ TimerInterrupt
  \/ \E t \in Task : NotifySend(t) \/ \E hint \in BOOLEAN : WakeTask(t, hint, TRUE)

\* A request to schedule made under HoldSchedule, by a handler, the timer or a
\* message of an interrupt, is kept however the hold is nested, becomes one
\* request when the outermost hold ends (and none is made up then), and is kept
\* until the exit of a SWI honours it.
HeldRequestKept ==
  [][ LET held == sched.gHoldScheduleLevel > 0
          ends == sched'.gHoldScheduleLevel = 0
      IN  /\ held /\ Asks => sched'.gScheduleRequested
          /\ held /\ ~ends /\ sched.gScheduleRequested => sched'.gScheduleRequested
          /\ held /\ ends => /\ sched'.gDoSchedule <=> sched.gScheduleRequested
                             /\ ~sched'.gScheduleRequested
          /\ sched.gDoSchedule =>
               \/ sched'.gDoSchedule
               \/ mode # "user" /\ mode' = "user" /\ gAtomicNestCount = 0 ]_vars

\* A switch gives the processor to a task that no queued task outranks.
SwitchToHighest ==
  [][ sched'.gCurrentTask \notin {sched.gCurrentTask, NoTask} =>
        \A t \in sched'.queued :
          fPriority[t] <= PriorityOf(sched'.gCurrentTask) ]_vars

-----------------------------------------------------------------------------
(* Liveness.                                                               *)

TopTasks == {t \in Task : \A u \in Task : fPriority[u] <= fPriority[t]}

InterruptSend == \E t \in Task : SendForInterrupt(t)

\* A runnable task that no other task outranks gets the processor (or is
\* destroyed or suspended), even if the others keep yielding to each other, provided that
\* interrupts do not wake other tasks ahead of it for ever.
TopTaskRuns ==
  <>[][~InterruptSend]_vars =>
    \A t \in TopTasks :
      life[t] = "runnable" ~> (sched.gCurrentTask = t \/ life[t] # "runnable")

=============================================================================
