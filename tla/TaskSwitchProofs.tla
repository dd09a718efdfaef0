--------------------------- MODULE TaskSwitchProofs ---------------------------
(***************************************************************************)
(* Proofs about TaskSwitch: the invariants that TLC checks on a small      *)
(* instance hold for every set of tasks, every assignment of priorities    *)
(* and every nesting of the sections that forbid switching.                *)
(*                                                                         *)
(* IInv, which is SwitchInv and SendsOK, is inductive; every other         *)
(* invariant follows from it.  There is a lemma per action.                *)
(***************************************************************************)
EXTENDS TaskSwitch, CSchedulerLemmas

USE SchedulerAssumption, NestingAssumption, SuspendAssumption

-----------------------------------------------------------------------------
(* Facts that several steps need.                                          *)

\* A task that cannot run is neither queued nor current.
LEMMA NotRunnable ==
  ASSUME SwitchInv, NEW t \in Task, life[t] # "runnable"
  PROVE  t \notin sched.queued /\ t # sched.gCurrentTask
BY DEF SwitchInv, CurrentOK, Runnable

-----------------------------------------------------------------------------
(* The inductive invariant holds initially.                                *)

\* The scheduler that booting leaves satisfies the inductive invariant.
LEMMA InitSwitchInv == Init => SwitchInv
<1> SUFFICES ASSUME Init PROVE SwitchInv
  OBVIOUS
<1>1. 0 \in Priority
  BY DEF Priority
<1>2. sched \in SchedulerRecord
  BY <1>1 DEF Init, BootRecord, SchedulerRecord
<1>3. TypeOK
  BY <1>2 DEF Init, TypeOK, Modes
<1>4. QueuesOK(sched) /\ BucketsOK(sched)
  BY <1>1 DEF Init, BootRecord, QueuesOK, BucketsOK, Distinct, Holds
<1>5. CurrentOK /\ RequestsOK /\ SliceOK(sched) /\ OnlyHeldBack /\ HintAlive
  BY DEF Init, BootRecord, CurrentOK, RequestsOK, SliceOK, OnlyHeldBack,
         HintAlive, Runnable, MaySwitch, PriorityOf
<1>6. QED
  BY <1>3, <1>4, <1>5 DEF SwitchInv

-----------------------------------------------------------------------------
(* SWI handlers preserve the inductive invariant.                          *)

\* A SWI that does not concern the scheduler.
LEMMA OtherSWIKeeps == ASSUME SwitchInv, OtherSWI PROVE SwitchInv'
BY DEF SwitchInv, OtherSWI, TypeOK, Modes, CurrentOK, RequestsOK, OnlyHeldBack,
       HintAlive, Runnable, MaySwitch

\* The current task blocks: it gives up the processor and asks for another.
LEMMA BlockCurrentTaskKeeps == ASSUME SwitchInv, BlockCurrentTask PROVE SwitchInv'
<1> DEFINE t == sched.gCurrentTask
<1>1. /\ sched \in SchedulerRecord
      /\ t \in Task /\ t # NoTask /\ t # IdleTask
      /\ gAtomicNestCount = 0
      /\ sched.gHoldScheduleLevel = 0
      /\ sched' = UnScheduleTask(sched, t)
      /\ life' = [life EXCEPT ![t] = "blocked"]
      /\ mode' = "swi"
      /\ UNCHANGED <<gDeferredSends, gWantDeferred, gAtomicNestCount>>
  BY DEF SwitchInv, TypeOK, BlockCurrentTask, InHandler, MaySwitch
<1>2. /\ sched' \in SchedulerRecord
      /\ sched'.fTasks = sched.fTasks
      /\ sched'.fPriorityMask = sched.fPriorityMask
      /\ sched'.fHighestPriority = sched.fHighestPriority
      /\ sched'.fCurrentTask = sched.fCurrentTask
      /\ sched'.queued = sched.queued
      /\ sched'.gCurrentTask = NoTask
      /\ sched'.gHoldScheduleLevel = sched.gHoldScheduleLevel
      /\ sched'.gWantSchedulerToRun = TRUE
      /\ sched'.gDoSchedule =
           (sched.gDoSchedule \/ sched.gHoldScheduleLevel = 0)
      /\ sched'.gScheduleRequested =
           (sched.gScheduleRequested \/ sched.gHoldScheduleLevel # 0)
  BY <1>1, UnScheduleCurrentFields
<1>3. sched'.gDoSchedule
  BY <1>1, <1>2
<1>4. TypeOK'
  BY <1>1, <1>2 DEF SwitchInv, TypeOK, Modes
<1>5. (QueuesOK(sched) /\ BucketsOK(sched) /\ SliceOK(sched))'
  BY <1>2, QueueFrame DEF SwitchInv, SliceOK
<1>6. CurrentOK'
  <2>1. sched.queued = Runnable \ {t} /\ t \in Runnable
    BY <1>1 DEF SwitchInv, CurrentOK
  <2>2. Runnable' = Runnable \ {t}
    BY <1>1 DEF SwitchInv, TypeOK, Runnable
  <2>3. NoTask \notin Runnable'
    BY DEF Runnable
  <2>4. QED
    BY <1>1, <1>2, <2>1, <2>2, <2>3 DEF CurrentOK, MaySwitch
<1>7. RequestsOK' /\ OnlyHeldBack'
  <2>1. sched'.gHoldScheduleLevel = 0
    BY <1>1, <1>2
  <2>2. sched'.gScheduleRequested = sched.gScheduleRequested
    BY <1>1, <1>2 DEF SchedulerRecord
  <2>3. QED
    BY <1>1, <1>2, <1>3, <2>1, <2>2 DEF SwitchInv, RequestsOK, OnlyHeldBack
<1>8. HintAlive'
  BY <1>1, <1>2 DEF SwitchInv, TypeOK, HintAlive, SchedulerRecord
<1>9. QED
  BY <1>4, <1>5, <1>6, <1>7, <1>8 DEF SwitchInv

\* A task that could not run joins the ready tasks.  Common to waking,
\* starting and the deferred sends.
LEMMA MadeReady ==
  ASSUME SwitchInv,
         NEW t \in Task, life[t] # "runnable",
         life' = [life EXCEPT ![t] = "runnable"],
         mode' # "user", mode' \in Modes,
         gAtomicNestCount' = gAtomicNestCount,
         gDeferredSends' \subseteq Task,
         gWantDeferred' \in BOOLEAN,
         NEW h \in SchedulerRecord, QueuesOK(h), BucketsOK(h), SliceOK(h),
         h.queued = sched.queued \cup {t},
         h.fCurrentTask \in {sched.fCurrentTask, t},
         h.gCurrentTask = sched.gCurrentTask,
         h.gTaskPriority = sched.gTaskPriority,
         h.gHoldScheduleLevel = sched.gHoldScheduleLevel,
         sched.gDoSchedule => h.gDoSchedule,
         h.gCurrentTask = IdleTask => h.gDoSchedule,
         h.gHoldScheduleLevel > 0 => ~h.gDoSchedule,
         h.gScheduleRequested => h.gHoldScheduleLevel > 0,
         sched' = h
  PROVE  SwitchInv'
<1>1. TypeOK'
  BY DEF SwitchInv, TypeOK
<1>2. CurrentOK'
  <2>1. Runnable' = Runnable \cup {t} /\ t # sched.gCurrentTask
    BY DEF SwitchInv, TypeOK, CurrentOK, Runnable
  <2>2. QED
    BY <2>1 DEF SwitchInv, CurrentOK, MaySwitch
<1>3. RequestsOK' /\ OnlyHeldBack'
  BY DEF SwitchInv, RequestsOK, OnlyHeldBack
<1>4. HintAlive'
  BY DEF SwitchInv, TypeOK, HintAlive, SchedulerRecord
<1>5. QED
  BY <1>1, <1>2, <1>3, <1>4 DEF SwitchInv

\* A kernel object wakes a blocked task.
LEMMA WakeTaskKeeps ==
  ASSUME SwitchInv, NEW t \in Task, NEW hint \in BOOLEAN, NEW want \in BOOLEAN,
         WakeTask(t, hint, want)
  PROVE  SwitchInv'
<1> DEFINE h == IF hint THEN SetCurrentTask(sched, t) ELSE sched
           a == ScheduleTask(h, t)
           w == IF want THEN WantSchedule(a) ELSE a
<1>1. /\ life[t] = "blocked"
      /\ life' = [life EXCEPT ![t] = "runnable"]
      /\ mode' = "swi"
      /\ gDeferredSends' = gDeferredSends \ {t}
      /\ UNCHANGED <<gWantDeferred, gAtomicNestCount>>
      /\ sched' = w
  BY DEF WakeTask, InHandler
<1>2. t \notin sched.queued /\ t # sched.gCurrentTask
  BY <1>1, NotRunnable
<1>3. sched \in SchedulerRecord
  BY DEF SwitchInv, TypeOK
<1>4. /\ h \in SchedulerRecord
      /\ QueuesOK(h) /\ BucketsOK(h) /\ SliceOK(h)
      /\ h.queued = sched.queued
      /\ h.fCurrentTask \in {sched.fCurrentTask, t}
      /\ h.gCurrentTask = sched.gCurrentTask
      /\ h.gTaskPriority = sched.gTaskPriority
      /\ h.gHoldScheduleLevel = sched.gHoldScheduleLevel
      /\ h.gDoSchedule = sched.gDoSchedule
      /\ h.gScheduleRequested = sched.gScheduleRequested
  <2>1. CASE hint
    <3>1. h = SetCurrentTask(sched, t)
      BY <2>1
    <3> HIDE DEF h
    <3>2. QED
      BY SMTT(30), <1>3, <3>1, SetCurrentTaskFields, QueueFrame DEF SwitchInv, SliceOK
  <2>2. CASE ~hint
    BY <1>3, <2>2 DEF SwitchInv
  <2>3. QED
    BY <2>1, <2>2
<1> HIDE DEF h
<1>5. /\ a \in SchedulerRecord
      /\ QueuesOK(a) /\ BucketsOK(a) /\ SliceOK(a)
      /\ a.fCurrentTask = h.fCurrentTask
      /\ a.queued = h.queued \cup {t}
      /\ a.gCurrentTask = h.gCurrentTask
      /\ a.gTaskPriority = h.gTaskPriority
      /\ a.gHoldScheduleLevel = h.gHoldScheduleLevel
      /\ a.gDoSchedule =
           (h.gDoSchedule \/ (/\ h.gCurrentTask = IdleTask
                              /\ h.gHoldScheduleLevel = 0))
      /\ a.gScheduleRequested =
           (h.gScheduleRequested \/ (/\ h.gCurrentTask = IdleTask
                                     /\ h.gHoldScheduleLevel # 0))
  BY <1>2, <1>4, ScheduleTaskFields
<1> HIDE DEF a
<1>6. /\ w \in SchedulerRecord
      /\ QueuesOK(w) /\ BucketsOK(w) /\ SliceOK(w)
      /\ w.fCurrentTask = a.fCurrentTask
      /\ w.queued = a.queued
      /\ w.gCurrentTask = a.gCurrentTask
      /\ w.gTaskPriority = a.gTaskPriority
      /\ w.gHoldScheduleLevel = a.gHoldScheduleLevel
      /\ w.gDoSchedule =
           (a.gDoSchedule \/ (want /\ a.gHoldScheduleLevel = 0))
      /\ w.gScheduleRequested =
           (a.gScheduleRequested \/ (want /\ a.gHoldScheduleLevel # 0))
  <2>1. CASE want
    <3>1. w = WantSchedule(a)
      BY <2>1
    <3> HIDE DEF w
    <3>2. QED
      BY <1>5, <2>1, <3>1, WantScheduleFields, WantScheduleOK
  <2>2. CASE ~want
    <3>1. w = a
      BY <2>2
    <3>2. a.gDoSchedule \in BOOLEAN /\ a.gScheduleRequested \in BOOLEAN
      BY <1>5 DEF SchedulerRecord
    <3> HIDE DEF w
    <3>3. /\ w.gDoSchedule =
               (a.gDoSchedule \/ (want /\ a.gHoldScheduleLevel = 0))
          /\ w.gScheduleRequested =
               (a.gScheduleRequested \/ (want /\ a.gHoldScheduleLevel # 0))
      BY <2>2, <3>1, <3>2
    <3>4. QED
      BY <1>5, <3>1, <3>3
  <2>3. QED
    BY <2>1, <2>2
<1> HIDE DEF w
<1>7. /\ w.gHoldScheduleLevel = sched.gHoldScheduleLevel
      /\ sched.gHoldScheduleLevel \in Nat
      /\ sched.gCurrentTask = IdleTask => sched.gHoldScheduleLevel = 0
      /\ sched.gHoldScheduleLevel > 0 => ~sched.gDoSchedule
      /\ sched.gScheduleRequested => sched.gHoldScheduleLevel > 0
  BY <1>3, <1>4, <1>5, <1>6
     DEF SwitchInv, CurrentOK, RequestsOK, OnlyHeldBack, MaySwitch,
         SchedulerRecord
<1>8. /\ sched.gDoSchedule => w.gDoSchedule
      /\ w.gCurrentTask = IdleTask => w.gDoSchedule
      /\ w.gHoldScheduleLevel > 0 => ~w.gDoSchedule
      /\ w.gScheduleRequested => w.gHoldScheduleLevel > 0
  <2>1. CASE sched.gHoldScheduleLevel = 0
    <3>1. ~sched.gScheduleRequested /\ ~(w.gHoldScheduleLevel > 0)
      BY <1>7, <2>1
    <3>2. /\ sched.gDoSchedule => a.gDoSchedule
          /\ a.gCurrentTask = IdleTask => a.gDoSchedule
          /\ ~a.gScheduleRequested
      BY <1>4, <1>5, <2>1, <3>1
    <3>3. /\ a.gDoSchedule => w.gDoSchedule
          /\ ~w.gScheduleRequested
      BY <1>4, <1>5, <1>6, <2>1, <3>2
    <3>4. QED
      BY <1>6, <3>1, <3>2, <3>3
  <2>2. CASE sched.gHoldScheduleLevel > 0
    <3>1. /\ ~sched.gDoSchedule
          /\ sched.gCurrentTask # IdleTask
          /\ sched.gHoldScheduleLevel # 0
      BY <1>7, <2>2
    <3>2. ~a.gDoSchedule
      BY <1>4, <1>5, <3>1
    <3>3. ~w.gDoSchedule
      BY <1>4, <1>5, <1>6, <3>1, <3>2
    <3>4. QED
      BY <1>4, <1>5, <1>6, <1>7, <2>2, <3>1, <3>3
  <2>3. QED
    BY <1>7, <2>1, <2>2
<1>9. gDeferredSends' \subseteq Task /\ gWantDeferred' \in BOOLEAN
  BY <1>1 DEF SwitchInv, TypeOK
<1>10. QED
  BY ZenonT(40), <1>1, <1>4, <1>5, <1>6, <1>8, <1>9, MadeReady DEF Modes

\* The running task yields to another.
LEMMA YieldKeeps ==
  ASSUME SwitchInv, NEW t \in Task, Yield(t)
  PROVE  SwitchInv'
<1> DEFINE h == SetCurrentTask(sched, t)
<1>1. /\ sched \in SchedulerRecord
      /\ mode' = "done"
      /\ gAtomicNestCount = 0
      /\ sched.gHoldScheduleLevel = 0
      /\ life[t] # "dead"
      /\ sched' = WantSchedule(h)
      /\ UNCHANGED <<life, gDeferredSends, gWantDeferred, gAtomicNestCount>>
  BY DEF SwitchInv, TypeOK, Yield, MaySwitch
<1>2. /\ h \in SchedulerRecord
      /\ QueuesOK(h) /\ BucketsOK(h) /\ SliceOK(h)
      /\ h.fCurrentTask = t
      /\ h.queued = sched.queued
      /\ h.gCurrentTask = sched.gCurrentTask
      /\ h.gTaskPriority = sched.gTaskPriority
      /\ h.gHoldScheduleLevel = sched.gHoldScheduleLevel
      /\ h.gScheduleRequested = sched.gScheduleRequested
  <2> HIDE DEF h
  <2> QED
    BY SMTT(30), <1>1, SetCurrentTaskFields, QueueFrame DEF SwitchInv, SliceOK, h
<1> HIDE DEF h
<1>3. /\ sched' \in SchedulerRecord
      /\ QueuesOK(sched') /\ BucketsOK(sched') /\ SliceOK(sched')
      /\ sched'.fCurrentTask = t
      /\ sched'.queued = sched.queued
      /\ sched'.gCurrentTask = sched.gCurrentTask
      /\ sched'.gTaskPriority = sched.gTaskPriority
      /\ sched'.gHoldScheduleLevel = 0
      /\ sched'.gDoSchedule = (h.gDoSchedule \/ h.gHoldScheduleLevel = 0)
      /\ sched'.gScheduleRequested =
           (h.gScheduleRequested \/ h.gHoldScheduleLevel # 0)
  BY <1>1, <1>2, WantScheduleFields, WantScheduleOK
<1>4. sched'.gDoSchedule
  BY <1>1, <1>2, <1>3
<1>5. sched'.gScheduleRequested => sched.gScheduleRequested
  BY <1>1, <1>2, <1>3
<1>6. QED
  BY <1>1, <1>3, <1>4, <1>5
     DEF SwitchInv, TypeOK, Modes, CurrentOK, RequestsOK, OnlyHeldBack, HintAlive,
         Runnable, MaySwitch

\* The object manager starts a task.
LEMMA ObjectStartKeeps ==
  ASSUME SwitchInv, NEW t \in Task, ObjectStart(t)
  PROVE  SwitchInv'
<1> DEFINE a == ScheduleTask(sched, t)
<1>1. /\ sched \in SchedulerRecord
      /\ QueuesOK(sched) /\ BucketsOK(sched) /\ SliceOK(sched)
      /\ sched.gHoldScheduleLevel = 0
      /\ life[t] = "stopped"
      /\ life' = [life EXCEPT ![t] = "runnable"]
      /\ mode' = "swi"
      /\ UNCHANGED <<gDeferredSends, gWantDeferred, gAtomicNestCount>>
      /\ sched' = a
  BY DEF SwitchInv, TypeOK, ObjectStart, InHandler, MaySwitch
<1>2. t \notin sched.queued /\ t # sched.gCurrentTask
  BY <1>1, NotRunnable
<1>3. /\ a \in SchedulerRecord
      /\ QueuesOK(a) /\ BucketsOK(a) /\ SliceOK(a)
      /\ a.fCurrentTask = sched.fCurrentTask
      /\ a.queued = sched.queued \cup {t}
      /\ a.gCurrentTask = sched.gCurrentTask
      /\ a.gTaskPriority = sched.gTaskPriority
      /\ a.gHoldScheduleLevel = sched.gHoldScheduleLevel
      /\ a.gDoSchedule =
           (sched.gDoSchedule \/ (/\ sched.gCurrentTask = IdleTask
                                  /\ sched.gHoldScheduleLevel = 0))
      /\ a.gScheduleRequested =
           (sched.gScheduleRequested \/ (/\ sched.gCurrentTask = IdleTask
                                         /\ sched.gHoldScheduleLevel # 0))
  BY <1>1, <1>2, ScheduleTaskFields
<1> HIDE DEF a
<1>4. /\ sched.gDoSchedule => a.gDoSchedule
      /\ a.gCurrentTask = IdleTask => a.gDoSchedule
      /\ a.gHoldScheduleLevel > 0 => ~a.gDoSchedule
      /\ a.gScheduleRequested => a.gHoldScheduleLevel > 0
  <2>1. a.gHoldScheduleLevel = 0 /\ ~sched.gScheduleRequested
    BY <1>1, <1>3 DEF SwitchInv, OnlyHeldBack
  <2>2. /\ sched.gDoSchedule => a.gDoSchedule
        /\ a.gCurrentTask = IdleTask => a.gDoSchedule
    BY <1>1, <1>3
  <2>3. ~a.gScheduleRequested
    BY <1>1, <1>3, <2>1
  <2>4. QED
    BY <2>1, <2>2, <2>3
<1>5. gDeferredSends' \subseteq Task /\ gWantDeferred' \in BOOLEAN
  BY <1>1 DEF SwitchInv, TypeOK
<1>6. QED
  BY <1>1, <1>3, <1>4, <1>5, MadeReady DEF Modes

\* The object manager suspends a task that is not the current one.
LEMMA ObjectSuspendKeeps ==
  ASSUME SwitchInv, NEW t \in Task, ObjectSuspend(t)
  PROVE  SwitchInv'
<1> DEFINE d == Dequeue(sched, t, fPriority[t])
<1>1. /\ sched \in SchedulerRecord
      /\ QueuesOK(sched) /\ BucketsOK(sched) /\ SliceOK(sched)
      /\ t # sched.gCurrentTask /\ life[t] # "dead"
      /\ mode' = "swi"
      /\ UNCHANGED <<gDeferredSends, gWantDeferred, gAtomicNestCount>>
  BY DEF SwitchInv, TypeOK, ObjectSuspend, InHandler
<1>2. CASE t \notin Suspendable
  <2>1. sched' = sched /\ life' = life
    BY <1>2 DEF ObjectSuspend
  <2>2. QED
    BY <1>1, <2>1 DEF SwitchInv, TypeOK, Modes, CurrentOK, RequestsOK, OnlyHeldBack,
                      HintAlive, Runnable, MaySwitch
<1>3. CASE t \in Suspendable
  <2>1. /\ sched' = UnScheduleTask(sched, t)
        /\ life' = IF life[t] = "runnable" THEN [life EXCEPT ![t] = "stopped"] ELSE life
    BY <1>3 DEF ObjectSuspend
  <2>2. sched' = d
    BY <1>1, <2>1 DEF UnScheduleTask
  <2>3. /\ sched' \in SchedulerRecord
        /\ QueuesOK(sched') /\ BucketsOK(sched')
        /\ sched'.fCurrentTask = sched.fCurrentTask
        /\ sched'.queued = sched.queued \ {t}
        /\ sched'.gCurrentTask = sched.gCurrentTask
        /\ sched'.gTaskPriority = sched.gTaskPriority
        /\ sched'.gDoSchedule = sched.gDoSchedule
        /\ sched'.gScheduleRequested = sched.gScheduleRequested
        /\ sched'.gHoldScheduleLevel = sched.gHoldScheduleLevel
        /\ sched'.gWantSchedulerToRun = sched.gWantSchedulerToRun
        /\ sched'.gSchedulerRunning = sched.gSchedulerRunning
    BY <1>1, <2>2, DequeueOK
  <2>4. SliceOK(sched')
    BY <1>1, <2>3 DEF SliceOK
  <2>5. /\ life' \in [Task -> {"stopped", "runnable", "blocked", "dead"}]
        /\ Runnable' = Runnable \ {t}
        /\ \A u \in Task : life'[u] = "dead" <=> life[u] = "dead"
    BY <2>1 DEF SwitchInv, TypeOK, Runnable
  <2>6. TypeOK'
    BY <1>1, <2>3, <2>5 DEF SwitchInv, TypeOK, Modes
  <2>7. CurrentOK'
    BY <1>1, <2>3, <2>5 DEF SwitchInv, CurrentOK, MaySwitch
  <2>8. RequestsOK' /\ OnlyHeldBack'
    BY <1>1, <2>3 DEF SwitchInv, RequestsOK, OnlyHeldBack
  <2>9. HintAlive'
    BY <1>1, <2>3, <2>5 DEF SwitchInv, HintAlive, SchedulerRecord
  <2>10. QED
    BY <2>3, <2>4, <2>6, <2>7, <2>8, <2>9 DEF SwitchInv
<1>4. QED
  BY <1>2, <1>3

\* The object manager destroys a task that is not the current one.
LEMMA DeleteTaskKeeps ==
  ASSUME SwitchInv, NEW t \in Task, DeleteTask(t)
  PROVE  SwitchInv'
<1> DEFINE h == IF sched.fCurrentTask = t THEN SetCurrentTask(sched, NoTask)
                                          ELSE sched
           d == Dequeue(h, t, fPriority[t])
<1>1. /\ sched \in SchedulerRecord
      /\ t # sched.gCurrentTask
      /\ life' = [life EXCEPT ![t] = "dead"]
      /\ mode' = "swi"
      /\ gDeferredSends' = gDeferredSends \ {t}
      /\ UNCHANGED <<gWantDeferred, gAtomicNestCount>>
      /\ sched' = UnScheduleTask(h, t)
  BY DEF SwitchInv, TypeOK, DeleteTask, InHandler
<1>2. /\ h \in SchedulerRecord
      /\ QueuesOK(h) /\ BucketsOK(h) /\ SliceOK(h)
      /\ h.fCurrentTask \in {sched.fCurrentTask, NoTask} \ {t}
      /\ h.queued = sched.queued
      /\ h.gCurrentTask = sched.gCurrentTask
      /\ h.gTaskPriority = sched.gTaskPriority
      /\ h.gDoSchedule = sched.gDoSchedule
      /\ h.gScheduleRequested = sched.gScheduleRequested
      /\ h.gHoldScheduleLevel = sched.gHoldScheduleLevel
      /\ h.gWantSchedulerToRun = sched.gWantSchedulerToRun
      /\ h.gSchedulerRunning = sched.gSchedulerRunning
  <2>1. CASE sched.fCurrentTask = t
    <3>1. h = SetCurrentTask(sched, NoTask) /\ NoTask # t
      BY <2>1
    <3> HIDE DEF h
    <3>2. /\ h \in SchedulerRecord
          /\ h.fTasks = sched.fTasks
          /\ h.fPriorityMask = sched.fPriorityMask
          /\ h.fHighestPriority = sched.fHighestPriority
          /\ h.fCurrentTask = NoTask
          /\ h.queued = sched.queued
          /\ h.gCurrentTask = sched.gCurrentTask
          /\ h.gTaskPriority = sched.gTaskPriority
          /\ h.gDoSchedule = sched.gDoSchedule
          /\ h.gScheduleRequested = sched.gScheduleRequested
          /\ h.gHoldScheduleLevel = sched.gHoldScheduleLevel
          /\ h.gWantSchedulerToRun = sched.gWantSchedulerToRun
          /\ h.gSchedulerRunning = sched.gSchedulerRunning
      BY <1>1, <3>1, SetCurrentTaskFields
    <3>3. QueuesOK(h) /\ BucketsOK(h) /\ SliceOK(h)
      BY <3>2, QueueFrame DEF SwitchInv, SliceOK
    <3>4. QED
      BY <3>1, <3>2, <3>3
  <2>2. CASE sched.fCurrentTask # t
    BY <1>1, <2>2 DEF SwitchInv
  <2>3. QED
    BY <2>1, <2>2
<1> HIDE DEF h
<1>3. sched' = d
  BY <1>1, <1>2 DEF UnScheduleTask
<1>4. /\ sched' \in SchedulerRecord
      /\ QueuesOK(sched') /\ BucketsOK(sched')
      /\ sched'.fCurrentTask = h.fCurrentTask
      /\ sched'.queued = h.queued \ {t}
      /\ sched'.gCurrentTask = h.gCurrentTask
      /\ sched'.gTaskPriority = h.gTaskPriority
      /\ sched'.gDoSchedule = h.gDoSchedule
      /\ sched'.gScheduleRequested = h.gScheduleRequested
      /\ sched'.gHoldScheduleLevel = h.gHoldScheduleLevel
      /\ sched'.gWantSchedulerToRun = h.gWantSchedulerToRun
      /\ sched'.gSchedulerRunning = h.gSchedulerRunning
  BY <1>2, <1>3, DequeueOK
<1>5. SliceOK(sched')
  BY <1>2, <1>4 DEF SliceOK
<1>6. TypeOK'
  BY <1>1, <1>4 DEF SwitchInv, TypeOK, Modes
<1>7. CurrentOK'
  <2>1. Runnable' = Runnable \ {t}
    BY <1>1 DEF SwitchInv, TypeOK, Runnable
  <2>2. QED
    BY <1>1, <1>2, <1>4, <2>1 DEF SwitchInv, CurrentOK, MaySwitch
<1>8. RequestsOK' /\ OnlyHeldBack'
  BY <1>1, <1>2, <1>4 DEF SwitchInv, RequestsOK, OnlyHeldBack
<1>9. HintAlive'
  BY <1>1, <1>2, <1>4 DEF SwitchInv, TypeOK, HintAlive, SchedulerRecord
<1>10. QED
  BY <1>4, <1>5, <1>6, <1>7, <1>8, <1>9 DEF SwitchInv

-----------------------------------------------------------------------------
(* Sections that forbid switching, and interrupts.                         *)

\* Entering an atomic section.
LEMMA EnterAtomicKeeps == ASSUME SwitchInv, EnterAtomic PROVE SwitchInv'
<1>1. /\ gAtomicNestCount' = gAtomicNestCount + 1
      /\ gAtomicNestCount \in Nat
      /\ sched.gCurrentTask \in Task
      /\ UNCHANGED <<sched, life, gDeferredSends, gWantDeferred, mode>>
  BY DEF SwitchInv, TypeOK, EnterAtomic, ByTask
<1>2. gAtomicNestCount' \in Nat /\ gAtomicNestCount' # 0
  BY <1>1
<1>3. QED
  BY <1>1, <1>2
     DEF SwitchInv, TypeOK, CurrentOK, RequestsOK, OnlyHeldBack, HintAlive,
         Runnable, MaySwitch

\* Leaving an atomic section; the outermost one may end in a SWI.
LEMMA ExitAtomicKeeps == ASSUME SwitchInv, ExitAtomic PROVE SwitchInv'
<1>1. /\ gAtomicNestCount' = gAtomicNestCount - 1
      /\ gAtomicNestCount \in Nat /\ gAtomicNestCount > 0
      /\ sched.gCurrentTask \in Task
      /\ mode = "user"
      /\ UNCHANGED <<sched, life, gDeferredSends, gWantDeferred>>
      /\ IF gAtomicNestCount' = 0 THEN LeaveAtomic ELSE UNCHANGED mode
  BY DEF SwitchInv, TypeOK, ExitAtomic, ByTask
<1>2. gAtomicNestCount' \in Nat
  BY <1>1
<1>3. /\ mode' \in Modes
      /\ mode' = "user" /\ gAtomicNestCount' = 0 => ~sched'.gDoSchedule
  BY <1>1 DEF LeaveAtomic, Modes
<1>4. QED
  BY <1>1, <1>2, <1>3
     DEF SwitchInv, TypeOK, CurrentOK, RequestsOK, OnlyHeldBack, HintAlive,
         Runnable, MaySwitch

\* Holding the scheduler.
LEMMA HoldKeeps == ASSUME SwitchInv, Hold PROVE SwitchInv'
<1>1. /\ sched \in SchedulerRecord
      /\ sched.gCurrentTask \in Task
      /\ mode = "user"
      /\ gAtomicNestCount = 0
      /\ sched' = [sched EXCEPT !.gHoldScheduleLevel = @ + 1]
      /\ UNCHANGED <<life, gDeferredSends, gWantDeferred, gAtomicNestCount, mode>>
  BY DEF SwitchInv, TypeOK, Hold, ByTask, HoldSchedule
<1> DEFINE n == sched.gHoldScheduleLevel + 1
<1>2. sched.gHoldScheduleLevel \in Nat /\ n \in Nat /\ n > 0
  BY <1>1 DEF SchedulerRecord
<1>a. sched' = [sched EXCEPT !.gHoldScheduleLevel = n]
  BY <1>1
<1> HIDE DEF n
<1>3. /\ sched' \in SchedulerRecord
      /\ sched'.fTasks = sched.fTasks
      /\ sched'.fPriorityMask = sched.fPriorityMask
      /\ sched'.fHighestPriority = sched.fHighestPriority
      /\ sched'.fCurrentTask = sched.fCurrentTask
      /\ sched'.queued = sched.queued
      /\ sched'.gCurrentTask = sched.gCurrentTask
      /\ sched'.gTaskPriority = sched.gTaskPriority
      /\ sched'.gDoSchedule = sched.gDoSchedule
      /\ sched'.gScheduleRequested = sched.gScheduleRequested
      /\ sched'.gHoldScheduleLevel = n
      /\ sched'.gWantSchedulerToRun = sched.gWantSchedulerToRun
      /\ sched'.gSchedulerRunning = sched.gSchedulerRunning
  BY <1>1, <1>2, <1>a DEF SchedulerRecord
<1>4. (QueuesOK(sched) /\ BucketsOK(sched) /\ SliceOK(sched))'
  BY <1>3, QueueFrame DEF SwitchInv, SliceOK
<1>5. ~sched'.gDoSchedule /\ sched'.gHoldScheduleLevel > 0
  BY <1>1, <1>2, <1>3 DEF SwitchInv, RequestsOK
<1>6. sched'.gCurrentTask \in Task /\ sched'.gCurrentTask # IdleTask
  BY <1>1, <1>3
<1>7. QED
  BY <1>1, <1>3, <1>4, <1>5, <1>6
     DEF SwitchInv, TypeOK, CurrentOK, RequestsOK, OnlyHeldBack, HintAlive,
         Runnable

\* Allowing the scheduler again; the outermost one may end in a SWI.
LEMMA AllowKeeps == ASSUME SwitchInv, Allow PROVE SwitchInv'
<1>1. /\ sched \in SchedulerRecord
      /\ sched.gCurrentTask \in Task
      /\ mode = "user"
      /\ sched.gHoldScheduleLevel > 0
      /\ sched' = AllowSchedule(sched)
      /\ UNCHANGED <<life, gDeferredSends, gWantDeferred, gAtomicNestCount>>
      /\ IF gAtomicNestCount = 0 THEN LeaveAtomic ELSE UNCHANGED mode
  BY DEF SwitchInv, TypeOK, Allow, ByTask
<1> DEFINE n == sched.gHoldScheduleLevel - 1
<1>2. /\ sched.gHoldScheduleLevel \in Nat
      /\ n \in Nat
      /\ ~sched.gDoSchedule
  BY <1>1 DEF SwitchInv, RequestsOK, SchedulerRecord
<1>3. /\ sched' \in SchedulerRecord
      /\ sched'.fTasks = sched.fTasks
      /\ sched'.fPriorityMask = sched.fPriorityMask
      /\ sched'.fHighestPriority = sched.fHighestPriority
      /\ sched'.fCurrentTask = sched.fCurrentTask
      /\ sched'.queued = sched.queued
      /\ sched'.gCurrentTask = sched.gCurrentTask
      /\ sched'.gTaskPriority = sched.gTaskPriority
      /\ sched'.gWantSchedulerToRun = sched.gWantSchedulerToRun
      /\ sched'.gSchedulerRunning = sched.gSchedulerRunning
      /\ sched'.gHoldScheduleLevel = n
      /\ sched'.gHoldScheduleLevel > 0 => ~sched'.gDoSchedule
      /\ sched'.gScheduleRequested => sched'.gHoldScheduleLevel > 0
  <2>1. CASE sched.gHoldScheduleLevel = 1 /\ sched.gScheduleRequested
    <3>1. sched' = [sched EXCEPT !.gHoldScheduleLevel = 0,
                                 !.gScheduleRequested = FALSE,
                                 !.gDoSchedule = TRUE]
      BY <1>1, <2>1 DEF AllowSchedule
    <3>2. n = 0 /\ ~(n > 0)
      BY <2>1
    <3>3. sched \in SchedulerRecord
      BY <1>1
    <3> HIDE DEF n
    <3>4. /\ sched'.gHoldScheduleLevel = n
          /\ ~sched'.gScheduleRequested
      BY <3>1, <3>2, <3>3 DEF SchedulerRecord
    <3>5. /\ sched' \in SchedulerRecord
          /\ sched'.fTasks = sched.fTasks
          /\ sched'.fPriorityMask = sched.fPriorityMask
          /\ sched'.fHighestPriority = sched.fHighestPriority
          /\ sched'.fCurrentTask = sched.fCurrentTask
          /\ sched'.queued = sched.queued
          /\ sched'.gCurrentTask = sched.gCurrentTask
          /\ sched'.gTaskPriority = sched.gTaskPriority
          /\ sched'.gWantSchedulerToRun = sched.gWantSchedulerToRun
          /\ sched'.gSchedulerRunning = sched.gSchedulerRunning
      BY <3>1, <3>3 DEF SchedulerRecord
    <3>6. QED
      BY <3>2, <3>4, <3>5
  <2>2. CASE ~(sched.gHoldScheduleLevel = 1 /\ sched.gScheduleRequested)
    <3>1. sched' = [sched EXCEPT !.gHoldScheduleLevel = n]
      BY <1>1, <2>2 DEF AllowSchedule
    <3>2. sched.gScheduleRequested => n > 0
      BY <1>2, <2>2
    <3> HIDE DEF n
    <3>3. QED
      BY <1>1, <1>2, <3>1, <3>2 DEF SchedulerRecord
  <2>3. QED
    BY <2>1, <2>2
<1>4. (QueuesOK(sched) /\ BucketsOK(sched) /\ SliceOK(sched))'
  BY <1>3, QueueFrame DEF SwitchInv, SliceOK
<1>5. /\ mode' \in Modes
      /\ mode' = "user" /\ gAtomicNestCount' = 0 => ~sched'.gDoSchedule
  BY <1>1 DEF LeaveAtomic, Modes
<1>6. /\ sched'.gCurrentTask \in Task
      /\ sched'.gCurrentTask # IdleTask
      /\ sched'.gCurrentTask # NoTask
  BY <1>1, <1>3
<1>7. TypeOK'
  BY <1>1, <1>3, <1>5 DEF SwitchInv, TypeOK
<1>8. CurrentOK' /\ HintAlive'
  BY <1>1, <1>3, <1>6 DEF SwitchInv, CurrentOK, HintAlive, Runnable
<1>9. RequestsOK' /\ OnlyHeldBack'
  BY <1>1, <1>3, <1>5, <1>6 DEF SwitchInv, RequestsOK, OnlyHeldBack
<1>10. QED
  BY <1>4, <1>7, <1>8, <1>9 DEF SwitchInv

\* The preemption timer interrupts.
LEMMA TimerInterruptKeeps == ASSUME SwitchInv, TimerInterrupt PROVE SwitchInv'
<1> DEFINE w == WantSchedule(sched)
<1>1. /\ sched \in SchedulerRecord
      /\ QueuesOK(sched) /\ BucketsOK(sched) /\ SliceOK(sched)
      /\ sched' = SetCurrentTask(w, NoTask)
      /\ gAtomicNestCount = 0
      /\ UNCHANGED <<life, gDeferredSends, gWantDeferred, gAtomicNestCount>>
      /\ LeaveAtomic
  BY DEF SwitchInv, TypeOK, TimerInterrupt
<1>2. /\ w \in SchedulerRecord
      /\ QueuesOK(w) /\ BucketsOK(w) /\ SliceOK(w)
      /\ w.queued = sched.queued
      /\ w.gCurrentTask = sched.gCurrentTask
      /\ w.gTaskPriority = sched.gTaskPriority
      /\ w.gHoldScheduleLevel = sched.gHoldScheduleLevel
      /\ w.gWantSchedulerToRun = sched.gWantSchedulerToRun
      /\ w.gDoSchedule = (sched.gDoSchedule \/ sched.gHoldScheduleLevel = 0)
      /\ w.gScheduleRequested =
           (sched.gScheduleRequested \/ sched.gHoldScheduleLevel # 0)
  BY <1>1, WantScheduleFields, WantScheduleOK
<1> HIDE DEF w
<1>3. /\ sched' \in SchedulerRecord
      /\ sched'.fTasks = w.fTasks
      /\ sched'.fPriorityMask = w.fPriorityMask
      /\ sched'.fHighestPriority = w.fHighestPriority
      /\ sched'.fCurrentTask = NoTask
      /\ sched'.queued = w.queued
      /\ sched'.gCurrentTask = w.gCurrentTask
      /\ sched'.gTaskPriority = w.gTaskPriority
      /\ sched'.gDoSchedule = w.gDoSchedule
      /\ sched'.gScheduleRequested = w.gScheduleRequested
      /\ sched'.gHoldScheduleLevel = w.gHoldScheduleLevel
      /\ sched'.gWantSchedulerToRun = w.gWantSchedulerToRun
      /\ sched'.gSchedulerRunning = w.gSchedulerRunning
  BY <1>1, <1>2, SetCurrentTaskFields
<1>4. (QueuesOK(sched) /\ BucketsOK(sched) /\ SliceOK(sched))'
  BY <1>2, <1>3, QueueFrame DEF SliceOK
<1>5. /\ mode' \in Modes
      /\ mode' = "user" => mode = "user" /\ ~sched'.gDoSchedule
  BY <1>1 DEF SwitchInv, TypeOK, LeaveAtomic, Modes
<1>6. /\ sched.gDoSchedule => sched'.gDoSchedule
      /\ sched'.gHoldScheduleLevel > 0 => ~sched'.gDoSchedule
      /\ sched'.gScheduleRequested => sched'.gHoldScheduleLevel > 0
  <2>1. /\ sched.gHoldScheduleLevel \in Nat
        /\ sched.gHoldScheduleLevel > 0 => ~sched.gDoSchedule
        /\ sched.gScheduleRequested => sched.gHoldScheduleLevel > 0
    BY <1>1 DEF SwitchInv, RequestsOK, OnlyHeldBack, SchedulerRecord
  <2>2. sched.gDoSchedule => sched'.gDoSchedule
    BY <1>2, <1>3
  <2>3. sched'.gHoldScheduleLevel > 0 => ~sched'.gDoSchedule
    <3>1. CASE sched.gHoldScheduleLevel = 0
      BY <1>2, <1>3, <3>1
    <3>2. CASE sched.gHoldScheduleLevel > 0
      <4>1. ~sched.gDoSchedule /\ sched.gHoldScheduleLevel # 0
        BY <2>1, <3>2
      <4>2. ~sched'.gDoSchedule
        BY <1>2, <1>3, <4>1
      <4>3. QED
        BY <4>2
    <3>3. QED
      BY <2>1, <3>1, <3>2
  <2>4. sched'.gScheduleRequested => sched'.gHoldScheduleLevel > 0
    <3>1. CASE sched.gHoldScheduleLevel = 0
      <4>1. ~sched.gScheduleRequested
        BY <2>1, <3>1
      <4>2. ~sched'.gScheduleRequested
        BY <1>2, <1>3, <3>1, <4>1
      <4>3. QED
        BY <4>2
    <3>2. CASE sched.gHoldScheduleLevel > 0
      BY <1>2, <1>3, <3>2
    <3>3. QED
      BY <2>1, <3>1, <3>2
  <2>5. QED
    BY <2>2, <2>3, <2>4
<1>7. TypeOK'
  BY <1>1, <1>3, <1>5 DEF SwitchInv, TypeOK
<1>8. CurrentOK' /\ HintAlive'
  BY <1>1, <1>2, <1>3 DEF SwitchInv, CurrentOK, HintAlive, Runnable, MaySwitch
<1>9. RequestsOK' /\ OnlyHeldBack'
  BY <1>1, <1>2, <1>3, <1>5, <1>6 DEF SwitchInv, RequestsOK, OnlyHeldBack
<1>10. QED
  BY <1>4, <1>7, <1>8, <1>9 DEF SwitchInv

\* A device interrupt posts a message.
LEMMA SendForInterruptKeeps ==
  ASSUME SwitchInv, NEW t \in Task, SendForInterrupt(t)
  PROVE  SwitchInv'
<1>1. /\ gDeferredSends' = gDeferredSends \cup {t}
      /\ gWantDeferred' = TRUE
      /\ UNCHANGED <<sched, life, gAtomicNestCount>>
      /\ mode' \in Modes
      /\ mode' = "user" => mode = "user"
  BY DEF SwitchInv, TypeOK, SendForInterrupt, LeaveAtomic, Modes
<1>2. QED
  BY <1>1
     DEF SwitchInv, TypeOK, CurrentOK, RequestsOK, OnlyHeldBack, HintAlive,
         Runnable, MaySwitch

-----------------------------------------------------------------------------
(* The exit path of a SWI.                                                 *)

\* What a switch leaves: its task is runnable, or is the idle task with
\* nothing queued; no queued task outranks it.
LEMMA SwitchOK ==
  ASSUME SwitchInv, sched.gDoSchedule, gAtomicNestCount = 0
  PROVE  LET n == NextTask(sched)
             r == StartIfWanted([Schedule(sched) EXCEPT !.gCurrentTask = n]) IN
         /\ r \in SchedulerRecord
         /\ QueuesOK(r) /\ BucketsOK(r) /\ SliceOK(r)
         /\ r.fCurrentTask = NoTask
         /\ r.gCurrentTask = n
         /\ n \in Task \cup {IdleTask}
         /\ n = IdleTask => r.queued = {}
         /\ n # IdleTask => n \in Runnable
         /\ r.queued = Runnable \ {n}
         /\ r.gTaskPriority = PriorityOf(n)
         /\ ~r.gDoSchedule
         /\ ~r.gScheduleRequested
         /\ r.gHoldScheduleLevel = 0
         /\ ~r.gWantSchedulerToRun
         /\ \A u \in r.queued : fPriority[u] <= PriorityOf(n)
<1> DEFINE n == NextTask(sched)
           r == StartIfWanted([Schedule(sched) EXCEPT !.gCurrentTask = n])
           ready == sched.queued \cup ({sched.gCurrentTask} \cap Task)
<1>1. /\ sched \in SchedulerRecord
      /\ QueuesOK(sched) /\ BucketsOK(sched) /\ SliceOK(sched)
      /\ sched.gCurrentTask \notin sched.queued
      /\ sched.gCurrentTask # NoTask =>
           sched.gTaskPriority = PriorityOf(sched.gCurrentTask)
  BY DEF SwitchInv, TypeOK, CurrentOK
<1>2. /\ sched.gHoldScheduleLevel = 0
      /\ ~sched.gScheduleRequested
  <2>1. sched.gHoldScheduleLevel \in Nat /\ ~(sched.gHoldScheduleLevel > 0)
    BY <1>1 DEF SwitchInv, RequestsOK, SchedulerRecord
  <2>2. QED
    BY <2>1 DEF SwitchInv, OnlyHeldBack
<1>3. ready = Runnable /\ Runnable \subseteq Task
  BY <1>1 DEF SwitchInv, CurrentOK, Runnable
<1>4. /\ r \in SchedulerRecord
      /\ QueuesOK(r) /\ BucketsOK(r) /\ SliceOK(r)
      /\ r.fCurrentTask = NoTask
      /\ r.gCurrentTask = n
      /\ n \in Task \cup {IdleTask}
      /\ n = IdleTask => r.queued = {}
      /\ n # IdleTask => n \in ready
      /\ r.queued = ready \ {n}
      /\ r.gTaskPriority = PriorityOf(n)
      /\ ~r.gDoSchedule
      /\ r.gScheduleRequested = sched.gScheduleRequested
      /\ r.gHoldScheduleLevel = sched.gHoldScheduleLevel
      /\ ~r.gWantSchedulerToRun
      /\ \A u \in r.queued : fPriority[u] <= PriorityOf(n)
  BY <1>1, SwapOK
<1> HIDE DEF n, r, ready
<1>5. QED
  BY <1>2, <1>3, <1>4 DEF n, r

\* The end of the exit path.
LEMMA ReturnToUserKeeps ==
  ASSUME SwitchInv, mode # "user", ReturnToUser
  PROVE  SwitchInv'
<1>1. /\ sched \in SchedulerRecord
      /\ mode' = "user"
      /\ UNCHANGED <<life, gDeferredSends, gWantDeferred, gAtomicNestCount>>
  BY DEF SwitchInv, TypeOK, ReturnToUser
<1>2. CASE gAtomicNestCount = 0 /\ sched.gDoSchedule
  <2> DEFINE n == NextTask(sched)
  <2>1. sched' = StartIfWanted([Schedule(sched) EXCEPT !.gCurrentTask = n])
    BY <1>2 DEF ReturnToUser
  <2>2. /\ sched' \in SchedulerRecord
        /\ QueuesOK(sched') /\ BucketsOK(sched') /\ SliceOK(sched')
        /\ sched'.fCurrentTask = NoTask
        /\ sched'.gCurrentTask = n
        /\ n \in Task \cup {IdleTask}
        /\ n = IdleTask => sched'.queued = {}
        /\ n # IdleTask => n \in Runnable
        /\ sched'.queued = Runnable \ {n}
        /\ sched'.gTaskPriority = PriorityOf(n)
        /\ ~sched'.gDoSchedule
        /\ ~sched'.gScheduleRequested
        /\ sched'.gHoldScheduleLevel = 0
        /\ ~sched'.gWantSchedulerToRun
    BY <1>2, <2>1, SwitchOK
  <2> HIDE DEF n
  <2>3. TypeOK' /\ HintAlive' /\ OnlyHeldBack'
    BY <1>1, <2>2 DEF SwitchInv, TypeOK, Modes, HintAlive, OnlyHeldBack
  <2>4. CurrentOK'
    BY <1>1, <1>2, <2>2 DEF CurrentOK, Runnable, MaySwitch
  <2>5. RequestsOK'
    BY <1>1, <2>2 DEF RequestsOK
  <2>6. QED
    BY <2>2, <2>3, <2>4, <2>5 DEF SwitchInv
<1>3. CASE ~(gAtomicNestCount = 0 /\ sched.gDoSchedule)
  <2>1. sched' = StartIfWanted(sched)
    BY <1>3 DEF ReturnToUser
  <2>2. /\ sched' \in SchedulerRecord
        /\ sched'.fTasks = sched.fTasks
        /\ sched'.fPriorityMask = sched.fPriorityMask
        /\ sched'.fHighestPriority = sched.fHighestPriority
        /\ sched'.fCurrentTask = sched.fCurrentTask
        /\ sched'.queued = sched.queued
        /\ sched'.gCurrentTask = sched.gCurrentTask
        /\ sched'.gTaskPriority = sched.gTaskPriority
        /\ sched'.gDoSchedule = sched.gDoSchedule
        /\ sched'.gScheduleRequested = sched.gScheduleRequested
        /\ sched'.gHoldScheduleLevel = sched.gHoldScheduleLevel
        /\ ~sched'.gWantSchedulerToRun
        /\ sched'.gSchedulerRunning <=>
             sched.gWantSchedulerToRun \/ sched.gSchedulerRunning
    BY <1>1, <2>1, StartIfWantedFields
  <2>3. (QueuesOK(sched) /\ BucketsOK(sched) /\ SliceOK(sched))'
    BY <2>2, QueueFrame DEF SwitchInv, SliceOK
  <2>4. TypeOK' /\ HintAlive' /\ OnlyHeldBack'
    BY <1>1, <2>2 DEF SwitchInv, TypeOK, Modes, HintAlive, OnlyHeldBack
  <2>5. CurrentOK'
    BY <1>1, <2>2 DEF SwitchInv, CurrentOK, Runnable, MaySwitch
  <2>6. sched.gCurrentTask # NoTask
    BY <1>3 DEF SwitchInv, CurrentOK, RequestsOK, MaySwitch
  <2>7. RequestsOK'
    BY <1>1, <1>3, <2>2, <2>6 DEF SwitchInv, RequestsOK
  <2>8. QED
    BY <2>3, <2>4, <2>5, <2>7 DEF SwitchInv
<1>4. QED
  BY <1>2, <1>3

\* Done calls DoDeferrals.
LEMMA DoDeferralsKeeps == ASSUME SwitchInv, DoDeferrals PROVE SwitchInv'
BY DEF SwitchInv, DoDeferrals, TypeOK, Modes, CurrentOK, RequestsOK, OnlyHeldBack,
       HintAlive, Runnable, MaySwitch

\* DoDeferrals finds no more message to deliver.
LEMMA EndDeferralsKeeps == ASSUME SwitchInv, EndDeferrals PROVE SwitchInv'
BY DEF SwitchInv, EndDeferrals, TypeOK, Modes, CurrentOK, RequestsOK,
       OnlyHeldBack, HintAlive, Runnable, MaySwitch

\* DoDeferrals delivers a message that an interrupt has posted.
LEMMA NotifySendKeeps ==
  ASSUME SwitchInv, SendsOK, NEW t \in Task, NotifySend(t)
  PROVE  SwitchInv'
<1> DEFINE w == WantSchedule(sched)
           h == SetCurrentTask(w, t)
           a == ScheduleTask(h, t)
<1>1. /\ life[t] = "blocked"
      /\ life' = [life EXCEPT ![t] = "runnable"]
      /\ mode' = "deferring"
      /\ gDeferredSends' = gDeferredSends \ {t}
      /\ UNCHANGED <<gWantDeferred, gAtomicNestCount>>
      /\ sched' = a
  BY DEF NotifySend, SendsOK
<1>2. t \notin sched.queued /\ t # sched.gCurrentTask
  BY <1>1, NotRunnable
<1>3. /\ sched \in SchedulerRecord
      /\ QueuesOK(sched) /\ BucketsOK(sched) /\ SliceOK(sched)
      /\ sched.gHoldScheduleLevel \in Nat
      /\ sched.gCurrentTask = IdleTask => sched.gHoldScheduleLevel = 0
      /\ sched.gHoldScheduleLevel > 0 => ~sched.gDoSchedule
      /\ sched.gScheduleRequested => sched.gHoldScheduleLevel > 0
  BY DEF SwitchInv, TypeOK, CurrentOK, RequestsOK, OnlyHeldBack, MaySwitch,
         SchedulerRecord
<1>4. /\ w \in SchedulerRecord
      /\ QueuesOK(w) /\ BucketsOK(w) /\ SliceOK(w)
      /\ w.fCurrentTask = sched.fCurrentTask
      /\ w.queued = sched.queued
      /\ w.gCurrentTask = sched.gCurrentTask
      /\ w.gTaskPriority = sched.gTaskPriority
      /\ w.gHoldScheduleLevel = sched.gHoldScheduleLevel
      /\ w.gDoSchedule = (sched.gDoSchedule \/ sched.gHoldScheduleLevel = 0)
      /\ w.gScheduleRequested =
           (sched.gScheduleRequested \/ sched.gHoldScheduleLevel # 0)
  BY <1>3, WantScheduleFields, WantScheduleOK
<1> HIDE DEF w
<1>5. /\ h \in SchedulerRecord
      /\ h.fTasks = w.fTasks
      /\ h.fPriorityMask = w.fPriorityMask
      /\ h.fHighestPriority = w.fHighestPriority
      /\ h.fCurrentTask = t
      /\ h.queued = w.queued
      /\ h.gCurrentTask = w.gCurrentTask
      /\ h.gTaskPriority = w.gTaskPriority
      /\ h.gDoSchedule = w.gDoSchedule
      /\ h.gScheduleRequested = w.gScheduleRequested
      /\ h.gHoldScheduleLevel = w.gHoldScheduleLevel
      /\ h.gWantSchedulerToRun = w.gWantSchedulerToRun
      /\ h.gSchedulerRunning = w.gSchedulerRunning
  BY <1>4, SetCurrentTaskFields
<1> HIDE DEF h
<1>6. QueuesOK(h) /\ BucketsOK(h) /\ SliceOK(h)
  BY <1>4, <1>5, QueueFrame DEF SliceOK
<1>7. /\ a \in SchedulerRecord
      /\ QueuesOK(a) /\ BucketsOK(a) /\ SliceOK(a)
      /\ a.fCurrentTask = h.fCurrentTask
      /\ a.queued = h.queued \cup {t}
      /\ a.gCurrentTask = h.gCurrentTask
      /\ a.gTaskPriority = h.gTaskPriority
      /\ a.gHoldScheduleLevel = h.gHoldScheduleLevel
      /\ a.gDoSchedule =
           (h.gDoSchedule \/ (/\ h.gCurrentTask = IdleTask
                              /\ h.gHoldScheduleLevel = 0))
      /\ a.gScheduleRequested =
           (h.gScheduleRequested \/ (/\ h.gCurrentTask = IdleTask
                                     /\ h.gHoldScheduleLevel # 0))
  BY <1>2, <1>4, <1>5, <1>6, ScheduleTaskFields
<1> HIDE DEF a
<1>8. /\ sched.gDoSchedule => a.gDoSchedule
      /\ a.gCurrentTask = IdleTask => a.gDoSchedule
      /\ a.gHoldScheduleLevel > 0 => ~a.gDoSchedule
      /\ a.gScheduleRequested => a.gHoldScheduleLevel > 0
  <2>1. CASE sched.gHoldScheduleLevel = 0
    <3>1. ~sched.gScheduleRequested /\ ~(a.gHoldScheduleLevel > 0)
      BY <1>3, <1>4, <1>5, <1>7, <2>1
    <3>2. w.gDoSchedule /\ ~w.gScheduleRequested
      BY <1>4, <2>1, <3>1
    <3>3. a.gDoSchedule /\ ~a.gScheduleRequested
      BY <1>4, <1>5, <1>7, <2>1, <3>2
    <3>4. QED
      BY <3>1, <3>3
  <2>2. CASE sched.gHoldScheduleLevel > 0
    <3>1. /\ ~sched.gDoSchedule
          /\ sched.gCurrentTask # IdleTask
          /\ sched.gHoldScheduleLevel # 0
      BY <1>3, <2>2
    <3>2. ~w.gDoSchedule
      BY <1>4, <3>1
    <3>3. ~a.gDoSchedule
      BY <1>4, <1>5, <1>7, <3>1, <3>2
    <3>4. QED
      BY <1>4, <1>5, <1>7, <2>2, <3>1, <3>3
  <2>3. QED
    BY <1>3, <2>1, <2>2
<1>9. gDeferredSends' \subseteq Task /\ gWantDeferred' \in BOOLEAN
  BY <1>1 DEF SwitchInv, TypeOK
<1>10. /\ a.queued = sched.queued \cup {t}
       /\ a.fCurrentTask \in {sched.fCurrentTask, t}
       /\ a.gCurrentTask = sched.gCurrentTask
       /\ a.gTaskPriority = sched.gTaskPriority
       /\ a.gHoldScheduleLevel = sched.gHoldScheduleLevel
  BY <1>4, <1>5, <1>7
<1>11. /\ life[t] # "runnable"
       /\ mode' # "user" /\ mode' \in Modes
       /\ gAtomicNestCount' = gAtomicNestCount
  BY <1>1 DEF Modes
<1>12. QED
  BY <1>1, <1>7, <1>8, <1>9, <1>10, <1>11, MadeReady

-----------------------------------------------------------------------------
(* The theorems.                                                           *)

\* Every step preserves SwitchInv.
LEMMA NextKeepsSwitchInv == SwitchInv /\ SendsOK /\ [Next]_vars => SwitchInv'
<1> SUFFICES ASSUME SwitchInv, SendsOK, [Next]_vars PROVE SwitchInv'
  OBVIOUS
<1>1. CASE SWIExit
  <2>1. CASE Done
    BY <2>1, ReturnToUserKeeps DEF Done
  <2>2. CASE DoDeferrals
    BY <2>2, DoDeferralsKeeps
  <2>3. ASSUME NEW t \in Task, NotifySend(t) PROVE SwitchInv'
    BY <2>3, NotifySendKeeps
  <2>4. CASE EndDeferrals
    BY <2>4, EndDeferralsKeeps
  <2>5. CASE DoneAfterDeferrals
    BY <2>5, ReturnToUserKeeps DEF DoneAfterDeferrals
  <2>6. QED
    BY <1>1, <2>1, <2>2, <2>3, <2>4, <2>5 DEF SWIExit
<1>2. CASE Handler
  <2>1. CASE OtherSWI
    BY <2>1, OtherSWIKeeps
  <2>2. CASE BlockCurrentTask
    BY <2>2, BlockCurrentTaskKeeps
  <2>3. ASSUME NEW t \in Task, NEW hint \in BOOLEAN, NEW want \in BOOLEAN,
               WakeTask(t, hint, want)
        PROVE  SwitchInv'
    BY <2>3, WakeTaskKeeps
  <2>4. ASSUME NEW t \in Task, Yield(t) PROVE SwitchInv'
    BY <2>4, YieldKeeps
  <2>5. ASSUME NEW t \in Task, ObjectStart(t) PROVE SwitchInv'
    BY <2>5, ObjectStartKeeps
  <2>6. ASSUME NEW t \in Task, DeleteTask(t) PROVE SwitchInv'
    BY <2>6, DeleteTaskKeeps
  <2>7. ASSUME NEW t \in Task, ObjectSuspend(t) PROVE SwitchInv'
    BY <2>7, ObjectSuspendKeeps
  <2>8. QED
    BY <1>2, <2>1, <2>2, <2>3, <2>4, <2>5, <2>6, <2>7 DEF Handler
<1>3. CASE UserSection
  BY <1>3, EnterAtomicKeeps, ExitAtomicKeeps, HoldKeeps, AllowKeeps
     DEF UserSection
<1>4. CASE Interrupt
  BY <1>4, TimerInterruptKeeps, SendForInterruptKeeps DEF Interrupt
<1>5. CASE UNCHANGED vars
  <2>1. /\ sched' = sched /\ life' = life /\ mode' = mode
        /\ gDeferredSends' = gDeferredSends /\ gWantDeferred' = gWantDeferred
        /\ gAtomicNestCount' = gAtomicNestCount
    BY <1>5 DEF vars
  <2>2. QED
    BY <2>1
       DEF SwitchInv, TypeOK, CurrentOK, RequestsOK, OnlyHeldBack, HintAlive,
           Runnable, MaySwitch
<1>6. QED
  BY <1>1, <1>2, <1>3, <1>4, <1>5 DEF Next

\* Every step keeps the tasks that a posted message will wake blocked.
LEMMA NextKeepsSendsOK == TypeOK /\ CurrentOK /\ SendsOK /\ [Next]_vars => SendsOK'
<1> SUFFICES ASSUME TypeOK, CurrentOK, SendsOK, [Next]_vars PROVE SendsOK'
  OBVIOUS
<1> USE DEF SendsOK, TypeOK
<1>1. CASE SWIExit
  BY <1>1 DEF SWIExit, Done, DoDeferrals, NotifySend, EndDeferrals,
              DoneAfterDeferrals, ReturnToUser
<1>2. CASE Handler
  BY <1>2 DEF Handler, OtherSWI, BlockCurrentTask, WakeTask, Yield, ObjectStart,
              ObjectSuspend, DeleteTask, CurrentOK, Runnable
<1>3. CASE UserSection
  BY <1>3 DEF UserSection, EnterAtomic, ExitAtomic, Hold, Allow
<1>4. CASE Interrupt
  BY <1>4 DEF Interrupt, TimerInterrupt, SendForInterrupt
<1>5. CASE UNCHANGED vars
  BY <1>5 DEF vars
<1>6. QED
  BY <1>1, <1>2, <1>3, <1>4, <1>5 DEF Next

\* The inductive invariant holds in every reachable state of the scheduler,
\* whatever SWIs, interrupts and sections are interleaved.
THEOREM Inductive == Spec => []IInv
<1>1. Init => IInv
  BY InitSwitchInv DEF Init, SendsOK, IInv
<1>2. IInv /\ [Next]_vars => IInv'
  <2>1. IInv => TypeOK /\ CurrentOK /\ SwitchInv /\ SendsOK
    BY DEF IInv, SwitchInv
  <2>2. QED
    BY <2>1, NextKeepsSwitchInv, NextKeepsSendsOK DEF IInv
<1>3. QED
  BY <1>1, <1>2, PTL DEF Spec

\* Every reachable state is well typed.
THEOREM TypeCorrect == Spec => []TypeOK
<1>1. IInv => TypeOK
  BY DEF IInv, SwitchInv
<1>2. QED
  BY <1>1, Inductive, PTL

\* No task that can run is lost or queued twice, for any number of tasks.
THEOREM NoTaskIsLost == Spec => []NoTaskLost
<1>1. IInv => NoTaskLost
  <2> SUFFICES ASSUME IInv, NEW t \in Task
               PROVE  /\ life[t] = "runnable" /\ t # sched.gCurrentTask =>
                           Holds(sched.fTasks[fPriority[t]], t)
                      /\ \A p \in Priority : Holds(sched.fTasks[p], t) =>
                           /\ life[t] = "runnable" /\ t # sched.gCurrentTask
                           /\ p = fPriority[t]
                           /\ Distinct(sched.fTasks[p])
    BY DEF NoTaskLost
  <2>1. t \in sched.queued <=> life[t] = "runnable" /\ t # sched.gCurrentTask
    BY DEF IInv, SwitchInv, CurrentOK, Runnable
  <2>2. fPriority[t] \in Priority
    OBVIOUS
  <2>3. QED
    BY <2>1, <2>2 DEF IInv, SwitchInv, QueuesOK
<1>2. QED
  BY <1>1, Inductive, PTL

\* The bit mask and fHighestPriority stay exact after any sequence of
\* additions and removals.
THEOREM BucketsAreExact == Spec => []BucketsExact
<1>1. IInv => BucketsExact
  BY DEF IInv, SwitchInv, BucketsExact
<1>2. QED
  BY <1>1, Inductive, PTL

\* The preemption timer runs whenever user code could be preempted by a task
\* that it does not outrank.
THEOREM TimeSliceIsGuaranteed == Spec => []TimeSliceGuaranteed
<1>1. IInv => TimeSliceGuaranteed
  <2> SUFFICES ASSUME IInv, mode = "user", NEW t \in sched.queued,
                      fPriority[t] >= PriorityOf(sched.gCurrentTask),
                      ~sched.gSchedulerRunning
               PROVE  FALSE
    BY DEF TimeSliceGuaranteed
  <2>1. /\ ~sched.gWantSchedulerToRun
        /\ sched.gCurrentTask # NoTask
        /\ sched.gTaskPriority = PriorityOf(sched.gCurrentTask)
    BY DEF IInv, SwitchInv, RequestsOK, CurrentOK
  <2>2. fPriority[t] < sched.gTaskPriority
    BY <2>1 DEF IInv, SwitchInv, SliceOK
  <2>3. fPriority[t] \in Int /\ sched.gTaskPriority \in Int
    BY DEF IInv, SwitchInv, TypeOK, SchedulerRecord, Priority
  <2>4. QED
    BY <2>1, <2>2, <2>3
<1>2. QED
  BY <1>1, Inductive, PTL

\* The idle task runs user code only while no other task could.
THEOREM IdleRunsOnlyWhenIdle == Spec => []IdleOnlyWhenIdle
<1>1. IInv => IdleOnlyWhenIdle
  <2> SUFFICES ASSUME IInv, mode = "user", sched.gCurrentTask = IdleTask
               PROVE  sched.queued = {}
    BY DEF IdleOnlyWhenIdle
  <2>1. gAtomicNestCount = 0
    BY DEF IInv, SwitchInv, CurrentOK, MaySwitch
  <2>2. QED
    BY <2>1 DEF IInv, SwitchInv, RequestsOK
<1>2. QED
  BY <1>1, Inductive, PTL

\* User code never runs without a task that owns the processor.
THEOREM UserCodeIsOwned == Spec => []UserCodeHasOwner
<1>1. IInv => UserCodeHasOwner
  BY DEF IInv, SwitchInv, TypeOK, SchedulerRecord, CurrentOK, RequestsOK,
         Runnable, UserCodeHasOwner
<1>2. QED
  BY <1>1, Inductive, PTL

\* The scheduler never dereferences a destroyed task through its hint.
THEOREM HintIsAlive == Spec => []HintAlive
<1>1. IInv => HintAlive
  BY DEF IInv, SwitchInv
<1>2. QED
  BY <1>1, Inductive, PTL

-----------------------------------------------------------------------------
(* Action properties: who may take the processor, and who gets it.         *)

\* Done swaps tasks.
Switches == /\ ReturnToUser
            /\ gAtomicNestCount = 0
            /\ sched.gDoSchedule

\* Only a blocking call and the exit path of a SWI change the owner of the
\* processor.
LEMMA OwnerChanges ==
  ASSUME IInv, [Next]_vars
  PROVE  \/ sched'.gCurrentTask = sched.gCurrentTask
         \/ BlockCurrentTask
         \/ Switches
<1>1. /\ sched \in SchedulerRecord
      /\ QueuesOK(sched) /\ BucketsOK(sched) /\ SliceOK(sched)
      /\ SwitchInv /\ SendsOK
  BY DEF IInv, SwitchInv, TypeOK
<1>2. ASSUME NEW s \in SchedulerRecord, NEW t \in Task
      PROVE  /\ WantSchedule(s) \in SchedulerRecord
             /\ WantSchedule(s).gCurrentTask = s.gCurrentTask
             /\ SetCurrentTask(s, t) \in SchedulerRecord
             /\ SetCurrentTask(s, t).gCurrentTask = s.gCurrentTask
             /\ ScheduleTask(s, t) \in SchedulerRecord
             /\ ScheduleTask(s, t).gCurrentTask = s.gCurrentTask
  <2>1. /\ WantSchedule(s) \in SchedulerRecord
        /\ WantSchedule(s).gCurrentTask = s.gCurrentTask
    BY WantScheduleFields
  <2>2. /\ SetCurrentTask(s, t) \in SchedulerRecord
        /\ SetCurrentTask(s, t).gCurrentTask = s.gCurrentTask
    BY SetCurrentTaskFields
  <2>3. /\ Add(s, t) \in SchedulerRecord
        /\ Add(s, t).gCurrentTask = s.gCurrentTask
    BY AddFields
  <2>4. QED
    BY <2>1, <2>2, <2>3 DEF ScheduleTask
<1>3. CASE SWIExit
  <2>1. CASE ReturnToUser
    <3>1. CASE gAtomicNestCount = 0 /\ sched.gDoSchedule
      BY <2>1, <3>1 DEF Switches
    <3>2. CASE ~(gAtomicNestCount = 0 /\ sched.gDoSchedule)
      <4>1. sched' = StartIfWanted(sched)
        BY <2>1, <3>2 DEF ReturnToUser
      <4>2. QED
        BY <1>1, <4>1, StartIfWantedFields
    <3>3. QED
      BY <3>1, <3>2
  <2>2. ASSUME NEW t \in Task, NotifySend(t)
        PROVE  sched'.gCurrentTask = sched.gCurrentTask
    <3> DEFINE w == WantSchedule(sched)
               h == SetCurrentTask(w, t)
    <3>1. sched' = ScheduleTask(h, t)
      BY <2>2 DEF NotifySend
    <3>2. w \in SchedulerRecord /\ w.gCurrentTask = sched.gCurrentTask
      BY <1>1, <1>2
    <3> HIDE DEF w
    <3>3. h \in SchedulerRecord /\ h.gCurrentTask = sched.gCurrentTask
      BY <1>2, <3>2
    <3> HIDE DEF h
    <3>4. QED
      BY <1>2, <3>1, <3>3
  <2>3. QED
    BY <1>3, <2>1, <2>2 DEF SWIExit, Done, DoDeferrals, EndDeferrals,
                             DoneAfterDeferrals
<1>4. CASE Handler
  <2>1. ASSUME NEW t \in Task, NEW hint \in BOOLEAN, NEW want \in BOOLEAN,
               WakeTask(t, hint, want)
        PROVE  sched'.gCurrentTask = sched.gCurrentTask
    <3> DEFINE h == IF hint THEN SetCurrentTask(sched, t) ELSE sched
               a == ScheduleTask(h, t)
    <3>1. h \in SchedulerRecord /\ h.gCurrentTask = sched.gCurrentTask
      BY <1>1, <1>2
    <3> HIDE DEF h
    <3>2. a \in SchedulerRecord /\ a.gCurrentTask = sched.gCurrentTask
      BY <1>2, <3>1
    <3>3. sched' = IF want THEN WantSchedule(a) ELSE a
      BY <2>1 DEF WakeTask, h
    <3> HIDE DEF a
    <3>4. QED
      BY <1>2, <3>2, <3>3
  <2>2. ASSUME NEW t \in Task, Yield(t)
        PROVE  sched'.gCurrentTask = sched.gCurrentTask
    BY <1>1, <1>2, <2>2 DEF Yield
  <2>3. ASSUME NEW t \in Task, ObjectStart(t)
        PROVE  sched'.gCurrentTask = sched.gCurrentTask
    BY <1>1, <1>2, <2>3 DEF ObjectStart
  <2>4. ASSUME NEW t \in Task, DeleteTask(t)
        PROVE  sched'.gCurrentTask = sched.gCurrentTask
    <3> DEFINE h == IF sched.fCurrentTask = t
                    THEN SetCurrentTask(sched, NoTask) ELSE sched
    <3>1. /\ h \in SchedulerRecord
          /\ QueuesOK(h) /\ BucketsOK(h)
          /\ h.gCurrentTask = sched.gCurrentTask
      BY <1>1, SetCurrentTaskFields, QueueFrame
    <3>2. sched' = UnScheduleTask(h, t) /\ t # sched.gCurrentTask
      BY <2>4 DEF DeleteTask
    <3> HIDE DEF h
    <3>3. sched' = Dequeue(h, t, fPriority[t])
      BY <3>1, <3>2 DEF UnScheduleTask
    <3>4. QED
      BY <3>1, <3>3, DequeueOK
  <2>5. ASSUME NEW t \in Task, ObjectSuspend(t)
        PROVE  sched'.gCurrentTask = sched.gCurrentTask
    <3>1. sched' = sched \/ sched' = Dequeue(sched, t, fPriority[t])
      BY <2>5 DEF ObjectSuspend, UnScheduleTask
    <3>2. QED
      BY <1>1, <3>1, DequeueOK
  <2>6. QED
    BY <1>4, <2>1, <2>2, <2>3, <2>4, <2>5 DEF Handler, OtherSWI
<1>5. CASE UserSection
  BY <1>1, <1>5 DEF UserSection, EnterAtomic, ExitAtomic, Hold, Allow,
                     HoldSchedule, AllowSchedule, SchedulerRecord
<1>6. CASE Interrupt
  <2>1. CASE TimerInterrupt
    <3>1. sched' = SetCurrentTask(WantSchedule(sched), NoTask)
      BY <2>1 DEF TimerInterrupt
    <3>2. QED
      BY <1>1, <3>1, WantScheduleFields, SetCurrentTaskFields
  <2>2. QED
    BY <1>6, <2>1 DEF Interrupt, SendForInterrupt
<1>7. CASE UNCHANGED vars
  BY <1>7 DEF vars
<1>8. QED
  BY <1>3, <1>4, <1>5, <1>6, <1>7 DEF Next

\* A section that forbids switching keeps the processor, however deep it is
\* nested and whatever interrupts come.
THEOREM SectionsPinTheProcessor == Spec => SectionsPin
<1>1. IInv /\ [Next]_vars =>
        [~MaySwitch => sched'.gCurrentTask = sched.gCurrentTask]_vars
  <2> SUFFICES ASSUME IInv, [Next]_vars, ~MaySwitch
               PROVE  sched'.gCurrentTask = sched.gCurrentTask
    OBVIOUS
  <2>1. ~BlockCurrentTask
    BY DEF BlockCurrentTask
  <2>2. ~Switches
    BY DEF Switches, MaySwitch, IInv, SwitchInv, TypeOK, RequestsOK,
           SchedulerRecord
  <2>3. QED
    BY <2>1, <2>2, OwnerChanges
<1>2. QED
  BY <1>1, Inductive, PTL DEF Spec, SectionsPin

\* Every switch gives the processor to a task that no queued task outranks.
THEOREM SwitchesToTheHighest == Spec => SwitchToHighest
<1>1. IInv /\ [Next]_vars =>
        [ sched'.gCurrentTask \notin {sched.gCurrentTask, NoTask} =>
            \A t \in sched'.queued :
              fPriority[t] <= PriorityOf(sched'.gCurrentTask) ]_vars
  <2> SUFFICES ASSUME IInv, [Next]_vars,
                      sched'.gCurrentTask \notin {sched.gCurrentTask, NoTask}
               PROVE  \A t \in sched'.queued :
                        fPriority[t] <= PriorityOf(sched'.gCurrentTask)
    OBVIOUS
  <2>1. sched \in SchedulerRecord
    BY DEF IInv, SwitchInv, TypeOK
  <2>2. ASSUME BlockCurrentTask PROVE sched'.gCurrentTask = NoTask
    BY <2>1, <2>2, UnScheduleCurrentFields DEF BlockCurrentTask
  <2>3. Switches
    BY <2>2, OwnerChanges
  <2> DEFINE n == NextTask(sched)
             r == StartIfWanted([Schedule(sched) EXCEPT !.gCurrentTask = n])
  <2>4. sched' = r
    BY <2>3 DEF Switches, ReturnToUser
  <2>5. r.gCurrentTask = n /\ \A t \in r.queued : fPriority[t] <= PriorityOf(n)
    BY <2>3, SwitchOK DEF Switches, IInv
  <2>6. QED
    BY <2>4, <2>5
<1>2. QED
  BY <1>1, Inductive, PTL DEF Spec, SwitchToHighest

-----------------------------------------------------------------------------
(* Requests to schedule are kept.                                          *)

\* r keeps the requests of s and its holds.
Stay(s, r) ==
  /\ r \in SchedulerRecord
  /\ r.gHoldScheduleLevel = s.gHoldScheduleLevel
  /\ s.gDoSchedule => r.gDoSchedule
  /\ s.gScheduleRequested => r.gScheduleRequested

\* The operations on the queues keep every request.
LEMMA OperationsStay ==
  ASSUME NEW s \in SchedulerRecord, NEW t \in Task
  PROVE  /\ Stay(s, WantSchedule(s))
         /\ s.gHoldScheduleLevel > 0 => WantSchedule(s).gScheduleRequested
         /\ Stay(s, SetCurrentTask(s, t)) /\ Stay(s, SetCurrentTask(s, NoTask))
         /\ Stay(s, ScheduleTask(s, t))
         /\ QueuesOK(s) /\ BucketsOK(s) => Stay(s, UnScheduleTask(s, t))
<1>1. Stay(s, WantSchedule(s))
  BY WantScheduleFields DEF Stay
<1>2. s.gHoldScheduleLevel > 0 => WantSchedule(s).gScheduleRequested
  <2>1. s.gHoldScheduleLevel > 0 => s.gHoldScheduleLevel # 0
    OBVIOUS
  <2>2. QED
    BY <2>1, WantScheduleFields
<1>3. Stay(s, SetCurrentTask(s, t)) /\ Stay(s, SetCurrentTask(s, NoTask))
  BY SetCurrentTaskFields DEF Stay
<1>4. Stay(s, ScheduleTask(s, t))
  <2>1. Stay(s, Add(s, t))
    BY AddFields DEF Stay
  <2>2. Stay(s, s)
    BY DEF Stay
  <2>3. QED
    BY <2>1, <2>2 DEF ScheduleTask
<1>5. ASSUME QueuesOK(s), BucketsOK(s) PROVE Stay(s, UnScheduleTask(s, t))
  <2>1. CASE t = s.gCurrentTask
    BY <2>1, UnScheduleCurrentFields DEF Stay
  <2>2. CASE t # s.gCurrentTask
    <3>1. UnScheduleTask(s, t) = Dequeue(s, t, fPriority[t])
      BY <2>2 DEF UnScheduleTask
    <3>2. QED
      BY <1>5, <3>1, DequeueOK DEF Stay
  <2>3. QED
    BY <2>1, <2>2
<1>6. QED
  BY <1>1, <1>2, <1>3, <1>4, <1>5

\* Only holds and their ends, and the exit that honours a request, change what
\* is asked for.
LEMMA RequestsStay ==
  ASSUME IInv, [Next]_vars
  PROVE  Stay(sched, sched') \/ Hold \/ Allow \/ Switches
<1>1. /\ sched \in SchedulerRecord /\ QueuesOK(sched) /\ BucketsOK(sched)
      /\ Stay(sched, sched)
  BY DEF IInv, SwitchInv, TypeOK, Stay
<1>2. CASE SWIExit
  <2>1. CASE ReturnToUser
    <3>1. CASE gAtomicNestCount = 0 /\ sched.gDoSchedule
      BY <2>1, <3>1 DEF Switches
    <3>2. CASE ~(gAtomicNestCount = 0 /\ sched.gDoSchedule)
      <4>1. sched' = StartIfWanted(sched)
        BY <2>1, <3>2 DEF ReturnToUser
      <4>2. QED
        BY <1>1, <4>1, StartIfWantedFields DEF Stay
    <3>3. QED
      BY <3>1, <3>2
  <2>2. ASSUME NEW t \in Task, NotifySend(t) PROVE Stay(sched, sched')
    <3> DEFINE w == WantSchedule(sched)
               h == SetCurrentTask(w, t)
    <3>1. sched' = ScheduleTask(h, t)
      BY <2>2 DEF NotifySend
    <3>2. Stay(sched, w) /\ w \in SchedulerRecord
      BY <1>1, OperationsStay DEF Stay
    <3> HIDE DEF w
    <3>3. Stay(w, h) /\ h \in SchedulerRecord
      BY <3>2, OperationsStay DEF Stay
    <3> HIDE DEF h
    <3>4. Stay(h, sched')
      BY <3>1, <3>3, OperationsStay
    <3>5. QED
      BY <3>2, <3>3, <3>4 DEF Stay
  <2>3. QED
    BY <1>1, <1>2, <2>1, <2>2 DEF SWIExit, Done, DoDeferrals, EndDeferrals,
                                  DoneAfterDeferrals
<1>3. CASE Handler
  <2>1. CASE OtherSWI
    BY <1>1, <2>1 DEF OtherSWI
  <2>2. CASE BlockCurrentTask
    BY <1>1, <2>2, OperationsStay DEF BlockCurrentTask
  <2>3. ASSUME NEW t \in Task, NEW hint \in BOOLEAN, NEW want \in BOOLEAN,
               WakeTask(t, hint, want)
        PROVE  Stay(sched, sched')
    <3> DEFINE h == IF hint THEN SetCurrentTask(sched, t) ELSE sched
               a == ScheduleTask(h, t)
    <3>1. sched' = IF want THEN WantSchedule(a) ELSE a
      BY <2>3 DEF WakeTask
    <3>2. Stay(sched, h) /\ h \in SchedulerRecord
      BY <1>1, OperationsStay DEF Stay
    <3> HIDE DEF h
    <3>3. Stay(h, a) /\ a \in SchedulerRecord
      BY <3>2, OperationsStay DEF Stay
    <3> HIDE DEF a
    <3>4. Stay(a, WantSchedule(a)) /\ Stay(a, a)
      BY <3>3, OperationsStay DEF Stay
    <3>5. Stay(a, sched')
      BY <3>1, <3>4
    <3>6. QED
      BY <3>2, <3>3, <3>5 DEF Stay
  <2>4. ASSUME NEW t \in Task, Yield(t) PROVE Stay(sched, sched')
    <3> DEFINE h == SetCurrentTask(sched, t)
    <3>1. sched' = WantSchedule(h)
      BY <2>4 DEF Yield
    <3>2. Stay(sched, h) /\ h \in SchedulerRecord
      BY <1>1, OperationsStay DEF Stay
    <3> HIDE DEF h
    <3>3. Stay(h, sched')
      BY <3>1, <3>2, OperationsStay
    <3>4. QED
      BY <3>2, <3>3 DEF Stay
  <2>5. ASSUME NEW t \in Task, ObjectStart(t) PROVE Stay(sched, sched')
    BY <1>1, <2>5, OperationsStay DEF ObjectStart
  <2>6. ASSUME NEW t \in Task, ObjectSuspend(t) PROVE Stay(sched, sched')
    <3>1. sched' = sched \/ sched' = UnScheduleTask(sched, t)
      BY <2>6 DEF ObjectSuspend
    <3>2. QED
      BY <1>1, <3>1, OperationsStay
  <2>7. ASSUME NEW t \in Task, DeleteTask(t) PROVE Stay(sched, sched')
    <3> DEFINE h == IF sched.fCurrentTask = t
                    THEN SetCurrentTask(sched, NoTask) ELSE sched
    <3>1. sched' = UnScheduleTask(h, t)
      BY <2>7 DEF DeleteTask
    <3>2. h \in SchedulerRecord /\ QueuesOK(h) /\ BucketsOK(h)
      BY <1>1, SetCurrentTaskFields, QueueFrame
    <3>3. Stay(sched, h)
      BY <1>1, OperationsStay
    <3> HIDE DEF h
    <3>4. Stay(h, sched')
      BY <3>1, <3>2, OperationsStay
    <3>5. QED
      BY <3>3, <3>4 DEF Stay
  <2>8. QED
    BY <1>3, <2>1, <2>2, <2>3, <2>4, <2>5, <2>6, <2>7 DEF Handler
<1>4. CASE UserSection
  BY <1>1, <1>4 DEF UserSection, EnterAtomic, ExitAtomic
<1>5. CASE Interrupt
  <2>1. CASE TimerInterrupt
    <3> DEFINE w == WantSchedule(sched)
    <3>1. sched' = SetCurrentTask(w, NoTask)
      BY <2>1 DEF TimerInterrupt
    <3>2. Stay(sched, w) /\ w \in SchedulerRecord
      BY <1>1, WantScheduleFields DEF Stay
    <3> HIDE DEF w
    <3>3. Stay(w, sched')
      BY <3>1, <3>2, SetCurrentTaskFields DEF Stay
    <3>4. QED
      BY <3>2, <3>3 DEF Stay
  <2>2. QED
    BY <1>1, <1>5, <2>1 DEF Interrupt, SendForInterrupt
<1>6. CASE UNCHANGED vars
  BY <1>1, <1>6 DEF vars
<1>7. QED
  BY <1>2, <1>3, <1>4, <1>5, <1>6 DEF Next

\* What is asked for under a hold is written down.
LEMMA AsksUnderHold ==
  ASSUME IInv, Asks, sched.gHoldScheduleLevel > 0
  PROVE  sched'.gScheduleRequested
<1>1. sched \in SchedulerRecord
  BY DEF IInv, SwitchInv, TypeOK
<1>2. CASE TimerInterrupt
  <2> DEFINE w == WantSchedule(sched)
  <2>1. sched' = SetCurrentTask(w, NoTask)
    BY <1>2 DEF TimerInterrupt
  <2>2. w \in SchedulerRecord /\ w.gScheduleRequested
    <3>1. sched.gHoldScheduleLevel # 0
      OBVIOUS
    <3>2. QED
      BY <1>1, <3>1, WantScheduleFields
  <2> HIDE DEF w
  <2>3. QED
    BY <2>1, <2>2, SetCurrentTaskFields
<1>3. ASSUME NEW t \in Task, NotifySend(t) PROVE sched'.gScheduleRequested
  <2> DEFINE w == WantSchedule(sched)
             h == SetCurrentTask(w, t)
  <2>1. sched' = ScheduleTask(h, t)
    BY <1>3 DEF NotifySend
  <2>2. w \in SchedulerRecord /\ w.gScheduleRequested
    BY <1>1, OperationsStay DEF Stay
  <2> HIDE DEF w
  <2>3. h \in SchedulerRecord /\ h.gScheduleRequested
    BY <2>2, OperationsStay DEF Stay
  <2> HIDE DEF h
  <2>4. QED
    BY <2>1, <2>3, OperationsStay DEF Stay
<1>4. ASSUME NEW t \in Task, NEW hint \in BOOLEAN, WakeTask(t, hint, TRUE)
      PROVE  sched'.gScheduleRequested
  <2> DEFINE h == IF hint THEN SetCurrentTask(sched, t) ELSE sched
             a == ScheduleTask(h, t)
  <2>1. sched' = WantSchedule(a)
    BY <1>4 DEF WakeTask
  <2>2. h \in SchedulerRecord /\ h.gHoldScheduleLevel > 0
    BY <1>1, SetCurrentTaskFields
  <2> HIDE DEF h
  <2>3. a \in SchedulerRecord /\ a.gHoldScheduleLevel > 0
    BY <2>2, OperationsStay DEF Stay
  <2> HIDE DEF a
  <2>4. QED
    BY <2>1, <2>3, OperationsStay
<1>5. QED
  BY <1>2, <1>3, <1>4 DEF Asks

\* A request made while the scheduler is held is kept until the hold ends, and
\* then until the exit of a SWI honours it.
THEOREM HeldRequestIsKept == Spec => HeldRequestKept
<1> DEFINE held == sched.gHoldScheduleLevel > 0
           ends == sched'.gHoldScheduleLevel = 0
           Kept == /\ held /\ Asks => sched'.gScheduleRequested
                   /\ held /\ ~ends /\ sched.gScheduleRequested => sched'.gScheduleRequested
                   /\ held /\ ends => /\ sched'.gDoSchedule <=> sched.gScheduleRequested
                                      /\ ~sched'.gScheduleRequested
                   /\ sched.gDoSchedule =>
                        \/ sched'.gDoSchedule
                        \/ mode # "user" /\ mode' = "user" /\ gAtomicNestCount = 0
<1>1. ASSUME IInv, [Next]_vars PROVE Kept
  <2>1. /\ sched \in SchedulerRecord /\ sched.gHoldScheduleLevel \in Nat
        /\ held => ~sched.gDoSchedule
        /\ mode = "user" /\ gAtomicNestCount = 0 => ~sched.gDoSchedule
    BY <1>1 DEF IInv, SwitchInv, TypeOK, RequestsOK, SchedulerRecord
  <2>2. held /\ Asks => sched'.gScheduleRequested
    BY <1>1, AsksUnderHold
  <2>3. CASE Stay(sched, sched')
    BY <2>1, <2>2, <2>3 DEF Stay
  <2>4. CASE Hold
    <3>1. sched' = [sched EXCEPT !.gHoldScheduleLevel = @ + 1]
      BY <2>4 DEF Hold, HoldSchedule
    <3>2. /\ sched'.gHoldScheduleLevel = sched.gHoldScheduleLevel + 1
          /\ sched'.gScheduleRequested = sched.gScheduleRequested
          /\ sched'.gDoSchedule = sched.gDoSchedule
      BY <2>1, <3>1 DEF SchedulerRecord
    <3>3. ~ends
      BY <2>1, <3>2
    <3>4. QED
      BY <2>2, <3>2, <3>3
  <2>5. CASE Allow
    <3>1. sched' = AllowSchedule(sched) /\ held
      BY <2>5 DEF Allow
    <3>2. CASE sched.gHoldScheduleLevel = 1 /\ sched.gScheduleRequested
      <4>1. /\ sched'.gHoldScheduleLevel = 0 /\ ~sched'.gScheduleRequested
            /\ sched'.gDoSchedule
        BY <2>1, <3>1, <3>2 DEF AllowSchedule, SchedulerRecord
      <4>2. QED
        BY <2>2, <3>2, <4>1
    <3>3. CASE ~(sched.gHoldScheduleLevel = 1 /\ sched.gScheduleRequested)
      <4>1. sched' = [sched EXCEPT !.gHoldScheduleLevel = @ - 1]
        BY <3>1, <3>3 DEF AllowSchedule
      <4>2. /\ sched'.gHoldScheduleLevel = sched.gHoldScheduleLevel - 1
            /\ sched'.gScheduleRequested = sched.gScheduleRequested
            /\ sched'.gDoSchedule = sched.gDoSchedule
        BY <2>1, <4>1 DEF SchedulerRecord
      <4>3. ends => ~sched.gScheduleRequested
        BY <2>1, <3>3, <4>2
      <4>4. QED
        BY <2>1, <2>2, <3>1, <4>2, <4>3
    <3>4. QED
      BY <3>2, <3>3
  <2>6. CASE Switches
    <3>1. sched.gDoSchedule /\ gAtomicNestCount = 0 /\ mode' = "user"
      BY <2>6 DEF Switches, ReturnToUser
    <3>2. mode # "user" /\ ~held
      BY <2>1, <3>1
    <3>3. QED
      BY <3>1, <3>2
  <2>7. QED
    BY <1>1, <2>3, <2>4, <2>5, <2>6, RequestsStay
<1>2. IInv /\ [Next]_vars => [Kept]_vars
  BY <1>1
<1>3. QED
  BY <1>2, Inductive, PTL DEF Spec, HeldRequestKept

=============================================================================
