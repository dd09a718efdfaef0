# TLA+ models of newton-framework

newton-framework is a re-creation in C++ of the Newton operating system. This
directory holds TLA+ modules for the parts of it where order matters: how the
kernel of `src/OS` switches tasks, lets them wait for semaphores and monitors,
passes messages between them and its interrupts, fires their timers, and keeps
track of the objects they own; and how the flash store of `src/Stores` survives a
power failure in the middle of a transaction. TLC checks the modules on small
instances, three of them against an abstract specification; TLAPS proves theorems
about all seven components for every instance, the three refinements among them;
`PROJECT.json` ties every definition to the lines it models.

To use it, run in this directory

    tlc -workers 2 -config MCTaskSwitch.cfg MCTaskSwitch    # model-check one run
    tlapm TaskSwitchProofs.tla                              # check the proofs

Contents: 1 the system, 2 what makes it hard, 3 the modules, 4 the runs,
5 bounds, 6 fairness, 7 the proofs, 8 where code and comments disagree,
9 what is not modelled, 10 the plan.

## 1. The system

Three products are built from one source tree: a framework without task
switching, a Toolkit framework, and *MessagePad*, which runs the real kernel.
Only there do tasks exist. A task is a register set and a stack; the kernel is
entered by software interrupts (SWIs), which the host build replaces by calls of
the assembler routines in `OS/asm-LP64/SWIHandler.s`. There is one processor.

| Component | State it keeps | Operations | Talks to | Correct when |
|---|---|---|---|---|
| Scheduler (`OS/Scheduler.cc`) | one queue of tasks per priority, bit mask of used queues, highest used queue, a hint `fCurrentTask`, flags `gDoSchedule`, `gScheduleRequested`, `gWantSchedulerToRun`, `gHoldScheduleLevel` | add, remove, setCurrentTask, schedule, hold and allow, start and stop the preemption timer | called by every kernel object; called back from the SWI exit | no runnable task is lost or queued twice; the mask is exact; the highest task runs; equals share the processor |
| SWI handler (`SWIHandler.s`) and sections (`OS/Interrupt.cc`) | interrupt state, `gAtomicNestCount`, `gWantDeferred` | enter, exit (deferrals, then task swap), atomic sections | scheduler, ports | a section is never interrupted by a switch; no request is forgotten |
| Semaphores (`OS/KernelSemaphore.cc`, `OS/Semaphore.cc`) | the values of a group, two wait queues for each | semOp on a list, destroy | scheduler; used by the screen, the heap, locks | lists are all-or-nothing; a task that could go on is woken |
| Ports and messages (`OS/KernelPorts.cc`, `OS/SharedMem.cc`) | queues of senders and receivers, per message: status, notify, signature, timer, queue links | send, receive, reply, collect, abort, reset, destroy | scheduler, timers, interrupts, every server task | a message has one owner, ends once, and wakes who waits for it |
| Timers (`OS/Timers.cc`) | queue of messages by time, one alarm, real-time clock alarms | queue, remove, alarm | ports, interrupts | a timeout or a delay happens, once |
| Monitors (`OS/KernelMonitor.cc`) | caller, queue, suspended flags | acquire, release, suspend, delete | scheduler, object manager, stack and page managers | one caller at a time; every caller gets an answer |
| Object table (`OS/KernelObjects.cc`) | hash table of kernel objects with owner and id | add, remove, scavenge, reassign, request handlers in a monitor | all of the above | ids are unique; nothing owned by a dead task is left |
| Flash store (`Stores/FlashStore.cc` and helpers) | blocks of write-once bits, log entries, transactions | create, read, write, delete objects, begin, commit, abort, recover, compact | PSS manager, soups | a transaction is atomic across a crash; compaction loses nothing |
| Soups and indexes (`Stores/*`) | B-trees and cursors over store objects | add, remove, query | flash store, frames | an index agrees with its entries |
| Buffers (`UtilityClasses`) | ring and circle buffers | put, get, mark | communication tools | count and space are exact at the limits |
| Heap (`Memory Manager`) | blocks, handles, one semaphore | allocate, free, resize, compact | everything | blocks never overlap |
| Frames and NewtonScript (`Frames`) | object heap, interpreter stacks | evaluate, collect, stream | views, stores | sequential semantics |
| Communications, sound, cards, tablet, recognition, views, packages, compression | per-component state behind ports or in one task | many | ports, stores, frames | see `PROJECT.json` |

Interaction goes through four channels. Tasks call the kernel with SWIs. The
kernel calls the scheduler (`ScheduleTask`, `UnScheduleTask`, `WantSchedule`,
`setCurrentTask`). Interrupts leave work in two queues, `gDeferredSends` and
`gTimerDeferred`, and set `gWantDeferred`; the exit of the next SWI carries it
out (`DoDeferrals`) with interrupts enabled. Server tasks wait in `CUPort::receive`
and are woken by the completion of the message they wait with.

## 2. What makes it hard

`PROJECT.json` lists the hazards with the line at which each bites and the
properties that would catch it. They are of these kinds:

* *Interleaving with interrupts.* The timer or a device interrupts any
  instruction of user code, and the deferred work too, which runs with interrupts
  enabled between emptying one queue and looking at the next.
* *Hints used later.* `fCurrentTask` is set by one SWI and used by a later one,
  when the task may be blocked, outranked or gone.
* *Several owners of one message.* An alarm, a reply, an abort, a reset and the
  destruction of a port or of the message may all end it, in any order.
* *All-or-nothing lists.* A semaphore call that blocks half way has to undo what
  it did, and is performed again from the start later.
* *Boundaries.* Bucket 0, an empty mask, the outermost section, the last task of
  a queue (where the preemption timer is stopped).
* *Crashes.* The flash store is the one part that survives a reset.

## 3. The modules

    CScheduler ------+-- TaskSwitch ------- MCTaskSwitch
      |              |       |
      |              |       +------------- TaskSwitchProofs
      |              +-- CSchedulerLemmas --'
      |
      +-- KernelSemaphore --+-- RdWrSemaphore --+-- MCSemaphores
                            +-- ScreenDrawing --+-- SemaphoreProofs
    Ports ------------------------+------------ MCPorts
                                  '------------ PortsProofs
    DoubleQ --+
              +-- TimerEngine ---+------------- MCTimerEngine
    AlarmClock (abstract) --'    '------------- TimerEngineProofs
    Monitor ---------------------+------------- MCMonitor
                                 '------------- MonitorProofs
    ObjectTable --------- ObjectSet (abstract)  MCObjectTable, ObjectTableProofs
    FlashStore ---------- AtomicStore (abstract) MCFlashStore, FlashStoreProofs

**CScheduler** is `CScheduler` and the kernel globals it owns, as operators from
one record to the next: `Add`, `UnScheduleTask` (`remove`), `Schedule`,
`HighestPriorityTask`, and so on. It declares no variable, so every kernel object
that calls the scheduler can use it in the middle of a step. The state bit
0x00020000 of a task is the set `queued`. `fTasks` holds a sequence per priority.
`SwapTask` is the end of a SWI as the kernel objects see it.

**TaskSwitch** is the scheduler driven by the running task and by interrupts.
`mode` says what the processor executes: user code, a SWI handler, or one of the
three stages of the label `Done` of SWIHandler.s, between which an interrupt may
come. There is one action per SWI that changes the scheduler's state, one per
section entry and exit, one per interrupt. `ObjectSuspend` is among them for completeness: it
refuses every task that does not have the state bit 0x08, which nothing sets, so
the code suspends none; `Suspendable` names the tasks that have it. What tasks wait *for* is abstracted to
the set of blocked tasks, and a message that an interrupt has posted to the task
it will wake; `WakeTask` has the union of the ways kernel objects wake a task
(with a hint, with a request, with both), so that what holds here holds for each
of them.

**KernelSemaphore** is `CSemaphoreGroup`: the loop over a list with the unwinding
of a blocked one, the wake loop, the wait queues and the destruction of a group,
composed with CScheduler. A blocked task repeats its call from the start, because
the handler moves its pc back, so it stays at its label. The clients are a
constant program, a call per label. **RdWrSemaphore** is `CURdWrSemaphore`, with
the blocking flag as a parameter (and the byte order, `BigEndian`).
**ScreenDrawing** is `StartDrawing`, `StopDrawing` and `BlockLCDActivity` of
`Graphics/Screen.cc`, with a drawing inside another one, as the update of the root view
makes it (`Views/RootView.cc:538`). **MCSemaphores** gives each of them semaphores of its own in
one group, next to a client of our own that moves tokens and exercises the
decrements that wait, which those two never do.

**Ports** is the message system. The kernel's state is one record `k`, because
completing a message calls back into the port (a collector port receives a
completed message, which completes the message that collects it): each procedure
is an operator from a record to a record, and `CompleteMsg`, `CompleteReceiver`
and `SendToCollector` call each other as the methods do. The code's recursion ends after
one collector, by the flag `kOSErrNestedCollection`, and the operators unfold
exactly that. `ToSend` and `ToReceive` are what a call writes into its message before
the port looks at it. `SwiExit` is the end of a SWI; `deferring` says where DoDeferrals
has got to when an interrupt comes. Two history fields, `tokens` and `sends`,
record which delivery a receiver's token belongs to; the code has no such notion,
and the properties are about it.

**TimerEngine** is `CTimerEngine` over **DoubleQ**, the doubly linked queues of
`UtilityClasses/Queues.cc` with their heads, tails and links. A SWI first computes the
time of a message (`Start`) and then queues it (`FinishStart`), and the clock may go
on between the two; the loop of `alarm()` takes one step per message, so that time
passes in it too. `OnHost` chooses between an interrupt controller that keeps an
interrupt and the host's `gPendingInterrupt`, where `ServicePendingInterrupts`
(`EndSWI`) may drop it. The refinement to **AlarmClock** maps the queue
`gTimerEngine` to the times asked for and the queue `gTimerDeferred`, walked through its
links, to the sequence of messages that have ended: a message is never early, late in
the order, or fired twice.

**Monitor** is `CMonitor` with the part of the object manager that ends tasks and
monitors. A monitor and its task are one agent; `run` is the set of scheduled agents,
the scheduler's order being CScheduler's business. Each kernel call is one step and
the procedure of a monitor several: it may ask the object manager, which is a monitor
itself, and let the waiting tasks go. Closing a monitor is the two calls of
`CUMonitor::destroyObject`, so that anything can happen between them.
`ObjectScavenger` leaves its function pointer uninitialised for an object in use;
`ScavengerDeletes` says what the call through it does (nothing, in the runs).

**ObjectTable** is `CObjectTable`: chains by hash, the walk of `scavengeAll` object by
object (`ScavengeObject`, `PassObject`, `NextEntry`), `remove` with the adjustment of
the walk's two pointers, and the destructors that call `remove` for an object's parts
from within. Between the steps of a walk, tasks accept objects and bequeath theirs.
The refinement to **ObjectSet** forgets the chains: an object appears and disappears
with its parts, and no other object is lost or kept.

**FlashStore** is the transaction machinery of `CFlashStore`. A version of an object
has one of the seven states of `gObjectStateToTransBits`; each call is the list of the
writes it makes to the flash (`writes`), carried out one by one with `Crash` possible
before each. What survives is `versions` and `record`; lock count, tracker and flags
are lost. `CommitVisit`, `UndoVisit` and `RestoreVisit` are the loops of `doCommit` and
`doAbort` over the iterator, in any order, and `Repair` is `recoveryCheck`. A call may fail
after any of its writes but one (`RewriteFails`, `NewObjectFails`, `CallFails`): what it has
written stays, and a later commit or abort finds it.

The refinement to **AtomicStore** gives each object two values: `durable` is what a power
failure now would leave after the repair (it depends on the transaction record only
and on the states), `current` what a reader sees. The write of the commit mark has to
be the one step that makes all current values durable. The code breaks this
promise for some objects. The history variable `spoiled` collects them at the step
that does it, no action reads it, and the properties speak of the objects that
are kept (`Kept`): in AtomicStore an object may leave the store's care (`Lose`), and whatever
happens to it must not touch the others. `spoiled` grows in three places only:

* `DeleteObject` of an object made in the same transaction (`flash_delete` in section 8);
* a commit by the tracker that passes an object over (`PassedOver`): the deletion
  of a committed object is not tracked, and a tracked object of which a failed call has
  left a half-written copy may be represented by that copy;
* a power failure between the two writes with which `doAbort` exchanges an old version
  for its copy (`BetweenVersions`).

An object that `newObject` failed to make and nobody was told of is `unborn`.

The alternative forms of a definition marked `mutant` are plausible bugs: each property of a
passing run is violated if the mutant takes the place of the definition
(`PROJECT.json`, "mutants").

## 4. The runs

| Run | Instance | What it shows |
|---|---|---|
| `task_switch` | two tasks of one priority, one below, nested holds, an atomic section | No runnable task is ever lost or queued twice (`NoTaskLost`); whenever user code runs, a task that is not outranked will get a time slice (`TimeSliceGuaranteed`), although the timer is stopped in three places; a request made under a hold is kept until the outermost hold ends, which turns it into the one that the exit of the SWI acts upon (`HeldRequestKept`); sections pin the processor (`SectionsPin`) and every switch goes to a task of the highest priority (`SwitchToHighest`). Under fairness a runnable task that no other outranks runs (`TopTaskRuns`). `IInv` is the inductive invariant of the proofs, from which `TypeOK`, `BucketsExact`, `IdleOnlyWhenIdle`, `UserCodeHasOwner` and `HintAlive` are proved. |
| `semaphores` | three tasks, seven semaphores, three kinds of clients, drawings inside drawings, destruction of the group | Every started task is in exactly one place, and the scheduler's queues survive what the semaphores do to them (`OnePlace`); no value is negative (`TypeOK`); unwinding restores every value (`TokensConserved`); nobody who waits for an increase could go on (`NoLostIncrease`); the two counts of the reader-writer lock are its holders (`CountsAreHolders`) and a writer is alone (`WriterExcludes`); the open drawings are counted exactly, nested ones twice, through the take-out-and-look of StopDrawing (`DrawersCounted`), and one task at a time is in the part that updates the screen (`OneUpdate`; others may begin to draw meanwhile). |
| `ports` | client, server, an async message collected at a port of the client, two sends each | A receiver never waits beside a message it would accept (`NoMatchWaiting`); a token answers only the send it was received from, even after abort and resend (`TokenAnswersItsSend`); without timeouts, noErr means received and answered (`NoErrMeansReceived`). |
| `ports_timers` | client, server, a message sent by an interrupt; delays and timeouts, alarms that are late | A message in progress is in a queue or has a timer, and a finished one neither (`PendingIffHeld`); what interrupts leave for later is still requested (`DeferralsRemembered`); a call with a timeout ends (`TimeoutsEnd`). |
| `ports_teardown` | as `ports`, with reset, destruction of ports and messages, peeks and filters | A message is in the queue its links name, once (`LinksExact`); every stopped task waits for a message that will resume it (`NoTaskForgotten`). |
| `timers` | three messages, clock 0..4, interrupts that are kept | The links of both queues stay right (`Threaded`); the one alarm is never later than any waiting message (`AlarmArmed`); the engine implements AlarmClock (`IsAlarmClock`); no wait is for ever (`TimersEnd`). |
| `monitors` | a task with a monitor, its child with another, a third task, the object manager | An agent is scheduled or waits in one monitor, once, and caller and callee agree (`OnePlace`); `fQueueCount` is the caller and the queue through suspensions, refusals and deletions (`CountExact`); no live task is nowhere, but for those of section 8 (`Accounted`); a task that has killed itself never runs and is remembered until it is deleted (`DeadIsDeferred`); every wait ends (`WaitsEnd`). |
| `object_table` | a system task, two tasks of which one has memory, a monitor with its task and message, an object that is kept; two chains | The walk keeps its place when objects are removed under it (`WalkInChain`); an object without owner is ahead of the walk or asks for another (`OrphansAhead`); heirs exist (`HeirsAlive`); the table implements ObjectSet (`IsSet`). |
| `flash_store` | two objects with two versions each, a tracker of three, nested locks; every call may fail half way | Of the objects that are kept: each has one readable version, and every pending change its two halves (`OneVersion`); a commit that visits only the tracked objects misses none that it has to settle, deletions apart (`TrackerComplete`); the store implements AtomicStore over any number of power failures, in repairs too (`Atomic`). Of all objects: a repair ends once the power stays on (`RepairEnds`). |
| `flash_delete`, `monitor_suspend`, `timers_host` | as above, with the case | End in a violation: section 8. |

## 5. Bounds

* `task_switch`: three tasks are enough for a task to be preempted by one of its
  own priority and by a higher one while a third waits; priorities 1 and 3 of
  0..3 leave unused buckets on both sides, so that the downward scan has gaps
  to cross and a bottom to reach. `MaxHold` = 2 and `MaxAtomic` = 1 give nested
  holds, and atomic sections inside and outside them. The proofs need none of
  these bounds.
* Semaphores: three tasks of two priorities; the code has no counter other than the
  values, which the programs bound (`MaxTokens` = 3 lets a list of two decrements
  stop at its first, its second or not at all).
* `MaxSends` bounds how often one message object is sent: twice where reuse is the
  question, once where the number of messages in a queue is. `Calls`,
  `SendTimeouts` and `ReadTimeouts` choose the calls of a run; between the three
  passing runs every action is taken. One client and one server suffice for each
  race in the hazard list, because a race is between an alarm, an interrupt and at
  most two tasks over one message; the async messages let each task have
  two messages in progress.
* Types and filters: two types, and the filters "one type" and "all".
* Timers: three messages are a head, a middle and a tail, the cases of
  `removeFromQueue` and `addBefore`; `MaxTime` = 4 gives equal, ascending and
  descending times and leaves none that never comes.
* Monitors: a parent, its child and a stranger, a monitor of the parent and one of
  the child: enough for a queue behind a caller, for a caller that is destroyed inside,
  and for a task that is destroyed by its parent in the other's queue.
* Object table: with `TableSize` = 2, an object's parts lie in its own chain and in
  the other one, before and behind the walk. Every object is created once, so no id
  comes back; in the code that takes 2^28 creations.
* Flash store: `MaxVersion` = 2 in `flash_store` is a version and the one that replaces
  it, or a half-written copy beside it; the flash is full then, which is a case of its
  own (`HasRoom`). In `flash_delete` there are three. One content and the blank one tell an
  old value from a new one, two objects a whole commit from half of it. A tracker of
  three is full when two objects have been changed and one of them again. Two constraints
  make the run small enough: `OneHalfWritten`, one half-written copy at a time and, once
  a failed call has left it, of the object `a`; and `OneKept`, newObject fails for `b`
  only and `a` only is spoiled. The first half of each is a bound. The names in them
  are a choice between two states that differ by an exchange of `a` and `b`, which nothing
  else tells apart; together they also leave out a spoiled object next to a
  half-written copy of the other. The number of power failures is not bounded.
* CHECK_DEADLOCK is off for Ports and Monitor: with all sends used up and both tasks
  waiting, or with all tasks ended, there is nothing left to do. The other modules are
  checked for deadlock.

## 6. Fairness

`TaskSwitch!Fairness` assumes

* weak fairness of the SWI exit: it is straight-line code;
* strong fairness of closing each level of an atomic or hold section: the code
  between entry and exit is straight-line, and its task has the processor again
  and again while the section is open;
* strong fairness of a timer interrupt that finds user code outside a section
  with the timer running: the timer is periodic (20 ms on the device, 500 ms on
  the host). Strong, because the host loses an interrupt that comes while
  interrupts are disabled (`Platform/MPController.mm`), and a later one counts.

`TopTaskRuns` supposes in addition that from some time on no interrupt sends a
message. Without that an interrupt could wake another task for ever, and the wake
sets the hint `fCurrentTask`, which lets that task jump the queue: the
scheduler promises round-robin only among tasks that do not use hints.

`Ports!FairSpec` assumes weak fairness of SWIs that are not about messages (the
idle task loops through SWIs), of the steps of DoDeferrals, and of armed alarms.
The last is true of hardware that keeps an interrupt pending and not of the host
build, see `timers_host` in section 8.

`TimerEngine!Fairness`: SWIs and the loop of `alarm()` end (they are straight-line code
but for the loop, which takes a message each time or waits for the clock), the clock
and the alarm go on (weak), and a pending interrupt is taken if interrupts are enabled
again and again (strong: they are for no more than an instant between two SWIs).

`Monitor!Spec`: the task of a monitor that is scheduled goes on (weak) — its priority
is `gMonitorTaskPriority` and no task of a higher one keeps the processor for ever — and
its procedure does not run for ever (strong fairness of `Exit`, because a procedure
may ask the object manager any number of times). User tasks need not do anything.

`FlashStore!Spec`: a call that was begun goes on, and a store that needs a repair is
used (weak). `RepairEnds` supposes that the power failures stop; without that a repair may
be interrupted each time.

## 7. The proofs

`TaskSwitchProofs` proves, for every set of tasks, every assignment of
priorities and every `MaxHold` and `MaxAtomic` (with the assumptions
`SchedulerAssumption`, `NestingAssumption`, which only type the constants):
`TypeOK`, `NoTaskLost`, `BucketsExact`, `TimeSliceGuaranteed`,
`IdleOnlyWhenIdle`, `UserCodeHasOwner`, `HeldRequestKept`, `HintAlive`, and the
action properties `SectionsPin` and `SwitchToHighest`.

All of them follow from one inductive invariant `IInv`, with these parts:

* `QueuesOK`: each queue holds, once, exactly the tasks of its priority with the
  state bit set. `removeFromQueue` trusts the bit, `add` tests nothing.
* `BucketsOK`: the mask is exact and `fHighestPriority` is its maximum, or 0. The
  second half cannot be kept without the first: the scan looks at the mask.
* `CurrentOK`: the queued tasks are the runnable ones but the current one.
  This is what makes the bit agree with the life of the task, so that a wake never
  adds a queued task; it also says that `gTaskPriority` is the current task's, and
  that whenever the current task is none or idle, no section is open.
* `RequestsOK`: when nobody or (with tasks queued) the idle task owns the
  processor a reschedule is requested, and user code outside a section has no
  request open. Without it, `IdleOnlyWhenIdle` and `UserCodeHasOwner` are not
  inductive: they hold in user mode because the exit path acts on the request.
* `SliceOK`: the timer runs, or is wanted, or the current task outranks all queued
  tasks. The code stops the timer when the queue of the chosen task becomes empty,
  and this is why that is right.
* `HeldRequestKept`, `HintAlive`: as above, inductive with the rest. `SendsOK`: a posted
  message waits for a blocked task.

`CSchedulerLemmas` has a lemma for each operator on the record: what it changes
and that it preserves `QueuesOK`, `BucketsOK` and `SliceOK`. The most work is in
`UnlinkHolds` (a sequence without an element), `DequeueOK` (the mask and the
scan) and `ScheduleOK` (requeue, then choose). In TaskSwitchProofs there is a lemma
per action, and `NextKeepsSwitchInv` puts them together. `SectionsPin` rests on
`OwnerChanges`, which names the steps that change the owner of the processor.

`SemaphoreProofs` proves `TypeOK`, `OnePlace` and `NoLostIncrease` of KernelSemaphore for
every number of semaphores, every set of tasks with their priorities and *every client
program* (`ProgramAssumption`: a call names labels and operations of the right types, and
no list names semaphore `fCount`, at which `semOp` would read beyond the group), on
either byte order. The invariant `SemInv` looks at the two wait queues of each semaphore as
one family of `Lines`. `Placed` says that a started task is ready or in exactly one line, once, and
a waiting one at its call; CScheduler's `Settled` makes ready mean current or queued.
`IncreaseWaited` is what makes `NoLostIncrease` inductive: who waits for an increase of n
has an operation on n in its list that the values refuse (`Stuck`), and only an increase of n,
which empties the line, can change that. `TypeOK` rests on the order of the tests:
`DoneNotNegative` shows that a list of which every operation could be performed leaves no
negative value (its least counterexample is taken, from the well-foundedness of <), and
`BlockedUnwinds` that one that blocks leaves all values as they were. The wake loops are
folds over sequences of tasks; `FoldSteps` and `FoldSettles` say what scheduling
a sequence of distinct tasks does, again by the least number of tasks for which it
is false, and `WokenHolds` and `WaitersHold` that those sequences are the
emptied lines.

It also proves `WriterExcludes` of the reader-writer lock, for every finite set of tasks and
whatever else is done with the group: `RdWrAssumption` says that the lock's calls are in the
program, that nobody else names its semaphores and that no other call leads to the labels
where the lock is held, which the code has because the lists of operations are private. The
theorem holds for the big-endian order and for the little-endian one of the build, where the
lists come out different and a lock is alone in its group (`RdWrBase = 0`): there an
acquire still tests before it counts, and a release, which does nothing, can only leave the
others waiting (section 8, item 6). It supposes a flag that waits (`inBlocking =
kNoWaitOnBlock`; item 4), since the acquire functions drop the error. Each step performs one
list, is refused or moves a task without a call (`NextCases`), and a count follows the labels
(`MoveCount`). `RdWrHeld` says that there are no more holders than the two values count and
that one of the two is zero. What is false on one of the two orders, that the values are
exactly the holders and everything about the screen's tasks, is checked for the
big-endian order and not proved.

`MonitorProofs` proves `OnePlace`, `CountExact`, `Accounted` and `DeadIsDeferred` for
every set of tasks and monitors (`MonitorAssumption`: the two sets are disjoint, `None` is in neither,
and each has the parent or creator the code gives it). The theorems suppose `~ScavengerDeletes`, as the runs do: the code calls
through an uninitialised pointer there, and nothing can be said of what a wild call does.
The operators of Monitor go from record to record, so the invariant `Good` is a
predicate of a record, with a lemma per operator. Its parts are where an agent is
(`QueuesOK`, `CallersOK`), that a monitor without a caller has an empty queue and is not
scheduled (`IdleOK`), the count, and who may be nowhere. Two parts carry the weight.
`SuspensionOK`: nobody waits behind a monitor that is to be deleted, and a task that wants
to suspend one waits alone. Without it `CountExact` breaks when `release`
takes the refused task out of the queue, and `Accounted` would have to excuse those
behind it. `DeadOK`: only the task that `fDeferredId` names can be dead and still
there, which is what makes `DeadIsDeferred` hold through the steps of the object manager.

`TimerEngineProofs` proves `Threaded`, `AlarmArmed` and the refinement of AlarmClock,
for every finite set of messages and every `MaxTime` (`MessageAssumption`). The difficulty
is that the queues are links: the invariant says that there are two sequences `h`, one per
queue, such that each *holds* its queue (`Holds`: no message twice; head, tail and both
links of each member are those of its neighbours; a message is in the sequence of the container
its field names, and in no other). `add`, `addBefore`, `remove` and `removeFromQueue` are
each shown to turn a held sequence into the one with the message put in or taken out
(`Ins`, `Del`). `Sorted` makes the first of the delta queue the next one due.
The walk that finds the place for a new message, and the walk of the abstraction
function, are recursive functions on the numbers; that they end, and where, is shown by
taking the least step that has the property (`LeastNumber`, from the well-foundedness of < in
the library), not by induction. `AlarmArmed` has a part of its own, `Armed`, and
supposes `~OnHost`: on the host it is false (section 8, `timers_host`). The
refinement maps a message to its due time while it is in `gTimerEngine`, and the
ended ones to the sequence held by `gTimerDeferred`.

`ObjectTableProofs` proves `WalkInChain`, `OrphansAhead`, `HeirsAlive` and the refinement
of ObjectSet (`IsSet`), for every finite set of objects with their kinds and parts,
every hash function and every table size (`ObjectTableAssumption`). The theorems suppose
`KeptOwners \subseteq System`: the owner of an environment or a domain, the kinds that are never
deleted, is one of the system's own tasks, which do not end. The code creates them at boot only
(`OS/Environment.cc`, `BuildDomainsAndHeaps`). Without it TLC finds both `IsSet` and
`WalkInChain` violated (section 8, item 10).

The chains are links in the code and a sequence per bucket in the invariant (`Threads`,
`Sound`). `Inv` says that the pass of the scavenger is in range and that `InvAt` holds
of the entry it has reached. Its parts: `Fit`, what holds also in the middle of a step, that is,
the chains are sound, an object that is never deleted has an owner that is not (`Core`),
only the living bequeath (`Unbequeathed`), a task that can end is the heir of one other at most
(`Heirs`), and an object and its parts come and go together (`Families`); `Settled`, that an
object without its owner is ahead of the walk or another walk is asked for, which is
`OrphansAhead`; `Fresh`, that an object not made yet has no part that was. A deletion takes
objects at any place of the table, and `Settled` survives it because each deletion asks for
another walk. The sequence that `DestroyTask` deletes is a fold, and one
lemma per kind of deletion says what is left. For the refinement the steps of the
scavenger that delete nothing are stutters (`Mute`).

`PortsProofs` proves `LinksExact`, `PendingIffHeld`, `NoTaskForgotten`,
`DeferralsRemembered` and `TypeOK` for every set of tasks, ports, messages and types, whoever
owns, reads and writes what, whatever calls they make and however often they send
(`PortsAssumption`: `None` is no message, port, task or queue, tasks are not ports, and the
message built into a task belongs to it and has no collector). Three more hold under a
condition on the constants, which is in the statement of the theorem:

* `NoMatchWaiting` where nobody calls `resetFilter`, since `CPort::resetFilter` looks for the
  wrong senders (section 8, item 8).
* `TokenAnswersItsSend` under `CollectedAtHome`: a message with a collector port is
  collected by the task that owns it and is not one that an interrupt sends. This is the use the
  code makes of a collector, the completion port of a task's own asynchronous calls;
  without it the property is false (section 8, item 11). In the runs the client alone
  reads `c`, where it collects `a`.
* `NoErrMeansReceived`, an action property, under `CollectedAtHome` and where no send has a
  timeout that runs (`"Finite"` not in `SendTimeouts`): a sender that times out is told
  noErr (section 8, item 7). Sends without a timeout and sends that time out at once, sync and
  async, deferred, delayed or from an interrupt, are all covered, and receives may have any
  timeout. The run `ports` has `kNoTimeout` only.

The properties are not inductive by themselves, and between two assignments of a procedure
none of them holds: `CompleteMsg` unhooks a message, then its timer, then sends it to the
collector, whose receiver is itself unhooked and completed. So the invariant is a predicate `Fit(s, M)`
of a record `s` and of the set `M` of messages that a procedure has in its hands.
`Exact` and `Timed` (the queues and what messages say of them agree) hold at every
assignment. A message outside M is in one of three modes (`Mode`): `Idle`, held by nothing;
`Waits`, ended and queued in its collector port; or `Active`, in progress and in a queue or
timed, with a signature exactly while a receiver holds it. `Claimed` says that each blocked task is
the one notified by a message in progress or in hand, and that outside M no message notifies a task that runs.
`Matched` is `NoMatchWaiting`; `Held` says that a token's signature has been used up, and that it is
still the message's own only where the message is with that receiver. An action takes a
message in its hands (`Opens`) and puts it back (`Closes`), and `Inv` is `Fit(k, {})` with
`DeferralsRemembered`.

There is a lemma for each operator that goes from `Fit(s, M)` to `Fit(u, N)` of its
result: the hooks and timers, `CompleteMsg` with a collector and without, `Send`, `Receive`,
`Flush` (a fold over the messages of a queue, for which `Fit` holds after each of them),
the resets and destructions. `DoDeferrals` and the alarms use the same ones. Lemmas per
action put them together in `NextInv`. What the code's order of assignments is good for shows in the hypotheses: the
search for a match needs the new sender out of every queue, and a completion needs the
status written before the task is woken.

`NoErrMeansReceived` speaks of two states with a whole procedure between them, which may
complete several messages and write several results, so each lemma also says what
it tells relative to the record `b` that the step began with. `Told(b, s)`: a send that
was in progress in `b` was with a receiver there, or is still in progress in `s`, or has failed
in `s` (`Failed`: its task has a result that is not noErr and runs, or its status is an error).
That alone is not kept: a result is a field of the task, and a second completion could write
noErr over the first one's error. `Clear` is what excludes it, that no other message
has told the task of `m` of a failure since `b`: a message in progress has its task
blocked (`Claimed`), and one that has failed has its task running. `Roles` says which
messages the kernel takes for senders: a deferred or delayed one has no timeout that runs, and one
that waits in a port to receive is no send, so that a match or a time-out may tell the
receiver noErr or an error without ending a send. `Said` is the two together, `SaidBut` is
`Said` for a message in hand, and `NextInv` proves `Inv'` with `Said(k, k')`.

`FlashStoreProofs` proves `OneVersion`, `TrackerComplete` and the refinement of AtomicStore
(`Atomic`), for every set of objects and contents, every room and tracker size and every
nesting (`FlashAssumption`: a version and its replacement fit on the flash, and None is no
content). They cover every deletion, calls that fail half way and power failures at every write,
in repairs too, and speak of the objects that are kept, as the properties do.

The invariant `Inv` says that there is a function D, what a power failure now would leave
of the kept objects, and that the store is in one of nine modes with respect to it: at rest or
with a transaction open, in a call, about to mark the commit point, committing, undoing
or restoring, or cut by a power failure with a record that says open or commit. `OpenSet(D)` and
`CommitSet(D)` are the states of the flash that a repair takes to D under either record. A call is a list
of writes, so the invariant has to speak of its future: `Path(S, vs, w, ve)` says that the
writes w lead from vs to ve and that whatever is on the flash on the way is in S. In a call,
S is `OpenSet(D)` and the end is `Stable` and `Noted` (what `OneVersion` and `TrackerComplete`
rest on); in a commit S is `CommitSet(D)`. The proof of an action of a caller is that there
is such a path, put together from lemmas for each write (`AddIs` to `ZapIs`), for one change at a
place (`Changes`) and for two lists in a row (`PathConcat`); `WriteFlash` then takes one step on it,
and `Crash` finds itself in S. `Pending`, `UndoLeft` and `RestoreLeft` say what the
iterators have still to come to: with an empty rest they give `Settled`. They speak of the
objects that are not kept too, as far as the others need it, since the slots are visited in any order.

The commit mark is the step at which D becomes what the callers read. When an object is
spoiled, or `newObject` fails for it, D is cut down to the others (`Cut`), and nothing
that happens to it afterwards may matter to them. The one place where the state of the flash
is in no such set is `Bringing`, between the erasure of an old version and the commit of its copy by
doAbort: for the object in question the path goes through a state that promises nothing, and
a power failure there spoils it. `DurableAll` shows that D is `AfterPowerFailure`, and `Refined`
says which step of AtomicStore each step is.

Only model-checked: the liveness properties (`TopTaskRuns`, `TimeoutsEnd`,
`TimersEnd`, `WaitsEnd`, `RepairEnds`: fairness and ENABLED are out of the prover's
reach); `TokensConserved`, a sum over the program of MCSemaphores only; `CountsAreHolders`,
`DrawersCounted` and `OneUpdate` of the semaphores' clients.

## 8. Where the code and its comments disagree

Three are shown by a run that ends in a violation; the text in `PROJECT.json`,
"findings", quotes the lines.

1. `flash_delete`: `deleteObject` (`Stores/FlashStore.cc:710`) has its test for a
   separate transaction the wrong way round. An object that is created and deleted in
   one transaction is left in state 14, which an abort, or the repair after a power
   failure, takes for a committed object and restores. The run states `Atomic` for all
   objects that a caller knows (`AtomicForAll`); `flash_store` leaves out those
   that are spoiled.
2. `monitor_suspend`: `release` takes a waiting task out of the queue and ignores
   the refusal of `setUpEntry` (`OS/KernelMonitor.cc:238`). A task that suspends a
   monitor in use ends up neither scheduled nor queued.
3. `timers_host`: `ServicePendingInterrupts` (`Platform/MPController.mm:121`) queues
   a block that reads a variable which it clears at once; the alarm is lost.

Others are not runs of their own; each is the same model with another constant:

4. `blockOnZero` and `blockOnInc` wait when the flag is `kNoWaitOnBlock` and do not
   when it is `kWaitOnBlock`, the opposite of what `KernelTypes.h` says.
   `BlockLCDActivity` passes `kWaitOnBlock`, ignores the result, and may be at
   `LCDBlocked` while another task is at `updating`. f38 of `StopDrawing` passes
   `kNoWaitOnBlock` and waits: two tasks that both stop while two drawings are open
   wait for each other for ever, and a `StopDrawing` inside another drawing waits for its
   own task. The run reaches these states; they are no deadlock for TLC, because the
   timer interrupt is always enabled. Nobody could end such a wait: `f2C`, with which
   `StopDrawing` would wake an update task, increases a semaphore that nobody looks at,
   and `ReleaseScreenLock` has no caller (`OS/Exceptions.cc:284` is commented out).
5. A negative operation that brings a semaphore to zero wakes nobody who waits for zero
   (`OS/KernelSemaphore.cc:300`): `NoLostIncrease`, restated for `fZeroTasks`, is
   violated by a writer's release. It claims a lost wake-up impossible for
   increases only.
6. List items packed as integers are read back as two halves (`OS/Semaphore.cc:109`); on
   the x86-64 build the halves are swapped and a release does nothing. With
   `BigEndian = FALSE`, `CountsAreHolders` is violated: a reader counts for ever, and a lock
   that was taken for writing is never free again. `WriterExcludes` holds all the same and is
   proved for both orders. Of the screen's lists the test of f38 becomes additions to other
   semaphores, so that nobody is excluded there; `DrawersCounted` and `OneUpdate` are
   for the order the macro was written for.
7. A sender whose timeout passes is told noErr (`OS/SharedMem.cc:908`): with
   `SendTimeouts = {"Finite"}`, `NoErrMeansReceived` is violated.
8. `resetFilter` looks for senders with the fields of sender and receiver exchanged
   (`OS/KernelPorts.cc:142`): with `"resetFilter"` among `Calls` and two types,
   `NoMatchWaiting` is violated.
9. FlashStore gives up more than item 1 of its promise. Each of these is a step that
   spoils an object in the model, or a weaker property than one would like:
   * `doAbort` erases an old version before it commits the copy (`Stores/FlashStore.cc:2948`).
     A power failure between the two writes leaves neither, and if the record is acted on again,
     the copy in state 8 is erased as a half-written one.
   * The deletion of a committed object is not tracked (`:722`). A commit that goes by
     the tracker leaves the object in state 14: it cannot be read, but the next abort or
     repair that meets it brings it back.
   * A failing call leaves its half-written copy with a link to it. It locks the
     tracker, so that the commit of its own transaction visits everything, but that does
     nothing about a copy in state 8 or 9. When a later transaction changes the object again,
     a commit by the tracker asks for one version of it (`FlashIterator.cc:418`) and may find
     that copy in place of the one to settle.
   * `newObject` that fails in its first write leaves the object created and untracked
     (`:1883`); nobody has its id.
10. An environment or domain is never deleted (`ObjectScavenger` has no function for it)
    and outlives its owner as its own owner: with `KeptOwners` holding a task that can
    end, `IsSet` is violated. So is `WalkInChain`: `CObjectTable::scavenge` goes on from a
    dead object that is kept without moving `fPrevObj` (`OS/KernelObjects.cc:993`), and
    the next deletion in the chain unlinks from the wrong object.
11. A receiver that collects a message reports it done with signature 0
    (`OS/UserPorts.cc:228`). When the message is another task's, or an interrupt's, and has been sent again
    meanwhile, the new send, which waits in its queue with signature 0, is completed with
    noErr: with a collector port that another task reads, `TokenAnswersItsSend` is
    violated in six steps. In the runs, and in the theorem, each task collects its own
    messages (`CollectedAtHome`).

Met while reading, not expressible or without effect in the models:

* `ObjectSuspend` suspends nothing: it refuses every task without the state bit 0x08
  (`OS/KernelObjects.cc:690`), which no code sets; and `CUTask::suspend` has no caller.
* `ObjectStart` schedules a task without asking whether it has been started
  (`OS/KernelObjects.cc:667`). Its four callers start a task they have just made
  (`OS/UserTasks.cc:198`, `OS/NewtWorld.cc:465`, `OS/Boot.cc:945`, `Graphics/Screen.cc:553`),
  and so does the model.
* A domain whose `init` fails stays in the object table, although `remove` is called for it
  (`OS/KernelObjects.cc:532`): there is no function to delete a domain (item 10).
* `CULockingSemaphore::acquire` has its loop commented out (`OS/Semaphore.cc:249`), so
  the heap, the ring buffer and the application mutex exclude nobody.
* `GetObjectContent` leaves the scheduler held on an error path
  (`OS/KernelObjects.cc:758`).
* `~CTask` does not take a task out of the queue of a semaphore (`OS/KernelTasks.cc:379`).
* `GiveObject` refuses every task that exists (`OS/KernelTasks.cc:138`); it has no caller.
* `CheckCopyTask` cancels the copies whose memory is alive (`OS/KernelObjects.cc:868`).
* `newId` looks for a collision only for physical pages (`OS/KernelObjects.cc:1110`).
* `MonitorDispatchKernelGlue` drops the error of `acquire` (`OS/KernelMonitor.cc:398`).
* `CPort::reset` of a port that collects its own messages does not end
  (`OS/KernelPorts.cc:89`), and a peek takes the message away (`:243`).
* `primRawSetAlarm` never arms a first alarm (`OS/Timers.cc:870`).
* On the host `EnterAtomic` does not keep the timer's thread out of `CTimerEngine`.
* `clearSeparateTransaction` writes the header back unchanged
  (`Stores/StoreObjRef.cc:257`).
* In `UtilityClasses/CircleBuf.cc`, `getBytes` finds the buffer full only after it has
  written, `copyOut` to memory uses an uninitialised count, and `reset` keeps markers.

## 9. What is not modelled

* Within the modelled components: register save and restore, accounting of time
  and memory, object permissions, the copy of message contents between address
  spaces (`SMemCopyTo/FromKernelGlue`; the copy loop can be interrupted by a
  restart of the SWI and has its own queue `gCopyTasks`), FIQ as distinct from
  IRQ, the wrap of the 32-bit sequence number, messages shared by several tasks.
* Interrupts stay enabled or pending in `TaskSwitch`, and time is abstract in `Ports`:
  any set alarm may fire, in any order. `TimerEngine` has both, with the messages
  reduced to their timers; the two are not composed, since Ports allows more orders
  than the engine does. `TimeoutsEnd` is a property of the code above a timer that
  works.
* Monitors: the reboot protection (nobody asks for a safe reboot), fault monitors (their
  flag is never set in this build), the error returned to the caller.
* Object table: requests that read or set the contents of objects, the wrap of ids,
  several tasks that name one heir (the first of them is then not unhooked when the
  heir dies, and keeps naming it), the second table for pages.
* Flash store: errors inside `doCommit` and `doAbort`, flash blocks, directory buckets and the log with the garbage collection
  that compacts them, separate transactions, the SRAM variant, which changes objects in
  place, and the lookup cache.
* `CircleBuf` and the communication tools over it: several of its operations cannot work
  as they stand (section 8), and the tools that use it are marked as incomplete in
  the source.
* The other components of section 1, for the reasons in `PROJECT.json`: most are
  sequential code over data, stubs for absent hardware, or left for the plan.

## 10. The plan

Done: the scheduler, semaphores with their clients, ports with
timers and deferrals, the timer engine over its linked queues, monitors and the object
table with the object manager, the transactions of the flash store, each with its proofs. Next:

1. Flash blocks: log entries, compaction, and their recovery, below FlashStore's slots.
2. Separate transactions in FlashStore.
3. The destruction of a task that waits in a semaphore, by composing KernelSemaphore
   with ObjectTable.
4. `CircleBuf`'s working operations against a queue.
