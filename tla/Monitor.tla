------------------------------ MODULE Monitor ------------------------------
(***************************************************************************)
(* Monitors (src/OS/KernelMonitor.cc) and the object manager, itself a     *)
(* monitor, that destroys tasks and monitors (src/OS/KernelObjects.cc).    *)
(*                                                                         *)
(* A monitor has a task of its own, which runs the monitor's procedure on  *)
(* behalf of one caller at a time; the caller is off the scheduler until   *)
(* the procedure exits.  Kernel calls are atomic; between them any task    *)
(* that is scheduled may be the next to run.  Fault monitors, the reboot   *)
(* protection (nobody asks for a safe reboot) and the creation of objects  *)
(* are left out; a monitor and its task are one object here.               *)
(***************************************************************************)
EXTENDS Naturals, Sequences, FiniteSets

CONSTANTS
  Task,              \* user tasks
  Monitors,          \* monitors the tasks use
  ObjectManager,     \* the monitor of the object manager
  None,
  Parent,            \* the task that accepted ownership of a task, or None
  Creator,           \* the task that created a monitor
  ScavengerDeletes   \* what the uninitialised scavenger of a busy object does

(* Tasks, monitors and the object manager are different objects. *)
ASSUME MonitorAssumption ==
  /\ Task \cap Monitors = {} /\ ObjectManager \notin Task \cup Monitors
  /\ None \notin Task \cup Monitors \cup {ObjectManager}
  /\ Parent \in [Task -> Task \cup {None}]
  /\ Creator \in [Monitors -> Task]
  /\ ScavengerDeletes \in BOOLEAN

Mon == Monitors \cup {ObjectManager}
Agent == Task \cup Mon        \* whatever the scheduler runs

VARIABLES
  k,     \* the kernel's data
  pass   \* objects another owns that scavengeAll has not reached

vars == <<k, pass>>

InitialKernel ==
  [alive     |-> Agent,                              \* objects in the table
   owner     |-> [x \in Agent |->
                    IF x \in Monitors THEN Creator[x]
                    ELSE IF x \in Task /\ Parent[x] # None THEN Parent[x] ELSE x],
   run       |-> Task,                               \* scheduled agents
   queue     |-> [m \in Mon |-> <<>>],               \* fQueue
   count     |-> [m \in Mon |-> 0],                  \* fQueueCount
   caller    |-> [m \in Mon |-> None],               \* fCaller
   suspended |-> [m \in Mon |-> {}],                 \* fSuspended, its bits 1 and 2
   inside    |-> [a \in Agent |-> None],             \* CTask::fMonitor
   die       |-> {},                                 \* tasks with fState 0x00400000
   dead      |-> {},                                 \* tasks with fState 0x00000002
   request   |-> [a \in Agent |-> [sel |-> "none", obj |-> None]],
   pc        |-> [a \in Agent |-> IF a \in Task THEN "user" ELSE "idle"],
   deferred  |-> None,                               \* fDeferredId
   destroyed |-> FALSE]                              \* gTaskDestroyed

Elements(q) == {q[i] : i \in DOMAIN q}
Busy(s, m) == s.caller[m] # None
-----------------------------------------------------------------------------
(* CMonitor. *)

\* mutant: the tasks that leave the queue are still counted
SuspendUncounted(s, m, bit) ==
  LET t == [s EXCEPT !.suspended[m] = @ \cup {bit}]
  IN  IF Busy(s, m) THEN [t EXCEPT !.queue[m] = <<>>, !.run = @ \cup Elements(s.queue[m])] ELSE t

(* All waiting tasks are told that there is no such monitor; answers with    *)
(* the monitor in use are not final.                                         *)
Suspend(s, m, bit) ==
  LET t == [s EXCEPT !.suspended[m] = @ \cup {bit}]
  IN  IF Busy(s, m)
      THEN [t EXCEPT !.queue[m] = <<>>,
                     !.run = @ \cup Elements(s.queue[m]),
                     !.count[m] = @ - Len(s.queue[m])]
      ELSE t

(* Refuses a task that wants to suspend the monitor. *)
Refuses(s, a) == s.request[a].sel = "suspend"
SetUpEntry(s, m, a) ==
  IF Refuses(s, a)
  THEN [s EXCEPT !.count[m] = @ - 1]
  ELSE [s EXCEPT !.caller[m] = a, !.inside[a] = m, !.pc[m] = "proc", !.run = @ \cup {m}]

Acquire(s, m, a) ==
  LET suspends == s.request[a].sel = "suspend"
      t == IF suspends THEN Suspend(s, m, 2) ELSE s
      u == [t EXCEPT !.run = @ \ {a}, !.count[m] = @ + 1]
      v == SetUpEntry(u, m, a)
  IN  CASE s.suspended[m] # {} \/ (suspends /\ s.owner[m] # s.owner[a]) -> s
        [] OTHER -> IF u.count[m] # 1 THEN [u EXCEPT !.queue[m] = Append(@, a)]
                    ELSE IF Refuses(u, a) THEN [v EXCEPT !.run = @ \cup {a}] ELSE v

\* mutant: the next task in the queue is not set up
ReleaseServesNobody(s, m) ==
  LET c == s.caller[m]
  IN  [s EXCEPT !.run = (@ \ {m}) \cup (IF c \in s.die \cup s.dead THEN {} ELSE {c}),
                !.inside[c] = None, !.count[m] = @ - 1, !.caller[m] = None, !.pc[m] = "idle"]

(* A caller that is to die is not scheduled again; the next task in the      *)
(* queue enters, and if it is refused nobody does.                           *)
Release(s, m) ==
  LET c == s.caller[m]
      t == [s EXCEPT !.run = (@ \ {m}) \cup (IF c \in s.die \cup s.dead THEN {} ELSE {c}),
                     !.inside[c] = None,
                     !.count[m] = @ - 1,
                     !.caller[m] = None,
                     !.pc[m] = "idle"]
  IN  IF 1 \in s.suspended[m] \/ s.queue[m] = <<>>
      THEN t
      ELSE SetUpEntry([t EXCEPT !.queue[m] = Tail(@)], m, Head(s.queue[m]))

(* MonitorDispatchSWI: the error of acquire is not passed on. *)
Dispatch(s, a, m, sel, obj) ==
  LET t == [s EXCEPT !.request[a] = [sel |-> sel, obj |-> obj]]
  IN  IF m \in s.alive THEN Acquire(t, m, a) ELSE t

\* mutant: only one of the waiting tasks is scheduled
FlushLast(s, m) ==
  [s EXCEPT !.queue[m] = <<>>,
            !.count[m] = @ - Len(s.queue[m]),
            !.run = @ \cup {s.queue[m][Len(s.queue[m])]}]

FlushTasksOnMonitor(s, m) ==
  [s EXCEPT !.queue[m] = <<>>,
            !.count[m] = @ - Len(s.queue[m]),
            !.run = @ \cup Elements(s.queue[m])]
-----------------------------------------------------------------------------
(* Deletion of an object that the scavenger has chosen. *)

\* mutant: the task stays in the queue of a monitor
DeleteTaskInQueue(s, t) ==
  [s EXCEPT !.run = @ \ {t}, !.alive = @ \ {t}, !.destroyed = TRUE]

(* removeFromQueue: q without a, which is in it once at most. *)
Without(q, a) ==
  LET at == CHOOSE i \in DOMAIN q : q[i] = a
  IN  IF a \in Elements(q)
      THEN [j \in 1 .. Len(q) - 1 |-> IF j < at THEN q[j] ELSE q[j + 1]]
      ELSE q

(* ~CTask leaves the queue it waits in, and deleteTaskOnMonitorQ counts. *)
DeleteTask(s, t) ==
  LET waits == {m \in Mon : t \in Elements(s.queue[m])}
  IN  [s EXCEPT !.queue = [m \in Mon |-> Without(s.queue[m], t)],
                !.count = [m \in Mon |-> IF m \in waits THEN s.count[m] - 1 ELSE s.count[m]],
                !.run = @ \ {t},
                !.alive = @ \ {t},
                !.destroyed = TRUE]

(* ~CMonitor removes the monitor's task as well. *)
DeleteMonitor(s, m) == [s EXCEPT !.alive = @ \ {m}, !.run = @ \ {m}, !.destroyed = TRUE]

(* ObjectScavenger and CObjectTable::remove.  An object in use is marked,    *)
(* and the scavenger that the table then calls was never set.                *)
Remove(s, x) ==
  LET t == [s EXCEPT !.owner[x] = x]
      u == IF x \in Task /\ s.inside[x] # None THEN [t EXCEPT !.die = @ \cup {x}] ELSE t
      v == IF x \in Mon THEN Suspend(t, x, 1) ELSE u
      free == IF x \in Mon THEN ~Busy(s, x) ELSE s.inside[x] = None
  IN  IF free \/ ScavengerDeletes
      THEN IF x \in Mon THEN DeleteMonitor(v, x) ELSE DeleteTask(v, x)
      ELSE v
-----------------------------------------------------------------------------
(* User tasks. *)

Runs(a, pc) == a \in k.run /\ k.pc[a] = pc

CallMonitor(t, m) ==
  /\ Runs(t, "user")
  /\ k' = Dispatch(k, t, m, "work", None)
  /\ UNCHANGED pass

(* CUMonitor::destroyObject: suspend the monitor, then have it removed. *)
CloseMonitor(t, m) ==
  /\ Runs(t, "user") /\ Creator[m] = t
  /\ k' = [Dispatch(k, t, m, "suspend", m) EXCEPT !.pc[t] = "close"]
  /\ UNCHANGED pass

DestroyMonitor(t) ==
  /\ Runs(t, "close")
  /\ k' = [Dispatch(k, t, ObjectManager, "destroy", k.request[t].obj) EXCEPT !.pc[t] = "user"]
  /\ UNCHANGED pass

DestroyChild(t, c) ==
  /\ Runs(t, "user") /\ Parent[c] = t
  /\ k' = Dispatch(k, t, ObjectManager, "destroy", c)
  /\ UNCHANGED pass

TaskKillSelf(t) ==
  /\ Runs(t, "user")
  /\ k' = Dispatch(k, t, ObjectManager, "kill", None)
  /\ UNCHANGED pass
-----------------------------------------------------------------------------
(* The procedures of the monitors.  One may ask the object manager for       *)
(* something, or wave the waiting tasks through.                             *)

AskObjectManager(m) ==
  /\ m \in Monitors /\ Runs(m, "proc")
  /\ k' = [Dispatch(k, m, ObjectManager, "other", None) EXCEPT !.pc[m] = "asked"]
  /\ UNCHANGED pass

Flush(m) ==
  /\ m \in Monitors /\ Runs(m, "proc") /\ k.queue[m] # <<>>
  /\ k' = FlushTasksOnMonitor(k, m)
  /\ UNCHANGED pass

(* The SWI finds the monitor by its id. *)
Exit(m) ==
  /\ m \in Monitors /\ k.pc[m] \in {"proc", "asked"} /\ m \in k.run
  /\ k' = IF m \in k.alive THEN Release(k, m) ELSE k
  /\ UNCHANGED pass
-----------------------------------------------------------------------------
(* CObjectManager::monitorProc. *)

\* mutant: the deferred task is forgotten
RemoveDeferredNever ==
  /\ Runs(ObjectManager, "proc")
  /\ k' = [k EXCEPT !.deferred = None, !.pc[ObjectManager] = "request"]
  /\ UNCHANGED pass

RemoveDeferred ==
  /\ Runs(ObjectManager, "proc")
  /\ LET s == IF k.deferred = None THEN k
              ELSE IF k.deferred \in k.alive THEN Remove(k, k.deferred) ELSE k
     IN  k' = [s EXCEPT !.deferred = None, !.pc[ObjectManager] = "request"]
  /\ UNCHANGED pass

(* A task that kills itself is destroyed by the next request; one that       *)
(* destroys an object must own it.                                           *)
HandleRequest ==
  /\ Runs(ObjectManager, "request")
  /\ LET c == k.caller[ObjectManager]
         r == k.request[c]
         mayDestroy == r.obj \in k.alive /\ k.owner[r.obj] = c
     IN  k' = CASE r.sel = "kill" ->
                     [k EXCEPT !.dead = @ \cup {c}, !.deferred = c, !.pc[ObjectManager] = "done"]
                [] r.sel = "destroy" /\ mayDestroy ->
                     [Remove(k, r.obj) EXCEPT !.pc[ObjectManager] = "handled"]
                [] OTHER -> [k EXCEPT !.pc[ObjectManager] = "handled"]
  /\ UNCHANGED pass

StartScavenging ==
  /\ Runs(ObjectManager, "handled")
  /\ k' = [k EXCEPT !.destroyed = FALSE,
                    !.pc[ObjectManager] = IF k.destroyed THEN "scavenge" ELSE "done"]
  /\ pass' = IF k.destroyed THEN {x \in k.alive : k.owner[x] # x} ELSE {}

Orphan(x) == k.owner[x] # x /\ k.owner[x] \notin k.alive

Scavenge(x) ==
  /\ Runs(ObjectManager, "scavenge") /\ x \in pass
  /\ pass' = pass \ {x}
  /\ k' = IF x \in k.alive /\ Orphan(x) THEN Remove(k, x) ELSE k

Done ==
  /\ \/ Runs(ObjectManager, "done")
     \/ Runs(ObjectManager, "scavenge") /\ pass = {}
  /\ k' = Release(k, ObjectManager)
  /\ UNCHANGED pass
-----------------------------------------------------------------------------
Init == k = InitialKernel /\ pass = {}

Request(t) ==
  \/ \E m \in Monitors : CallMonitor(t, m) \/ CloseMonitor(t, m)
  \/ \E c \in Task : DestroyChild(t, c)
  \/ TaskKillSelf(t)

(* What the task of a monitor does next. *)
Proc(m) ==
  \/ AskObjectManager(m) \/ Flush(m) \/ Exit(m)
  \/ m = ObjectManager /\ (RemoveDeferred \/ HandleRequest \/ StartScavenging \/ Done
                             \/ \E x \in Agent : Scavenge(x))

Next ==
  \/ \E t \in Task : Request(t) \/ DestroyMonitor(t)
  \/ \E m \in Mon : Proc(m)

(* Tasks of higher priority leave the processor now and then, so that the    *)
(* procedures go on, and no procedure runs for ever.                         *)
Spec == Init /\ [][Next]_vars /\ \A m \in Mon : WF_vars(Proc(m)) /\ SF_vars(Exit(m))
-----------------------------------------------------------------------------
(* Properties. *)

Waits(a, m) == a \in Elements(k.queue[m]) \/ k.caller[m] = a

(* Whatever tasks and monitors are destroyed meanwhile (acquire, release,    *)
(* suspend, ~CTask), an agent is scheduled, or waits once in one monitor, or *)
(* neither; nothing that waits or is scheduled has been destroyed; and a     *)
(* procedure runs for one caller, which knows the monitor it is inside, by   *)
(* which ObjectScavenger decides whether a task may be deleted.              *)
OnePlace ==
  /\ k.run \subseteq k.alive
  /\ \A m \in Mon :
       /\ Elements(k.queue[m]) \cup ({k.caller[m]} \ {None}) \subseteq k.alive
       /\ Cardinality(Elements(k.queue[m])) = Len(k.queue[m])
       /\ k.caller[m] \notin Elements(k.queue[m])
  /\ \A a \in Agent, m, n \in Mon :
       Waits(a, m) => a \notin k.run /\ (Waits(a, n) => m = n)
  /\ \A a \in Agent, m \in Mon : k.caller[m] = a <=> k.inside[a] = m
  /\ \A m \in Mon : k.pc[m] # "idle" <=> Busy(k, m)

(* fQueueCount, by which acquire decides whether the monitor is free, counts *)
(* the caller and the queue through refusals, suspensions and deletions.     *)
CountExact == \A m \in Mon : k.count[m] = Len(k.queue[m]) + (IF Busy(k, m) THEN 1 ELSE 0)

(* A live task that is nowhere has ended, or was told to die inside a        *)
(* monitor, or asked to suspend a monitor in use; nothing else gets lost     *)
(* (acquire, release, flushTasksOnMonitor, deleteTaskOnMonitorQ).            *)
Accounted ==
  \A t \in Task \cap k.alive :
    \/ t \in k.run \cup k.dead \cup k.die
    \/ \E m \in Mon : Waits(t, m)
    \/ k.request[t].sel = "suspend"

(* A task that has killed itself never runs again, and until the next        *)
(* request destroys it the object manager remembers it (fDeferredId).        *)
DeadIsDeferred ==
  \A t \in k.dead \cap k.alive :
    t \notin k.run /\ (k.deferred = t \/ k.inside[t] = ObjectManager)

(* Every task that waits in a monitor gets out of it (acquire, release). *)
WaitsEnd == \A t \in Task : (\E m \in Mon : Waits(t, m)) ~> \A m \in Mon : ~Waits(t, m)

(* release and suspend lose no task: what is alive is scheduled or waits,    *)
(* unless it is to die.                                                      *)
NoTaskLost ==
  \A t \in (Task \cap k.alive) \ (k.dead \cup k.die) : t \in k.run \/ \E m \in Mon : Waits(t, m)
=============================================================================
