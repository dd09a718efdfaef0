---------------------------- MODULE MonitorProofs ----------------------------
(***************************************************************************)
(* Proofs about Monitor, for every set of tasks and monitors: where each   *)
(* agent is, the count of each queue, who may be nowhere, and what becomes *)
(* of a task that kills itself.  The scavenger that ObjectScavenger leaves *)
(* unset for an object in use is supposed to delete nothing, as in the     *)
(* runs.                                                                   *)
(*                                                                         *)
(* The operators of Monitor go from record to record, so the invariant is  *)
(* a predicate of a record, and there is a lemma per operator.             *)
(***************************************************************************)
EXTENDS Monitor, Integers, FiniteSetTheorems, TLAPS

USE MonitorAssumption

Sel == {"none", "work", "suspend", "destroy", "kill", "other"}
Pc == {"user", "close", "idle", "proc", "asked", "request", "handled", "scavenge", "done"}

KernelType ==
  [alive     : SUBSET Agent,
   owner     : [Agent -> Agent],
   run       : SUBSET Agent,
   queue     : [Mon -> Seq(Agent)],
   count     : [Mon -> Int],
   caller    : [Mon -> Agent \cup {None}],
   suspended : [Mon -> SUBSET {1, 2}],
   inside    : [Agent -> Mon \cup {None}],
   die       : SUBSET Task,
   dead      : SUBSET Task,
   request   : [Agent -> [sel : Sel, obj : Agent \cup {None}]],
   pc        : [Agent -> Pc],
   deferred  : Task \cup {None},
   destroyed : BOOLEAN]

At(s, m, i) == s.queue[m][i]
Places(s, m) == 1 .. Len(s.queue[m])

(* Who waits in a queue is alive, not scheduled, inside no monitor, and      *)
(* nowhere else in a queue.                                                  *)
QueuesOK(s) ==
  /\ \A m \in Mon : \A i \in Places(s, m) :
       At(s, m, i) \in s.alive \ s.run /\ s.inside[At(s, m, i)] = None
  /\ \A m, n \in Mon : \A i \in Places(s, m), j \in Places(s, n) :
       At(s, m, i) = At(s, n, j) => m = n /\ i = j

(* Callers and the monitors they are inside agree. *)
CallersOK(s) ==
  /\ s.run \subseteq s.alive
  /\ \A m \in Mon : s.caller[m] # None =>
       s.caller[m] \in s.alive \ s.run /\ s.inside[s.caller[m]] = m
  /\ \A a \in Agent : s.inside[a] # None => s.caller[s.inside[a]] = a

(* A monitor that serves nobody has an empty queue, and is neither scheduled *)
(* nor waits for the object manager.                                         *)
IdleOK(s) ==
  \A m \in Mon :
    /\ s.pc[m] # "idle" <=> s.caller[m] # None
    /\ s.caller[m] = None =>
         /\ s.queue[m] = <<>> /\ m \notin s.run /\ s.inside[m] = None
         /\ \A n \in Mon : \A i \in Places(s, n) : At(s, n, i) # m

(* Behind a monitor that is to be deleted nobody waits, and a task that      *)
(* wants to suspend one waits alone: release, which would refuse it, forgets *)
(* nobody behind it.                                                         *)
SuspensionOK(s) ==
  \A m \in Mon :
    /\ 1 \in s.suspended[m] => s.queue[m] = <<>>
    /\ \A i \in Places(s, m) :
         s.request[At(s, m, i)].sel = "suspend" => s.suspended[m] # {} /\ Len(s.queue[m]) = 1

CountOK(s) ==
  \A m \in Mon : s.count[m] = Len(s.queue[m]) + (IF s.caller[m] # None THEN 1 ELSE 0)

(* Only the task that is to be destroyed next has killed itself and is still *)
(* there; it is nowhere, or the object manager is done with its request.     *)
DeadOK(s) ==
  /\ \A t \in s.dead \cap s.alive :
       /\ t \notin s.run /\ s.deferred = t /\ s.inside[t] \in {None, ObjectManager}
       /\ \A m \in Mon : \A i \in Places(s, m) : At(s, m, i) # t
  /\ s.caller[ObjectManager] \in s.dead => s.pc[ObjectManager] = "done"
  /\ s.pc[ObjectManager] \in {"request", "handled", "scavenge"} => s.deferred = None
  /\ s.deferred # None => s.deferred \in s.dead

AccountOK(s) ==
  \A t \in Task \cap s.alive :
    \/ t \in s.run \cup s.dead \cup s.die
    \/ s.inside[t] # None
    \/ \E m \in Mon : \E i \in Places(s, m) : At(s, m, i) = t
    \/ s.request[t].sel = "suspend"

(* No monitor asks to be killed. *)
SendersOK(s) == \A m \in Mon : s.request[m].sel # "kill"

Good(s) ==
  /\ s \in KernelType
  /\ QueuesOK(s) /\ CallersOK(s) /\ IdleOK(s) /\ SuspensionOK(s)
  /\ CountOK(s) /\ DeadOK(s) /\ AccountOK(s) /\ SendersOK(s)

IInv == Good(k)

-----------------------------------------------------------------------------
(* Types.                                                                  *)

\* Tasks and monitors are agents, of two kinds, and None is neither.
LEMMA Agents ==
  /\ None \notin Agent /\ Mon \subseteq Agent /\ Task \subseteq Agent
  /\ Task \cap Mon = {} /\ ObjectManager \in Mon \ Monitors
  /\ Monitors \subseteq Mon
BY DEF Agent, Mon

\* The types of the fields of a record.
LEMMA KernelFields ==
  ASSUME NEW s \in KernelType
  PROVE  /\ s.alive \subseteq Agent /\ s.run \subseteq Agent
         /\ s.owner \in [Agent -> Agent] /\ s.inside \in [Agent -> Mon \cup {None}]
         /\ s.queue \in [Mon -> Seq(Agent)] /\ s.count \in [Mon -> Int]
         /\ s.caller \in [Mon -> Agent \cup {None}]
         /\ s.suspended \in [Mon -> SUBSET {1, 2}]
         /\ s.die \subseteq Task /\ s.dead \subseteq Task
         /\ s.request \in [Agent -> [sel : Sel, obj : Agent \cup {None}]]
         /\ s.pc \in [Agent -> Pc]
         /\ s.deferred \in Task \cup {None} /\ s.destroyed \in BOOLEAN
BY DEF KernelType

Names == {"alive", "owner", "run", "queue", "count", "caller", "suspended", "inside",
          "die", "dead", "request", "pc", "deferred", "destroyed"}
KernelRecord(s) == s = [n \in Names |-> s[n]]

\* Records whose fields agree are one record.
LEMMA SameKernel ==
  ASSUME NEW s, NEW t, KernelRecord(s), KernelRecord(t),
         s.alive = t.alive, s.owner = t.owner, s.run = t.run, s.queue = t.queue,
         s.count = t.count, s.caller = t.caller, s.suspended = t.suspended,
         s.inside = t.inside, s.die = t.die, s.dead = t.dead, s.request = t.request,
         s.pc = t.pc, s.deferred = t.deferred, s.destroyed = t.destroyed
  PROVE  s = t
<1>1. \A n \in Names : s[n] = t[n]
  BY DEF Names
<1>2. QED
  BY <1>1 DEF KernelRecord

\* The only queue of length zero.
LEMMA EmptyQueue ==
  ASSUME NEW q \in Seq(Agent), Len(q) = 0
  PROVE  q = <<>>
OBVIOUS

\* Lengths are numbers, and who is in a queue is an agent.
LEMMA QueueTypes ==
  ASSUME NEW s \in KernelType, NEW m \in Mon
  PROVE  /\ s.queue[m] \in Seq(Agent) /\ Len(s.queue[m]) \in Nat
         /\ s.count[m] \in Int
         /\ Places(s, m) \subseteq Nat \ {0}
         /\ \A i \in Places(s, m) : At(s, m, i) \in Agent
         /\ s.queue[m] = <<>> <=> Len(s.queue[m]) = 0
         /\ \A a : a \in Elements(s.queue[m]) <=> \E i \in Places(s, m) : At(s, m, i) = a
         /\ Elements(s.queue[m]) \subseteq Agent
<1>1. s.queue[m] \in Seq(Agent) /\ s.count[m] \in Int
  BY KernelFields
<1>2. QED
  BY <1>1 DEF Places, At, Elements

-----------------------------------------------------------------------------
(* suspend and flushTasksOnMonitor.                                        *)

\* What emptying the queue of m leaves.
LEMMA FlushFields ==
  ASSUME NEW s \in KernelType, NEW m \in Mon
  PROVE  LET t == FlushTasksOnMonitor(s, m) IN
         /\ t \in KernelType
         /\ t.queue = [s.queue EXCEPT ![m] = <<>>]
         /\ t.count = [s.count EXCEPT ![m] = @ - Len(s.queue[m])]
         /\ t.run = s.run \cup Elements(s.queue[m])
         /\ t.alive = s.alive /\ t.owner = s.owner /\ t.caller = s.caller
         /\ t.suspended = s.suspended /\ t.inside = s.inside /\ t.die = s.die
         /\ t.dead = s.dead /\ t.request = s.request /\ t.pc = s.pc
         /\ t.deferred = s.deferred
<1>1. /\ [s.queue EXCEPT ![m] = <<>>] \in [Mon -> Seq(Agent)]
      /\ [s.count EXCEPT ![m] = @ - Len(s.queue[m])] \in [Mon -> Int]
      /\ s.run \cup Elements(s.queue[m]) \subseteq Agent
  BY KernelFields, QueueTypes
<1> DEFINE t == FlushTasksOnMonitor(s, m)
<1>2. /\ t.queue = [s.queue EXCEPT ![m] = <<>>]
      /\ t.count = [s.count EXCEPT ![m] = @ - Len(s.queue[m])]
      /\ t.run = s.run \cup Elements(s.queue[m])
      /\ t.alive = s.alive /\ t.owner = s.owner /\ t.caller = s.caller
      /\ t.suspended = s.suspended /\ t.inside = s.inside /\ t.die = s.die
      /\ t.dead = s.dead /\ t.request = s.request /\ t.pc = s.pc
      /\ t.deferred = s.deferred
  BY DEF FlushTasksOnMonitor, KernelType
<1>3. t \in KernelType
  BY <1>1 DEF FlushTasksOnMonitor, KernelType
<1>4. QED
  BY <1>2, <1>3

\* Waving the waiting tasks through (flushTasksOnMonitor) keeps the invariant.
LEMMA FlushGood ==
  ASSUME NEW s, Good(s), NEW m \in Mon
  PROVE  Good(FlushTasksOnMonitor(s, m))
<1> DEFINE t == FlushTasksOnMonitor(s, m)
<1>1. s \in KernelType
  BY DEF Good
<1>2. /\ t \in KernelType
      /\ t.queue = [s.queue EXCEPT ![m] = <<>>]
      /\ t.count = [s.count EXCEPT ![m] = @ - Len(s.queue[m])]
      /\ t.run = s.run \cup Elements(s.queue[m])
      /\ t.alive = s.alive /\ t.owner = s.owner /\ t.caller = s.caller
      /\ t.suspended = s.suspended /\ t.inside = s.inside /\ t.die = s.die
      /\ t.dead = s.dead /\ t.request = s.request /\ t.pc = s.pc
      /\ t.deferred = s.deferred
  BY <1>1, FlushFields
<1> HIDE DEF t
<1>3. \A a : a \in Elements(s.queue[m]) <=> \E i \in Places(s, m) : At(s, m, i) = a
  BY <1>1, QueueTypes
<1>4. /\ \A n \in Mon : Places(t, n) = IF n = m THEN {} ELSE Places(s, n)
      /\ \A n \in Mon : n # m => t.queue[n] = s.queue[n]
      /\ t.queue[m] = <<>>
      /\ \A n \in Mon : \A i \in Places(t, n) : n # m /\ i \in Places(s, n) /\ At(t, n, i) = At(s, n, i)
  BY <1>1, <1>2, KernelFields DEF Places, At
<1>5. QueuesOK(t)
  BY <1>2, <1>3, <1>4 DEF Good, QueuesOK
<1>6. CallersOK(t)
  BY <1>1, <1>2, <1>3, KernelFields, Agents DEF Good, QueuesOK, CallersOK
<1>7. IdleOK(t)
  BY <1>2, <1>3, <1>4 DEF Good, IdleOK
<1>8. SuspensionOK(t)
  BY <1>2, <1>4 DEF Good, SuspensionOK
<1>9. CountOK(t)
  <2> SUFFICES ASSUME NEW n \in Mon
               PROVE  t.count[n] = Len(t.queue[n]) + (IF t.caller[n] # None THEN 1 ELSE 0)
    BY DEF CountOK
  <2>1. s.count[n] = Len(s.queue[n]) + (IF s.caller[n] # None THEN 1 ELSE 0)
    BY DEF Good, CountOK
  <2>2. Len(s.queue[n]) \in Nat
    BY <1>1, QueueTypes
  <2>3. t.caller[n] = s.caller[n]
    BY <1>2
  <2>4. CASE n = m
    <3>1. t.count[n] = s.count[n] - Len(s.queue[n]) /\ Len(t.queue[n]) = 0
      BY <1>1, <1>2, <1>4, <2>4, KernelFields
    <3>2. QED
      BY <2>1, <2>2, <2>3, <3>1
  <2>5. CASE n # m
    <3>1. t.count[n] = s.count[n] /\ t.queue[n] = s.queue[n]
      BY <1>1, <1>2, <1>4, <2>5, KernelFields
    <3>2. QED
      BY <2>1, <2>3, <3>1
  <2>6. QED
    BY <2>4, <2>5
<1>10. DeadOK(t)
  BY <1>2, <1>3, <1>4 DEF Good, DeadOK
<1>11. AccountOK(t)
  BY <1>2, <1>3, <1>4 DEF Good, AccountOK
<1>12. SendersOK(t)
  BY <1>2 DEF Good, SendersOK
<1>13. QED
  BY <1>2, <1>5, <1>6, <1>7, <1>8, <1>9, <1>10, <1>11, <1>12 DEF Good, t

Marked(s, m, bit) == [s EXCEPT !.suspended[m] = @ \cup {bit}]

\* Marking a monitor as suspended, when its queue is empty.
LEMMA MarkGood ==
  ASSUME NEW s, Good(s), NEW m \in Mon, NEW bit \in {1, 2}, s.queue[m] = <<>>
  PROVE  Good(Marked(s, m, bit))
<1> DEFINE t == Marked(s, m, bit)
<1>1. s \in KernelType
  BY DEF Good
<1>2. [s.suspended EXCEPT ![m] = @ \cup {bit}] \in [Mon -> SUBSET {1, 2}]
  BY <1>1, KernelFields
<1>3. t \in KernelType
  BY <1>1, <1>2 DEF KernelType, Marked
<1>4. /\ t.suspended = [s.suspended EXCEPT ![m] = @ \cup {bit}]
      /\ t.alive = s.alive /\ t.run = s.run /\ t.queue = s.queue /\ t.count = s.count
      /\ t.caller = s.caller /\ t.inside = s.inside /\ t.die = s.die /\ t.dead = s.dead
      /\ t.request = s.request /\ t.pc = s.pc /\ t.deferred = s.deferred
  BY <1>1 DEF KernelType, Marked
<1> HIDE DEF t
<1>5. SuspensionOK(t)
  <2>1. \A n \in Mon \ {m} : t.suspended[n] = s.suspended[n]
    BY <1>1, <1>4, KernelFields
  <2>2. Places(s, m) = {}
    BY DEF Places
  <2>3. QED
    BY <1>4, <2>1, <2>2 DEF Good, SuspensionOK, Places, At
<1>6. QueuesOK(t)
  BY <1>4 DEF Good, QueuesOK, Places, At
<1>7. CallersOK(t)
  BY <1>4 DEF Good, CallersOK
<1>8. IdleOK(t)
  BY <1>4 DEF Good, IdleOK, Places, At
<1>9. CountOK(t)
  BY ZenonT(40), <1>4 DEF Good, CountOK
<1>10. DeadOK(t)
  BY <1>4 DEF Good, DeadOK, Places, At
<1>11. AccountOK(t)
  BY <1>4 DEF Good, AccountOK, Places, At
<1>12. SendersOK(t)
  BY <1>4 DEF Good, SendersOK
<1>13. QED
  BY <1>3, <1>5, <1>6, <1>7, <1>8, <1>9, <1>10, <1>11, <1>12 DEF Good, t

\* suspend of a monitor, in use or not.
LEMMA SuspendGood ==
  ASSUME NEW s, Good(s), NEW m \in Mon, NEW bit \in {1, 2}
  PROVE  /\ Good(Suspend(s, m, bit))
         /\ s.run \subseteq Suspend(s, m, bit).run
         /\ Suspend(s, m, bit).request = s.request
         /\ Suspend(s, m, bit).owner = s.owner
         /\ Suspend(s, m, bit).alive = s.alive
         /\ Suspend(s, m, bit).inside = s.inside
         /\ Suspend(s, m, bit).caller = s.caller
         /\ Suspend(s, m, bit).pc = s.pc
         /\ Suspend(s, m, bit).deferred = s.deferred
         /\ Suspend(s, m, bit).dead = s.dead
         /\ Suspend(s, m, bit).suspended[m] # {}
         /\ Suspend(s, m, bit).queue[m] = <<>>
<1>1. s \in KernelType
  BY DEF Good
<1>2. CASE Busy(s, m)
  <2> DEFINE u == FlushTasksOnMonitor(s, m)
  <2>1. Good(u) /\ u \in KernelType
    BY FlushGood DEF Good
  <2>2. /\ u.queue[m] = <<>> /\ s.run \subseteq u.run /\ u.request = s.request /\ u.owner = s.owner
        /\ u.alive = s.alive /\ u.inside = s.inside /\ u.caller = s.caller /\ u.pc = s.pc
        /\ u.deferred = s.deferred /\ u.dead = s.dead
    <3>1. u.queue = [s.queue EXCEPT ![m] = <<>>]
      BY <1>1, FlushFields
    <3>2. u.queue[m] = <<>>
      BY <1>1, <3>1, KernelFields
    <3>3. u.run = s.run \cup Elements(s.queue[m])
      BY <1>1, FlushFields
    <3>4. QED
      BY ZenonT(40), <1>1, <3>2, <3>3, FlushFields
  <2>3. Suspend(s, m, bit) = Marked(u, m, bit)
    BY ZenonT(40), <1>1, <1>2 DEF Suspend, Marked, FlushTasksOnMonitor, KernelType
  <2> HIDE DEF u
  <2>4. Good(Suspend(s, m, bit))
    BY <2>1, <2>2, <2>3, MarkGood
  <2>5. bit \in Suspend(s, m, bit).suspended[m]
    BY <2>1, <2>3 DEF KernelType, Marked
  <2>6. QED
    BY <2>1, <2>2, <2>3, <2>4, <2>5 DEF KernelType, Marked
<1>3. CASE ~Busy(s, m)
  <2>1. s.queue[m] = <<>>
    BY <1>3 DEF Busy, Good, IdleOK
  <2>2. Suspend(s, m, bit) = Marked(s, m, bit)
    BY <1>3 DEF Suspend, Marked
  <2>3. bit \in Suspend(s, m, bit).suspended[m]
    BY <1>1, <2>2 DEF KernelType, Marked
  <2>4. Good(Suspend(s, m, bit))
    BY <2>1, <2>2, MarkGood
  <2>5. QED
    BY <1>1, <2>1, <2>2, <2>3, <2>4 DEF KernelType, Marked
<1>4. QED
  BY <1>2, <1>3

-----------------------------------------------------------------------------
(* Fields that say nothing of where an agent is.                           *)

\* What the agents do next, who is to die, and who owns what.
LEMMA StageGood ==
  ASSUME NEW s, Good(s), NEW t \in KernelType,
         t.alive = s.alive, t.run = s.run, t.queue = s.queue, t.count = s.count,
         t.caller = s.caller, t.suspended = s.suspended, t.inside = s.inside,
         s.die \subseteq t.die, s.dead \subseteq t.dead, t.request = s.request,
         \A m \in Mon : t.pc[m] = "idle" <=> s.pc[m] = "idle", DeadOK(t)
  PROVE  Good(t)
<1>1. QueuesOK(t)
  BY DEF Good, QueuesOK, Places, At
<1>2. CallersOK(t)
  BY DEF Good, CallersOK
<1>3. IdleOK(t)
  BY DEF Good, IdleOK, Places, At
<1>4. SuspensionOK(t)
  BY DEF Good, SuspensionOK, Places, At
<1>5. CountOK(t)
  BY DEF Good, CountOK
<1>6. AccountOK(t)
  BY DEF Good, AccountOK, Places, At
<1>7. SendersOK(t)
  BY DEF Good, SendersOK
<1>8. QED
  BY <1>1, <1>2, <1>3, <1>4, <1>5, <1>6, <1>7 DEF Good

\* The same, while the object manager goes on as it was.
LEMMA FrameGood ==
  ASSUME NEW s, Good(s), NEW t \in KernelType,
         t.alive = s.alive, t.run = s.run, t.queue = s.queue, t.count = s.count,
         t.caller = s.caller, t.suspended = s.suspended, t.inside = s.inside,
         s.die \subseteq t.die, t.dead = s.dead, t.request = s.request,
         \A m \in Mon : t.pc[m] = "idle" <=> s.pc[m] = "idle",
         t.pc[ObjectManager] = s.pc[ObjectManager], t.deferred = s.deferred
  PROVE  Good(t)
<1>1. DeadOK(t)
  BY DEF Good, DeadOK, Places, At
<1>2. QED
  BY <1>1, StageGood

\* What a scheduled agent asks for.
LEMMA RequestGood ==
  ASSUME NEW s, Good(s), NEW a \in s.run,
         NEW r \in [sel : Sel, obj : Agent \cup {None}], a \in Mon => r.sel # "kill"
  PROVE  Good([s EXCEPT !.request[a] = r])
<1> DEFINE t == [s EXCEPT !.request[a] = r]
<1>1. s \in KernelType
  BY DEF Good
<1>2. [s.request EXCEPT ![a] = r] \in [Agent -> [sel : Sel, obj : Agent \cup {None}]]
  BY <1>1, KernelFields
<1>3. t \in KernelType
  BY <1>1, <1>2 DEF KernelType
<1>4. /\ t.request = [s.request EXCEPT ![a] = r]
      /\ t.alive = s.alive /\ t.run = s.run /\ t.queue = s.queue /\ t.count = s.count
      /\ t.caller = s.caller /\ t.inside = s.inside /\ t.die = s.die /\ t.dead = s.dead
      /\ t.suspended = s.suspended /\ t.pc = s.pc /\ t.deferred = s.deferred
  BY <1>1 DEF KernelType
<1> HIDE DEF t
<1>5. \A b \in Agent : b # a => t.request[b] = s.request[b]
  BY <1>1, <1>4, KernelFields
<1>6. SuspensionOK(t)
  BY <1>1, <1>4, <1>5, QueueTypes DEF Good, SuspensionOK, QueuesOK, Places, At
<1>7. AccountOK(t)
  BY <1>4, <1>5, Agents DEF Good, AccountOK, Places, At
<1>8. QueuesOK(t)
  BY <1>4 DEF Good, QueuesOK, Places, At
<1>9. CallersOK(t)
  BY <1>4 DEF Good, CallersOK
<1>10. IdleOK(t)
  BY <1>4 DEF Good, IdleOK, Places, At
<1>11. CountOK(t)
  BY ZenonT(40), <1>4 DEF Good, CountOK
<1>12. DeadOK(t)
  BY <1>4 DEF Good, DeadOK, Places, At
<1>13. SendersOK(t)
  BY <1>1, <1>4, <1>5, KernelFields, Agents DEF Good, SendersOK
<1>14. QED
  BY <1>3, <1>6, <1>7, <1>8, <1>9, <1>10, <1>11, <1>12, <1>13 DEF Good, t
-----------------------------------------------------------------------------
(* acquire: a task waits, or enters.                                       *)

Queued(s, m, a) ==
  [s EXCEPT !.run = @ \ {a}, !.count[m] = @ + 1, !.queue[m] = Append(@, a)]

\* A scheduled agent is inside no monitor, waits for none, has not killed
\* itself, and a monitor among them serves somebody.
LEMMA Scheduled ==
  ASSUME NEW s, Good(s), NEW a \in s.run
  PROVE  /\ a \in Agent /\ a \in s.alive /\ s.inside[a] = None
         /\ \A m \in Mon : \A i \in Places(s, m) : At(s, m, i) # a
         /\ \A m \in Mon : s.caller[m] # a
         /\ a \notin s.dead
         /\ a \in Mon => Busy(s, a) /\ s.pc[a] # "idle"
<1>1. s \in KernelType
  BY DEF Good
<1>2. a \in Agent /\ a \in s.alive
  BY <1>1, KernelFields DEF Good, CallersOK
<1>3. \A m \in Mon : \A i \in Places(s, m) : At(s, m, i) # a
  BY DEF Good, QueuesOK
<1>4. \A m \in Mon : s.caller[m] # a
  BY <1>2, Agents DEF Good, CallersOK
<1>5. s.inside[a] = None
  BY <1>1, <1>2, <1>4, KernelFields, Agents DEF Good, CallersOK
<1>6. a \notin s.dead
  BY <1>2 DEF Good, DeadOK
<1>7. a \in Mon => Busy(s, a) /\ s.pc[a] # "idle"
  BY DEF Good, IdleOK, Busy
<1>8. QED
  BY <1>2, <1>3, <1>4, <1>5, <1>6, <1>7

\* A task joins the queue of a monitor in use, where nobody waits who wants to
\* suspend it.
LEMMA QueuedGood ==
  ASSUME NEW s, Good(s), NEW m \in Mon, NEW a \in s.run, Busy(s, m),
         1 \notin s.suspended[m],
         \A i \in Places(s, m) : s.request[At(s, m, i)].sel # "suspend",
         s.request[a].sel = "suspend" => s.suspended[m] # {} /\ s.queue[m] = <<>>
  PROVE  Good(Queued(s, m, a))
<1> DEFINE t == Queued(s, m, a)
<1> DEFINE L == Len(s.queue[m])
<1>1. s \in KernelType /\ L \in Nat /\ s.queue[m] \in Seq(Agent) /\ s.count[m] \in Int
  BY QueueTypes DEF Good
<1>2. /\ a \in Agent /\ a \in s.alive /\ s.inside[a] = None
      /\ \A n \in Mon : \A i \in Places(s, n) : At(s, n, i) # a
      /\ \A n \in Mon : s.caller[n] # a
      /\ a \notin s.dead
      /\ a \in Mon => Busy(s, a)
  BY Scheduled
<1>3. /\ Append(s.queue[m], a) \in Seq(Agent) /\ Len(Append(s.queue[m], a)) = L + 1
      /\ Append(s.queue[m], a)[L + 1] = a
      /\ \A i \in 1 .. L : Append(s.queue[m], a)[i] = s.queue[m][i]
  BY <1>1, <1>2
<1>4. /\ [s.queue EXCEPT ![m] = Append(@, a)] \in [Mon -> Seq(Agent)]
      /\ [s.count EXCEPT ![m] = @ + 1] \in [Mon -> Int]
      /\ s.run \ {a} \subseteq Agent
  BY <1>1, <1>3, KernelFields
<1>5. t \in KernelType
  BY <1>1, <1>4 DEF KernelType, Queued
<1>6. /\ t.queue = [s.queue EXCEPT ![m] = Append(@, a)]
      /\ t.count = [s.count EXCEPT ![m] = @ + 1]
      /\ t.run = s.run \ {a}
      /\ t.alive = s.alive /\ t.caller = s.caller /\ t.inside = s.inside /\ t.die = s.die
      /\ t.dead = s.dead /\ t.suspended = s.suspended /\ t.request = s.request
      /\ t.pc = s.pc /\ t.deferred = s.deferred
  BY <1>1 DEF KernelType, Queued
<1> HIDE DEF t
<1>7. /\ \A n \in Mon \ {m} : t.queue[n] = s.queue[n] /\ t.count[n] = s.count[n]
      /\ t.queue[m] = Append(s.queue[m], a) /\ t.count[m] = s.count[m] + 1
  BY <1>1, <1>6, KernelFields
<1>8. /\ \A n \in Mon \ {m} : Places(t, n) = Places(s, n) /\ \A i \in Places(t, n) : At(t, n, i) = At(s, n, i)
      /\ Places(s, m) = 1 .. L
      /\ Places(t, m) = 1 .. L + 1
      /\ \A i \in Places(s, m) : At(t, m, i) = At(s, m, i)
      /\ At(t, m, L + 1) = a
  BY <1>3, <1>7 DEF Places, At
<1>9. \A i \in 1 .. L + 1 : i \in 1 .. L \/ i = L + 1
  BY <1>1
<1>10. QueuesOK(t)
  <2>1. \A n \in Mon : \A i \in Places(t, n) :
          \/ i \in Places(s, n) /\ At(t, n, i) = At(s, n, i)
          \/ n = m /\ i = L + 1 /\ At(t, n, i) = a
    BY <1>8, <1>9
  <2>2. \A n \in Mon : \A i \in Places(t, n) :
          At(t, n, i) \in t.alive \ t.run /\ t.inside[At(t, n, i)] = None
    BY <1>2, <1>6, <2>1 DEF Good, QueuesOK
  <2>3. ASSUME NEW n1 \in Mon, NEW n2 \in Mon, NEW i \in Places(t, n1), NEW j \in Places(t, n2),
               At(t, n1, i) = At(t, n2, j)
        PROVE  n1 = n2 /\ i = j
    BY <1>2, <2>1, <2>3 DEF Good, QueuesOK
  <2>4. QED
    BY <2>2, <2>3 DEF QueuesOK
<1>11. CallersOK(t)
  BY <1>6 DEF Good, CallersOK
<1>12. IdleOK(t)
  <2>1. \A n \in Mon : t.pc[n] # "idle" <=> t.caller[n] # None
    BY <1>6 DEF Good, IdleOK
  <2>2. ASSUME NEW n \in Mon, t.caller[n] = None
        PROVE  /\ t.queue[n] = <<>> /\ n \notin t.run /\ t.inside[n] = None
               /\ \A n2 \in Mon : \A i \in Places(t, n2) : At(t, n2, i) # n
    <3>1. s.caller[n] = None /\ n # m /\ n # a
      BY <1>2, <1>6, <2>2 DEF Busy
    <3>2. t.queue[n] = <<>> /\ n \notin t.run /\ t.inside[n] = None
      BY <1>6, <1>7, <3>1 DEF Good, IdleOK
    <3>3. \A n2 \in Mon : \A i \in Places(s, n2) : At(s, n2, i) # n
      BY <3>1 DEF Good, IdleOK
    <3>4. \A n2 \in Mon : \A i \in Places(t, n2) : At(t, n2, i) # n
      BY <1>8, <1>9, <3>1, <3>3
    <3>5. QED
      BY <3>2, <3>4
  <2>3. QED
    BY <2>1, <2>2 DEF IdleOK
<1>13. SuspensionOK(t)
  <2>1. ASSUME NEW n \in Mon \ {m}
        PROVE  /\ 1 \in t.suspended[n] => t.queue[n] = <<>>
               /\ \A i \in Places(t, n) :
                    t.request[At(t, n, i)].sel = "suspend" => t.suspended[n] # {} /\ Len(t.queue[n]) = 1
    BY <1>6, <1>7, <1>8 DEF Good, SuspensionOK
  <2>2. 1 \notin t.suspended[m]
    BY <1>6
  <2>3. ASSUME NEW i \in Places(t, m), t.request[At(t, m, i)].sel = "suspend"
        PROVE  t.suspended[m] # {} /\ Len(t.queue[m]) = 1
    <3>1. At(t, m, i) = a
      BY <1>6, <1>8, <1>9, <2>3
    <3>2. t.suspended[m] # {} /\ s.queue[m] = <<>>
      BY <1>6, <2>3, <3>1
    <3>3. L = 0
      BY <3>2
    <3>4. QED
      BY <1>3, <1>7, <3>2, <3>3
  <2>4. QED
    BY <2>1, <2>2, <2>3 DEF SuspensionOK
<1>14. CountOK(t)
  <2>1. ASSUME NEW n \in Mon \ {m}
        PROVE  t.count[n] = Len(t.queue[n]) + (IF t.caller[n] # None THEN 1 ELSE 0)
    <3>1. s.count[n] = Len(s.queue[n]) + (IF s.caller[n] # None THEN 1 ELSE 0)
      BY DEF Good, CountOK
    <3>2. t.count[n] = s.count[n] /\ t.queue[n] = s.queue[n] /\ t.caller[n] = s.caller[n]
      BY <1>6, <1>7
    <3>3. QED
      BY <3>1, <3>2
  <2>2. s.count[m] = L + 1
    BY DEF Good, CountOK, Busy
  <2>3. t.count[m] = (L + 1) + 1
    BY <1>7, <2>2
  <2>4. t.count[m] = Len(t.queue[m]) + (IF t.caller[m] # None THEN 1 ELSE 0)
    BY <1>3, <1>6, <1>7, <2>3 DEF Busy
  <2>5. QED
    BY <2>1, <2>4 DEF CountOK
<1>15. DeadOK(t)
  <2>1. ASSUME NEW b \in t.dead \cap t.alive
        PROVE  /\ b \notin t.run /\ t.deferred = b /\ t.inside[b] \in {None, ObjectManager}
               /\ \A n \in Mon : \A i \in Places(t, n) : At(t, n, i) # b
    <3>1. /\ b # a /\ b \notin s.run /\ s.deferred = b /\ s.inside[b] \in {None, ObjectManager}
          /\ \A n \in Mon : \A i \in Places(s, n) : At(s, n, i) # b
      BY <1>2, <1>6 DEF Good, DeadOK
    <3>2. \A n \in Mon : \A i \in Places(t, n) : At(t, n, i) # b
      BY <1>8, <1>9, <3>1
    <3>3. QED
      BY <1>6, <3>1, <3>2
  <2>2. QED
    BY <1>6, <2>1 DEF Good, DeadOK
<1>16. AccountOK(t)
  <2> SUFFICES ASSUME NEW b \in Task \cap t.alive
               PROVE  \/ b \in t.run \cup t.dead \cup t.die
                      \/ t.inside[b] # None
                      \/ \E n \in Mon : \E i \in Places(t, n) : At(t, n, i) = b
                      \/ t.request[b].sel = "suspend"
    BY DEF AccountOK
  <2>1. CASE b = a
    BY <1>1, <1>8, <2>1
  <2>2. CASE b # a
    <3>1. \A n \in Mon : \A i \in Places(s, n) : i \in Places(t, n) /\ At(t, n, i) = At(s, n, i)
      BY <1>1, <1>8
    <3>2. QED
      BY <1>6, <2>2, <3>1 DEF Good, AccountOK
  <2>3. QED
    BY <2>1, <2>2
<1>17. SendersOK(t)
  BY <1>6 DEF Good, SendersOK
<1>18. QED
  BY <1>5, <1>10, <1>11, <1>12, <1>13, <1>14, <1>15, <1>16, <1>17 DEF Good, t

Entered(s, m, a) ==
  [s EXCEPT !.run = (@ \ {a}) \cup {m}, !.count[m] = @ + 1,
            !.caller[m] = a, !.inside[a] = m, !.pc[m] = "proc"]

\* A task enters a monitor that serves nobody.
LEMMA EnteredGood ==
  ASSUME NEW s, Good(s), NEW m \in Mon, NEW a \in s.run, m # a, ~Busy(s, m), m \in s.alive
  PROVE  Good(Entered(s, m, a))
<1> DEFINE t == Entered(s, m, a)
<1>1. s \in KernelType /\ s.count[m] \in Int
  BY QueueTypes DEF Good
<1>2. /\ a \in Agent /\ a \in s.alive /\ s.inside[a] = None
      /\ \A n \in Mon : \A i \in Places(s, n) : At(s, n, i) # a
      /\ \A n \in Mon : s.caller[n] # a
      /\ a \notin s.dead
      /\ a \in Mon => Busy(s, a)
  BY Scheduled
<1>3. /\ s.caller[m] = None /\ s.queue[m] = <<>> /\ m \notin s.run /\ s.inside[m] = None
      /\ \A n \in Mon : \A i \in Places(s, n) : At(s, n, i) # m
      /\ a # None
  BY <1>2, Agents DEF Good, IdleOK, Busy
<1>4. /\ [s.count EXCEPT ![m] = @ + 1] \in [Mon -> Int]
      /\ [s.caller EXCEPT ![m] = a] \in [Mon -> Agent \cup {None}]
      /\ [s.inside EXCEPT ![a] = m] \in [Agent -> Mon \cup {None}]
      /\ [s.pc EXCEPT ![m] = "proc"] \in [Agent -> Pc]
      /\ (s.run \ {a}) \cup {m} \subseteq Agent
  BY <1>1, <1>2, KernelFields, Agents DEF Pc
<1>5. t \in KernelType
  BY <1>1, <1>4 DEF KernelType, Entered
<1>6. /\ t.count = [s.count EXCEPT ![m] = @ + 1]
      /\ t.caller = [s.caller EXCEPT ![m] = a]
      /\ t.inside = [s.inside EXCEPT ![a] = m]
      /\ t.pc = [s.pc EXCEPT ![m] = "proc"]
      /\ t.run = (s.run \ {a}) \cup {m}
      /\ t.alive = s.alive /\ t.queue = s.queue /\ t.die = s.die
      /\ t.dead = s.dead /\ t.suspended = s.suspended /\ t.request = s.request
      /\ t.deferred = s.deferred
  BY <1>1 DEF KernelType, Entered
<1> HIDE DEF t
<1>7. /\ \A n \in Mon \ {m} : t.count[n] = s.count[n] /\ t.caller[n] = s.caller[n] /\ t.pc[n] = s.pc[n]
      /\ t.caller[m] = a /\ t.pc[m] = "proc" /\ t.count[m] = s.count[m] + 1
  BY <1>1, <1>6, KernelFields, Agents
<1>8. /\ \A b \in Agent \ {a} : t.inside[b] = s.inside[b]
      /\ t.inside[a] = m
  BY <1>1, <1>2, <1>6, KernelFields
<1>9. \A n \in Mon : Places(t, n) = Places(s, n) /\ \A i \in Places(t, n) : At(t, n, i) = At(s, n, i)
  BY <1>6 DEF Places, At
<1>10. QueuesOK(t)
  <2>1. ASSUME NEW n \in Mon, NEW i \in Places(t, n)
        PROVE  At(t, n, i) \in t.alive \ t.run /\ t.inside[At(t, n, i)] = None
    <3>1. i \in Places(s, n) /\ At(t, n, i) = At(s, n, i)
      BY <1>9
    <3>2. /\ At(s, n, i) # a /\ At(s, n, i) # m /\ At(s, n, i) \in Agent
          /\ At(s, n, i) \in s.alive \ s.run /\ s.inside[At(s, n, i)] = None
      BY <1>1, <1>2, <1>3, <3>1, QueueTypes DEF Good, QueuesOK
    <3>3. QED
      BY <1>6, <1>8, <3>1, <3>2
  <2>2. QED
    BY <1>9, <2>1 DEF Good, QueuesOK
<1>11. CallersOK(t)
  <2>1. t.run \subseteq t.alive
    BY <1>6 DEF Good, CallersOK
  <2>2. ASSUME NEW n \in Mon, t.caller[n] # None
        PROVE  t.caller[n] \in t.alive \ t.run /\ t.inside[t.caller[n]] = n
    <3>1. CASE n = m
      BY <1>2, <1>6, <1>7, <1>8, <3>1
    <3>2. CASE n # m
      <4>1. s.caller[n] # None /\ t.caller[n] = s.caller[n] /\ s.caller[n] # a
        BY <1>2, <1>7, <2>2, <3>2
      <4>2. s.caller[n] \in s.alive \ s.run /\ s.inside[s.caller[n]] = n /\ s.caller[n] \in Agent
        BY <1>1, <4>1, KernelFields DEF Good, CallersOK
      <4>3. s.caller[n] # m
        BY <1>3, <4>2, Agents
      <4>4. QED
        BY <1>6, <1>8, <4>1, <4>2, <4>3
    <3>3. QED
      BY <3>1, <3>2
  <2>3. ASSUME NEW b \in Agent, t.inside[b] # None
        PROVE  t.caller[t.inside[b]] = b
    <3>1. CASE b = a
      BY <1>7, <1>8, <3>1
    <3>2. CASE b # a
      <4>1. t.inside[b] = s.inside[b] /\ s.caller[s.inside[b]] = b /\ s.inside[b] \in Mon
        BY <1>1, <1>8, <2>3, <3>2, KernelFields DEF Good, CallersOK
      <4>2. b # None
        BY Agents
      <4>3. QED
        BY <1>3, <1>7, <4>1, <4>2
    <3>3. QED
      BY <3>1, <3>2
  <2>4. QED
    BY <2>1, <2>2, <2>3 DEF CallersOK
<1>12. IdleOK(t)
  <2>1. \A n \in Mon : t.pc[n] # "idle" <=> t.caller[n] # None
    BY <1>3, <1>7 DEF Good, IdleOK
  <2>2. ASSUME NEW n \in Mon, t.caller[n] = None
        PROVE  /\ t.queue[n] = <<>> /\ n \notin t.run /\ t.inside[n] = None
               /\ \A n2 \in Mon : \A i \in Places(t, n2) : At(t, n2, i) # n
    <3>1. n # m /\ s.caller[n] = None
      BY <1>3, <1>7, <2>2
    <3>2. n # a
      BY <1>2, <3>1 DEF Busy
    <3>3. /\ s.queue[n] = <<>> /\ n \notin s.run /\ s.inside[n] = None
          /\ \A n2 \in Mon : \A i \in Places(s, n2) : At(s, n2, i) # n
      BY <3>1 DEF Good, IdleOK
    <3>4. \A n2 \in Mon : \A i \in Places(t, n2) : At(t, n2, i) # n
      BY <1>9, <3>3
    <3>5. t.queue[n] = <<>> /\ n \notin t.run /\ t.inside[n] = None
      BY <1>6, <1>8, <3>1, <3>2, <3>3, Agents
    <3>6. QED
      BY <3>4, <3>5
  <2>3. QED
    BY <2>1, <2>2 DEF IdleOK
<1>13. SuspensionOK(t)
  BY <1>6 DEF Good, SuspensionOK, Places, At
<1>14. CountOK(t)
  <2>1. ASSUME NEW n \in Mon
        PROVE  t.count[n] = Len(t.queue[n]) + (IF t.caller[n] # None THEN 1 ELSE 0)
    <3>1. s.count[n] = Len(s.queue[n]) + (IF s.caller[n] # None THEN 1 ELSE 0)
      BY DEF Good, CountOK
    <3>2. t.queue[n] = s.queue[n] /\ Len(s.queue[n]) \in Nat
      BY <1>1, <1>6, QueueTypes
    <3>3. CASE n = m
      <4>1. Len(s.queue[n]) = 0 /\ s.caller[n] = None /\ t.caller[n] # None
        BY <1>3, <1>7, <3>3
      <4>2. s.count[n] = 0
        BY <3>1, <4>1
      <4>3. QED
        BY <1>7, <3>2, <3>3, <4>1, <4>2
    <3>4. CASE n # m
      <4>1. t.count[n] = s.count[n] /\ t.caller[n] = s.caller[n]
        BY <1>7, <3>4
      <4>2. QED
        BY <3>1, <3>2, <4>1
    <3>5. QED
      BY <3>3, <3>4
  <2>2. QED
    BY <2>1 DEF CountOK
<1>15. DeadOK(t)
  <2>1. ASSUME NEW b \in t.dead \cap t.alive
        PROVE  /\ b \notin t.run /\ t.deferred = b /\ t.inside[b] \in {None, ObjectManager}
               /\ \A n \in Mon : \A i \in Places(t, n) : At(t, n, i) # b
    <3>1. /\ b # a /\ b \notin s.run /\ s.deferred = b /\ s.inside[b] \in {None, ObjectManager}
          /\ \A n \in Mon : \A i \in Places(s, n) : At(s, n, i) # b
          /\ b \in Task
      BY <1>1, <1>2, <1>6, KernelFields DEF Good, DeadOK
    <3>2. \A n \in Mon : \A i \in Places(t, n) : At(t, n, i) # b
      BY <1>9, <3>1
    <3>3. b \notin t.run
      BY <1>6, <3>1, Agents
    <3>4. t.inside[b] = s.inside[b]
      BY <1>8, <3>1, Agents
    <3>5. QED
      BY <1>6, <3>1, <3>2, <3>3, <3>4
  <2>2. t.caller[ObjectManager] \in t.dead => t.pc[ObjectManager] = "done"
    BY <1>2, <1>6, <1>7, Agents DEF Good, DeadOK
  <2>3. t.pc[ObjectManager] \in {"request", "handled", "scavenge"} => t.deferred = None
    BY <1>6, <1>7, Agents DEF Good, DeadOK
  <2>4. QED
    BY <1>6, <2>1, <2>2, <2>3 DEF Good, DeadOK
<1>16. AccountOK(t)
  <2> SUFFICES ASSUME NEW b \in Task \cap t.alive
               PROVE  \/ b \in t.run \cup t.dead \cup t.die
                      \/ t.inside[b] # None
                      \/ \E n \in Mon : \E i \in Places(t, n) : At(t, n, i) = b
                      \/ t.request[b].sel = "suspend"
    BY DEF AccountOK
  <2>1. CASE b = a
    BY <1>8, <2>1, Agents
  <2>2. CASE b # a
    <3>1. t.inside[b] = s.inside[b]
      BY <1>8, <2>2, Agents
    <3>2. s.run \ {a} \subseteq t.run
      BY <1>6
    <3>3. \A n \in Mon : \A i \in Places(s, n) : i \in Places(t, n) /\ At(t, n, i) = At(s, n, i)
      BY <1>9
    <3>4. QED
      BY <1>6, <2>2, <3>1, <3>2, <3>3 DEF Good, AccountOK
  <2>3. QED
    BY <2>1, <2>2
<1>17. SendersOK(t)
  BY <1>6 DEF Good, SendersOK
<1>18. QED
  BY <1>5, <1>10, <1>11, <1>12, <1>13, <1>14, <1>15, <1>16, <1>17 DEF Good, t

\* acquire, whatever the monitor does: the agent waits, enters, or is refused.
LEMMA AcquireGood ==
  ASSUME NEW s, Good(s), NEW m \in Mon, m \in s.alive, NEW a \in s.run, m # a
  PROVE  /\ Good(Acquire(s, m, a))
         /\ \A n \in Mon \ {m} : Acquire(s, m, a).pc[n] = s.pc[n]
<1> DEFINE suspends == s.request[a].sel = "suspend"
           t == IF suspends THEN Suspend(s, m, 2) ELSE s
           u == [t EXCEPT !.run = @ \ {a}, !.count[m] = @ + 1]
           v == SetUpEntry(u, m, a)
<1>1. /\ Good(t) /\ a \in t.run /\ t.request = s.request /\ m \in t.alive /\ t.pc = s.pc
      /\ suspends => t.suspended[m] # {} /\ t.queue[m] = <<>>
      /\ ~suspends => t = s
  BY SuspendGood
<1>2. CASE s.suspended[m] # {} \/ (suspends /\ s.owner[m] # s.owner[a])
  <2>1. Acquire(s, m, a) = s
    BY <1>2 DEF Acquire
  <2>2. QED
    BY <2>1
<1>3. CASE ~(s.suspended[m] # {} \/ (suspends /\ s.owner[m] # s.owner[a]))
  <2>1. t \in KernelType /\ s \in KernelType
    BY <1>1 DEF Good
  <2>2. Acquire(s, m, a) = IF u.count[m] # 1 THEN [u EXCEPT !.queue[m] = Append(@, a)]
                           ELSE IF Refuses(u, a) THEN [v EXCEPT !.run = @ \cup {a}] ELSE v
    BY <1>3 DEF Acquire
  <2>3. /\ 1 \notin t.suspended[m]
        /\ \A i \in Places(t, m) : t.request[At(t, m, i)].sel # "suspend"
    <3>1. CASE suspends
      <4>1. Suspend(s, m, 2).suspended[m] \subseteq s.suspended[m] \cup {2}
        BY <2>1 DEF Suspend, KernelType
      <4>2. 1 \notin t.suspended[m]
        BY <1>3, <3>1, <4>1
      <4>3. Places(t, m) = {}
        BY <1>1, <3>1 DEF Places
      <4>4. QED
        BY <4>2, <4>3
    <3>2. CASE ~suspends
      BY <1>1, <1>3, <3>2 DEF Good, SuspensionOK
    <3>3. QED
      BY <3>1, <3>2
  <2> HIDE DEF t
  <2>4. /\ t.count[m] \in Int /\ Len(t.queue[m]) \in Nat
        /\ t.queue[m] \in Seq(Agent)
        /\ t.count[m] = Len(t.queue[m]) + (IF t.caller[m] # None THEN 1 ELSE 0)
        /\ t.caller[m] = None => t.queue[m] = <<>>
    BY <1>1, <2>1, QueueTypes DEF Good, CountOK, IdleOK
  <2>5. u.count[m] = t.count[m] + 1
    BY <2>1, KernelFields DEF KernelType
  <2>6. CASE Busy(t, m)
    <3>1. t.count[m] = Len(t.queue[m]) + 1
      BY <2>4, <2>6 DEF Busy
    <3>2. u.count[m] # 1
      <4>1. Len(t.queue[m]) \in Nat
        BY <2>4
      <4>2. Len(t.queue[m]) + 1 # 0
        BY <4>1
      <4>3. t.count[m] \in Int /\ t.count[m] # 0
        BY <2>4, <3>1, <4>2
      <4>4. t.count[m] + 1 # 1
        BY <4>3
      <4> HIDE DEF u
      <4>5. QED
        BY <2>5, <4>4
    <3>3. Acquire(s, m, a) = Queued(t, m, a)
      BY <2>1, <2>2, <3>2 DEF KernelType, Queued
    <3>4. Good(Queued(t, m, a))
      BY <1>1, <2>3, <2>6, QueuedGood
    <3>5. Queued(t, m, a).pc = t.pc
      BY <2>1 DEF KernelType, Queued
    <3>6. QED
      BY <1>1, <3>3, <3>4, <3>5
  <2>7. CASE ~Busy(t, m)
    <3>1. Len(t.queue[m]) = 0 /\ t.caller[m] = None
      BY <2>4, <2>7 DEF Busy
    <3>2. t.count[m] = 0
      BY <2>4, <3>1
    <3>3. u.count[m] = 1
      BY <2>5, <3>2
    <3>4. u.request = t.request /\ Refuses(u, a) <=> suspends
      BY <1>1, <2>1 DEF KernelType, Refuses
    <3>5. CASE suspends
      <4> DEFINE w == Acquire(s, m, a)
      <4>1. v = [u EXCEPT !.count[m] = @ - 1] /\ w = [v EXCEPT !.run = @ \cup {a}]
        BY <2>2, <3>3, <3>4, <3>5 DEF SetUpEntry
      <4>2. /\ w.run = t.run /\ w.alive = t.alive /\ w.queue = t.queue /\ w.caller = t.caller
            /\ w.suspended = t.suspended /\ w.inside = t.inside /\ w.die = t.die
            /\ w.dead = t.dead /\ w.request = t.request /\ w.pc = t.pc /\ w.deferred = t.deferred
            /\ w.owner = t.owner /\ w.destroyed = t.destroyed
        <5>1. /\ u.run = t.run \ {a} /\ u.alive = t.alive /\ u.queue = t.queue /\ u.caller = t.caller
              /\ u.suspended = t.suspended /\ u.inside = t.inside /\ u.die = t.die
              /\ u.dead = t.dead /\ u.request = t.request /\ u.pc = t.pc /\ u.deferred = t.deferred
              /\ u.owner = t.owner /\ u.destroyed = t.destroyed
              /\ DOMAIN u = DOMAIN t
          BY <2>1 DEF KernelType
        <5> HIDE DEF u
        <5>2. DOMAIN t = {"alive", "owner", "run", "queue", "count", "caller", "suspended", "inside",
                          "die", "dead", "request", "pc", "deferred", "destroyed"}
          BY <2>1 DEF KernelType
        <5> HIDE DEF v, w
        <5>3. /\ v.run = u.run /\ v.alive = u.alive /\ v.queue = u.queue /\ v.caller = u.caller
              /\ v.suspended = u.suspended /\ v.inside = u.inside /\ v.die = u.die
              /\ v.dead = u.dead /\ v.request = u.request /\ v.pc = u.pc /\ v.deferred = u.deferred
              /\ v.owner = u.owner /\ v.destroyed = u.destroyed /\ DOMAIN v = DOMAIN u
          BY <4>1, <5>1, <5>2
        <5>4. /\ w.run = v.run \cup {a} /\ w.alive = v.alive /\ w.queue = v.queue /\ w.caller = v.caller
              /\ w.suspended = v.suspended /\ w.inside = v.inside /\ w.die = v.die
              /\ w.dead = v.dead /\ w.request = v.request /\ w.pc = v.pc /\ w.deferred = v.deferred
              /\ w.owner = v.owner /\ w.destroyed = v.destroyed
          BY <4>1, <5>1, <5>2, <5>3
        <5>5. w.run = t.run
          BY <1>1, <5>1, <5>3, <5>4
        <5>6. QED
          BY <5>1, <5>3, <5>4, <5>5
      <4>3. w.count = t.count
        <5>1. w.count = [[t.count EXCEPT ![m] = @ + 1] EXCEPT ![m] = @ - 1]
          BY <2>1, <4>1 DEF KernelType
        <5>2. t.count \in [Mon -> Int] /\ t.count[m] = 0
          BY <2>1, <3>2, KernelFields
        <5>3. QED
          BY <5>1, <5>2
      <4>4. w \in KernelType
        <5>2. w = [t EXCEPT !.run = w.run, !.count = w.count]
          BY ZenonT(40), <2>1, <4>1 DEF KernelType
        <5>3. QED
          BY <2>1, <4>2, <4>3, <5>2 DEF KernelType
      <4> HIDE DEF w
      <4>5. Good(w)
        BY <1>1, <4>2, <4>3, <4>4, FrameGood
      <4>6. QED
        BY <1>1, <4>2, <4>5 DEF w
    <3>6. CASE ~suspends
      <4>1. Acquire(s, m, a) = v
        BY <2>2, <3>3, <3>4, <3>6
      <4>2. v = [u EXCEPT !.caller[m] = a, !.inside[a] = m, !.pc[m] = "proc", !.run = @ \cup {m}]
        BY <3>4, <3>6 DEF SetUpEntry
      <4>3. v = Entered(t, m, a)
        BY ZenonT(40), <2>1, <4>2 DEF Entered, KernelType
      <4>4. Good(Entered(t, m, a))
        BY <1>1, <2>7, EnteredGood
      <4>5. \A n \in Mon \ {m} : Entered(t, m, a).pc[n] = t.pc[n]
        BY <2>1, Agents DEF KernelType, Entered
      <4>6. QED
        BY <1>1, <4>1, <4>3, <4>4, <4>5
    <3>7. QED
      BY <3>5, <3>6
  <2>8. QED
    BY <2>6, <2>7
<1>4. QED
  BY <1>2, <1>3

\* A call of a monitor that may be gone.
LEMMA DispatchGood ==
  ASSUME NEW s, Good(s), NEW m \in Mon, NEW a \in s.run, m # a,
         NEW sel \in Sel, NEW obj \in Agent \cup {None}, a \in Mon => sel # "kill"
  PROVE  /\ Good(Dispatch(s, a, m, sel, obj))
         /\ \A n \in Mon \ {m} : Dispatch(s, a, m, sel, obj).pc[n] = s.pc[n]
<1> DEFINE r == [sel |-> sel, obj |-> obj]
           t == [s EXCEPT !.request[a] = r]
<1>1. r \in [sel : Sel, obj : Agent \cup {None}] /\ (a \in Mon => r.sel # "kill")
  OBVIOUS
<1> HIDE DEF r
<1>2. Good(t)
  BY <1>1, RequestGood
<1>3. t.run = s.run /\ t.pc = s.pc /\ t.alive = s.alive
  BY DEF Good, KernelType
<1>4. Dispatch(s, a, m, sel, obj) = IF m \in s.alive THEN Acquire(t, m, a) ELSE t
  BY <1>3 DEF Dispatch, r
<1> HIDE DEF t
<1>5. QED
  BY <1>2, <1>3, <1>4, AcquireGood

-----------------------------------------------------------------------------
(* release, in steps: the head of the queue leaves it, the caller leaves   *)
(* the monitor, the head takes its place.                                  *)

Popped(s, m, run) == [s EXCEPT !.queue[m] = Tail(@), !.count[m] = @ - 1, !.run = run]

\* The head of a queue is scheduled, or it is refused and goes nowhere.
LEMMA PoppedGood ==
  ASSUME NEW s, Good(s), NEW m \in Mon, s.queue[m] # <<>>,
         NEW run \in {s.run, s.run \cup {Head(s.queue[m])}},
         run = s.run => s.request[Head(s.queue[m])].sel = "suspend"
  PROVE  Good(Popped(s, m, run))
<1> DEFINE t == Popped(s, m, run)
           a == Head(s.queue[m])
           L == Len(s.queue[m])
<1>1. /\ s \in KernelType /\ L \in Nat /\ s.queue[m] \in Seq(Agent) /\ s.count[m] \in Int
      /\ L # 0
  BY QueueTypes DEF Good
<1>2. /\ 1 \in Places(s, m) /\ a = At(s, m, 1)
      /\ Tail(s.queue[m]) \in Seq(Agent) /\ Len(Tail(s.queue[m])) = L - 1
      /\ \A i \in 1 .. L - 1 : Tail(s.queue[m])[i] = s.queue[m][i + 1]
  BY <1>1 DEF Places, At
<1>3. /\ a \in Agent /\ a \in s.alive /\ a \notin s.run /\ s.inside[a] = None
      /\ \A n \in Mon : s.caller[n] # a
      /\ \A n \in Mon : \A i \in Places(s, n) : At(s, n, i) = a => n = m /\ i = 1
      /\ a \notin s.dead
      /\ a \in Mon => s.caller[a] # None
  <2>1. a \in Agent /\ a \in s.alive /\ a \notin s.run /\ s.inside[a] = None
    BY <1>1, <1>2, QueueTypes DEF Good, QueuesOK
  <2>2. \A n \in Mon : s.caller[n] # a
    BY <2>1, Agents DEF Good, CallersOK
  <2>3. \A n \in Mon : \A i \in Places(s, n) : At(s, n, i) = a => n = m /\ i = 1
    BY <1>2 DEF Good, QueuesOK
  <2>4. a \notin s.dead
    BY <1>2, <2>1 DEF Good, DeadOK
  <2>5. a \in Mon => s.caller[a] # None
    BY <1>2 DEF Good, IdleOK
  <2>6. QED
    BY <2>1, <2>2, <2>3, <2>4, <2>5
<1>4. /\ [s.queue EXCEPT ![m] = Tail(@)] \in [Mon -> Seq(Agent)]
      /\ [s.count EXCEPT ![m] = @ - 1] \in [Mon -> Int]
      /\ run \subseteq Agent
  BY <1>1, <1>2, <1>3, KernelFields
<1>5. t \in KernelType
  BY <1>1, <1>4 DEF KernelType, Popped
<1>6. /\ t.queue = [s.queue EXCEPT ![m] = Tail(@)]
      /\ t.count = [s.count EXCEPT ![m] = @ - 1]
      /\ t.run = run
      /\ t.alive = s.alive /\ t.caller = s.caller /\ t.inside = s.inside /\ t.die = s.die
      /\ t.dead = s.dead /\ t.suspended = s.suspended /\ t.request = s.request
      /\ t.pc = s.pc /\ t.deferred = s.deferred
  BY <1>1 DEF KernelType, Popped
<1> HIDE DEF t, a
<1>7. /\ \A n \in Mon \ {m} : t.queue[n] = s.queue[n] /\ t.count[n] = s.count[n]
      /\ t.queue[m] = Tail(s.queue[m]) /\ t.count[m] = s.count[m] - 1
  BY <1>1, <1>6, KernelFields
<1>8. /\ \A n \in Mon \ {m} : Places(t, n) = Places(s, n) /\ \A i \in Places(t, n) : At(t, n, i) = At(s, n, i)
      /\ Places(s, m) = 1 .. L
      /\ Places(t, m) = 1 .. L - 1
      /\ \A i \in Places(t, m) : At(t, m, i) = At(s, m, i + 1)
  BY <1>2, <1>7 DEF Places, At
<1>9. \A i \in 1 .. L - 1 : i + 1 \in 1 .. L /\ i + 1 # 1 /\ i \in Int
  BY <1>1
<1>10. \A n \in Mon : \A i \in Places(t, n) :
         /\ At(t, n, i) # a
         /\ \E j \in Places(s, n) : j = (IF n = m THEN i + 1 ELSE i) /\ At(t, n, i) = At(s, n, j)
  <2>1. ASSUME NEW n \in Mon, NEW i \in Places(t, n)
        PROVE  /\ At(t, n, i) # a
               /\ \E j \in Places(s, n) : j = (IF n = m THEN i + 1 ELSE i) /\ At(t, n, i) = At(s, n, j)
    <3>1. CASE n = m
      BY ZenonT(40), <1>3, <1>8, <1>9, <3>1
    <3>2. CASE n # m
      BY <1>3, <1>8, <3>2
    <3>3. QED
      BY <3>1, <3>2
  <2>2. QED
    BY <2>1
<1>11. run \subseteq s.run \cup {a} /\ s.run \subseteq run
  BY DEF a
<1>12. QueuesOK(t)
  <2>1. \A n \in Mon : \A i \in Places(t, n) :
          At(t, n, i) \in t.alive \ t.run /\ t.inside[At(t, n, i)] = None
    BY <1>6, <1>10, <1>11 DEF Good, QueuesOK
  <2>2. ASSUME NEW n1 \in Mon, NEW n2 \in Mon, NEW i \in Places(t, n1), NEW j \in Places(t, n2),
               At(t, n1, i) = At(t, n2, j)
        PROVE  n1 = n2 /\ i = j
    <3>1. PICK i2 \in Places(s, n1) : i2 = (IF n1 = m THEN i + 1 ELSE i) /\ At(t, n1, i) = At(s, n1, i2)
      BY <1>10
    <3>2. PICK j2 \in Places(s, n2) : j2 = (IF n2 = m THEN j + 1 ELSE j) /\ At(t, n2, j) = At(s, n2, j2)
      BY <1>10
    <3> At(s, n1, i2) = At(s, n2, j2)
      BY <2>2, <3>1, <3>2
    <3>3. n1 = n2 /\ i2 = j2
      BY DEF Good, QueuesOK
    <3>4. CASE n1 = m
      <4>1. i \in Int /\ j \in Int /\ i + 1 = j + 1
        BY <1>8, <1>9, <3>1, <3>2, <3>3, <3>4
      <4>2. QED
        BY <3>3, <4>1
    <3>5. CASE n1 # m
      BY <3>1, <3>2, <3>3, <3>5
    <3>6. QED
      BY <3>4, <3>5
  <2>3. QED
    BY <2>1, <2>2 DEF QueuesOK
<1>13. CallersOK(t)
  BY <1>3, <1>6, <1>11 DEF Good, CallersOK
<1>14. IdleOK(t)
  <2>1. \A n \in Mon : t.pc[n] # "idle" <=> t.caller[n] # None
    BY <1>6 DEF Good, IdleOK
  <2>2. ASSUME NEW n \in Mon, t.caller[n] = None
        PROVE  /\ t.queue[n] = <<>> /\ n \notin t.run /\ t.inside[n] = None
               /\ \A n2 \in Mon : \A i \in Places(t, n2) : At(t, n2, i) # n
    <3>1. s.caller[n] = None /\ n # a
      BY <1>3, <1>6, <2>2
    <3>2. /\ s.queue[n] = <<>> /\ n \notin s.run /\ s.inside[n] = None
          /\ \A n2 \in Mon : \A i \in Places(s, n2) : At(s, n2, i) # n
      BY <3>1 DEF Good, IdleOK
    <3>3. n # m
      BY <3>2
    <3>4. t.queue[n] = <<>> /\ n \notin t.run /\ t.inside[n] = None
      BY <1>6, <1>7, <1>11, <3>1, <3>2, <3>3
    <3>5. \A n2 \in Mon : \A i \in Places(t, n2) : At(t, n2, i) # n
      BY <1>10, <3>2
    <3>6. QED
      BY <3>4, <3>5
  <2>3. QED
    BY <2>1, <2>2 DEF IdleOK
<1>15. SuspensionOK(t)
  <2>1. ASSUME NEW n \in Mon \ {m}
        PROVE  /\ 1 \in t.suspended[n] => t.queue[n] = <<>>
               /\ \A i \in Places(t, n) :
                    t.request[At(t, n, i)].sel = "suspend" => t.suspended[n] # {} /\ Len(t.queue[n]) = 1
    BY <1>6, <1>7, <1>8 DEF Good, SuspensionOK
  <2>2. 1 \notin t.suspended[m]
    BY <1>6 DEF Good, SuspensionOK
  <2>3. ASSUME NEW i \in Places(t, m), t.request[At(t, m, i)].sel = "suspend"
        PROVE  FALSE
    <3>1. i + 1 \in Places(s, m) /\ s.request[At(s, m, i + 1)].sel = "suspend"
      BY <1>6, <1>8, <1>9, <2>3
    <3>2. L = 1
      BY <3>1 DEF Good, SuspensionOK
    <3>3. QED
      BY <1>8, <3>2
  <2>4. QED
    BY <2>1, <2>2, <2>3 DEF SuspensionOK
<1>16. CountOK(t)
  <2>1. ASSUME NEW n \in Mon \ {m}
        PROVE  t.count[n] = Len(t.queue[n]) + (IF t.caller[n] # None THEN 1 ELSE 0)
    <3>1. s.count[n] = Len(s.queue[n]) + (IF s.caller[n] # None THEN 1 ELSE 0)
      BY DEF Good, CountOK
    <3>2. t.count[n] = s.count[n] /\ t.queue[n] = s.queue[n] /\ t.caller[n] = s.caller[n]
      BY <1>6, <1>7
    <3>3. QED
      BY <3>1, <3>2
  <2>2. s.count[m] = L + (IF s.caller[m] # None THEN 1 ELSE 0)
    BY DEF Good, CountOK
  <2>3. s.caller[m] # None
    BY DEF Good, IdleOK
  <2>4. s.count[m] = L + 1
    BY <2>2, <2>3
  <2>5. t.count[m] = (L - 1) + 1
    BY <1>1, <1>7, <2>4
  <2>6. t.count[m] = Len(t.queue[m]) + (IF t.caller[m] # None THEN 1 ELSE 0)
    BY <1>2, <1>6, <1>7, <2>3, <2>5
  <2>7. QED
    BY <2>1, <2>6 DEF CountOK
<1>17. DeadOK(t)
  <2>1. ASSUME NEW b \in t.dead \cap t.alive
        PROVE  /\ b \notin t.run /\ t.deferred = b /\ t.inside[b] \in {None, ObjectManager}
               /\ \A n \in Mon : \A i \in Places(t, n) : At(t, n, i) # b
    <3>1. /\ b # a /\ b \notin s.run /\ s.deferred = b /\ s.inside[b] \in {None, ObjectManager}
          /\ \A n \in Mon : \A i \in Places(s, n) : At(s, n, i) # b
      BY <1>3, <1>6 DEF Good, DeadOK
    <3>2. \A n \in Mon : \A i \in Places(t, n) : At(t, n, i) # b
      BY <1>10, <3>1
    <3>3. QED
      BY <1>6, <1>11, <3>1, <3>2
  <2>2. QED
    BY <1>6, <2>1 DEF Good, DeadOK
<1>18. AccountOK(t)
  <2> SUFFICES ASSUME NEW b \in Task \cap t.alive
               PROVE  \/ b \in t.run \cup t.dead \cup t.die
                      \/ t.inside[b] # None
                      \/ \E n \in Mon : \E i \in Places(t, n) : At(t, n, i) = b
                      \/ t.request[b].sel = "suspend"
    BY DEF AccountOK
  <2>1. CASE b = a
    <3>1. run = s.run \/ a \in run
      BY DEF a
    <3>2. run = s.run => s.request[a].sel = "suspend"
      BY DEF a
    <3>3. QED
      BY <1>6, <2>1, <3>1, <3>2
  <2>2. CASE \E n \in Mon : \E i \in Places(s, n) : At(s, n, i) = b /\ b # a
    <3> PICK n \in Mon : \E i \in Places(s, n) : At(s, n, i) = b /\ b # a
      BY <2>2
    <3>1. PICK i \in Places(s, n) : At(s, n, i) = b /\ b # a
      OBVIOUS
    <3>2. CASE n # m
      BY <1>8, <3>1, <3>2
    <3>3. CASE n = m
      <4>1. i \in 1 .. L /\ i # 1
        BY <1>2, <1>8, <3>1, <3>3
      <4>2. i - 1 \in 1 .. L - 1 /\ (i - 1) + 1 = i
        BY <1>1, <4>1
      <4>3. i - 1 \in Places(t, m) /\ At(t, m, i - 1) = b
        BY <1>8, <3>1, <3>3, <4>2
      <4>4. QED
        BY <4>3
    <3>4. QED
      BY <3>2, <3>3
  <2>3. CASE ~(\E n \in Mon : \E i \in Places(s, n) : At(s, n, i) = b) /\ b # a
    BY <1>6, <1>11, <2>3 DEF Good, AccountOK
  <2>4. QED
    BY <2>1, <2>2, <2>3
<1>19. SendersOK(t)
  BY <1>6 DEF Good, SendersOK
<1>20. QED
  BY <1>5, <1>12, <1>13, <1>14, <1>15, <1>16, <1>17, <1>18, <1>19 DEF Good, t

Left(s, m) ==
  LET c == s.caller[m]
  IN  [s EXCEPT !.run = (@ \ {m}) \cup (IF c \in s.die \cup s.dead THEN {} ELSE {c}),
                !.inside[c] = None, !.count[m] = @ - 1, !.caller[m] = None, !.pc[m] = "idle"]

\* Facts about a monitor whose procedure runs, and about its caller.
LEMMA Serving ==
  ASSUME NEW s, Good(s), NEW m \in Mon, m \in s.run
  PROVE  LET c == s.caller[m] IN
         /\ c \in Agent /\ c \in s.alive /\ c \notin s.run /\ s.inside[c] = m
         /\ c # m
         /\ \A n \in Mon : \A i \in Places(s, n) : At(s, n, i) # c
         /\ \A n \in Mon : s.caller[n] = c => n = m
         /\ c \in Mon => s.caller[c] # None
         /\ s.pc[m] # "idle"
<1> DEFINE c == s.caller[m]
<1>1. s \in KernelType
  BY DEF Good
<1>2. c # None /\ s.pc[m] # "idle"
  BY DEF Good, IdleOK
<1>3. c \in Agent /\ c \in s.alive /\ c \notin s.run /\ s.inside[c] = m
  BY <1>1, <1>2, KernelFields DEF Good, CallersOK
<1>4. c # m
  BY <1>3
<1>5. \A n \in Mon : \A i \in Places(s, n) : At(s, n, i) # c
  BY <1>3, Agents DEF Good, QueuesOK
<1>6. \A n \in Mon : s.caller[n] = c => n = m
  BY <1>2, <1>3 DEF Good, CallersOK
<1>7. c \in Mon => s.caller[c] # None
  BY <1>3, Agents DEF Good, IdleOK
<1>8. QED
  BY <1>2, <1>3, <1>4, <1>5, <1>6, <1>7

\* release of a monitor that nobody waits for.
LEMMA LeftGood ==
  ASSUME NEW s, Good(s), NEW m \in Mon, m \in s.run, s.queue[m] = <<>>
  PROVE  Good(Left(s, m))
<1> DEFINE t == Left(s, m)
           c == s.caller[m]
           back == IF c \in s.die \cup s.dead THEN {} ELSE {c}
<1>1. s \in KernelType /\ s.count[m] \in Int
  BY QueueTypes DEF Good
<1>2. /\ c \in Agent /\ c \in s.alive /\ c \notin s.run /\ s.inside[c] = m
      /\ c # m
      /\ \A n \in Mon : \A i \in Places(s, n) : At(s, n, i) # c
      /\ \A n \in Mon : s.caller[n] = c => n = m
      /\ c \in Mon => s.caller[c] # None
  BY Serving
<1>3. /\ m \in s.alive /\ s.inside[m] = None
      /\ \A n \in Mon : \A i \in Places(s, n) : At(s, n, i) # m
      /\ \A n \in Mon : s.caller[n] # m
  BY Scheduled
<1>4. back \subseteq {c} /\ (c \notin s.die \cup s.dead => c \in back) /\ (c \in s.dead => back = {})
  OBVIOUS
<1>5. /\ [s.count EXCEPT ![m] = @ - 1] \in [Mon -> Int]
      /\ [s.caller EXCEPT ![m] = None] \in [Mon -> Agent \cup {None}]
      /\ [s.inside EXCEPT ![c] = None] \in [Agent -> Mon \cup {None}]
      /\ [s.pc EXCEPT ![m] = "idle"] \in [Agent -> Pc]
      /\ (s.run \ {m}) \cup back \subseteq Agent
  BY <1>1, <1>2, <1>4, KernelFields DEF Pc
<1>6. /\ t \in KernelType
      /\ t.count = [s.count EXCEPT ![m] = @ - 1]
      /\ t.caller = [s.caller EXCEPT ![m] = None]
      /\ t.inside = [s.inside EXCEPT ![c] = None]
      /\ t.pc = [s.pc EXCEPT ![m] = "idle"]
      /\ t.run = (s.run \ {m}) \cup back
      /\ t.alive = s.alive /\ t.queue = s.queue /\ t.die = s.die
      /\ t.dead = s.dead /\ t.suspended = s.suspended /\ t.request = s.request
      /\ t.deferred = s.deferred
  <2> HIDE DEF c, back
  <2>1. t = [s EXCEPT !.run = (@ \ {m}) \cup back, !.inside[c] = None, !.count[m] = @ - 1,
                      !.caller[m] = None, !.pc[m] = "idle"]
    BY DEF Left, c, back
  <2> HIDE DEF t
  <2>2. QED
    BY <1>1, <1>5, <2>1 DEF KernelType
<1> HIDE DEF t, c, back
<1>7. /\ \A n \in Mon \ {m} : t.count[n] = s.count[n] /\ t.caller[n] = s.caller[n] /\ t.pc[n] = s.pc[n]
      /\ t.caller[m] = None /\ t.pc[m] = "idle" /\ t.count[m] = s.count[m] - 1
      /\ \A b \in Agent \ {c} : t.inside[b] = s.inside[b]
      /\ t.inside[c] = None
  BY <1>1, <1>2, <1>6, KernelFields, Agents
<1>8. \A n \in Mon : Places(t, n) = Places(s, n) /\ \A i \in Places(t, n) : At(t, n, i) = At(s, n, i)
  BY <1>6 DEF Places, At
<1>9. QueuesOK(t)
  <2>1. ASSUME NEW n \in Mon, NEW i \in Places(t, n)
        PROVE  At(t, n, i) \in t.alive \ t.run /\ t.inside[At(t, n, i)] = None
    <3>1. i \in Places(s, n) /\ At(t, n, i) = At(s, n, i)
      BY <1>8
    <3>2. /\ At(s, n, i) # c /\ At(s, n, i) # m /\ At(s, n, i) \in Agent
          /\ At(s, n, i) \in s.alive \ s.run /\ s.inside[At(s, n, i)] = None
      BY <1>1, <1>2, <1>3, <3>1, QueueTypes DEF Good, QueuesOK
    <3>3. QED
      BY <1>4, <1>6, <1>7, <3>1, <3>2
  <2>2. QED
    BY <1>8, <2>1 DEF Good, QueuesOK
<1>10. CallersOK(t)
  <2>1. t.run \subseteq t.alive
    BY <1>2, <1>4, <1>6 DEF Good, CallersOK
  <2>2. ASSUME NEW n \in Mon, t.caller[n] # None
        PROVE  t.caller[n] \in t.alive \ t.run /\ t.inside[t.caller[n]] = n
    <3>1. n # m /\ t.caller[n] = s.caller[n] /\ s.caller[n] # None
      BY <1>7, <2>2
    <3>2. s.caller[n] \in s.alive \ s.run /\ s.inside[s.caller[n]] = n /\ s.caller[n] \in Agent
      BY <1>1, <3>1, KernelFields DEF Good, CallersOK
    <3>3. s.caller[n] # c
      BY <1>2, <3>1
    <3>4. QED
      BY <1>4, <1>6, <1>7, <3>1, <3>2, <3>3
  <2>3. ASSUME NEW b \in Agent, t.inside[b] # None
        PROVE  t.caller[t.inside[b]] = b
    <3>1. b # c /\ t.inside[b] = s.inside[b]
      BY <1>7, <2>3
    <3>2. s.caller[s.inside[b]] = b /\ s.inside[b] \in Mon
      BY <1>1, <2>3, <3>1, KernelFields DEF Good, CallersOK
    <3>3. s.inside[b] # m
      BY <3>1, <3>2 DEF c
    <3>4. QED
      BY <1>7, <3>1, <3>2, <3>3
  <2>4. QED
    BY <2>1, <2>2, <2>3 DEF CallersOK
<1>11. IdleOK(t)
  <2>1. \A n \in Mon : t.pc[n] # "idle" <=> t.caller[n] # None
    BY <1>7 DEF Good, IdleOK
  <2>2. ASSUME NEW n \in Mon, t.caller[n] = None
        PROVE  /\ t.queue[n] = <<>> /\ n \notin t.run /\ t.inside[n] = None
               /\ \A n2 \in Mon : \A i \in Places(t, n2) : At(t, n2, i) # n
    <3>1. CASE n = m
      BY <1>2, <1>3, <1>4, <1>6, <1>7, <1>8, <3>1, Agents
    <3>2. CASE n # m
      <4>1. s.caller[n] = None /\ n # c
        BY <1>2, <1>7, <2>2, <3>2
      <4>2. /\ s.queue[n] = <<>> /\ n \notin s.run /\ s.inside[n] = None
            /\ \A n2 \in Mon : \A i \in Places(s, n2) : At(s, n2, i) # n
        BY <4>1 DEF Good, IdleOK
      <4>3. \A n2 \in Mon : \A i \in Places(t, n2) : At(t, n2, i) # n
        BY <1>8, <4>2
      <4>4. t.queue[n] = <<>> /\ n \notin t.run /\ t.inside[n] = None
        BY <1>4, <1>6, <1>7, <4>1, <4>2, Agents
      <4>5. QED
        BY <4>3, <4>4
    <3>3. QED
      BY <3>1, <3>2
  <2>3. QED
    BY <2>1, <2>2 DEF IdleOK
<1>12. SuspensionOK(t)
  BY <1>6 DEF Good, SuspensionOK, Places, At
<1>13. CountOK(t)
  <2>1. ASSUME NEW n \in Mon
        PROVE  t.count[n] = Len(t.queue[n]) + (IF t.caller[n] # None THEN 1 ELSE 0)
    <3>1. s.count[n] = Len(s.queue[n]) + (IF s.caller[n] # None THEN 1 ELSE 0)
      BY DEF Good, CountOK
    <3>2. t.queue[n] = s.queue[n] /\ Len(s.queue[n]) \in Nat
      BY <1>1, <1>6, QueueTypes
    <3>3. CASE n = m
      <4>1. Len(s.queue[n]) = 0 /\ s.caller[n] # None /\ t.caller[n] = None
        BY <1>2, <1>7, <3>3, Agents DEF c
      <4>2. s.count[n] = 1
        BY <3>1, <4>1
      <4>3. t.count[n] = 0
        BY <1>7, <3>3, <4>2
      <4>4. QED
        BY <3>2, <4>1, <4>3
    <3>4. CASE n # m
      <4>1. t.count[n] = s.count[n] /\ t.caller[n] = s.caller[n]
        BY <1>7, <3>4
      <4>2. QED
        BY <3>1, <3>2, <4>1
    <3>5. QED
      BY <3>3, <3>4
  <2>2. QED
    BY <2>1 DEF CountOK
<1>14. DeadOK(t)
  <2>1. ASSUME NEW b \in t.dead \cap t.alive
        PROVE  /\ b \notin t.run /\ t.deferred = b /\ t.inside[b] \in {None, ObjectManager}
               /\ \A n \in Mon : \A i \in Places(t, n) : At(t, n, i) # b
    <3>1. /\ b \notin s.run /\ s.deferred = b /\ s.inside[b] \in {None, ObjectManager}
          /\ \A n \in Mon : \A i \in Places(s, n) : At(s, n, i) # b
          /\ b \in Agent /\ b \in s.dead
      BY <1>1, <1>6, KernelFields, Agents DEF Good, DeadOK
    <3>2. \A n \in Mon : \A i \in Places(t, n) : At(t, n, i) # b
      BY <1>8, <3>1
    <3>3. b \notin t.run
      BY <1>4, <1>6, <3>1
    <3>4. t.inside[b] \in {s.inside[b], None}
      BY <1>7, <3>1
    <3>5. QED
      BY <1>6, <3>1, <3>2, <3>3, <3>4
  <2>2. t.caller[ObjectManager] \in t.dead => t.pc[ObjectManager] = "done"
    <3>1. None \notin s.dead
      BY <1>1, KernelFields
    <3>2. QED
      BY <1>6, <1>7, <3>1, Agents DEF Good, DeadOK
  <2>3. t.pc[ObjectManager] \in {"request", "handled", "scavenge"} => t.deferred = None
    BY <1>6, <1>7, Agents DEF Good, DeadOK
  <2>4. QED
    BY <1>6, <2>1, <2>2, <2>3 DEF Good, DeadOK
<1>15. AccountOK(t)
  <2> SUFFICES ASSUME NEW b \in Task \cap t.alive
               PROVE  \/ b \in t.run \cup t.dead \cup t.die
                      \/ t.inside[b] # None
                      \/ \E n \in Mon : \E i \in Places(t, n) : At(t, n, i) = b
                      \/ t.request[b].sel = "suspend"
    BY DEF AccountOK
  <2>1. CASE b = c
    BY <1>4, <1>6, <2>1
  <2>2. CASE b # c
    <3>1. t.inside[b] = s.inside[b]
      BY <1>7, <2>2, Agents
    <3>2. s.run \ {m} \subseteq t.run /\ b # m
      BY <1>6, Agents
    <3>3. \A n \in Mon : \A i \in Places(s, n) : i \in Places(t, n) /\ At(t, n, i) = At(s, n, i)
      BY <1>8
    <3>4. QED
      BY <1>6, <2>2, <3>1, <3>2, <3>3 DEF Good, AccountOK
  <2>3. QED
    BY <2>1, <2>2
<1>16. SendersOK(t)
  BY <1>6 DEF Good, SendersOK
<1>17. QED
  BY <1>6, <1>9, <1>10, <1>11, <1>12, <1>13, <1>14, <1>15, <1>16 DEF Good, t

Swapped(s, m, a) ==
  LET c == s.caller[m]
  IN  [s EXCEPT !.run = ((@ \ {a}) \cup (IF c \in s.die \cup s.dead THEN {} ELSE {c})) \cup {m},
                !.inside = [@ EXCEPT ![c] = None, ![a] = m],
                !.caller[m] = a, !.pc[m] = "proc"]

\* A scheduled agent takes the place of the caller.
LEMMA SwappedGood ==
  ASSUME NEW s, Good(s), NEW m \in Mon, m \in s.run, NEW a \in s.run, a # m
  PROVE  Good(Swapped(s, m, a))
<1> DEFINE t == Swapped(s, m, a)
           c == s.caller[m]
           back == IF c \in s.die \cup s.dead THEN {} ELSE {c}
<1>1. s \in KernelType
  BY DEF Good
<1>2. /\ c \in Agent /\ c \in s.alive /\ c \notin s.run /\ s.inside[c] = m
      /\ c # m
      /\ \A n \in Mon : \A i \in Places(s, n) : At(s, n, i) # c
      /\ \A n \in Mon : s.caller[n] = c => n = m
      /\ c \in Mon => s.caller[c] # None
      /\ s.pc[m] # "idle"
  BY Serving
<1>3. /\ a \in Agent /\ a \in s.alive /\ s.inside[a] = None
      /\ \A n \in Mon : \A i \in Places(s, n) : At(s, n, i) # a
      /\ \A n \in Mon : s.caller[n] # a
      /\ a \notin s.dead
      /\ a \in Mon => s.caller[a] # None
      /\ a # c
  BY <1>2, Scheduled DEF Busy
<1>4. back \subseteq {c} /\ (c \notin s.die \cup s.dead => c \in back) /\ (c \in s.dead => back = {})
  OBVIOUS
<1>5. /\ [s.caller EXCEPT ![m] = a] \in [Mon -> Agent \cup {None}]
      /\ [s.inside EXCEPT ![c] = None, ![a] = m] \in [Agent -> Mon \cup {None}]
      /\ [s.pc EXCEPT ![m] = "proc"] \in [Agent -> Pc]
      /\ ((s.run \ {a}) \cup back) \cup {m} \subseteq Agent
  <2>1. [s.caller EXCEPT ![m] = a] \in [Mon -> Agent \cup {None}]
    BY <1>1, <1>3, KernelFields
  <2>2. [s.inside EXCEPT ![c] = None] \in [Agent -> Mon \cup {None}]
    BY <1>1, KernelFields
  <2>3. [s.inside EXCEPT ![c] = None, ![a] = m] \in [Agent -> Mon \cup {None}]
    BY <2>2
  <2>4. [s.pc EXCEPT ![m] = "proc"] \in [Agent -> Pc]
    BY <1>1, KernelFields DEF Pc
  <2>5. ((s.run \ {a}) \cup back) \cup {m} \subseteq Agent
    BY <1>1, <1>2, <1>4, KernelFields, Agents
  <2>6. QED
    BY <2>1, <2>3, <2>4, <2>5
<1>6. /\ t \in KernelType
      /\ t.caller = [s.caller EXCEPT ![m] = a]
      /\ t.inside = [s.inside EXCEPT ![c] = None, ![a] = m]
      /\ t.pc = [s.pc EXCEPT ![m] = "proc"]
      /\ t.run = ((s.run \ {a}) \cup back) \cup {m}
      /\ t.alive = s.alive /\ t.queue = s.queue /\ t.count = s.count /\ t.die = s.die
      /\ t.dead = s.dead /\ t.suspended = s.suspended /\ t.request = s.request
      /\ t.deferred = s.deferred
  <2> HIDE DEF c, back
  <2>1. t = [s EXCEPT !.run = ((@ \ {a}) \cup back) \cup {m}, !.inside = [@ EXCEPT ![c] = None, ![a] = m],
                      !.caller[m] = a, !.pc[m] = "proc"]
    BY DEF Swapped, c, back
  <2> HIDE DEF t
  <2>2. QED
    BY <1>1, <1>5, <2>1 DEF KernelType
<1> HIDE DEF t, c, back
<1>7. /\ \A n \in Mon \ {m} : t.caller[n] = s.caller[n] /\ t.pc[n] = s.pc[n]
      /\ t.caller[m] = a /\ t.pc[m] = "proc"
      /\ \A b \in Agent \ {a, c} : t.inside[b] = s.inside[b]
      /\ t.inside[c] = None /\ t.inside[a] = m
  BY <1>1, <1>2, <1>3, <1>6, KernelFields, Agents
<1>8. \A n \in Mon : Places(t, n) = Places(s, n) /\ \A i \in Places(t, n) : At(t, n, i) = At(s, n, i)
  BY <1>6 DEF Places, At
<1>9. t.run \subseteq s.run \cup {c} /\ a \notin t.run /\ s.run \ {a} \subseteq t.run
  BY <1>3, <1>4, <1>6
<1>10. QueuesOK(t)
  <2>1. ASSUME NEW n \in Mon, NEW i \in Places(t, n)
        PROVE  At(t, n, i) \in t.alive \ t.run /\ t.inside[At(t, n, i)] = None
    <3>1. i \in Places(s, n) /\ At(t, n, i) = At(s, n, i)
      BY <1>8
    <3>2. /\ At(s, n, i) # c /\ At(s, n, i) # a /\ At(s, n, i) \in Agent
          /\ At(s, n, i) \in s.alive \ s.run /\ s.inside[At(s, n, i)] = None
      BY <1>1, <1>2, <1>3, <3>1, QueueTypes DEF Good, QueuesOK
    <3>3. QED
      BY <1>6, <1>7, <1>9, <3>1, <3>2
  <2>2. QED
    BY <1>8, <2>1 DEF Good, QueuesOK
<1>11. CallersOK(t)
  <2>1. t.run \subseteq t.alive
    BY <1>2, <1>6, <1>9 DEF Good, CallersOK
  <2>2. ASSUME NEW n \in Mon, t.caller[n] # None
        PROVE  t.caller[n] \in t.alive \ t.run /\ t.inside[t.caller[n]] = n
    <3>1. CASE n = m
      BY <1>3, <1>6, <1>7, <1>9, <3>1
    <3>2. CASE n # m
      <4>1. t.caller[n] = s.caller[n] /\ s.caller[n] # None
        BY <1>7, <2>2, <3>2
      <4>2. s.caller[n] \in s.alive \ s.run /\ s.inside[s.caller[n]] = n /\ s.caller[n] \in Agent
        BY <1>1, <4>1, KernelFields DEF Good, CallersOK
      <4>3. s.caller[n] # c /\ s.caller[n] # a
        BY <1>2, <1>3, <3>2
      <4>4. QED
        BY <1>6, <1>7, <1>9, <4>1, <4>2, <4>3
    <3>3. QED
      BY <3>1, <3>2
  <2>3. ASSUME NEW b \in Agent, t.inside[b] # None
        PROVE  t.caller[t.inside[b]] = b
    <3>1. CASE b = a
      BY <1>7, <3>1
    <3>2. CASE b # a
      <4>1. b # c /\ t.inside[b] = s.inside[b]
        BY <1>7, <2>3, <3>2
      <4>2. s.caller[s.inside[b]] = b /\ s.inside[b] \in Mon
        BY <1>1, <2>3, <4>1, KernelFields DEF Good, CallersOK
      <4>3. s.inside[b] # m
        BY <4>1, <4>2 DEF c
      <4>4. QED
        BY <1>7, <4>1, <4>2, <4>3
    <3>3. QED
      BY <3>1, <3>2
  <2>4. QED
    BY <2>1, <2>2, <2>3 DEF CallersOK
<1>12. IdleOK(t)
  <2>1. \A n \in Mon : t.pc[n] # "idle" <=> t.caller[n] # None
    BY <1>3, <1>7, Agents DEF Good, IdleOK
  <2>2. ASSUME NEW n \in Mon, t.caller[n] = None
        PROVE  /\ t.queue[n] = <<>> /\ n \notin t.run /\ t.inside[n] = None
               /\ \A n2 \in Mon : \A i \in Places(t, n2) : At(t, n2, i) # n
    <3>1. n # m /\ s.caller[n] = None /\ n # c /\ n # a
      BY <1>2, <1>3, <1>7, <2>2, Agents
    <3>2. /\ s.queue[n] = <<>> /\ n \notin s.run /\ s.inside[n] = None
          /\ \A n2 \in Mon : \A i \in Places(s, n2) : At(s, n2, i) # n
      BY <3>1 DEF Good, IdleOK
    <3>3. \A n2 \in Mon : \A i \in Places(t, n2) : At(t, n2, i) # n
      BY <1>8, <3>2
    <3>4. t.queue[n] = <<>> /\ n \notin t.run /\ t.inside[n] = None
      BY <1>6, <1>7, <1>9, <3>1, <3>2, Agents
    <3>5. QED
      BY <3>3, <3>4
  <2>3. QED
    BY <2>1, <2>2 DEF IdleOK
<1>13. SuspensionOK(t)
  BY <1>6 DEF Good, SuspensionOK, Places, At
<1>14. CountOK(t)
  <2>1. ASSUME NEW n \in Mon
        PROVE  t.count[n] = Len(t.queue[n]) + (IF t.caller[n] # None THEN 1 ELSE 0)
    <3>1. s.count[n] = Len(s.queue[n]) + (IF s.caller[n] # None THEN 1 ELSE 0)
      BY DEF Good, CountOK
    <3>2. t.queue[n] = s.queue[n] /\ t.count[n] = s.count[n]
      BY <1>6
    <3>3. s.caller[n] # None <=> t.caller[n] # None
      BY <1>2, <1>3, <1>7, Agents DEF c
    <3>4. QED
      BY <3>1, <3>2, <3>3
  <2>2. QED
    BY <2>1 DEF CountOK
<1>15. DeadOK(t)
  <2>1. ASSUME NEW b \in t.dead \cap t.alive
        PROVE  /\ b \notin t.run /\ t.deferred = b /\ t.inside[b] \in {None, ObjectManager}
               /\ \A n \in Mon : \A i \in Places(t, n) : At(t, n, i) # b
    <3>1. /\ b \notin s.run /\ s.deferred = b /\ s.inside[b] \in {None, ObjectManager}
          /\ \A n \in Mon : \A i \in Places(s, n) : At(s, n, i) # b
          /\ b \in Agent /\ b \in s.dead /\ b # a /\ b # m
      BY <1>1, <1>3, <1>6, KernelFields, Agents DEF Good, DeadOK
    <3>2. \A n \in Mon : \A i \in Places(t, n) : At(t, n, i) # b
      BY <1>8, <3>1
    <3>3. b \notin t.run
      BY <1>4, <1>6, <3>1
    <3>4. t.inside[b] \in {s.inside[b], None}
      BY <1>7, <3>1
    <3>5. QED
      BY <1>6, <3>1, <3>2, <3>3, <3>4
  <2>2. t.caller[ObjectManager] \in t.dead => t.pc[ObjectManager] = "done"
    BY <1>3, <1>6, <1>7, Agents DEF Good, DeadOK
  <2>3. t.pc[ObjectManager] \in {"request", "handled", "scavenge"} => t.deferred = None
    BY <1>6, <1>7, Agents DEF Good, DeadOK
  <2>4. QED
    BY <1>6, <2>1, <2>2, <2>3 DEF Good, DeadOK
<1>16. AccountOK(t)
  <2> SUFFICES ASSUME NEW b \in Task \cap t.alive
               PROVE  \/ b \in t.run \cup t.dead \cup t.die
                      \/ t.inside[b] # None
                      \/ \E n \in Mon : \E i \in Places(t, n) : At(t, n, i) = b
                      \/ t.request[b].sel = "suspend"
    BY DEF AccountOK
  <2>1. CASE b = c
    BY <1>4, <1>6, <2>1
  <2>2. CASE b = a
    BY <1>7, <2>2, Agents
  <2>3. CASE b # c /\ b # a
    <3>1. t.inside[b] = s.inside[b]
      BY <1>7, <2>3, Agents
    <3>2. \A n \in Mon : \A i \in Places(s, n) : i \in Places(t, n) /\ At(t, n, i) = At(s, n, i)
      BY <1>8
    <3>3. QED
      BY <1>6, <1>9, <2>3, <3>1, <3>2 DEF Good, AccountOK
  <2>4. QED
    BY <2>1, <2>2, <2>3
<1>17. SendersOK(t)
  BY <1>6 DEF Good, SendersOK
<1>18. QED
  BY <1>6, <1>10, <1>11, <1>12, <1>13, <1>14, <1>15, <1>16, <1>17 DEF Good, t

\* release: nobody waits, the head of the queue is refused, or it enters.
LEMMA ReleaseGood ==
  ASSUME NEW s, Good(s), NEW m \in Mon, m \in s.run
  PROVE  Good(Release(s, m))
<1> DEFINE a == Head(s.queue[m])
           c == s.caller[m]
           back == IF c \in s.die \cup s.dead THEN {} ELSE {c}
           L == Len(s.queue[m])
<1>1. /\ s \in KernelType /\ L \in Nat /\ s.queue[m] \in Seq(Agent) /\ s.count \in [Mon -> Int]
      /\ s.queue \in [Mon -> Seq(Agent)] /\ s.count[m] \in Int
  BY KernelFields, QueueTypes DEF Good
<1>2. CASE s.queue[m] = <<>>
  <2>1. Release(s, m) = Left(s, m)
    BY <1>2 DEF Release, Left
  <2>2. QED
    BY <1>2, <2>1, LeftGood
<1>3. CASE s.queue[m] # <<>>
  <2>1. 1 \notin s.suspended[m]
    BY <1>3 DEF Good, SuspensionOK
  <2>2. Release(s, m) = SetUpEntry([Left(s, m) EXCEPT !.queue[m] = Tail(@)], m, a)
    BY <1>3, <2>1 DEF Release, Left
  <2>3. /\ a \in Agent /\ a \notin s.run /\ 1 \in Places(s, m) /\ At(s, m, 1) = a
    BY <1>1, <1>3, QueueTypes DEF Good, QueuesOK, Places, At
  <2> HIDE DEF a
  <2>4. CASE s.request[a].sel = "suspend"
    <3> DEFINE p == Popped(s, m, s.run)
    <3>1. Good(p)
      BY <1>3, <2>4, PoppedGood DEF a
    <3>2. L = 1
      BY <2>3, <2>4 DEF Good, SuspensionOK
    <3>3. Tail(s.queue[m]) = <<>>
      <4>1. Tail(s.queue[m]) \in Seq(Agent) /\ Len(Tail(s.queue[m])) = 0
        BY <1>1, <1>3, <3>2
      <4>2. QED
        BY <4>1, EmptyQueue
    <3>4. /\ p \in KernelType /\ p.run = s.run /\ p.queue = [s.queue EXCEPT ![m] = Tail(@)]
          /\ p.count = [s.count EXCEPT ![m] = @ - 1] /\ p.alive = s.alive /\ p.owner = s.owner
          /\ p.caller = s.caller /\ p.suspended = s.suspended /\ p.inside = s.inside
          /\ p.die = s.die /\ p.dead = s.dead /\ p.request = s.request /\ p.pc = s.pc
          /\ p.deferred = s.deferred /\ p.destroyed = s.destroyed
      <4>1. p \in KernelType
        BY <3>1 DEF Good
      <4>2. QED
        BY <1>1, <4>1 DEF Popped, KernelType
    <3>5. p.queue[m] = <<>>
      BY <1>1, <3>3, <3>4
    <3>6. Good(Left(p, m))
      BY <3>1, <3>4, <3>5, LeftGood
    <3>7. Release(s, m) = [[Left(s, m) EXCEPT !.queue[m] = Tail(@)] EXCEPT !.count[m] = @ - 1]
      <4>1. Left(s, m).request = s.request
        BY <1>1 DEF Left, KernelType
      <4>2. [Left(s, m) EXCEPT !.queue[m] = Tail(@)].request = s.request
        BY <1>1 DEF Left, KernelType
      <4>3. Refuses([Left(s, m) EXCEPT !.queue[m] = Tail(@)], a)
        BY <2>4, <4>2 DEF Refuses
      <4>4. QED
        BY <2>2, <4>3 DEF SetUpEntry
    <3>8. Left(p, m) = Release(s, m)
      <4> DEFINE x == Left(s, m)
      <4> HIDE DEF back, c
      <4>1. x = [s EXCEPT !.run = (@ \ {m}) \cup back, !.inside[c] = None, !.count[m] = @ - 1,
                          !.caller[m] = None, !.pc[m] = "idle"]
        BY DEF Left, back, c
      <4>2. Left(p, m) = [p EXCEPT !.run = (@ \ {m}) \cup back, !.inside[c] = None, !.count[m] = @ - 1,
                          !.caller[m] = None, !.pc[m] = "idle"]
        BY <3>4 DEF Left, back, c
      <4>3. p = [s EXCEPT !.queue[m] = Tail(@), !.count[m] = @ - 1]
        BY <1>1 DEF Popped, KernelType
      <4> DEFINE y == Left(p, m)
                 z == Release(s, m)
      <4> HIDE DEF p, x
      <4>4. z = [[x EXCEPT !.queue[m] = Tail(@)] EXCEPT !.count[m] = @ - 1]
        BY <3>7 DEF x
      <4>5. y = [p EXCEPT !.run = (@ \ {m}) \cup back, !.inside[c] = None, !.count[m] = @ - 1,
                          !.caller[m] = None, !.pc[m] = "idle"]
        BY <4>2
      <4> HIDE DEF y, z
      <4>6. KernelRecord(x) /\ KernelRecord(p)
        BY <1>1, <4>1, <4>3 DEF KernelType, KernelRecord, Names
      <4>7. KernelRecord(y) /\ KernelRecord(z)
        BY <4>4, <4>5, <4>6 DEF KernelRecord, Names
      <4>8. /\ y.run = z.run /\ y.queue = z.queue /\ y.alive = z.alive /\ y.owner = z.owner
            /\ y.caller = z.caller /\ y.suspended = z.suspended /\ y.inside = z.inside
            /\ y.die = z.die /\ y.dead = z.dead /\ y.request = z.request /\ y.pc = z.pc
            /\ y.deferred = z.deferred /\ y.destroyed = z.destroyed
        BY SMTT(30), <1>1, <4>1, <4>3, <4>4, <4>5 DEF KernelType
      <4>9. y.count = z.count
        <5>1. /\ y.count = [[s.count EXCEPT ![m] = @ - 1] EXCEPT ![m] = @ - 1]
              /\ z.count = [[s.count EXCEPT ![m] = @ - 1] EXCEPT ![m] = @ - 1]
          BY <1>1, <4>1, <4>3, <4>4, <4>5 DEF KernelType
        <5>2. QED
          BY <5>1
      <4>10. QED
        BY <4>7, <4>8, <4>9, SameKernel DEF y, z
    <3>9. QED
      BY <3>6, <3>8
  <2>5. CASE s.request[a].sel # "suspend"
    <3> DEFINE p == Popped(s, m, s.run \cup {a})
    <3>1. Good(p)
      BY <1>3, <2>3, PoppedGood DEF a
    <3>2. Good(Swapped(p, m, a))
      <4>1. p.run = s.run \cup {a}
        BY <1>1 DEF Popped, KernelType
      <4>2. a # m
        BY <2>3
      <4> HIDE DEF p
      <4>3. QED
        BY <3>1, <4>1, <4>2, SwappedGood
    <3>3. Swapped(p, m, a) = Release(s, m)
      <4> DEFINE x == [Left(s, m) EXCEPT !.queue[m] = Tail(@)]
      <4> HIDE DEF back, c
      <4>1. x = [s EXCEPT !.run = (@ \ {m}) \cup back, !.inside[c] = None, !.count[m] = @ - 1,
                          !.caller[m] = None, !.pc[m] = "idle", !.queue[m] = Tail(@)]
        BY <1>1 DEF Left, KernelType, back, c
      <4>2. Release(s, m) = [x EXCEPT !.caller[m] = a, !.inside[a] = m, !.pc[m] = "proc",
                                      !.run = @ \cup {m}]
        <5>1. x.request = s.request
          BY ZenonT(40), <1>1, <4>1 DEF KernelType
        <5>2. ~Refuses(x, a)
          BY <2>5, <5>1 DEF Refuses
        <5>3. QED
          BY <2>2, <5>2 DEF SetUpEntry
      <4>3. p = [s EXCEPT !.queue[m] = Tail(@), !.count[m] = @ - 1, !.run = s.run \cup {a}]
        BY DEF Popped
      <4>4. Swapped(p, m, a) =
              [p EXCEPT !.run = ((@ \ {a}) \cup back) \cup {m}, !.inside = [@ EXCEPT ![c] = None, ![a] = m],
                        !.caller[m] = a, !.pc[m] = "proc"]
        BY ZenonT(40), <1>1, <4>3 DEF Swapped, KernelType, back, c
      <4>5. ((((s.run \cup {a}) \ {a}) \cup back) \cup {m}) = ((s.run \ {m}) \cup back) \cup {m}
        BY <2>3
      <4> DEFINE y == Swapped(p, m, a)
                 z == Release(s, m)
      <4>6. y = [p EXCEPT !.run = ((@ \ {a}) \cup back) \cup {m}, !.inside = [@ EXCEPT ![c] = None, ![a] = m],
                          !.caller[m] = a, !.pc[m] = "proc"]
        BY <4>4
      <4>7. z = [x EXCEPT !.caller[m] = a, !.inside[a] = m, !.pc[m] = "proc", !.run = @ \cup {m}]
        BY <4>2
      <4> HIDE DEF p, x, y, z
      <4>8. KernelRecord(x) /\ KernelRecord(p)
        BY ZenonT(40), <1>1, <4>1, <4>3 DEF KernelType, KernelRecord, Names
      <4>9. KernelRecord(y) /\ KernelRecord(z)
        BY <4>6, <4>7, <4>8 DEF KernelRecord, Names
      <4>10. /\ p.queue = x.queue /\ p.count = x.count
             /\ p.run = s.run \cup {a} /\ x.run = (s.run \ {m}) \cup back
             /\ p.inside = s.inside /\ x.inside = [s.inside EXCEPT ![c] = None]
             /\ p.caller = s.caller /\ x.caller = [s.caller EXCEPT ![m] = None]
             /\ p.pc = s.pc /\ x.pc = [s.pc EXCEPT ![m] = "idle"]
        BY <1>1, <4>1, <4>3 DEF KernelType
      <4>11. /\ p.alive = x.alive /\ p.owner = x.owner
             /\ p.suspended = x.suspended /\ p.destroyed = x.destroyed
             /\ p.die = x.die /\ p.dead = x.dead /\ p.request = x.request
             /\ p.deferred = x.deferred
        BY <1>1, <4>1, <4>3 DEF KernelType
      <4>12. /\ y.queue = p.queue /\ y.count = p.count /\ y.alive = p.alive /\ y.owner = p.owner
             /\ y.suspended = p.suspended /\ y.destroyed = p.destroyed
             /\ y.die = p.die /\ y.dead = p.dead /\ y.request = p.request
             /\ y.deferred = p.deferred
             /\ y.run = ((p.run \ {a}) \cup back) \cup {m}
             /\ y.inside = [p.inside EXCEPT ![c] = None, ![a] = m]
             /\ y.caller = [p.caller EXCEPT ![m] = a]
             /\ y.pc = [p.pc EXCEPT ![m] = "proc"]
        BY <4>6, <4>8 DEF KernelRecord, Names
      <4>13. /\ z.queue = x.queue /\ z.count = x.count /\ z.alive = x.alive /\ z.owner = x.owner
             /\ z.suspended = x.suspended /\ z.destroyed = x.destroyed
             /\ z.die = x.die /\ z.dead = x.dead /\ z.request = x.request
             /\ z.deferred = x.deferred
             /\ z.run = x.run \cup {m}
             /\ z.inside = [x.inside EXCEPT ![a] = m]
             /\ z.caller = [x.caller EXCEPT ![m] = a]
             /\ z.pc = [x.pc EXCEPT ![m] = "proc"]
        BY <4>7, <4>8 DEF KernelRecord, Names
      <4>14. y.run = z.run
        BY <4>5, <4>10, <4>12, <4>13
      <4>15. y.caller = z.caller
        BY <1>1, <4>10, <4>12, <4>13, KernelFields
      <4>16. y.pc = z.pc
        BY <1>1, <4>10, <4>12, <4>13, KernelFields
      <4>17. y.inside = z.inside
        BY <4>10, <4>12, <4>13
      <4>18. QED
        BY <4>9, <4>10, <4>11, <4>12, <4>13, <4>14, <4>15, <4>16, <4>17, SameKernel DEF y, z
    <3>4. QED
      BY <3>2, <3>3
  <2>6. QED
    BY <2>4, <2>5
<1>4. QED
  BY <1>2, <1>3

-----------------------------------------------------------------------------
(* Deletion.                                                               *)

\* What removeFromQueue leaves of a queue in which nobody is twice.
LEMMA WithoutHolds ==
  ASSUME NEW q \in Seq(Agent), NEW a, NEW w, w = Without(q, a),
         \A i, j \in 1 .. Len(q) : q[i] = q[j] => i = j
  PROVE  /\ w \in Seq(Agent)
         /\ Len(w) = IF a \in Elements(q) THEN Len(q) - 1 ELSE Len(q)
         /\ \A i \in 1 .. Len(w) : w[i] # a
         /\ \A i \in 1 .. Len(w) : \E j \in 1 .. Len(q) : w[i] = q[j]
         /\ \A i, j \in 1 .. Len(w) : w[i] = w[j] => i = j
         /\ \A i \in 1 .. Len(q) : q[i] # a => \E j \in 1 .. Len(w) : w[j] = q[i]
         /\ a \notin Elements(q) => w = q
<1> DEFINE L == Len(q)
<1>1. L \in Nat /\ DOMAIN q = 1 .. L /\ \A i \in 1 .. L : q[i] \in Agent
  OBVIOUS
<1>2. CASE a \notin Elements(q)
  <2>1. w = q
    BY <1>2 DEF Without
  <2>2. \A i \in 1 .. L : q[i] # a
    BY <1>1, <1>2 DEF Elements
  <2>3. QED
    BY <1>2, <2>1, <2>2
<1>3. CASE a \in Elements(q)
  <2> DEFINE at == CHOOSE i \in DOMAIN q : q[i] = a
             src(j) == IF j < at THEN j ELSE j + 1
  <2>1. at \in 1 .. L /\ q[at] = a
    BY <1>1, <1>3 DEF Elements
  <2>2. w = [j \in 1 .. L - 1 |-> IF j < at THEN q[j] ELSE q[j + 1]]
    BY <1>3 DEF Without
  <2> HIDE DEF at
  <2>3. \A j \in 1 .. L - 1 : src(j) \in 1 .. L /\ src(j) # at
    BY <1>1, <2>1
  <2>4. \A j \in 1 .. L - 1 : w[j] = q[src(j)]
    BY <2>2
  <2>5. L - 1 \in Nat
    BY <1>1, <2>1
  <2>6. \A j \in 1 .. L - 1 : w[j] \in Agent
    BY <1>1, <2>3, <2>4
  <2>7. w \in Seq(Agent) /\ Len(w) = L - 1
    BY <2>2, <2>5, <2>6
  <2>8. \A i, j \in 1 .. L - 1 : src(i) = src(j) => i = j
    BY <1>1, <2>1
  <2>9. \A i \in 1 .. L : i # at => \E j \in 1 .. L - 1 : src(j) = i
    <3>1. ASSUME NEW i \in 1 .. L, i # at
          PROVE  \E j \in 1 .. L - 1 : src(j) = i
      <4>1. CASE i < at
        <5>1. i \in 1 .. L - 1 /\ src(i) = i
          BY <1>1, <2>1, <4>1
        <5>2. QED
          BY <5>1
      <4>2. CASE ~(i < at)
        <5>1. i - 1 \in 1 .. L - 1 /\ ~(i - 1 < at) /\ (i - 1) + 1 = i
          BY <1>1, <2>1, <3>1, <4>2
        <5>2. src(i - 1) = i
          BY <5>1
        <5>3. QED
          BY <5>1, <5>2
      <4>3. QED
        BY <4>1, <4>2
    <3>2. QED
      BY <3>1
  <2> HIDE DEF src
  <2>10. \A i \in 1 .. L - 1 : w[i] # a
    BY <2>1, <2>3, <2>4
  <2>11. \A i \in 1 .. L - 1 : \E j \in 1 .. L : w[i] = q[j]
    BY <2>3, <2>4
  <2>12. ASSUME NEW i \in 1 .. L - 1, NEW j \in 1 .. L - 1, w[i] = w[j]
         PROVE  i = j
    <3>1. w[i] = q[src(i)] /\ w[j] = q[src(j)]
      BY <2>4
    <3>2. src(i) \in 1 .. L /\ src(j) \in 1 .. L
      BY <2>3
    <3>3. src(i) = src(j)
      BY <2>12, <3>1, <3>2
    <3>4. QED
      BY <2>8, <3>3
  <2>13. \A i \in 1 .. L : q[i] # a => \E j \in 1 .. L - 1 : w[j] = q[i]
    BY <2>1, <2>4, <2>9
  <2>14. QED
    BY <1>3, <2>7, <2>10, <2>11, <2>12, <2>13
<1>4. QED
  BY <1>2, <1>3

\* A task outside every monitor is deleted, wherever it waits.
LEMMA DeleteTaskGood ==
  ASSUME NEW s, Good(s), NEW x \in Task, s.inside[x] = None
  PROVE  Good(DeleteTask(s, x))
<1> DEFINE t == DeleteTask(s, x)
           queue == [m \in Mon |-> Without(s.queue[m], x)]
           count == [m \in Mon |-> IF x \in Elements(s.queue[m]) THEN s.count[m] - 1 ELSE s.count[m]]
<1>1. /\ s \in KernelType
      /\ \A m \in Mon : /\ s.queue[m] \in Seq(Agent) /\ Len(s.queue[m]) \in Nat /\ s.count[m] \in Int
                        /\ \A i, j \in 1 .. Len(s.queue[m]) : s.queue[m][i] = s.queue[m][j] => i = j
  BY QueueTypes DEF Good, QueuesOK, Places, At
<1>2. \A m \in Mon : queue[m] = Without(s.queue[m], x)
  OBVIOUS
<1> HIDE DEF queue
<1>3. \A m \in Mon :
         /\ queue[m] \in Seq(Agent)
         /\ Len(queue[m]) = IF x \in Elements(s.queue[m]) THEN Len(s.queue[m]) - 1 ELSE Len(s.queue[m])
         /\ \A i \in 1 .. Len(queue[m]) : queue[m][i] # x
         /\ \A i \in 1 .. Len(queue[m]) : \E j \in 1 .. Len(s.queue[m]) : queue[m][i] = s.queue[m][j]
         /\ \A i, j \in 1 .. Len(queue[m]) : queue[m][i] = queue[m][j] => i = j
         /\ \A i \in 1 .. Len(s.queue[m]) :
              s.queue[m][i] # x => \E j \in 1 .. Len(queue[m]) : queue[m][j] = s.queue[m][i]
         /\ x \notin Elements(s.queue[m]) => queue[m] = s.queue[m]
  <2> SUFFICES ASSUME NEW m \in Mon
               PROVE
         /\ queue[m] \in Seq(Agent)
         /\ Len(queue[m]) = IF x \in Elements(s.queue[m]) THEN Len(s.queue[m]) - 1 ELSE Len(s.queue[m])
         /\ \A i \in 1 .. Len(queue[m]) : queue[m][i] # x
         /\ \A i \in 1 .. Len(queue[m]) : \E j \in 1 .. Len(s.queue[m]) : queue[m][i] = s.queue[m][j]
         /\ \A i, j \in 1 .. Len(queue[m]) : queue[m][i] = queue[m][j] => i = j
         /\ \A i \in 1 .. Len(s.queue[m]) :
              s.queue[m][i] # x => \E j \in 1 .. Len(queue[m]) : queue[m][j] = s.queue[m][i]
         /\ x \notin Elements(s.queue[m]) => queue[m] = s.queue[m]
    OBVIOUS
  <2>1. \A i, j \in 1 .. Len(s.queue[m]) : s.queue[m][i] = s.queue[m][j] => i = j
    BY <1>1
  <2>2. queue[m] = Without(s.queue[m], x) /\ s.queue[m] \in Seq(Agent)
    BY <1>1, <1>2
  <2> DEFINE q == s.queue[m]
  <2> HIDE DEF q
  <2>3. q \in Seq(Agent) /\ queue[m] = Without(q, x) /\ \A i, j \in 1 .. Len(q) : q[i] = q[j] => i = j
    BY <2>1, <2>2 DEF q
  <2>4. /\ queue[m] \in Seq(Agent)
        /\ Len(queue[m]) = IF x \in Elements(q) THEN Len(q) - 1 ELSE Len(q)
        /\ \A i \in 1 .. Len(queue[m]) : queue[m][i] # x
        /\ \A i \in 1 .. Len(queue[m]) : \E j \in 1 .. Len(q) : queue[m][i] = q[j]
        /\ \A i, j \in 1 .. Len(queue[m]) : queue[m][i] = queue[m][j] => i = j
        /\ \A i \in 1 .. Len(q) : q[i] # x => \E j \in 1 .. Len(queue[m]) : queue[m][j] = q[i]
        /\ x \notin Elements(q) => queue[m] = q
    BY <2>3, WithoutHolds, Zenon
  <2>5. QED
    BY <2>4 DEF q
<1>4. queue \in [Mon -> Seq(Agent)]
  BY <1>3 DEF queue
<1>5. count \in [Mon -> Int]
  BY <1>1
<1>6. /\ t \in KernelType
      /\ t.queue = queue /\ t.count = count
      /\ t.run = s.run \ {x} /\ t.alive = s.alive \ {x}
      /\ t.caller = s.caller /\ t.inside = s.inside /\ t.die = s.die
      /\ t.dead = s.dead /\ t.suspended = s.suspended /\ t.request = s.request
      /\ t.pc = s.pc /\ t.deferred = s.deferred
  <2>1. t = [s EXCEPT !.queue = queue, !.count = count, !.run = @ \ {x}, !.alive = @ \ {x},
                      !.destroyed = TRUE]
    BY DEF DeleteTask, queue
  <2>2. s.run \ {x} \subseteq Agent /\ s.alive \ {x} \subseteq Agent
    BY <1>1, KernelFields
  <2> HIDE DEF t, count
  <2>3. QED
    BY ZenonT(40), <1>1, <1>4, <1>5, <2>1, <2>2 DEF KernelType
<1>7. \A m \in Mon : t.count[m] = IF x \in Elements(s.queue[m]) THEN s.count[m] - 1 ELSE s.count[m]
  BY <1>6
<1> HIDE DEF t, count
<1>8. \A m \in Mon : \A i \in Places(t, m) :
        At(t, m, i) # x /\ \E j \in Places(s, m) : At(t, m, i) = At(s, m, j)
  BY <1>3, <1>6 DEF Places, At
<1>9. \A m \in Mon : \A i \in Places(s, m) :
        At(s, m, i) # x => \E j \in Places(t, m) : At(t, m, j) = At(s, m, i)
  BY <1>3, <1>6 DEF Places, At
<1>10. \A m \in Mon : s.caller[m] # x
  BY Agents DEF Good, CallersOK
<1>11. QueuesOK(t)
  <2>1. ASSUME NEW m \in Mon, NEW i \in Places(t, m)
        PROVE  At(t, m, i) \in t.alive \ t.run /\ t.inside[At(t, m, i)] = None
    BY <1>6, <1>8 DEF Good, QueuesOK
  <2>2. ASSUME NEW m \in Mon, NEW n \in Mon, NEW i \in Places(t, m), NEW j \in Places(t, n),
               At(t, m, i) = At(t, n, j)
        PROVE  m = n /\ i = j
    <3>1. PICK i2 \in Places(s, m) : At(t, m, i) = At(s, m, i2)
      BY <1>8
    <3>2. PICK j2 \in Places(s, n) : At(t, n, j) = At(s, n, j2)
      BY <1>8
    <3>3. At(s, m, i2) = At(s, n, j2)
      BY <2>2, <3>1, <3>2
    <3>4. m = n
      BY <3>3 DEF Good, QueuesOK
    <3>5. QED
      BY <1>3, <1>6, <2>2, <3>4 DEF Places, At
  <2>3. QED
    BY <2>1, <2>2 DEF QueuesOK
<1>12. CallersOK(t)
  BY <1>6, <1>10 DEF Good, CallersOK
<1>13. IdleOK(t)
  <2>1. \A n \in Mon : t.pc[n] # "idle" <=> t.caller[n] # None
    BY <1>6 DEF Good, IdleOK
  <2>2. ASSUME NEW n \in Mon, t.caller[n] = None
        PROVE  /\ t.queue[n] = <<>> /\ n \notin t.run /\ t.inside[n] = None
               /\ \A n2 \in Mon : \A i \in Places(t, n2) : At(t, n2, i) # n
    <3>1. /\ s.queue[n] = <<>> /\ n \notin s.run /\ s.inside[n] = None
          /\ \A n2 \in Mon : \A i \in Places(s, n2) : At(s, n2, i) # n
      BY <1>6, <2>2 DEF Good, IdleOK
    <3>2. Elements(s.queue[n]) = {}
      BY <3>1 DEF Elements
    <3>3. t.queue[n] = <<>>
      BY <1>3, <1>6, <3>1, <3>2
    <3>4. \A n2 \in Mon : \A i \in Places(t, n2) : At(t, n2, i) # n
      BY <1>8, <3>1
    <3>5. QED
      BY <1>6, <3>1, <3>3, <3>4
  <2>3. QED
    BY <2>1, <2>2 DEF IdleOK
<1>14. SuspensionOK(t)
  <2>1. ASSUME NEW m \in Mon, 1 \in t.suspended[m]
        PROVE  t.queue[m] = <<>>
    <3>1. s.queue[m] = <<>>
      BY <1>6, <2>1 DEF Good, SuspensionOK
    <3>2. Elements(s.queue[m]) = {}
      BY <3>1 DEF Elements
    <3>3. QED
      BY <1>3, <1>6, <3>1, <3>2
  <2>2. ASSUME NEW m \in Mon, NEW i \in Places(t, m), t.request[At(t, m, i)].sel = "suspend"
        PROVE  t.suspended[m] # {} /\ Len(t.queue[m]) = 1
    <3>1. PICK j \in Places(s, m) : At(t, m, i) = At(s, m, j)
      BY <1>8
    <3>2. s.suspended[m] # {} /\ Len(s.queue[m]) = 1
      BY <1>6, <2>2, <3>1 DEF Good, SuspensionOK
    <3>3. i \in 1 .. Len(queue[m])
      BY <1>6 DEF Places
    <3>4. Len(queue[m]) \in {Len(s.queue[m]), Len(s.queue[m]) - 1}
      BY <1>3
    <3>5. Len(queue[m]) = 1
      BY <3>2, <3>3, <3>4
    <3>6. QED
      BY <1>6, <3>2, <3>5
  <2>3. QED
    BY <2>1, <2>2 DEF SuspensionOK
<1>15. CountOK(t)
  <2>1. ASSUME NEW n \in Mon
        PROVE  t.count[n] = Len(t.queue[n]) + (IF t.caller[n] # None THEN 1 ELSE 0)
    <3> DEFINE b == IF s.caller[n] # None THEN 1 ELSE 0
    <3>1. s.count[n] = Len(s.queue[n]) + b /\ b \in Nat
      BY DEF Good, CountOK
    <3>2. t.caller[n] = s.caller[n] /\ Len(s.queue[n]) \in Nat
      BY <1>1, <1>6
    <3> HIDE DEF b
    <3>3. CASE x \in Elements(s.queue[n])
      <4>1. t.count[n] = s.count[n] - 1 /\ Len(t.queue[n]) = Len(s.queue[n]) - 1
        BY <1>3, <1>6, <1>7, <3>3
      <4>2. t.count[n] = Len(t.queue[n]) + b
        BY <3>1, <3>2, <4>1
      <4>3. QED
        BY <3>2, <4>2 DEF b
    <3>4. CASE x \notin Elements(s.queue[n])
      <4>1. t.count[n] = s.count[n] /\ Len(t.queue[n]) = Len(s.queue[n])
        BY <1>3, <1>6, <1>7, <3>4
      <4>2. QED
        BY <3>1, <3>2, <4>1 DEF b
    <3>5. QED
      BY <3>3, <3>4
  <2>2. QED
    BY <2>1 DEF CountOK
<1>16. DeadOK(t)
  <2>1. ASSUME NEW b \in t.dead \cap t.alive
        PROVE  /\ b \notin t.run /\ t.deferred = b /\ t.inside[b] \in {None, ObjectManager}
               /\ \A n \in Mon : \A i \in Places(t, n) : At(t, n, i) # b
    <3>1. /\ b \notin s.run /\ s.deferred = b /\ s.inside[b] \in {None, ObjectManager}
          /\ \A n \in Mon : \A i \in Places(s, n) : At(s, n, i) # b
      BY <1>6 DEF Good, DeadOK
    <3>2. \A n \in Mon : \A i \in Places(t, n) : At(t, n, i) # b
      BY <1>8, <3>1
    <3>3. QED
      BY <1>6, <3>1, <3>2
  <2>2. QED
    BY <1>6, <2>1 DEF Good, DeadOK
<1>17. AccountOK(t)
  <2> SUFFICES ASSUME NEW b \in Task \cap t.alive
               PROVE  \/ b \in t.run \cup t.dead \cup t.die
                      \/ t.inside[b] # None
                      \/ \E n \in Mon : \E i \in Places(t, n) : At(t, n, i) = b
                      \/ t.request[b].sel = "suspend"
    BY DEF AccountOK
  <2>1. b # x /\ b \in s.alive
    BY <1>6
  <2>2. \/ b \in s.run \cup s.dead \cup s.die
        \/ s.inside[b] # None
        \/ \E n \in Mon : \E i \in Places(s, n) : At(s, n, i) = b
        \/ s.request[b].sel = "suspend"
    BY <2>1 DEF Good, AccountOK
  <2>3. QED
    BY <1>6, <1>9, <2>1, <2>2
<1>18. SendersOK(t)
  BY <1>6 DEF Good, SendersOK
<1>19. QED
  BY <1>6, <1>11, <1>12, <1>13, <1>14, <1>15, <1>16, <1>17, <1>18 DEF Good, t

\* A monitor that serves nobody is deleted.
LEMMA DeleteMonitorGood ==
  ASSUME NEW s, Good(s), NEW m \in Mon, ~Busy(s, m)
  PROVE  Good(DeleteMonitor(s, m))
<1> DEFINE t == DeleteMonitor(s, m)
<1>1. s \in KernelType
  BY DEF Good
<1>2. /\ t \in KernelType /\ t.run = s.run \ {m} /\ t.alive = s.alive \ {m}
      /\ t.queue = s.queue /\ t.count = s.count
      /\ t.caller = s.caller /\ t.inside = s.inside /\ t.die = s.die
      /\ t.dead = s.dead /\ t.suspended = s.suspended /\ t.request = s.request
      /\ t.pc = s.pc /\ t.deferred = s.deferred
  <2>1. s.run \ {m} \subseteq Agent /\ s.alive \ {m} \subseteq Agent
    BY <1>1, KernelFields
  <2>2. QED
    BY <1>1, <2>1 DEF DeleteMonitor, KernelType
<1> HIDE DEF t
<1>3. /\ s.inside[m] = None /\ \A n \in Mon : s.caller[n] # m
      /\ \A n \in Mon : \A i \in Places(s, n) : At(s, n, i) # m
      /\ m \notin s.run
  <2>1. /\ s.inside[m] = None /\ m \notin s.run
        /\ \A n \in Mon : \A i \in Places(s, n) : At(s, n, i) # m
    BY DEF Good, IdleOK, Busy
  <2>2. \A n \in Mon : s.caller[n] # m
    BY <2>1, Agents DEF Good, CallersOK
  <2>3. QED
    BY <2>1, <2>2
<1>4. \A n \in Mon : Places(t, n) = Places(s, n) /\ \A i \in Places(t, n) : At(t, n, i) = At(s, n, i)
  BY <1>2 DEF Places, At
<1>5. t.run = s.run
  BY <1>2, <1>3
<1>6. QueuesOK(t)
  BY <1>2, <1>3, <1>4 DEF Good, QueuesOK
<1>7. CallersOK(t)
  BY <1>2, <1>3 DEF Good, CallersOK
<1>8. IdleOK(t)
  BY <1>2, <1>4 DEF Good, IdleOK
<1>9. SuspensionOK(t)
  BY <1>2 DEF Good, SuspensionOK, Places, At
<1>10. CountOK(t)
  BY <1>2 DEF Good, CountOK
<1>11. DeadOK(t)
  BY <1>2, <1>4 DEF Good, DeadOK
<1>12. AccountOK(t)
  BY <1>2, <1>4, <1>5 DEF Good, AccountOK
<1>13. SendersOK(t)
  BY <1>2 DEF Good, SendersOK
<1>14. QED
  BY <1>2, <1>6, <1>7, <1>8, <1>9, <1>10, <1>11, <1>12, <1>13 DEF Good, t

\* What the scavenger does to an object that it was told to remove.
LEMMA RemoveGood ==
  ASSUME NEW s, Good(s), NEW x \in Agent, ~ScavengerDeletes
  PROVE  /\ Good(Remove(s, x))
         /\ Remove(s, x).caller = s.caller /\ Remove(s, x).pc = s.pc
         /\ Remove(s, x).deferred = s.deferred /\ Remove(s, x).dead = s.dead
         /\ Remove(s, x).alive \subseteq s.alive
         /\ x \in Task /\ s.inside[x] = None => x \notin Remove(s, x).alive
<1> DEFINE t == [s EXCEPT !.owner[x] = x]
           u == IF x \in Task /\ s.inside[x] # None THEN [t EXCEPT !.die = @ \cup {x}] ELSE t
<1>1. s \in KernelType
  BY DEF Good
<1>2. /\ Good(t) /\ t.caller = s.caller /\ t.pc = s.pc /\ t.deferred = s.deferred
      /\ t.dead = s.dead /\ t.alive = s.alive /\ t.inside = s.inside
  <2>1. [s.owner EXCEPT ![x] = x] \in [Agent -> Agent]
    BY <1>1, KernelFields
  <2>2. t \in KernelType
    BY <1>1, <2>1 DEF KernelType
  <2>3. /\ t.alive = s.alive /\ t.run = s.run /\ t.queue = s.queue /\ t.count = s.count
        /\ t.caller = s.caller /\ t.suspended = s.suspended /\ t.inside = s.inside
        /\ t.die = s.die /\ t.dead = s.dead /\ t.request = s.request /\ t.pc = s.pc
        /\ t.deferred = s.deferred
    BY <1>1 DEF KernelType
  <2> HIDE DEF t
  <2>4. Good(t)
    BY <2>2, <2>3, FrameGood
  <2>5. QED
    BY <2>3, <2>4
<1>3. t \in KernelType
  BY <1>2 DEF Good
<1> HIDE DEF t
<1>4. /\ Good(u) /\ u.caller = s.caller /\ u.pc = s.pc /\ u.deferred = s.deferred
      /\ u.dead = s.dead /\ u.alive = s.alive /\ u.inside = s.inside
  <2>1. CASE x \in Task /\ s.inside[x] # None
    <3>1. u = [t EXCEPT !.die = @ \cup {x}]
      BY <2>1
    <3> HIDE DEF u
    <3>2. t.die \cup {x} \subseteq Task
      BY <1>3, <2>1, KernelFields
    <3>3. u \in KernelType
      BY <1>3, <3>1, <3>2 DEF KernelType
    <3>4. /\ t.alive = u.alive /\ t.run = u.run /\ t.queue = u.queue /\ t.count = u.count
          /\ t.caller = u.caller /\ t.suspended = u.suspended /\ t.inside = u.inside
          /\ t.die \subseteq u.die /\ t.dead = u.dead /\ t.request = u.request /\ t.pc = u.pc
          /\ t.deferred = u.deferred
      BY <1>3, <3>1 DEF KernelType
    <3>5. Good(u)
      BY <1>2, <3>3, <3>4, FrameGood
    <3>6. QED
      BY <1>2, <3>4, <3>5
  <2>2. CASE ~(x \in Task /\ s.inside[x] # None)
    BY <1>2, <2>2
  <2>3. QED
    BY <2>1, <2>2
<1> HIDE DEF u
<1>5. CASE x \in Mon
  <2> DEFINE v == Suspend(t, x, 1)
  <2>1. /\ Good(v) /\ v.caller = t.caller /\ v.pc = t.pc /\ v.deferred = t.deferred
        /\ v.dead = t.dead /\ v.alive = t.alive
    BY <1>2, <1>5, SuspendGood
  <2>2. Remove(s, x) = IF ~Busy(s, x) THEN DeleteMonitor(v, x) ELSE v
    BY <1>5 DEF Remove, t
  <2>3. x \notin Task
    BY <1>5, Agents
  <2> HIDE DEF v
  <2>4. CASE Busy(s, x)
    BY <1>2, <2>1, <2>2, <2>3, <2>4
  <2>5. CASE ~Busy(s, x)
    <3>1. ~Busy(v, x)
      BY <1>2, <2>1, <2>5 DEF Busy
    <3>2. Good(DeleteMonitor(v, x))
      BY <1>5, <2>1, <3>1, DeleteMonitorGood
    <3>3. /\ DeleteMonitor(v, x).caller = v.caller /\ DeleteMonitor(v, x).pc = v.pc
          /\ DeleteMonitor(v, x).deferred = v.deferred /\ DeleteMonitor(v, x).dead = v.dead
          /\ DeleteMonitor(v, x).alive = v.alive \ {x}
      BY <2>1 DEF Good, KernelType, DeleteMonitor
    <3>4. QED
      BY <1>2, <2>1, <2>2, <2>3, <2>5, <3>2, <3>3
  <2>6. QED
    BY <2>4, <2>5
<1>6. CASE x \in Task
  <2>1. Remove(s, x) = IF s.inside[x] = None THEN DeleteTask(u, x) ELSE u
    BY <1>6, Agents DEF Remove, t, u
  <2>2. CASE s.inside[x] = None
    <3>1. Good(DeleteTask(u, x))
      BY <1>4, <1>6, <2>2, DeleteTaskGood
    <3>2. /\ DeleteTask(u, x).caller = u.caller /\ DeleteTask(u, x).pc = u.pc
          /\ DeleteTask(u, x).deferred = u.deferred /\ DeleteTask(u, x).dead = u.dead
          /\ DeleteTask(u, x).alive = u.alive \ {x}
      BY <1>4 DEF Good, KernelType, DeleteTask
    <3>3. QED
      BY <1>4, <2>1, <2>2, <3>1, <3>2
  <2>3. CASE s.inside[x] # None
    BY <1>4, <2>1, <2>3
  <2>4. QED
    BY <2>2, <2>3
<1>7. QED
  BY <1>5, <1>6 DEF Agent

-----------------------------------------------------------------------------
(* The actions.                                                            *)

\* A call of the object manager or of a monitor by a task, which then closes
\* a monitor or goes on.
LEMMA CallGood ==
  ASSUME NEW s, Good(s), NEW a \in s.run \cap Task, NEW m \in Mon,
         NEW sel \in Sel, NEW obj \in Agent \cup {None}, NEW pc \in Pc
  PROVE  /\ Good(Dispatch(s, a, m, sel, obj))
         /\ Good([Dispatch(s, a, m, sel, obj) EXCEPT !.pc[a] = pc])
<1> DEFINE t == Dispatch(s, a, m, sel, obj)
           u == [t EXCEPT !.pc[a] = pc]
<1>1. Good(t)
  BY Agents, DispatchGood
<1>2. t \in KernelType
  BY <1>1 DEF Good
<1> HIDE DEF t
<1>3. [t.pc EXCEPT ![a] = pc] \in [Agent -> Pc]
  BY <1>2, KernelFields
<1>4. /\ u \in KernelType /\ u.pc = [t.pc EXCEPT ![a] = pc]
      /\ u.alive = t.alive /\ u.run = t.run /\ u.queue = t.queue /\ u.count = t.count
      /\ u.caller = t.caller /\ u.suspended = t.suspended /\ u.inside = t.inside
      /\ u.die = t.die /\ u.dead = t.dead /\ u.request = t.request /\ u.deferred = t.deferred
  BY <1>2, <1>3 DEF KernelType
<1>5. /\ \A n \in Mon : u.pc[n] = "idle" <=> t.pc[n] = "idle"
      /\ u.pc[ObjectManager] = t.pc[ObjectManager]
  BY <1>2, <1>4, KernelFields, Agents
<1> HIDE DEF u
<1>6. t.die \subseteq u.die
  BY <1>4
<1>7. Good(u)
  BY <1>1, <1>4, <1>5, <1>6, FrameGood
<1>8. QED
  BY <1>1, <1>7 DEF t, u

\* The requests of a task.
LEMMA TaskStep ==
  ASSUME IInv, NEW t \in Task, Request(t) \/ DestroyMonitor(t)
  PROVE  IInv'
<1> t \in Agent /\ Monitors \subseteq Agent /\ Monitors \subseteq Mon /\ ObjectManager \in Mon /\ Task \subseteq Agent
  BY Agents
<1>1. Good(k)
  BY DEF IInv
<1>2. ASSUME NEW m \in Monitors, CallMonitor(t, m)
      PROVE  IInv'
  BY <1>1, <1>2, CallGood DEF CallMonitor, Runs, IInv, Sel, Pc
<1>3. ASSUME NEW m \in Monitors, CloseMonitor(t, m)
      PROVE  IInv'
  BY <1>1, <1>3, CallGood DEF CloseMonitor, Runs, IInv, Sel, Pc
<1>4. ASSUME NEW c \in Task, DestroyChild(t, c)
      PROVE  IInv'
  BY <1>1, <1>4, CallGood DEF DestroyChild, Runs, IInv, Sel, Pc
<1>5. CASE TaskKillSelf(t)
  BY <1>1, <1>5, CallGood DEF TaskKillSelf, Runs, IInv, Sel, Pc
<1>6. CASE DestroyMonitor(t)
  <2>1. k.request[t].obj \in Agent \cup {None}
    BY <1>1, KernelFields DEF Good
  <2>2. QED
    BY <1>1, <1>6, <2>1, CallGood DEF DestroyMonitor, Runs, IInv, Sel, Pc
<1>7. QED
  BY <1>2, <1>3, <1>4, <1>5, <1>6 DEF Request

\* The procedure of a monitor that is not the object manager.
LEMMA ProcedureStep ==
  ASSUME IInv, NEW m \in Mon, AskObjectManager(m) \/ Flush(m) \/ Exit(m)
  PROVE  IInv'
<1>1. Good(k) /\ k \in KernelType
  BY DEF IInv, Good
<1>2. CASE AskObjectManager(m)
  <2> DEFINE t == Dispatch(k, m, ObjectManager, "other", None)
             u == [t EXCEPT !.pc[m] = "asked"]
  <2>1. m \in k.run /\ m # ObjectManager /\ k' = u /\ k.pc[m] = "proc"
    BY <1>2, Agents DEF AskObjectManager, Runs
  <2>2. Good(t) /\ t.pc[m] = k.pc[m]
    BY <1>1, <2>1, Agents, DispatchGood DEF Sel
  <2>3. t \in KernelType
    BY <2>2 DEF Good
  <2> HIDE DEF t
  <2>4. [t.pc EXCEPT ![m] = "asked"] \in [Agent -> Pc]
    BY <2>3, KernelFields, Agents DEF Pc
  <2>5. /\ u \in KernelType /\ u.pc = [t.pc EXCEPT ![m] = "asked"]
        /\ u.alive = t.alive /\ u.run = t.run /\ u.queue = t.queue /\ u.count = t.count
        /\ u.caller = t.caller /\ u.suspended = t.suspended /\ u.inside = t.inside
        /\ u.die = t.die /\ u.dead = t.dead /\ u.request = t.request /\ u.deferred = t.deferred
    BY <2>3, <2>4 DEF KernelType
  <2>6. /\ \A n \in Mon : u.pc[n] = "idle" <=> t.pc[n] = "idle"
        /\ u.pc[ObjectManager] = t.pc[ObjectManager]
    BY <2>1, <2>2, <2>3, <2>5, KernelFields, Agents
  <2> HIDE DEF u
  <2>7. Good(u)
    <3>1. t.die \subseteq u.die
      BY <2>5
    <3>2. QED
      BY <2>2, <2>5, <2>6, <3>1, FrameGood
  <2>8. QED
    BY <2>1, <2>7 DEF IInv
<1>3. CASE Flush(m)
  BY <1>1, <1>3, FlushGood DEF Flush, IInv
<1>4. CASE Exit(m)
  BY <1>1, <1>4, ReleaseGood DEF Exit, IInv
<1>5. QED
  BY <1>2, <1>3, <1>4

\* The next stage of the object manager: the fields that stay, and the tasks
\* that have killed themselves.
LEMMA NextStage ==
  ASSUME NEW s, Good(s), s.pc[ObjectManager] # "idle",
         NEW dead \in SUBSET Task, s.dead \subseteq dead, NEW deferred \in Task \cup {None},
         NEW destroyed \in BOOLEAN, NEW pc \in Pc \ {"idle"},
         \A t \in dead \cap s.alive :
           /\ t \notin s.run /\ deferred = t /\ s.inside[t] \in {None, ObjectManager}
           /\ \A m \in Mon : \A i \in Places(s, m) : At(s, m, i) # t,
         s.caller[ObjectManager] \in dead => pc = "done",
         pc \in {"request", "handled", "scavenge"} => deferred = None,
         deferred # None => deferred \in dead
  PROVE  Good([s EXCEPT !.dead = dead, !.deferred = deferred, !.destroyed = destroyed,
                        !.pc[ObjectManager] = pc])
<1> DEFINE t == [s EXCEPT !.dead = dead, !.deferred = deferred, !.destroyed = destroyed,
                          !.pc[ObjectManager] = pc]
<1>1. s \in KernelType
  BY DEF Good
<1>2. [s.pc EXCEPT ![ObjectManager] = pc] \in [Agent -> Pc]
  BY <1>1, KernelFields, Agents
<1>3. /\ t \in KernelType /\ t.pc = [s.pc EXCEPT ![ObjectManager] = pc]
      /\ t.alive = s.alive /\ t.run = s.run /\ t.queue = s.queue /\ t.count = s.count
      /\ t.caller = s.caller /\ t.suspended = s.suspended /\ t.inside = s.inside
      /\ t.die = s.die /\ t.dead = dead /\ t.request = s.request /\ t.deferred = deferred
  BY <1>1, <1>2 DEF KernelType
<1>4. /\ t.pc[ObjectManager] = pc
      /\ \A n \in Mon : t.pc[n] = "idle" <=> s.pc[n] = "idle"
  BY <1>1, <1>3, KernelFields, Agents
<1> HIDE DEF t
<1>5. DeadOK(t)
  <2>1. \A n \in Mon : Places(t, n) = Places(s, n) /\ \A i \in Places(t, n) : At(t, n, i) = At(s, n, i)
    BY <1>3 DEF Places, At
  <2>2. QED
    BY <1>3, <1>4, <2>1 DEF DeadOK
<1>6. s.die \subseteq t.die /\ s.dead \subseteq t.dead
  BY <1>3
<1>7. Good(t)
  <2>1. \A n \in Mon : t.pc[n] = "idle" <=> s.pc[n] = "idle"
    BY <1>4
  <2>2. Good(s)
    OBVIOUS
  <2>3. t \in KernelType /\ t.alive = s.alive /\ t.run = s.run /\ t.queue = s.queue /\ t.count = s.count
      /\ t.caller = s.caller /\ t.suspended = s.suspended /\ t.inside = s.inside
      /\ t.request = s.request
    BY <1>3
  <2>4. QED
    BY <2>1, <2>2, <2>3, <1>5, <1>6, StageGood
<1>8. QED
  BY <1>7 DEF t

\* The object manager's steps but its last.
LEMMA ManagerStep ==
  ASSUME IInv, ~ScavengerDeletes,
         RemoveDeferred \/ HandleRequest \/ StartScavenging \/ \E x \in Agent : Scavenge(x)
  PROVE  IInv'
<1> DEFINE c == k.caller[ObjectManager]
<1>1. Good(k) /\ k \in KernelType /\ DeadOK(k) /\ SendersOK(k)
  BY DEF IInv, Good
<1>2. ObjectManager \in k.run
  BY DEF RemoveDeferred, HandleRequest, StartScavenging, Scavenge, Runs
<1>3. /\ c \in Agent /\ c \in k.alive /\ c \notin k.run /\ k.inside[c] = ObjectManager
      /\ \A n \in Mon : \A i \in Places(k, n) : At(k, n, i) # c
      /\ k.pc[ObjectManager] # "idle"
  BY <1>1, <1>2, Agents, Serving
<1>4. k.pc[ObjectManager] # "done" => c \notin k.dead
  BY <1>1, <1>3 DEF DeadOK
<1> HIDE DEF c
<1>5. CASE RemoveDeferred
  <2> DEFINE s == IF k.deferred = None THEN k
                  ELSE IF k.deferred \in k.alive THEN Remove(k, k.deferred) ELSE k
  <2>1. /\ k.pc[ObjectManager] = "proc"
        /\ k' = [s EXCEPT !.deferred = None, !.pc[ObjectManager] = "request"]
    BY <1>5 DEF RemoveDeferred, Runs
  <2>2. /\ Good(s) /\ s.caller = k.caller /\ s.pc = k.pc /\ s.dead = k.dead
        /\ s.alive \subseteq k.alive
        /\ k.deferred \in Task /\ k.deferred \in k.alive /\ k.inside[k.deferred] = None
             => k.deferred \notin s.alive
    <3>1. CASE k.deferred = None
      BY <1>1, <3>1, Agents
    <3>2. CASE k.deferred # None /\ k.deferred \in k.alive
      <4>1. k.deferred \in Agent
        BY <1>1, <3>2, KernelFields
      <4>2. s = Remove(k, k.deferred)
        BY <3>2
      <4> HIDE DEF s
      <4>3. QED
        BY <1>1, <4>1, <4>2, RemoveGood
    <3>3. CASE k.deferred # None /\ k.deferred \notin k.alive
      BY <1>1, <3>3
    <3>4. QED
      BY <3>1, <3>2, <3>3
  <2> HIDE DEF s
  <2>3. \A t \in s.dead : t \notin s.alive
    <3>1. SUFFICES ASSUME NEW t \in k.dead, t \in s.alive
                   PROVE  FALSE
      BY <2>2
    <3>2. /\ t \in k.alive /\ k.deferred = t /\ k.inside[t] \in {None, ObjectManager}
          /\ t \in Task
      BY <1>1, <2>2, <3>1, KernelFields DEF DeadOK
    <3>3. k.inside[t] # ObjectManager
      <4>1. k.inside[t] = ObjectManager => k.caller[ObjectManager] = t
        BY <1>1, <3>2, Agents DEF Good, CallersOK
      <4>2. QED
        BY <1>4, <2>1, <4>1 DEF c
    <3>4. QED
      BY <2>2, <3>1, <3>2, <3>3
  <2>4. s.caller[ObjectManager] \notin s.dead
    BY <1>4, <2>1, <2>2 DEF c
  <2>5. s \in KernelType
    BY <2>2 DEF Good
  <2>6. Good([s EXCEPT !.dead = s.dead, !.deferred = None, !.destroyed = s.destroyed,
                       !.pc[ObjectManager] = "request"])
    <3>1. s.dead \in SUBSET Task /\ s.destroyed \in BOOLEAN /\ s.pc[ObjectManager] # "idle"
      BY <1>3, <2>2, <2>5, KernelFields
    <3>2. "request" \in Pc \ {"idle"}
      BY DEF Pc
    <3>3. \A t \in s.dead \cap s.alive :
            /\ t \notin s.run /\ None = t /\ s.inside[t] \in {None, ObjectManager}
            /\ \A m \in Mon : \A i \in Places(s, m) : At(s, m, i) # t
      BY <2>3
    <3>4. QED
      BY <2>2, <2>4, <3>1, <3>2, <3>3, NextStage
  <2>7. k' = [s EXCEPT !.dead = s.dead, !.deferred = None, !.destroyed = s.destroyed,
                       !.pc[ObjectManager] = "request"]
    BY <2>1, <2>5 DEF KernelType
  <2>8. QED
    BY <2>6, <2>7 DEF IInv
<1>6. CASE HandleRequest
  <2> DEFINE r == k.request[c]
             mayDestroy == r.obj \in k.alive /\ k.owner[r.obj] = c
  <2>1. /\ k.pc[ObjectManager] = "request"
        /\ k' = CASE r.sel = "kill" ->
                       [k EXCEPT !.dead = @ \cup {c}, !.deferred = c, !.pc[ObjectManager] = "done"]
                  [] r.sel = "destroy" /\ mayDestroy ->
                       [Remove(k, r.obj) EXCEPT !.pc[ObjectManager] = "handled"]
                  [] OTHER -> [k EXCEPT !.pc[ObjectManager] = "handled"]
    BY <1>6 DEF HandleRequest, Runs, c
  <2>2. k.deferred = None
    BY <1>1, <2>1 DEF DeadOK
  <2>3. \A t \in k.dead : t \notin k.alive
    BY <1>1, <2>2, KernelFields, Agents DEF DeadOK
  <2>4. c \notin k.dead
    BY <1>4, <2>1
  <2>5. CASE r.sel = "kill"
    <3>1. c \in Task
      BY <1>1, <1>3, <2>5 DEF SendersOK, Agent
    <3>2. k' = [k EXCEPT !.dead = k.dead \cup {c}, !.deferred = c, !.destroyed = k.destroyed,
                         !.pc[ObjectManager] = "done"]
      BY <1>1, <2>1, <2>5 DEF KernelType
    <3>3. k.dead \cup {c} \in SUBSET Task /\ k.destroyed \in BOOLEAN
      BY <1>1, <3>1, KernelFields
    <3>4. "done" \in Pc \ {"idle"}
      BY DEF Pc
    <3>5. \A t \in (k.dead \cup {c}) \cap k.alive :
            /\ t \notin k.run /\ c = t /\ k.inside[t] \in {None, ObjectManager}
            /\ \A m \in Mon : \A i \in Places(k, m) : At(k, m, i) # t
      BY <1>3, <2>3
    <3>6. Good([k EXCEPT !.dead = k.dead \cup {c}, !.deferred = c, !.destroyed = k.destroyed,
                         !.pc[ObjectManager] = "done"])
      BY <1>1, <1>3, <3>1, <3>3, <3>4, <3>5, NextStage
    <3>7. QED
      BY <3>2, <3>6 DEF IInv
  <2>6. CASE r.sel = "destroy" /\ mayDestroy
    <3> DEFINE s == Remove(k, r.obj)
    <3>1. k' = [s EXCEPT !.pc[ObjectManager] = "handled"]
      BY <2>1, <2>6
    <3>2. r.obj \in Agent
      BY <1>1, <2>6, KernelFields
    <3>3. /\ Good(s) /\ s.caller = k.caller /\ s.pc = k.pc /\ s.deferred = k.deferred
          /\ s.dead = k.dead /\ s.alive \subseteq k.alive
      BY <1>1, <3>2, RemoveGood
    <3> HIDE DEF s
    <3>4. s \in KernelType
      BY <3>3 DEF Good
    <3>5. k' = [s EXCEPT !.dead = s.dead, !.deferred = None, !.destroyed = s.destroyed,
                         !.pc[ObjectManager] = "handled"]
      BY <2>2, <3>1, <3>3, <3>4 DEF KernelType
    <3>6. s.dead \in SUBSET Task /\ s.destroyed \in BOOLEAN /\ s.pc[ObjectManager] # "idle"
      BY <1>3, <3>3, <3>4, KernelFields
    <3>7. "handled" \in Pc \ {"idle"} /\ s.caller[ObjectManager] \notin s.dead
      BY <2>4, <3>3 DEF Pc, c
    <3>8. \A t \in s.dead \cap s.alive :
            /\ t \notin s.run /\ None = t /\ s.inside[t] \in {None, ObjectManager}
            /\ \A m \in Mon : \A i \in Places(s, m) : At(s, m, i) # t
      BY <2>3, <3>3
    <3>9. Good([s EXCEPT !.dead = s.dead, !.deferred = None, !.destroyed = s.destroyed,
                         !.pc[ObjectManager] = "handled"])
      BY <3>3, <3>6, <3>7, <3>8, NextStage
    <3>10. QED
      BY <3>5, <3>9 DEF IInv
  <2>7. CASE r.sel # "kill" /\ ~(r.sel = "destroy" /\ mayDestroy)
    <3>1. k' = [k EXCEPT !.dead = k.dead, !.deferred = None, !.destroyed = k.destroyed,
                         !.pc[ObjectManager] = "handled"]
      <4>1. k' = [k EXCEPT !.pc[ObjectManager] = "handled"]
        BY <2>1, <2>7
      <4>2. QED
        BY <1>1, <2>2, <4>1 DEF KernelType
    <3>2. k.dead \in SUBSET Task /\ k.destroyed \in BOOLEAN
      BY <1>1, KernelFields
    <3>3. "handled" \in Pc \ {"idle"} /\ k.caller[ObjectManager] \notin k.dead
      BY <2>4 DEF Pc, c
    <3>4. \A t \in k.dead \cap k.alive :
            /\ t \notin k.run /\ None = t /\ k.inside[t] \in {None, ObjectManager}
            /\ \A m \in Mon : \A i \in Places(k, m) : At(k, m, i) # t
      BY <2>3
    <3>5. Good([k EXCEPT !.dead = k.dead, !.deferred = None, !.destroyed = k.destroyed,
                         !.pc[ObjectManager] = "handled"])
      BY <1>1, <1>3, <3>2, <3>3, <3>4, NextStage
    <3>6. QED
      BY <3>1, <3>5 DEF IInv
  <2>8. QED
    BY <2>5, <2>6, <2>7
<1>7. CASE StartScavenging
  <2> DEFINE pc == IF k.destroyed THEN "scavenge" ELSE "done"
  <2>1. /\ k.pc[ObjectManager] = "handled"
        /\ k' = [k EXCEPT !.destroyed = FALSE, !.pc[ObjectManager] = pc]
    BY <1>7 DEF StartScavenging, Runs
  <2>2. k.deferred = None /\ c \notin k.dead
    BY <1>1, <1>4, <2>1 DEF DeadOK
  <2>3. \A t \in k.dead : t \notin k.alive
    BY <1>1, <2>2, KernelFields, Agents DEF DeadOK
  <2>4. pc \in Pc \ {"idle"}
    BY DEF Pc
  <2> HIDE DEF pc
  <2>5. k' = [k EXCEPT !.dead = k.dead, !.deferred = None, !.destroyed = FALSE,
                       !.pc[ObjectManager] = pc]
    BY <1>1, <2>1, <2>2 DEF KernelType
  <2>6. k.dead \in SUBSET Task /\ k.caller[ObjectManager] \notin k.dead
    BY <1>1, <2>2, KernelFields DEF c
  <2>7. \A t \in k.dead \cap k.alive :
          /\ t \notin k.run /\ None = t /\ k.inside[t] \in {None, ObjectManager}
          /\ \A m \in Mon : \A i \in Places(k, m) : At(k, m, i) # t
    BY <2>3
  <2>8. Good([k EXCEPT !.dead = k.dead, !.deferred = None, !.destroyed = FALSE,
                       !.pc[ObjectManager] = pc])
    BY <1>1, <1>3, <2>4, <2>6, <2>7, NextStage
  <2>9. QED
    BY <2>5, <2>8 DEF IInv
<1>8. ASSUME NEW x \in Agent, Scavenge(x)
      PROVE  IInv'
  BY <1>1, <1>8, RemoveGood DEF Scavenge, IInv
<1>9. QED
  BY <1>5, <1>6, <1>7, <1>8

\* Nobody waits and nobody has entered at first.
LEMMA InitGood == Init => IInv
<1> SUFFICES ASSUME Init PROVE Good(k)
  BY DEF IInv
<1>1. k = InitialKernel
  BY DEF Init
<1>2. /\ k.alive = Agent /\ k.run = Task /\ k.queue = [m \in Mon |-> <<>>]
      /\ k.count = [m \in Mon |-> 0] /\ k.caller = [m \in Mon |-> None]
      /\ k.suspended = [m \in Mon |-> {}] /\ k.inside = [a \in Agent |-> None]
      /\ k.die = {} /\ k.dead = {}
      /\ k.request = [a \in Agent |-> [sel |-> "none", obj |-> None]]
      /\ k.pc = [a \in Agent |-> IF a \in Task THEN "user" ELSE "idle"]
      /\ k.deferred = None
  BY <1>1 DEF InitialKernel
<1>3. k \in KernelType
  <2>1. [x \in Agent |-> IF x \in Monitors THEN Creator[x]
                         ELSE IF x \in Task /\ Parent[x] # None THEN Parent[x] ELSE x]
          \in [Agent -> Agent]
    BY Agents
  <2>2. /\ [m \in Mon |-> <<>>] \in [Mon -> Seq(Agent)]
        /\ [m \in Mon |-> 0] \in [Mon -> Int]
        /\ [m \in Mon |-> None] \in [Mon -> Agent \cup {None}]
        /\ [m \in Mon |-> {}] \in [Mon -> SUBSET {1, 2}]
        /\ [a \in Agent |-> None] \in [Agent -> Mon \cup {None}]
        /\ [a \in Agent |-> [sel |-> "none", obj |-> None]]
             \in [Agent -> [sel : Sel, obj : Agent \cup {None}]]
        /\ [a \in Agent |-> IF a \in Task THEN "user" ELSE "idle"] \in [Agent -> Pc]
    BY DEF Sel, Pc
  <2>3. QED
    BY <1>1, <2>1, <2>2, Agents DEF InitialKernel, KernelType
<1>4. \A m \in Mon : Places(k, m) = {} /\ k.queue[m] = <<>> /\ Len(k.queue[m]) = 0
  BY <1>2 DEF Places
<1>5. QueuesOK(k)
  BY <1>4 DEF QueuesOK
<1>6. CallersOK(k)
  BY <1>2, Agents DEF CallersOK
<1>7. IdleOK(k)
  BY <1>2, <1>4, Agents DEF IdleOK
<1>8. SuspensionOK(k)
  BY <1>2, <1>4 DEF SuspensionOK
<1>9. CountOK(k)
  BY <1>2, <1>4 DEF CountOK
<1>10. DeadOK(k)
  BY <1>2, Agents DEF DeadOK
<1>11. AccountOK(k)
  BY <1>2 DEF AccountOK
<1>12. SendersOK(k)
  BY <1>2, Agents DEF SendersOK
<1>13. QED
  BY <1>3, <1>5, <1>6, <1>7, <1>8, <1>9, <1>10, <1>11, <1>12 DEF Good

\* The invariant is inductive.
LEMMA NextGood ==
  ASSUME ~ScavengerDeletes, IInv, [Next]_vars
  PROVE  IInv'
<1>1. CASE UNCHANGED vars
  BY <1>1 DEF vars, IInv
<1>2. ASSUME NEW t \in Task, Request(t) \/ DestroyMonitor(t)
      PROVE  IInv'
  BY <1>2, TaskStep
<1>3. ASSUME NEW m \in Mon, AskObjectManager(m) \/ Flush(m) \/ Exit(m)
      PROVE  IInv'
  BY <1>3, ProcedureStep
<1>4. CASE RemoveDeferred \/ HandleRequest \/ StartScavenging \/ \E x \in Agent : Scavenge(x)
  BY <1>4, ManagerStep
<1>5. CASE Done
  BY <1>5, Agents, ReleaseGood DEF Done, Runs, IInv
<1>6. QED
  BY <1>1, <1>2, <1>3, <1>4, <1>5 DEF Next, Proc

-----------------------------------------------------------------------------
(* The properties.                                                         *)

\* Who waits in a monitor.
LEMMA WaitsMeans ==
  ASSUME IInv, NEW a \in Agent, NEW m \in Mon
  PROVE  Waits(a, m) <=> (\E i \in Places(k, m) : At(k, m, i) = a) \/ k.inside[a] = m
<1>1. k.inside[a] = m <=> k.caller[m] = a
  BY Agents DEF IInv, Good, CallersOK
<1>2. a \in Elements(k.queue[m]) <=> \E i \in Places(k, m) : At(k, m, i) = a
  BY QueueTypes DEF IInv, Good
<1>3. QED
  BY <1>1, <1>2 DEF Waits

\* As many agents as places: nobody is twice in a queue.
LEMMA QueueSize ==
  ASSUME NEW q \in Seq(Agent), \A i, j \in 1 .. Len(q) : q[i] = q[j] => i = j
  PROVE  Cardinality(Elements(q)) = Len(q)
<1>1. Len(q) \in Nat /\ DOMAIN q = 1 .. Len(q)
  OBVIOUS
<1>2. IsFiniteSet(1 .. Len(q)) /\ Cardinality(1 .. Len(q)) = Len(q)
  <2>1. /\ 1 \in Int /\ Len(q) \in Int
    BY <1>1
  <2>2. IsFiniteSet(1 .. Len(q)) /\ Cardinality(1 .. Len(q)) = IF 1 > Len(q) THEN 0 ELSE Len(q) - 1 + 1
    BY <2>1, FS_Interval
  <2>3. QED
    BY <1>1, <2>2
<1> DEFINE f == [i \in 1 .. Len(q) |-> q[i]]
<1>3. f \in Bijection(1 .. Len(q), Elements(q))
  BY <1>1 DEF Bijection, Injection, Surjection, IsInjective, Elements
<1>4. QED
  BY <1>2, <1>3, FS_Bijection DEF ExistsBijection

\* The invariant implies that an agent is in one place (acquire, release).
LEMMA OnePlaceHolds == IInv => OnePlace
<1> SUFFICES ASSUME IInv PROVE OnePlace
  OBVIOUS
<1>1. k \in KernelType /\ QueuesOK(k) /\ CallersOK(k) /\ IdleOK(k)
  BY DEF IInv, Good
<1>2. k.run \subseteq k.alive
  BY <1>1 DEF CallersOK
<1>3. ASSUME NEW m \in Mon
      PROVE  /\ Elements(k.queue[m]) \cup ({k.caller[m]} \ {None}) \subseteq k.alive
             /\ Cardinality(Elements(k.queue[m])) = Len(k.queue[m])
             /\ k.caller[m] \notin Elements(k.queue[m])
  <2>1. \A a : a \in Elements(k.queue[m]) <=> \E i \in Places(k, m) : At(k, m, i) = a
    BY <1>1, QueueTypes
  <2>2. Elements(k.queue[m]) \cup ({k.caller[m]} \ {None}) \subseteq k.alive
    BY <1>1, <2>1 DEF QueuesOK, CallersOK
  <2>3. Cardinality(Elements(k.queue[m])) = Len(k.queue[m])
    <3>1. k.queue[m] \in Seq(Agent)
      BY <1>1, QueueTypes
    <3>2. \A i, j \in 1 .. Len(k.queue[m]) : k.queue[m][i] = k.queue[m][j] => i = j
      BY <1>1 DEF QueuesOK, Places, At
    <3> DEFINE q == k.queue[m]
    <3>3. q \in Seq(Agent) /\ \A i, j \in 1 .. Len(q) : q[i] = q[j] => i = j
      BY <3>1, <3>2
    <3> HIDE DEF q
    <3>4. Cardinality(Elements(q)) = Len(q)
      BY <3>3, QueueSize
    <3>5. QED
      BY <3>4 DEF q
  <2>4. k.caller[m] \notin Elements(k.queue[m])
    <3>1. SUFFICES ASSUME NEW i \in Places(k, m), At(k, m, i) = k.caller[m]
                   PROVE  FALSE
      BY <2>1
    <3>2. k.caller[m] \in Agent /\ k.inside[k.caller[m]] = None
      BY <1>1, <3>1, QueueTypes DEF QueuesOK
    <3>3. k.caller[m] # None
      BY <3>2, Agents
    <3>4. QED
      BY <1>1, <3>2, <3>3, Agents DEF CallersOK
  <2>5. QED
    BY <2>2, <2>3, <2>4
<1>4. ASSUME NEW a \in Agent, NEW m \in Mon, NEW n \in Mon, Waits(a, m)
      PROVE  a \notin k.run /\ (Waits(a, n) => m = n)
  <2>1. CASE \E i \in Places(k, m) : At(k, m, i) = a
    <3>1. a \notin k.run /\ k.inside[a] = None
      BY <1>1, <2>1 DEF QueuesOK
    <3>2. ASSUME Waits(a, n)
          PROVE  m = n
      <4>1. PICK j \in Places(k, n) : At(k, n, j) = a
        BY <3>1, <3>2, Agents, WaitsMeans
      <4>2. PICK i \in Places(k, m) : At(k, m, i) = a
        BY <2>1
      <4>3. QED
        BY <1>1, <4>1, <4>2 DEF QueuesOK
    <3>3. QED
      BY <3>1, <3>2
  <2>2. CASE k.inside[a] = m
    <3>1. k.caller[m] = a /\ a # None
      BY <1>1, <2>2, Agents DEF CallersOK
    <3>2. a \notin k.run
      BY <1>1, <3>1 DEF CallersOK
    <3>3. ~\E i \in Places(k, n) : At(k, n, i) = a
      BY <1>1, <2>2, Agents DEF QueuesOK
    <3>4. QED
      BY <2>2, <3>2, <3>3, WaitsMeans
  <2>3. QED
    BY <1>4, <2>1, <2>2, WaitsMeans
<1>5. \A a \in Agent, m \in Mon : k.caller[m] = a <=> k.inside[a] = m
  BY <1>1, Agents DEF CallersOK
<1>6. \A m \in Mon : k.pc[m] # "idle" <=> Busy(k, m)
  BY <1>1 DEF IdleOK, Busy
<1>7. QED
  BY <1>2, <1>3, <1>4, <1>5, <1>6 DEF OnePlace

\* It implies that fQueueCount is exact.
LEMMA CountExactHolds == IInv => CountExact
BY DEF IInv, Good, CountOK, CountExact, Busy

\* It implies that no task is lost silently.
LEMMA AccountedHolds == IInv => Accounted
<1> SUFFICES ASSUME IInv, NEW t \in Task \cap k.alive
             PROVE  \/ t \in k.run \cup k.dead \cup k.die
                    \/ \E m \in Mon : Waits(t, m)
                    \/ k.request[t].sel = "suspend"
  BY DEF Accounted
<1>1. \/ t \in k.run \cup k.dead \cup k.die
      \/ k.inside[t] # None
      \/ \E m \in Mon : \E i \in Places(k, m) : At(k, m, i) = t
      \/ k.request[t].sel = "suspend"
  BY DEF IInv, Good, AccountOK
<1>2. k.inside[t] \in Mon \cup {None} /\ t \in Agent
  BY KernelFields, Agents DEF IInv, Good
<1>3. QED
  BY <1>1, <1>2, WaitsMeans

\* It implies that a task that killed itself is remembered (fDeferredId).
LEMMA DeadIsDeferredHolds == IInv => DeadIsDeferred
BY DEF IInv, Good, DeadOK, DeadIsDeferred

\* Each property holds in every reachable state, whatever the tasks and the
\* monitors are.
LEMMA Invariance ==
  ASSUME ~ScavengerDeletes
  PROVE  Spec => []IInv
<1>1. IInv /\ [Next]_vars => IInv'
  BY NextGood
<1>2. QED
  BY <1>1, InitGood, PTL DEF Spec

(* acquire, release, suspend, ~CTask and deleteTaskOnMonitorQ together: an   *)
(* agent is in one place at most, nothing destroyed waits or is scheduled,   *)
(* and a monitor and its caller agree.                                       *)
THEOREM MonitorOnePlace ==
  ASSUME ~ScavengerDeletes
  PROVE  Spec => []OnePlace
BY Invariance, OnePlaceHolds, PTL

(* fQueueCount is exact after every refusal, suspension and deletion.        *)
THEOREM MonitorCountExact ==
  ASSUME ~ScavengerDeletes
  PROVE  Spec => []CountExact
BY Invariance, CountExactHolds, PTL

(* Only tasks that ended, were told to die or were refused a suspension are  *)
(* nowhere.                                                                  *)
THEOREM MonitorAccounted ==
  ASSUME ~ScavengerDeletes
  PROVE  Spec => []Accounted
BY Invariance, AccountedHolds, PTL

(* A task that killed itself stays off the scheduler, and the object manager *)
(* knows it until it is destroyed.                                           *)
THEOREM MonitorDeadIsDeferred ==
  ASSUME ~ScavengerDeletes
  PROVE  Spec => []DeadIsDeferred
BY Invariance, DeadIsDeferredHolds, PTL
=============================================================================
