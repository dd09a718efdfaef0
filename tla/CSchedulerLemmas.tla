--------------------------- MODULE CSchedulerLemmas ---------------------------
(***************************************************************************)
(* What the operators of CScheduler preserve, for every set of tasks and   *)
(* every assignment of priorities.                                         *)
(***************************************************************************)
EXTENDS CScheduler, WellFoundedInduction, TLAPS

USE SchedulerAssumption

-----------------------------------------------------------------------------
(* Queues.                                                                 *)

\* Appending a task that a queue does not hold keeps its tasks distinct.
LEMMA AppendHolds ==
  ASSUME NEW q \in Seq(Task), NEW t \in Task, Distinct(q), ~Holds(q, t)
  PROVE  /\ Append(q, t) \in Seq(Task)
         /\ Append(q, t) # <<>>
         /\ Distinct(Append(q, t))
         /\ \A u \in Task : Holds(Append(q, t), u) <=> Holds(q, u) \/ u = t
<1> DEFINE r == Append(q, t)
<1>1. /\ r \in Seq(Task)
      /\ Len(r) = Len(q) + 1
      /\ \A i \in 1..Len(q) : r[i] = q[i]
      /\ r[Len(q) + 1] = t
      /\ Len(q) \in Nat
  OBVIOUS
<1>2. r # <<>>
  BY <1>1
<1>3. Distinct(r)
  <2> SUFFICES ASSUME NEW i \in 1..Len(r), NEW j \in 1..Len(r), r[i] = r[j]
               PROVE  i = j
    BY DEF Distinct
  <2>1. CASE i \in 1..Len(q) /\ j \in 1..Len(q)
    BY <1>1, <2>1 DEF Distinct
  <2>2. CASE i = Len(q) + 1 /\ j \in 1..Len(q)
    BY <1>1, <2>2 DEF Holds
  <2>3. CASE i \in 1..Len(q) /\ j = Len(q) + 1
    BY <1>1, <2>3 DEF Holds
  <2>4. QED
    BY <1>1, <2>1, <2>2, <2>3
<1>4. \A u \in Task : Holds(r, u) <=> Holds(q, u) \/ u = t
  <2> SUFFICES ASSUME NEW u \in Task
               PROVE  Holds(r, u) <=> Holds(q, u) \/ u = t
    OBVIOUS
  <2>1. ASSUME Holds(r, u) PROVE Holds(q, u) \/ u = t
    <3>1. PICK i \in 1..Len(r) : r[i] = u
      BY <2>1 DEF Holds
    <3>2. CASE i \in 1..Len(q)
      BY <1>1, <3>1, <3>2 DEF Holds
    <3>3. CASE i = Len(q) + 1
      BY <1>1, <3>1, <3>3
    <3>4. QED
      BY <1>1, <3>2, <3>3
  <2>2. ASSUME Holds(q, u) PROVE Holds(r, u)
    BY <1>1, <2>2 DEF Holds
  <2>3. Holds(r, t)
    <3>1. Len(q) + 1 \in 1..Len(r)
      BY <1>1
    <3>2. QED
      BY <1>1, <3>1 DEF Holds
  <2>4. QED
    BY <2>1, <2>2, <2>3
<1>5. QED
  BY <1>1, <1>2, <1>3, <1>4

\* Unlinking a task removes that task, and nothing else.
LEMMA UnlinkHolds ==
  ASSUME NEW q \in Seq(Task), NEW t \in Task, Distinct(q), Holds(q, t)
  PROVE  /\ Unlink(q, t) \in Seq(Task)
         /\ Distinct(Unlink(q, t))
         /\ \A u \in Task : Holds(Unlink(q, t), u) <=> Holds(q, u) /\ u # t
<1> DEFINE k == CHOOSE i \in DOMAIN q : q[i] = t
           r == Unlink(q, t)
<1>1. /\ Len(q) \in Nat
      /\ DOMAIN q = 1..Len(q)
      /\ \A i \in 1..Len(q) : q[i] \in Task
  OBVIOUS
<1>2. k \in 1..Len(q) /\ q[k] = t
  BY <1>1 DEF Holds
<1>3. r = [j \in 1..(Len(q) - 1) |-> IF j < k THEN q[j] ELSE q[j + 1]]
  BY DEF Unlink, WithoutIndex
<1> HIDE DEF k
<1>4. /\ Len(q) - 1 \in Nat
      /\ \A j \in 1..(Len(q) - 1) : r[j] = IF j < k THEN q[j] ELSE q[j + 1]
      /\ \A j \in 1..(Len(q) - 1) : r[j] \in Task
  BY <1>1, <1>2, <1>3
<1>5. r \in Seq(Task) /\ Len(r) = Len(q) - 1
  <2>1. r \in [1..(Len(q) - 1) -> Task]
    BY <1>3, <1>4
  <2>2. QED
    BY <1>4, <2>1
<1> HIDE DEF r
<1>6. Distinct(r)
  <2> SUFFICES ASSUME NEW i \in 1..Len(r), NEW j \in 1..Len(r), r[i] = r[j]
               PROVE  i = j
    BY DEF Distinct
  <2>1. /\ i \in 1..(Len(q) - 1) /\ j \in 1..(Len(q) - 1)
        /\ i \in Int /\ j \in Int /\ k \in Int
    BY <1>1, <1>2, <1>5
  <2>2. \A m, n \in 1..Len(q) : q[m] = q[n] => m = n
    BY DEF Distinct
  <2>3. QED
    BY <1>1, <1>4, <2>1, <2>2
<1>7. \A u \in Task : Holds(r, u) <=> Holds(q, u) /\ u # t
  <2> SUFFICES ASSUME NEW u \in Task
               PROVE  Holds(r, u) <=> Holds(q, u) /\ u # t
    OBVIOUS
  <2>1. ASSUME Holds(r, u) PROVE Holds(q, u) /\ u # t
    <3>1. PICK j \in 1..(Len(q) - 1) : r[j] = u
      BY <1>5, <2>1 DEF Holds
    <3>2. PICK m \in 1..Len(q) : q[m] = u /\ m # k
      <4>1. CASE j < k
        BY <1>1, <1>2, <1>4, <3>1, <4>1
      <4>2. CASE ~(j < k)
        BY <1>1, <1>2, <1>4, <3>1, <4>2
      <4>3. QED
        BY <4>1, <4>2
    <3>3. QED
      BY <1>2, <3>2 DEF Holds, Distinct
  <2>2. ASSUME Holds(q, u), u # t PROVE Holds(r, u)
    <3>1. PICK m \in 1..Len(q) : q[m] = u
      BY <2>2 DEF Holds
    <3>2. m # k
      BY <1>2, <2>2, <3>1
    <3>3. CASE m < k
      <4>1. m \in 1..(Len(q) - 1) /\ r[m] = u
        BY <1>1, <1>2, <1>4, <3>1, <3>3
      <4>2. QED
        BY <1>5, <4>1 DEF Holds
    <3>4. CASE m > k
      <4>1. m - 1 \in 1..(Len(q) - 1) /\ ~(m - 1 < k) /\ (m - 1) + 1 = m
        BY <1>1, <1>2, <3>1, <3>4
      <4>2. r[m - 1] = u
        BY <1>4, <3>1, <4>1
      <4>3. QED
        BY <1>5, <4>1, <4>2 DEF Holds
    <3>5. QED
      BY <1>1, <1>2, <3>1, <3>2, <3>3, <3>4
  <2>3. QED
    BY <2>1, <2>2
<1>8. QED
  BY <1>5, <1>6, <1>7 DEF r

\* A queue is empty exactly when it holds no task.
LEMMA EmptyHolds ==
  ASSUME NEW q \in Seq(Task)
  PROVE  /\ q = <<>> <=> \A t \in Task : ~Holds(q, t)
         /\ q # <<>> => Head(q) \in Task /\ Holds(q, Head(q))
<1>1. ASSUME q # <<>> PROVE Head(q) \in Task /\ Holds(q, Head(q))
  <2>1. Len(q) \in Nat /\ Len(q) > 0 /\ Head(q) = q[1] /\ q[1] \in Task
    BY <1>1
  <2>2. 1 \in 1..Len(q)
    BY <2>1
  <2>3. QED
    BY <2>1, <2>2 DEF Holds
<1>2. ASSUME q = <<>>, NEW t \in Task PROVE ~Holds(q, t)
  BY <1>2 DEF Holds
<1>3. QED
  BY <1>1, <1>2

-----------------------------------------------------------------------------
(* The operations on the scheduler, field by field.                        *)

\* WantSchedule only records a request.
LEMMA WantScheduleFields ==
  ASSUME NEW s \in SchedulerRecord
  PROVE  LET w == WantSchedule(s) IN
         /\ w \in SchedulerRecord
         /\ w.fTasks = s.fTasks
         /\ w.fPriorityMask = s.fPriorityMask
         /\ w.fHighestPriority = s.fHighestPriority
         /\ w.fCurrentTask = s.fCurrentTask
         /\ w.queued = s.queued
         /\ w.gCurrentTask = s.gCurrentTask
         /\ w.gTaskPriority = s.gTaskPriority
         /\ w.gHoldScheduleLevel = s.gHoldScheduleLevel
         /\ w.gWantSchedulerToRun = s.gWantSchedulerToRun
         /\ w.gSchedulerRunning = s.gSchedulerRunning
         /\ w.gDoSchedule = (s.gDoSchedule \/ s.gHoldScheduleLevel = 0)
         /\ w.gScheduleRequested =
              (s.gScheduleRequested \/ s.gHoldScheduleLevel # 0)
BY DEF SchedulerRecord, WantSchedule

\* What Add does to each field.
LEMMA AddFields ==
  ASSUME NEW s \in SchedulerRecord, NEW t \in Task
  PROVE  LET a == Add(s, t)
             p == fPriority[t] IN
         /\ a \in SchedulerRecord
         /\ a.fTasks = [s.fTasks EXCEPT ![p] = Append(s.fTasks[p], t)]
         /\ a.fPriorityMask = s.fPriorityMask \cup {p}
         /\ a.fHighestPriority =
              IF p > s.fHighestPriority THEN p ELSE s.fHighestPriority
         /\ a.fCurrentTask = s.fCurrentTask
         /\ a.queued = s.queued \cup {t}
         /\ a.gCurrentTask = s.gCurrentTask
         /\ a.gTaskPriority = s.gTaskPriority
         /\ a.gHoldScheduleLevel = s.gHoldScheduleLevel
         /\ a.gWantSchedulerToRun =
              (s.gWantSchedulerToRun \/ p >= s.gTaskPriority)
         /\ a.gSchedulerRunning = s.gSchedulerRunning
         /\ a.gDoSchedule =
              (s.gDoSchedule \/ (/\ s.gCurrentTask = IdleTask
                                 /\ s.gHoldScheduleLevel = 0))
         /\ a.gScheduleRequested =
              (s.gScheduleRequested \/ (/\ s.gCurrentTask = IdleTask
                                        /\ s.gHoldScheduleLevel # 0))
<1> DEFINE p == fPriority[t]
           q == [s EXCEPT
                   !.fPriorityMask = @ \cup {p},
                   !.fHighestPriority = IF p > @ THEN p ELSE @,
                   !.fTasks[p] = Append(@, t),
                   !.queued = @ \cup {t},
                   !.gWantSchedulerToRun = @ \/ p >= s.gTaskPriority]
<1>1. /\ p \in Priority
      /\ s.fTasks \in [Priority -> Seq(Task)]
      /\ s.fHighestPriority \in Priority
  BY DEF SchedulerRecord
<1>2. [s.fTasks EXCEPT ![p] = Append(s.fTasks[p], t)] \in [Priority -> Seq(Task)]
  BY <1>1
<1>3. /\ q \in SchedulerRecord
      /\ q.fTasks = [s.fTasks EXCEPT ![p] = Append(s.fTasks[p], t)]
      /\ q.fPriorityMask = s.fPriorityMask \cup {p}
      /\ q.fHighestPriority =
           IF p > s.fHighestPriority THEN p ELSE s.fHighestPriority
      /\ q.fCurrentTask = s.fCurrentTask
      /\ q.queued = s.queued \cup {t}
      /\ q.gCurrentTask = s.gCurrentTask
      /\ q.gTaskPriority = s.gTaskPriority
      /\ q.gHoldScheduleLevel = s.gHoldScheduleLevel
      /\ q.gWantSchedulerToRun =
           (s.gWantSchedulerToRun \/ p >= s.gTaskPriority)
      /\ q.gSchedulerRunning = s.gSchedulerRunning
      /\ q.gDoSchedule = s.gDoSchedule
      /\ q.gScheduleRequested = s.gScheduleRequested
  BY ZenonT(40), <1>1, <1>2 DEF SchedulerRecord
<1>4. Add(s, t) = IF s.gCurrentTask = IdleTask THEN WantSchedule(q) ELSE q
  BY DEF Add
<1> HIDE DEF q
<1>5. CASE s.gCurrentTask = IdleTask
  BY <1>3, <1>4, <1>5, WantScheduleFields
<1>6. CASE s.gCurrentTask # IdleTask
  <2>1. Add(s, t) = q
    BY <1>4, <1>6
  <2>2. s.gDoSchedule \in BOOLEAN /\ s.gScheduleRequested \in BOOLEAN
    BY DEF SchedulerRecord
  <2>3. /\ q.gDoSchedule =
             (s.gDoSchedule \/ (/\ s.gCurrentTask = IdleTask
                                /\ s.gHoldScheduleLevel = 0))
        /\ q.gScheduleRequested =
             (s.gScheduleRequested \/ (/\ s.gCurrentTask = IdleTask
                                       /\ s.gHoldScheduleLevel # 0))
    BY <1>3, <1>6, <2>2
  <2>4. QED
    BY <1>3, <2>1, <2>3
<1>7. QED
  BY <1>5, <1>6

\* Adding a task that is not queued keeps the queues and the mask right.
LEMMA AddOK ==
  ASSUME NEW s \in SchedulerRecord, QueuesOK(s), BucketsOK(s),
         NEW t \in Task, t \notin s.queued
  PROVE  QueuesOK(Add(s, t)) /\ BucketsOK(Add(s, t))
<1> DEFINE a == Add(s, t)
           p == fPriority[t]
<1>1. /\ p \in Priority
      /\ s.fTasks \in [Priority -> Seq(Task)]
      /\ s.fHighestPriority \in Priority
      /\ s.fPriorityMask \subseteq Priority
  BY DEF SchedulerRecord
<1>2. /\ a.fTasks = [s.fTasks EXCEPT ![p] = Append(s.fTasks[p], t)]
      /\ a.fPriorityMask = s.fPriorityMask \cup {p}
      /\ a.fHighestPriority =
           IF p > s.fHighestPriority THEN p ELSE s.fHighestPriority
      /\ a.queued = s.queued \cup {t}
  BY AddFields
<1> HIDE DEF a
<1>3. Distinct(s.fTasks[p]) /\ ~Holds(s.fTasks[p], t)
  BY <1>1 DEF QueuesOK
<1>4. /\ Append(s.fTasks[p], t) # <<>>
      /\ Distinct(Append(s.fTasks[p], t))
      /\ \A u \in Task : Holds(Append(s.fTasks[p], t), u)
                           <=> Holds(s.fTasks[p], u) \/ u = t
  BY <1>1, <1>3, AppendHolds
<1>5. /\ a.fTasks[p] = Append(s.fTasks[p], t)
      /\ \A q \in Priority : q # p => a.fTasks[q] = s.fTasks[q]
  BY <1>1, <1>2
<1>6. QueuesOK(a)
  <2>1. \A q \in Priority : Distinct(a.fTasks[q])
    BY <1>4, <1>5 DEF QueuesOK
  <2>2. ASSUME NEW q \in Priority, NEW u \in Task
        PROVE  Holds(a.fTasks[q], u) <=> u \in a.queued /\ fPriority[u] = q
    <3>1. CASE q = p
      BY <1>2, <1>4, <1>5, <3>1 DEF QueuesOK
    <3>2. CASE q # p
      BY <1>2, <1>5, <3>2 DEF QueuesOK
    <3>3. QED
      BY <3>1, <3>2
  <2>3. QED
    BY <2>1, <2>2 DEF QueuesOK
<1>7. BucketsOK(a)
  <2>1. \A q \in Priority : q \in a.fPriorityMask <=> a.fTasks[q] # <<>>
    BY <1>2, <1>4, <1>5 DEF BucketsOK
  <2>2. \A q \in a.fPriorityMask : q <= a.fHighestPriority
    BY <1>1, <1>2 DEF BucketsOK, Priority
  <2>3. a.fHighestPriority # 0 => a.fHighestPriority \in a.fPriorityMask
    BY <1>1, <1>2 DEF BucketsOK
  <2>4. QED
    BY <2>1, <2>2, <2>3 DEF BucketsOK
<1>8. QED
  BY <1>6, <1>7 DEF a

\* A set of priorities that is not empty has a highest member.
LEMMA HighestExists ==
  ASSUME NEW S \in SUBSET Priority, S # {}
  PROVE  \E i \in S : \A j \in S : j <= i
<1> DEFINE T == {TopPriority - i : i \in S}
<1>1. T \subseteq Nat /\ T # {}
  <2>1. \A i \in S : TopPriority - i \in Nat
    BY DEF Priority
  <2>2. T \subseteq Nat
    BY <2>1
  <2>3. PICK i \in S : TRUE
    OBVIOUS
  <2>4. TopPriority - i \in T
    OBVIOUS
  <2>5. QED
    BY <2>2, <2>4
<1>2. PICK x \in T : \A y \in T : ~(<<y, x>> \in OpToRel(<, Nat))
  <2> HIDE DEF T
  <2>1. IsWellFoundedOn(OpToRel(<, Nat), Nat)
    BY NatLessThanWellFounded
  <2>2. QED
    BY <1>1, <2>1, WFMin, Zenon
<1>3. \A y \in T : ~(y < x)
  BY <1>1, <1>2 DEF OpToRel
<1>4. PICK i \in S : x = TopPriority - i
  OBVIOUS
<1>5. \A j \in S : j <= i
  <2> SUFFICES ASSUME NEW j \in S PROVE j <= i
    OBVIOUS
  <2>1. ~(TopPriority - j < TopPriority - i)
    BY <1>3, <1>4
  <2>2. i \in Int /\ j \in Int /\ TopPriority \in Int
    BY DEF Priority
  <2>3. QED
    BY <2>1, <2>2
<1>6. QED
  BY <1>5

\* Unqueueing a task takes it out of its queue and touches nothing else.
LEMMA RemoveFromQueueOK ==
  ASSUME NEW s \in SchedulerRecord, QueuesOK(s), NEW t \in Task
  PROVE  LET r == RemoveFromQueue(s, t) IN
         /\ r \in SchedulerRecord
         /\ QueuesOK(r)
         /\ \A p \in Priority : p # fPriority[t] => r.fTasks[p] = s.fTasks[p]
         /\ t \notin s.queued => r = s
         /\ r.queued = s.queued \ {t}
         /\ r.fPriorityMask = s.fPriorityMask
         /\ r.fHighestPriority = s.fHighestPriority
         /\ r.fCurrentTask = s.fCurrentTask
         /\ r.gCurrentTask = s.gCurrentTask
         /\ r.gTaskPriority = s.gTaskPriority
         /\ r.gDoSchedule = s.gDoSchedule
         /\ r.gScheduleRequested = s.gScheduleRequested
         /\ r.gHoldScheduleLevel = s.gHoldScheduleLevel
         /\ r.gWantSchedulerToRun = s.gWantSchedulerToRun
         /\ r.gSchedulerRunning = s.gSchedulerRunning
<1> DEFINE r == RemoveFromQueue(s, t)
           p == fPriority[t]
<1>1. CASE t \notin s.queued
  <2>1. r = s
    BY <1>1 DEF RemoveFromQueue
  <2>2. s.queued \ {t} = s.queued
    BY <1>1
  <2>3. QED
    BY <2>1, <2>2
<1>2. CASE t \in s.queued
  <2>1. /\ p \in Priority
        /\ s.fTasks \in [Priority -> Seq(Task)]
        /\ s.fTasks[p] \in Seq(Task)
    BY DEF SchedulerRecord
  <2>2. Distinct(s.fTasks[p]) /\ Holds(s.fTasks[p], t)
    BY <1>2, <2>1 DEF QueuesOK
  <2>3. /\ Unlink(s.fTasks[p], t) \in Seq(Task)
        /\ Distinct(Unlink(s.fTasks[p], t))
        /\ \A u \in Task : Holds(Unlink(s.fTasks[p], t), u)
                             <=> Holds(s.fTasks[p], u) /\ u # t
    BY <2>1, <2>2, UnlinkHolds
  <2>4. r = [s EXCEPT !.fTasks[p] = Unlink(@, t), !.queued = @ \ {t}]
    BY <1>2 DEF RemoveFromQueue
  <2> DEFINE f == [s.fTasks EXCEPT ![p] = Unlink(s.fTasks[p], t)]
  <2>a. f \in [Priority -> Seq(Task)]
    BY <2>1, <2>3
  <2>b. r = [s EXCEPT !.fTasks = f, !.queued = s.queued \ {t}]
    BY <2>4
  <2>c. s.queued \ {t} \in SUBSET Task
    BY DEF SchedulerRecord
  <2> HIDE DEF f, r
  <2>5. /\ r.fTasks = f
        /\ r.queued = s.queued \ {t}
        /\ r \in SchedulerRecord
    BY <2>a, <2>b, <2>c DEF SchedulerRecord
  <2>6. /\ r.fTasks[p] = Unlink(s.fTasks[p], t)
        /\ \A q \in Priority : q # p => r.fTasks[q] = s.fTasks[q]
    BY <2>1, <2>5 DEF f
  <2>7. QueuesOK(r)
    <3>1. \A q \in Priority : Distinct(r.fTasks[q])
      BY <2>3, <2>6 DEF QueuesOK
    <3>2. ASSUME NEW q \in Priority, NEW u \in Task
          PROVE  Holds(r.fTasks[q], u) <=> u \in r.queued /\ fPriority[u] = q
      <4>1. CASE q = p
        BY <2>3, <2>5, <2>6, <4>1 DEF QueuesOK
      <4>2. CASE q # p
        BY <2>5, <2>6, <4>2 DEF QueuesOK
      <4>3. QED
        BY <4>1, <4>2
    <3>3. QED
      BY <3>1, <3>2 DEF QueuesOK
  <2>8. /\ r.fPriorityMask = s.fPriorityMask
        /\ r.fHighestPriority = s.fHighestPriority
        /\ r.fCurrentTask = s.fCurrentTask
        /\ r.gCurrentTask = s.gCurrentTask
        /\ r.gTaskPriority = s.gTaskPriority
        /\ r.gDoSchedule = s.gDoSchedule
        /\ r.gScheduleRequested = s.gScheduleRequested
        /\ r.gHoldScheduleLevel = s.gHoldScheduleLevel
        /\ r.gWantSchedulerToRun = s.gWantSchedulerToRun
        /\ r.gSchedulerRunning = s.gSchedulerRunning
    BY <2>b DEF SchedulerRecord
  <2>9. QED
    BY <1>2, <2>5, <2>6, <2>7, <2>8 DEF r
<1>3. QED
  BY <1>1, <1>2

\* Clearing the bit of an emptied queue, and looking for the next bucket when
\* that queue was the highest one, makes the mask right again.
LEMMA ClearPriorityBitOK ==
  ASSUME NEW s \in SchedulerRecord, NEW p \in Priority,
         s.fTasks[p] = <<>>,
         \A q \in Priority \ {p} : q \in s.fPriorityMask <=> s.fTasks[q] # <<>>,
         \A q \in s.fPriorityMask : q <= s.fHighestPriority,
         s.fHighestPriority # 0 => s.fHighestPriority \in s.fPriorityMask \cup {p}
  PROVE  LET c == ClearPriorityBit(s, p)
             b == IF p = s.fHighestPriority THEN UpdateCurrentBucket(c) ELSE c IN
         /\ b \in SchedulerRecord
         /\ BucketsOK(b)
         /\ b.fTasks = s.fTasks
         /\ b.fCurrentTask = s.fCurrentTask
         /\ b.queued = s.queued
         /\ b.gCurrentTask = s.gCurrentTask
         /\ b.gTaskPriority = s.gTaskPriority
         /\ b.gDoSchedule = s.gDoSchedule
         /\ b.gScheduleRequested = s.gScheduleRequested
         /\ b.gHoldScheduleLevel = s.gHoldScheduleLevel
         /\ b.gWantSchedulerToRun = s.gWantSchedulerToRun
         /\ b.gSchedulerRunning = s.gSchedulerRunning
<1> DEFINE c == ClearPriorityBit(s, p)
           b == IF p = s.fHighestPriority THEN UpdateCurrentBucket(c) ELSE c
<1>1. /\ s.fPriorityMask \subseteq Priority
      /\ s.fHighestPriority \in Priority
  BY DEF SchedulerRecord
<1>2. s.fPriorityMask \ {p} \in SUBSET Priority
  BY <1>1
<1>3. c = [s EXCEPT !.fPriorityMask = s.fPriorityMask \ {p}]
  BY DEF ClearPriorityBit
<1> HIDE DEF c
<1>4. /\ c \in SchedulerRecord
      /\ c.fPriorityMask = s.fPriorityMask \ {p}
      /\ c.fHighestPriority = s.fHighestPriority
      /\ c.fTasks = s.fTasks
      /\ c.fCurrentTask = s.fCurrentTask
      /\ c.queued = s.queued
      /\ c.gCurrentTask = s.gCurrentTask
      /\ c.gTaskPriority = s.gTaskPriority
      /\ c.gDoSchedule = s.gDoSchedule
      /\ c.gScheduleRequested = s.gScheduleRequested
      /\ c.gHoldScheduleLevel = s.gHoldScheduleLevel
      /\ c.gWantSchedulerToRun = s.gWantSchedulerToRun
      /\ c.gSchedulerRunning = s.gSchedulerRunning
  BY <1>2, <1>3 DEF SchedulerRecord
<1>5. \A q \in Priority : q \in c.fPriorityMask <=> c.fTasks[q] # <<>>
  BY <1>1, <1>4
<1>6. CASE p # s.fHighestPriority
  <2>1. b = c
    BY <1>6
  <2>2. BucketsOK(c)
    BY <1>1, <1>4, <1>5, <1>6 DEF BucketsOK
  <2> HIDE DEF b
  <2>3. QED
    BY <1>4, <2>1, <2>2 DEF b, c
<1>7. CASE p = s.fHighestPriority
  <2> DEFINE lower == {i \in c.fPriorityMask : 0 < i /\ i < c.fHighestPriority}
             h == IF lower = {} THEN 0
                  ELSE CHOOSE i \in lower : \A j \in lower : j <= i
  <2>1. b = [c EXCEPT !.fHighestPriority = h]
    BY <1>7 DEF UpdateCurrentBucket
  <2>2. lower \in SUBSET Priority
    BY <1>1, <1>4
  <2>3. ASSUME lower # {}
        PROVE  h \in lower /\ \A j \in lower : j <= h
    <3> HIDE DEF lower
    <3>1. \E i \in lower : \A j \in lower : j <= i
      BY <2>2, <2>3, HighestExists
    <3>2. QED
      BY <2>3, <3>1
  <2>4. 0 \in Priority
    BY DEF Priority
  <2>5. h \in Priority /\ (h # 0 => h \in lower)
    <3>1. CASE lower = {}
      BY <2>4, <3>1
    <3>2. CASE lower # {}
      <4> HIDE DEF h, lower
      <4>1. QED
        BY <2>2, <2>3, <3>2
    <3>3. QED
      BY <3>1, <3>2
  <2>6. \A q \in c.fPriorityMask : q <= h
    <3> SUFFICES ASSUME NEW q \in c.fPriorityMask PROVE q <= h
      OBVIOUS
    <3>1. q \in Priority /\ q # p /\ q <= s.fHighestPriority
      BY <1>1, <1>4
    <3>2. q \in Nat /\ p \in Nat
      BY <3>1 DEF Priority
    <3>3. q < c.fHighestPriority
      BY <1>4, <1>7, <3>1, <3>2
    <3>4. CASE q = 0
      <4> HIDE DEF h
      <4>1. QED
        BY <2>5, <3>4 DEF Priority
    <3>5. CASE q # 0
      <4>1. q \in lower
        BY <3>2, <3>3, <3>5
      <4> HIDE DEF h, lower
      <4>2. QED
        BY <2>3, <4>1
    <3>6. QED
      BY <3>4, <3>5
  <2> HIDE DEF h, b
  <2>7. /\ b \in SchedulerRecord
        /\ b.fHighestPriority = h
        /\ b.fPriorityMask = c.fPriorityMask
        /\ b.fTasks = c.fTasks
        /\ b.fCurrentTask = c.fCurrentTask
        /\ b.queued = c.queued
        /\ b.gCurrentTask = c.gCurrentTask
        /\ b.gTaskPriority = c.gTaskPriority
        /\ b.gDoSchedule = c.gDoSchedule
        /\ b.gScheduleRequested = c.gScheduleRequested
        /\ b.gHoldScheduleLevel = c.gHoldScheduleLevel
        /\ b.gWantSchedulerToRun = c.gWantSchedulerToRun
        /\ b.gSchedulerRunning = c.gSchedulerRunning
    BY <1>4, <2>1, <2>5 DEF SchedulerRecord
  <2>8. BucketsOK(b)
    BY <1>5, <2>5, <2>6, <2>7 DEF BucketsOK
  <2>9. QED
    BY <1>4, <2>7, <2>8 DEF b, c
<1>8. QED
  BY <1>6, <1>7 DEF c

\* Dequeueing a task keeps the queues and the mask right, whether or not the
\* task was queued.
LEMMA DequeueOK ==
  ASSUME NEW s \in SchedulerRecord, QueuesOK(s), BucketsOK(s), NEW t \in Task
  PROVE  LET d == Dequeue(s, t, fPriority[t]) IN
         /\ d \in SchedulerRecord
         /\ QueuesOK(d)
         /\ BucketsOK(d)
         /\ d.fCurrentTask = s.fCurrentTask
         /\ d.queued = s.queued \ {t}
         /\ d.gCurrentTask = s.gCurrentTask
         /\ d.gTaskPriority = s.gTaskPriority
         /\ d.gDoSchedule = s.gDoSchedule
         /\ d.gScheduleRequested = s.gScheduleRequested
         /\ d.gHoldScheduleLevel = s.gHoldScheduleLevel
         /\ d.gWantSchedulerToRun = s.gWantSchedulerToRun
         /\ d.gSchedulerRunning = s.gSchedulerRunning
<1> DEFINE r == RemoveFromQueue(s, t)
           p == fPriority[t]
           d == Dequeue(s, t, p)
<1>1. /\ r \in SchedulerRecord
      /\ QueuesOK(r)
      /\ \A q \in Priority : q # p => r.fTasks[q] = s.fTasks[q]
      /\ r.queued = s.queued \ {t}
      /\ r.fPriorityMask = s.fPriorityMask
      /\ r.fHighestPriority = s.fHighestPriority
      /\ r.fCurrentTask = s.fCurrentTask
      /\ r.gCurrentTask = s.gCurrentTask
      /\ r.gTaskPriority = s.gTaskPriority
      /\ r.gDoSchedule = s.gDoSchedule
      /\ r.gScheduleRequested = s.gScheduleRequested
      /\ r.gHoldScheduleLevel = s.gHoldScheduleLevel
      /\ r.gWantSchedulerToRun = s.gWantSchedulerToRun
      /\ r.gSchedulerRunning = s.gSchedulerRunning
  BY RemoveFromQueueOK
<1>2. t \notin s.queued => r = s
  BY RemoveFromQueueOK
<1>3. p \in Priority /\ s.fTasks \in [Priority -> Seq(Task)]
  BY DEF SchedulerRecord
<1>4. d = IF r.fTasks[p] # <<>> THEN r
          ELSE IF p = r.fHighestPriority
               THEN UpdateCurrentBucket(ClearPriorityBit(r, p))
               ELSE ClearPriorityBit(r, p)
  BY DEF Dequeue
<1> HIDE DEF r, d
<1>5. CASE r.fTasks[p] # <<>>
  <2>1. d = r
    BY <1>4, <1>5
  <2>2. s.fTasks[p] # <<>>
    <3>1. r.fTasks[p] \in Seq(Task)
      BY <1>1, <1>3 DEF SchedulerRecord
    <3>2. PICK u \in Task : Holds(r.fTasks[p], u)
      BY <1>5, <3>1, EmptyHolds
    <3>3. Holds(s.fTasks[p], u)
      BY <1>1, <1>3, <3>2 DEF QueuesOK
    <3>4. QED
      BY <1>3, <3>3, EmptyHolds
  <2>3. BucketsOK(r)
    BY <1>1, <1>5, <2>2 DEF BucketsOK
  <2>4. QED
    BY <1>1, <2>1, <2>3 DEF d
<1>6. CASE r.fTasks[p] = <<>>
  <2> DEFINE b == IF p = r.fHighestPriority
                  THEN UpdateCurrentBucket(ClearPriorityBit(r, p))
                  ELSE ClearPriorityBit(r, p)
  <2>1. d = b
    BY <1>4, <1>6
  <2>2. /\ \A q \in Priority \ {p} :
             q \in r.fPriorityMask <=> r.fTasks[q] # <<>>
        /\ \A q \in r.fPriorityMask : q <= r.fHighestPriority
        /\ r.fHighestPriority # 0 =>
             r.fHighestPriority \in r.fPriorityMask \cup {p}
    BY <1>1 DEF BucketsOK
  <2>3. /\ b \in SchedulerRecord
        /\ BucketsOK(b)
        /\ b.fTasks = r.fTasks
        /\ b.fCurrentTask = r.fCurrentTask
        /\ b.queued = r.queued
        /\ b.gCurrentTask = r.gCurrentTask
        /\ b.gTaskPriority = r.gTaskPriority
        /\ b.gDoSchedule = r.gDoSchedule
        /\ b.gScheduleRequested = r.gScheduleRequested
        /\ b.gHoldScheduleLevel = r.gHoldScheduleLevel
        /\ b.gWantSchedulerToRun = r.gWantSchedulerToRun
        /\ b.gSchedulerRunning = r.gSchedulerRunning
    BY <1>1, <1>3, <1>6, <2>2, ClearPriorityBitOK
  <2> HIDE DEF b
  <2>4. QueuesOK(b)
    BY <1>1, <2>3 DEF QueuesOK
  <2>5. QED
    BY <1>1, <2>1, <2>3, <2>4 DEF d
<1>7. QED
  BY <1>5, <1>6

\* Taking the processor from the current task always asks for a reschedule.
LEMMA UnScheduleCurrentFields ==
  ASSUME NEW s \in SchedulerRecord
  PROVE  LET r == UnScheduleTask(s, s.gCurrentTask) IN
         /\ r \in SchedulerRecord
         /\ r.fTasks = s.fTasks
         /\ r.fPriorityMask = s.fPriorityMask
         /\ r.fHighestPriority = s.fHighestPriority
         /\ r.fCurrentTask = s.fCurrentTask
         /\ r.queued = s.queued
         /\ r.gCurrentTask = NoTask
         /\ r.gTaskPriority = s.gTaskPriority
         /\ r.gHoldScheduleLevel = s.gHoldScheduleLevel
         /\ r.gWantSchedulerToRun = TRUE
         /\ r.gSchedulerRunning = s.gSchedulerRunning
         /\ r.gDoSchedule = (s.gDoSchedule \/ s.gHoldScheduleLevel = 0)
         /\ r.gScheduleRequested =
              (s.gScheduleRequested \/ s.gHoldScheduleLevel # 0)
<1> DEFINE w == WantSchedule(s)
           r == UnScheduleTask(s, s.gCurrentTask)
<1>1. r = [w EXCEPT !.gCurrentTask = NoTask, !.gWantSchedulerToRun = TRUE]
  BY DEF UnScheduleTask
<1> HIDE DEF w, r
<1>2. w \in SchedulerRecord
  BY WantScheduleFields DEF w
<1>3. /\ r \in SchedulerRecord
      /\ r.fTasks = w.fTasks
      /\ r.fPriorityMask = w.fPriorityMask
      /\ r.fHighestPriority = w.fHighestPriority
      /\ r.fCurrentTask = w.fCurrentTask
      /\ r.queued = w.queued
      /\ r.gCurrentTask = NoTask
      /\ r.gTaskPriority = w.gTaskPriority
      /\ r.gHoldScheduleLevel = w.gHoldScheduleLevel
      /\ r.gWantSchedulerToRun = TRUE
      /\ r.gSchedulerRunning = w.gSchedulerRunning
      /\ r.gDoSchedule = w.gDoSchedule
      /\ r.gScheduleRequested = w.gScheduleRequested
  BY <1>1, <1>2 DEF SchedulerRecord
<1>4. QED
  BY <1>3, WantScheduleFields DEF w, r

-----------------------------------------------------------------------------
(* The choice of the next task.                                            *)

\* The chosen task is queued and no queued task outranks it; none is chosen
\* only if none is queued.
LEMMA HighestPriorityTaskOK ==
  ASSUME NEW s \in SchedulerRecord, QueuesOK(s), BucketsOK(s)
  PROVE  LET t == HighestPriorityTask(s) IN
         /\ t = NoTask => s.queued = {}
         /\ t # NoTask => t \in s.queued /\ fPriority[t] = s.fHighestPriority
         /\ \A u \in s.queued : fPriority[u] <= s.fHighestPriority
<1> DEFINE t == HighestPriorityTask(s)
           h == s.fHighestPriority
<1>1. /\ h \in Priority
      /\ s.fTasks[h] \in Seq(Task)
      /\ s.queued \subseteq Task
      /\ s.fCurrentTask \in Task \cup {NoTask}
  BY DEF SchedulerRecord
<1>2. ASSUME NEW u \in s.queued
      PROVE  fPriority[u] \in s.fPriorityMask /\ fPriority[u] <= h
  <2>1. u \in Task /\ fPriority[u] \in Priority
    BY <1>1
  <2>2. Holds(s.fTasks[fPriority[u]], u)
    BY <1>2, <2>1 DEF QueuesOK
  <2>3. s.fTasks[fPriority[u]] # <<>>
    BY <2>2 DEF Holds
  <2>4. QED
    BY <2>1, <2>3 DEF BucketsOK
<1>3. CASE HintIsUsable(s)
  BY <1>1, <1>2, <1>3 DEF HighestPriorityTask, HintIsUsable
<1>4. CASE ~HintIsUsable(s) /\ s.fTasks[h] # <<>>
  <2>1. t = Head(s.fTasks[h])
    BY <1>4 DEF HighestPriorityTask
  <2>2. t \in Task /\ Holds(s.fTasks[h], t)
    BY <1>1, <1>4, <2>1, EmptyHolds
  <2>3. t \in s.queued /\ fPriority[t] = h
    BY <1>1, <2>2 DEF QueuesOK
  <2>4. QED
    BY <1>1, <1>2, <2>2, <2>3
<1>5. CASE ~HintIsUsable(s) /\ s.fTasks[h] = <<>>
  <2>1. t = NoTask
    BY <1>5 DEF HighestPriorityTask
  <2>2. h \notin s.fPriorityMask
    BY <1>1, <1>5 DEF BucketsOK
  <2>3. h = 0
    BY <2>2 DEF BucketsOK
  <2>4. ASSUME NEW u \in s.queued PROVE FALSE
    <3>1. fPriority[u] = 0
      BY <1>1, <1>2, <2>3 DEF Priority
    <3>2. QED
      BY <1>2, <2>2, <2>3, <3>1
  <2>5. QED
    BY <2>1, <2>4
<1>6. QED
  BY <1>3, <1>4, <1>5

\* Removing the chosen task keeps the queues right, uses up the hint, and stops
\* the timer only if no task of the chosen one's priority is left.
LEMMA RemoveHighestPriorityOK ==
  ASSUME NEW s \in SchedulerRecord, QueuesOK(s), BucketsOK(s)
  PROVE  LET t == HighestPriorityTask(s)
             r == RemoveHighestPriority(s) IN
         /\ r \in SchedulerRecord
         /\ QueuesOK(r)
         /\ BucketsOK(r)
         /\ r.fCurrentTask = NoTask
         /\ r.queued = s.queued \ {t}
         /\ r.gCurrentTask = s.gCurrentTask
         /\ r.gTaskPriority = s.gTaskPriority
         /\ r.gDoSchedule = s.gDoSchedule
         /\ r.gScheduleRequested = s.gScheduleRequested
         /\ r.gHoldScheduleLevel = s.gHoldScheduleLevel
         /\ t # NoTask /\ (s.gWantSchedulerToRun \/ s.gSchedulerRunning) =>
              \/ r.gWantSchedulerToRun
              \/ r.gSchedulerRunning
              \/ \A u \in r.queued : fPriority[u] < fPriority[t]
<1> DEFINE t == HighestPriorityTask(s)
           r == RemoveHighestPriority(s)
           p == s.fHighestPriority
           h == [s EXCEPT !.fCurrentTask = NoTask,
                          !.gWantSchedulerToRun = @ \/ HintIsUsable(s)]
           d == Dequeue(h, t, p)
<1>1. /\ t = NoTask => s.queued = {}
      /\ t # NoTask => t \in s.queued /\ fPriority[t] = p
      /\ \A u \in s.queued : fPriority[u] <= p
  BY HighestPriorityTaskOK
<1>2. /\ h \in SchedulerRecord
      /\ h.fTasks = s.fTasks
      /\ h.fPriorityMask = s.fPriorityMask
      /\ h.fHighestPriority = s.fHighestPriority
      /\ h.fCurrentTask = NoTask
      /\ h.queued = s.queued
      /\ h.gCurrentTask = s.gCurrentTask
      /\ h.gTaskPriority = s.gTaskPriority
      /\ h.gDoSchedule = s.gDoSchedule
      /\ h.gScheduleRequested = s.gScheduleRequested
      /\ h.gHoldScheduleLevel = s.gHoldScheduleLevel
      /\ h.gWantSchedulerToRun = (s.gWantSchedulerToRun \/ HintIsUsable(s))
      /\ h.gSchedulerRunning = s.gSchedulerRunning
  <2> HintIsUsable(s) \in BOOLEAN
    BY DEF HintIsUsable
  <2> QED
    BY DEF SchedulerRecord
<1>3. QueuesOK(h) /\ BucketsOK(h)
  BY <1>2 DEF QueuesOK, BucketsOK
<1>4. r = IF t = NoTask THEN h
          ELSE IF d.fTasks[p] = <<>> THEN StopScheduler(d) ELSE d
  BY DEF RemoveHighestPriority
<1> HIDE DEF t, r, h, d
<1>5. CASE t = NoTask
  <2>1. r = h
    BY <1>4, <1>5
  <2>2. s.queued \ {t} = s.queued
    BY <1>1, <1>5
  <2>3. QED
    BY <1>2, <1>3, <1>5, <2>1, <2>2 DEF t, r
<1>6. CASE t # NoTask
  <2>1. t \in Task /\ t \in s.queued /\ fPriority[t] = p
    BY <1>1, <1>6 DEF SchedulerRecord
  <2>2. /\ d \in SchedulerRecord
        /\ QueuesOK(d)
        /\ BucketsOK(d)
        /\ d.fCurrentTask = h.fCurrentTask
        /\ d.queued = h.queued \ {t}
        /\ d.gCurrentTask = h.gCurrentTask
        /\ d.gTaskPriority = h.gTaskPriority
        /\ d.gDoSchedule = h.gDoSchedule
        /\ d.gScheduleRequested = h.gScheduleRequested
        /\ d.gHoldScheduleLevel = h.gHoldScheduleLevel
        /\ d.gWantSchedulerToRun = h.gWantSchedulerToRun
        /\ d.gSchedulerRunning = h.gSchedulerRunning
    BY <1>2, <1>3, <2>1, DequeueOK DEF d
  <2>3. CASE d.fTasks[p] # <<>>
    <3>1. r = d
      BY <1>4, <1>6, <2>3
    <3>2. s.gWantSchedulerToRun \/ s.gSchedulerRunning =>
            r.gWantSchedulerToRun \/ r.gSchedulerRunning
      BY <1>2, <2>2, <3>1
    <3>3. QED
      BY <1>2, <2>2, <3>1, <3>2 DEF t, r
  <2>4. CASE d.fTasks[p] = <<>>
    <3>1. r = [d EXCEPT !.gSchedulerRunning = FALSE,
                        !.gWantSchedulerToRun = FALSE]
      BY <1>4, <1>6, <2>4 DEF StopScheduler
    <3>2. /\ r \in SchedulerRecord
          /\ r.fTasks = d.fTasks
          /\ r.fPriorityMask = d.fPriorityMask
          /\ r.fHighestPriority = d.fHighestPriority
          /\ r.fCurrentTask = d.fCurrentTask
          /\ r.queued = d.queued
          /\ r.gCurrentTask = d.gCurrentTask
          /\ r.gTaskPriority = d.gTaskPriority
          /\ r.gDoSchedule = d.gDoSchedule
          /\ r.gScheduleRequested = d.gScheduleRequested
          /\ r.gHoldScheduleLevel = d.gHoldScheduleLevel
      BY <2>2, <3>1 DEF SchedulerRecord
    <3>3. QueuesOK(r) /\ BucketsOK(r)
      BY <2>2, <3>2 DEF QueuesOK, BucketsOK
    <3>4. ASSUME NEW u \in r.queued PROVE fPriority[u] < fPriority[t]
      <4>1. u \in s.queued /\ u \in Task /\ u \in d.queued
        BY <1>2, <2>2, <3>2 DEF SchedulerRecord
      <4>2. fPriority[u] # p
        BY <2>2, <2>4, <4>1 DEF QueuesOK, Holds
      <4>3. fPriority[u] \in Int /\ p \in Int /\ fPriority[u] <= p
        BY <1>1, <4>1 DEF Priority, SchedulerRecord
      <4>4. QED
        BY <2>1, <4>2, <4>3
    <3>5. QED
      BY <1>2, <2>2, <3>2, <3>3, <3>4 DEF t, r
  <2>5. QED
    BY <2>3, <2>4
<1>7. QED
  BY <1>5, <1>6

\* The current task rejoins its queue, and then the timer is running, or will
\* be, unless nothing is queued.
LEMMA RequeueOK ==
  ASSUME NEW s \in SchedulerRecord, QueuesOK(s), BucketsOK(s), SliceOK(s),
         s.gCurrentTask \notin s.queued,
         s.gCurrentTask # NoTask =>
           s.gTaskPriority = PriorityOf(s.gCurrentTask)
  PROVE  LET a == Requeue(s) IN
         /\ a \in SchedulerRecord
         /\ QueuesOK(a)
         /\ BucketsOK(a)
         /\ a.queued = s.queued \cup ({s.gCurrentTask} \cap Task)
         /\ a.gCurrentTask = s.gCurrentTask
         /\ ~a.gDoSchedule
         /\ a.gScheduleRequested = s.gScheduleRequested
         /\ a.gHoldScheduleLevel = s.gHoldScheduleLevel
         /\ a.queued # {} => a.gWantSchedulerToRun \/ a.gSchedulerRunning
<1> DEFINE t == s.gCurrentTask
           b == IF t \in Task THEN Add(s, t) ELSE s
           a == Requeue(s)
<1>1. t \in Task \cup {IdleTask, NoTask}
  BY DEF SchedulerRecord
<1>2. /\ b \in SchedulerRecord
      /\ QueuesOK(b)
      /\ BucketsOK(b)
      /\ b.queued = s.queued \cup ({t} \cap Task)
      /\ b.gCurrentTask = t
      /\ b.gScheduleRequested = s.gScheduleRequested
      /\ b.gHoldScheduleLevel = s.gHoldScheduleLevel
      /\ b.queued # {} => b.gWantSchedulerToRun \/ b.gSchedulerRunning
  <2>1. CASE t \in Task
    <3>1. b = Add(s, t) /\ t # IdleTask
      BY <2>1
    <3>2. t # NoTask /\ s.gTaskPriority = fPriority[t] /\ fPriority[t] \in Int
      BY <2>1 DEF PriorityOf, Priority
    <3>3. /\ b \in SchedulerRecord
          /\ b.queued = s.queued \cup {t}
          /\ b.gCurrentTask = t
          /\ b.gHoldScheduleLevel = s.gHoldScheduleLevel
          /\ b.gWantSchedulerToRun =
               (s.gWantSchedulerToRun \/ fPriority[t] >= s.gTaskPriority)
          /\ b.gScheduleRequested =
               (s.gScheduleRequested \/ (/\ t = IdleTask
                                         /\ s.gHoldScheduleLevel # 0))
      BY <2>1, <3>1, AddFields
    <3>4. b.gScheduleRequested = s.gScheduleRequested
      <4>1. s.gScheduleRequested \in BOOLEAN
        BY DEF SchedulerRecord
      <4>2. QED
        BY <3>1, <3>3, <4>1
    <3>5. QueuesOK(b) /\ BucketsOK(b)
      BY <2>1, <3>1, AddOK
    <3>6. b.gWantSchedulerToRun
      <4>1. fPriority[t] >= s.gTaskPriority
        BY <3>2
      <4> HIDE DEF b
      <4>2. QED
        BY <3>3, <4>1, Zenon
    <3>7. QED
      BY <2>1, <3>3, <3>4, <3>5, <3>6
  <2>2. CASE t \notin Task
    <3>1. b = s /\ s.queued = s.queued \cup ({t} \cap Task)
      BY <2>2
    <3>2. ASSUME NEW u \in s.queued PROVE s.gWantSchedulerToRun \/ s.gSchedulerRunning
      <4>1. u \in Task /\ fPriority[u] \in Nat
        BY DEF SchedulerRecord, Priority
      <4>2. t = IdleTask => ~(fPriority[u] < s.gTaskPriority)
        BY <4>1 DEF PriorityOf
      <4>3. QED
        BY <1>1, <2>2, <4>2 DEF SliceOK
    <3>3. QED
      BY <3>1, <3>2
  <2>3. QED
    BY <2>1, <2>2
<1>3. a = [b EXCEPT !.gDoSchedule = FALSE]
  BY DEF Requeue
<1> HIDE DEF a, b
<1>4. /\ a \in SchedulerRecord
      /\ a.fTasks = b.fTasks
      /\ a.fPriorityMask = b.fPriorityMask
      /\ a.fHighestPriority = b.fHighestPriority
      /\ a.queued = b.queued
      /\ a.gCurrentTask = b.gCurrentTask
      /\ a.gDoSchedule = FALSE
      /\ a.gScheduleRequested = b.gScheduleRequested
      /\ a.gHoldScheduleLevel = b.gHoldScheduleLevel
      /\ a.gWantSchedulerToRun = b.gWantSchedulerToRun
      /\ a.gSchedulerRunning = b.gSchedulerRunning
  BY <1>2, <1>3 DEF SchedulerRecord
<1>5. QueuesOK(a) /\ BucketsOK(a)
  BY <1>2, <1>4 DEF QueuesOK, BucketsOK
<1>6. QED
  BY <1>2, <1>4, <1>5 DEF a

\* Schedule picks a runnable task that no other outranks, or the idle task only
\* if there is none, and leaves a scheduler whose timer runs if it has to.
LEMMA ScheduleOK ==
  ASSUME NEW s \in SchedulerRecord, QueuesOK(s), BucketsOK(s), SliceOK(s),
         s.gCurrentTask \notin s.queued,
         s.gCurrentTask # NoTask =>
           s.gTaskPriority = PriorityOf(s.gCurrentTask)
  PROVE  LET n == NextTask(s)
             r == Schedule(s)
             ready == s.queued \cup ({s.gCurrentTask} \cap Task) IN
         /\ n = IdleTask => ready = {}
         /\ n # IdleTask => n \in ready
         /\ r \in SchedulerRecord
         /\ QueuesOK(r)
         /\ BucketsOK(r)
         /\ r.fCurrentTask = NoTask
         /\ r.queued = ready \ {n}
         /\ r.gTaskPriority = PriorityOf(n)
         /\ ~r.gDoSchedule
         /\ r.gScheduleRequested = s.gScheduleRequested
         /\ r.gHoldScheduleLevel = s.gHoldScheduleLevel
         /\ \A u \in r.queued : fPriority[u] <= PriorityOf(n)
         /\ \/ r.gWantSchedulerToRun
            \/ r.gSchedulerRunning
            \/ \A u \in r.queued : fPriority[u] < PriorityOf(n)
<1> DEFINE n == NextTask(s)
           r == Schedule(s)
           ready == s.queued \cup ({s.gCurrentTask} \cap Task)
           a == Requeue(s)
           t == HighestPriorityTask(a)
           m == RemoveHighestPriority(a)
           u == IF n = IdleTask THEN StopScheduler(m) ELSE m
<1>1. /\ a \in SchedulerRecord
      /\ QueuesOK(a)
      /\ BucketsOK(a)
      /\ a.queued = ready
      /\ ~a.gDoSchedule
      /\ a.gScheduleRequested = s.gScheduleRequested
      /\ a.gHoldScheduleLevel = s.gHoldScheduleLevel
      /\ a.queued # {} => a.gWantSchedulerToRun \/ a.gSchedulerRunning
  BY RequeueOK
<1> HIDE DEF a
<1>2. /\ t = NoTask => a.queued = {}
      /\ t # NoTask => t \in a.queued /\ fPriority[t] = a.fHighestPriority
      /\ \A v \in a.queued : fPriority[v] <= a.fHighestPriority
  BY <1>1, HighestPriorityTaskOK
<1>3. /\ m \in SchedulerRecord
      /\ QueuesOK(m)
      /\ BucketsOK(m)
      /\ m.fCurrentTask = NoTask
      /\ m.queued = a.queued \ {t}
      /\ m.gDoSchedule = a.gDoSchedule
      /\ m.gScheduleRequested = a.gScheduleRequested
      /\ m.gHoldScheduleLevel = a.gHoldScheduleLevel
      /\ t # NoTask /\ (a.gWantSchedulerToRun \/ a.gSchedulerRunning) =>
           \/ m.gWantSchedulerToRun
           \/ m.gSchedulerRunning
           \/ \A v \in m.queued : fPriority[v] < fPriority[t]
  BY <1>1, RemoveHighestPriorityOK
<1>4. n = IF t = NoTask THEN IdleTask ELSE t
  BY DEF NextTask, a
<1>5. r = [u EXCEPT !.gTaskPriority = PriorityOf(n)]
  BY DEF Schedule, a
<1>6. a.queued \subseteq Task
  BY <1>1 DEF SchedulerRecord
<1> HIDE DEF t, m, n, r
<1>7. /\ n = IdleTask => t = NoTask /\ ready = {}
      /\ n # IdleTask => n = t /\ n \in ready /\ n \in Task
      /\ m.queued = ready \ {n}
  BY <1>1, <1>2, <1>3, <1>4, <1>6
<1>8. PriorityOf(n) \in Priority
  BY <1>7 DEF PriorityOf, Priority
<1>9. /\ u \in SchedulerRecord
      /\ u.fTasks = m.fTasks
      /\ u.fPriorityMask = m.fPriorityMask
      /\ u.fHighestPriority = m.fHighestPriority
      /\ u.fCurrentTask = m.fCurrentTask
      /\ u.queued = m.queued
      /\ u.gDoSchedule = m.gDoSchedule
      /\ u.gScheduleRequested = m.gScheduleRequested
      /\ u.gHoldScheduleLevel = m.gHoldScheduleLevel
      /\ n # IdleTask => u = m
  BY <1>3 DEF StopScheduler, SchedulerRecord
<1> HIDE DEF u
<1>10. /\ r \in SchedulerRecord
       /\ r.fTasks = u.fTasks
       /\ r.fPriorityMask = u.fPriorityMask
       /\ r.fHighestPriority = u.fHighestPriority
       /\ r.fCurrentTask = u.fCurrentTask
       /\ r.queued = u.queued
       /\ r.gTaskPriority = PriorityOf(n)
       /\ r.gDoSchedule = u.gDoSchedule
       /\ r.gScheduleRequested = u.gScheduleRequested
       /\ r.gHoldScheduleLevel = u.gHoldScheduleLevel
       /\ r.gWantSchedulerToRun = u.gWantSchedulerToRun
       /\ r.gSchedulerRunning = u.gSchedulerRunning
  BY <1>5, <1>8, <1>9 DEF SchedulerRecord
<1>11. QueuesOK(r) /\ BucketsOK(r)
  BY <1>3, <1>9, <1>10 DEF QueuesOK, BucketsOK
<1>12. \A v \in r.queued : fPriority[v] <= PriorityOf(n)
  BY <1>1, <1>2, <1>7, <1>9, <1>10 DEF PriorityOf
<1>13. \/ r.gWantSchedulerToRun
       \/ r.gSchedulerRunning
       \/ \A v \in r.queued : fPriority[v] < PriorityOf(n)
  <2>1. CASE n = IdleTask
    BY <1>7, <1>9, <1>10, <2>1
  <2>2. CASE n # IdleTask
    <3>1. t # NoTask /\ (a.gWantSchedulerToRun \/ a.gSchedulerRunning)
      BY <1>1, <1>7, <2>2
    <3>2. PriorityOf(n) = fPriority[t]
      BY <1>7, <2>2 DEF PriorityOf
    <3>3. QED
      BY <1>3, <1>9, <1>10, <2>2, <3>1, <3>2
  <2>3. QED
    BY <2>1, <2>2
<1>14. QED
  BY <1>1, <1>3, <1>7, <1>9, <1>10, <1>11, <1>12, <1>13 DEF n, r

-----------------------------------------------------------------------------
(* Queueing, requests and the switch.                                      *)

\* QueuesOK and BucketsOK look at four fields only.
LEMMA QueueFrame ==
  ASSUME NEW s, NEW r, QueuesOK(s), BucketsOK(s),
         r.fTasks = s.fTasks, r.fPriorityMask = s.fPriorityMask,
         r.fHighestPriority = s.fHighestPriority, r.queued = s.queued
  PROVE  QueuesOK(r) /\ BucketsOK(r)
BY DEF QueuesOK, BucketsOK

\* SetCurrentTask changes the hint and nothing else.
LEMMA SetCurrentTaskFields ==
  ASSUME NEW s \in SchedulerRecord, NEW t \in Task \cup {NoTask}
  PROVE  LET h == SetCurrentTask(s, t) IN
         /\ h \in SchedulerRecord
         /\ h.fTasks = s.fTasks
         /\ h.fPriorityMask = s.fPriorityMask
         /\ h.fHighestPriority = s.fHighestPriority
         /\ h.fCurrentTask = t
         /\ h.queued = s.queued
         /\ h.gCurrentTask = s.gCurrentTask
         /\ h.gTaskPriority = s.gTaskPriority
         /\ h.gDoSchedule = s.gDoSchedule
         /\ h.gScheduleRequested = s.gScheduleRequested
         /\ h.gHoldScheduleLevel = s.gHoldScheduleLevel
         /\ h.gWantSchedulerToRun = s.gWantSchedulerToRun
         /\ h.gSchedulerRunning = s.gSchedulerRunning
BY DEF SetCurrentTask, SchedulerRecord

\* What queueing a task that becomes runnable leaves, whatever hint is set
\* and whatever reschedule is asked for.
LEMMA ScheduleTaskFields ==
  ASSUME NEW s \in SchedulerRecord, QueuesOK(s), BucketsOK(s), SliceOK(s),
         NEW t \in Task, t \notin s.queued, t # s.gCurrentTask
  PROVE  LET a == ScheduleTask(s, t) IN
         /\ a \in SchedulerRecord
         /\ QueuesOK(a)
         /\ BucketsOK(a)
         /\ SliceOK(a)
         /\ a.fCurrentTask = s.fCurrentTask
         /\ a.queued = s.queued \cup {t}
         /\ a.gCurrentTask = s.gCurrentTask
         /\ a.gTaskPriority = s.gTaskPriority
         /\ a.gHoldScheduleLevel = s.gHoldScheduleLevel
         /\ a.gDoSchedule =
              (s.gDoSchedule \/ (/\ s.gCurrentTask = IdleTask
                                 /\ s.gHoldScheduleLevel = 0))
         /\ a.gScheduleRequested =
              (s.gScheduleRequested \/ (/\ s.gCurrentTask = IdleTask
                                        /\ s.gHoldScheduleLevel # 0))
<1> DEFINE a == ScheduleTask(s, t)
<1>1. a = Add(s, t)
  BY DEF ScheduleTask
<1> HIDE DEF a
<1>2. /\ a \in SchedulerRecord
      /\ a.fCurrentTask = s.fCurrentTask
      /\ a.queued = s.queued \cup {t}
      /\ a.gCurrentTask = s.gCurrentTask
      /\ a.gTaskPriority = s.gTaskPriority
      /\ a.gHoldScheduleLevel = s.gHoldScheduleLevel
      /\ a.gWantSchedulerToRun =
           (s.gWantSchedulerToRun \/ fPriority[t] >= s.gTaskPriority)
      /\ a.gSchedulerRunning = s.gSchedulerRunning
      /\ a.gDoSchedule =
           (s.gDoSchedule \/ (/\ s.gCurrentTask = IdleTask
                              /\ s.gHoldScheduleLevel = 0))
      /\ a.gScheduleRequested =
           (s.gScheduleRequested \/ (/\ s.gCurrentTask = IdleTask
                                     /\ s.gHoldScheduleLevel # 0))
  BY <1>1, AddFields
<1>3. QueuesOK(a) /\ BucketsOK(a)
  BY <1>1, AddOK
<1>4. SliceOK(a)
  <2>1. fPriority[t] \in Int /\ s.gTaskPriority \in Int
    BY DEF Priority, SchedulerRecord
  <2>2. CASE fPriority[t] >= s.gTaskPriority
    BY <1>2, <2>2, Zenon DEF SliceOK
  <2>3. CASE fPriority[t] < s.gTaskPriority
    BY <1>2, <2>1, <2>3 DEF SliceOK
  <2>4. QED
    BY <2>1, <2>2, <2>3
<1>5. QED
  BY <1>2, <1>3, <1>4 DEF a

\* Wanting a reschedule leaves the queues and the timer alone.
LEMMA WantScheduleOK ==
  ASSUME NEW s \in SchedulerRecord
  PROVE  /\ QueuesOK(s) /\ BucketsOK(s)
              => QueuesOK(WantSchedule(s)) /\ BucketsOK(WantSchedule(s))
         /\ SliceOK(s) => SliceOK(WantSchedule(s))
<1> DEFINE w == WantSchedule(s)
<1>1. /\ w.fTasks = s.fTasks
      /\ w.fPriorityMask = s.fPriorityMask
      /\ w.fHighestPriority = s.fHighestPriority
      /\ w.queued = s.queued
      /\ w.gCurrentTask = s.gCurrentTask
      /\ w.gTaskPriority = s.gTaskPriority
      /\ w.gWantSchedulerToRun = s.gWantSchedulerToRun
      /\ w.gSchedulerRunning = s.gSchedulerRunning
  BY WantScheduleFields
<1> HIDE DEF w
<1>2. QED
  BY <1>1, QueueFrame DEF SliceOK, w

\* Starting the preemption timer if it is wanted.
LEMMA StartIfWantedFields ==
  ASSUME NEW s \in SchedulerRecord
  PROVE  LET r == StartIfWanted(s) IN
         /\ r \in SchedulerRecord
         /\ r.fTasks = s.fTasks
         /\ r.fPriorityMask = s.fPriorityMask
         /\ r.fHighestPriority = s.fHighestPriority
         /\ r.fCurrentTask = s.fCurrentTask
         /\ r.queued = s.queued
         /\ r.gCurrentTask = s.gCurrentTask
         /\ r.gTaskPriority = s.gTaskPriority
         /\ r.gDoSchedule = s.gDoSchedule
         /\ r.gScheduleRequested = s.gScheduleRequested
         /\ r.gHoldScheduleLevel = s.gHoldScheduleLevel
         /\ ~r.gWantSchedulerToRun
         /\ r.gSchedulerRunning <=> s.gWantSchedulerToRun \/ s.gSchedulerRunning
BY DEF StartIfWanted, StartScheduler, SchedulerRecord

\* What SwapTask leaves when it switches: a runnable task owns the processor, or
\* the idle task with nothing queued, and no queued task outranks it.
LEMMA SwapOK ==
  ASSUME NEW s \in SchedulerRecord, QueuesOK(s), BucketsOK(s), SliceOK(s),
         s.gCurrentTask \notin s.queued,
         s.gCurrentTask # NoTask =>
           s.gTaskPriority = PriorityOf(s.gCurrentTask)
  PROVE  LET n == NextTask(s)
             r == StartIfWanted([Schedule(s) EXCEPT !.gCurrentTask = n])
             ready == s.queued \cup ({s.gCurrentTask} \cap Task) IN
         /\ r \in SchedulerRecord
         /\ QueuesOK(r) /\ BucketsOK(r) /\ SliceOK(r)
         /\ r.fCurrentTask = NoTask
         /\ r.gCurrentTask = n
         /\ n \in Task \cup {IdleTask}
         /\ n = IdleTask => r.queued = {}
         /\ n # IdleTask => n \in ready
         /\ r.queued = ready \ {n}
         /\ r.gTaskPriority = PriorityOf(n)
         /\ ~r.gDoSchedule
         /\ r.gScheduleRequested = s.gScheduleRequested
         /\ r.gHoldScheduleLevel = s.gHoldScheduleLevel
         /\ ~r.gWantSchedulerToRun
         /\ \A u \in r.queued : fPriority[u] <= PriorityOf(n)
<1> DEFINE n == NextTask(s)
           c == Schedule(s)
           m == [c EXCEPT !.gCurrentTask = n]
           r == StartIfWanted(m)
           ready == s.queued \cup ({s.gCurrentTask} \cap Task)
<1>1. ready \subseteq Task
  BY DEF SchedulerRecord
<1>2. /\ n = IdleTask => ready = {}
      /\ n # IdleTask => n \in ready
      /\ c \in SchedulerRecord
      /\ QueuesOK(c)
      /\ BucketsOK(c)
      /\ c.fCurrentTask = NoTask
      /\ c.queued = ready \ {n}
      /\ c.gTaskPriority = PriorityOf(n)
      /\ ~c.gDoSchedule
      /\ c.gScheduleRequested = s.gScheduleRequested
      /\ c.gHoldScheduleLevel = s.gHoldScheduleLevel
      /\ \A u \in c.queued : fPriority[u] <= PriorityOf(n)
      /\ \/ c.gWantSchedulerToRun
         \/ c.gSchedulerRunning
         \/ \A u \in c.queued : fPriority[u] < PriorityOf(n)
  BY ScheduleOK
<1> HIDE DEF n, c, r, ready
<1>3. n \in Task \cup {IdleTask} /\ n # NoTask
  BY <1>1, <1>2
<1>4. /\ m \in SchedulerRecord
      /\ m.fTasks = c.fTasks
      /\ m.fPriorityMask = c.fPriorityMask
      /\ m.fHighestPriority = c.fHighestPriority
      /\ m.fCurrentTask = c.fCurrentTask
      /\ m.queued = c.queued
      /\ m.gCurrentTask = n
      /\ m.gTaskPriority = c.gTaskPriority
      /\ m.gDoSchedule = c.gDoSchedule
      /\ m.gScheduleRequested = c.gScheduleRequested
      /\ m.gHoldScheduleLevel = c.gHoldScheduleLevel
      /\ m.gWantSchedulerToRun = c.gWantSchedulerToRun
      /\ m.gSchedulerRunning = c.gSchedulerRunning
  BY <1>2, <1>3 DEF SchedulerRecord
<1> HIDE DEF m
<1>5. /\ r \in SchedulerRecord
      /\ r.fTasks = m.fTasks
      /\ r.fPriorityMask = m.fPriorityMask
      /\ r.fHighestPriority = m.fHighestPriority
      /\ r.fCurrentTask = m.fCurrentTask
      /\ r.queued = m.queued
      /\ r.gCurrentTask = m.gCurrentTask
      /\ r.gTaskPriority = m.gTaskPriority
      /\ r.gDoSchedule = m.gDoSchedule
      /\ r.gScheduleRequested = m.gScheduleRequested
      /\ r.gHoldScheduleLevel = m.gHoldScheduleLevel
      /\ ~r.gWantSchedulerToRun
      /\ r.gSchedulerRunning <=> m.gWantSchedulerToRun \/ m.gSchedulerRunning
  BY <1>4, StartIfWantedFields DEF r
<1>6. QueuesOK(r) /\ BucketsOK(r)
  <2>1. /\ r.fTasks = c.fTasks
        /\ r.fPriorityMask = c.fPriorityMask
        /\ r.fHighestPriority = c.fHighestPriority
        /\ r.queued = c.queued
    BY <1>4, <1>5
  <2>2. QED
    BY <1>2, <2>1, QueueFrame
<1>7. SliceOK(r)
  <2>1. /\ r.gCurrentTask # NoTask
        /\ r.queued = c.queued
        /\ r.gTaskPriority = PriorityOf(n)
    BY <1>2, <1>3, <1>4, <1>5
  <2>2. \/ r.gSchedulerRunning
        \/ \A u \in c.queued : fPriority[u] < PriorityOf(n)
    BY <1>2, <1>4, <1>5
  <2>3. QED
    BY <2>1, <2>2 DEF SliceOK
<1>8. QED
  BY <1>2, <1>3, <1>4, <1>5, <1>6, <1>7 DEF n, r, m, c, ready

-----------------------------------------------------------------------------
(* The scheduler between two steps of the kernel objects.                  *)

\* the tasks that may run
Ready(s) == s.queued \cup ({s.gCurrentTask} \cap Task)

\* what every SWI leaves
Settled(s) ==
  /\ s \in SchedulerRecord
  /\ QueuesOK(s) /\ BucketsOK(s) /\ SliceOK(s)
  /\ s.gCurrentTask \notin s.queued
  /\ s.gCurrentTask # NoTask => s.gTaskPriority = PriorityOf(s.gCurrentTask)
  /\ s.gHoldScheduleLevel = 0

\* The exit path keeps the tasks that may run, and somebody owns the processor.
LEMMA SwapTaskSettles ==
  ASSUME NEW s, Settled(s), s.gCurrentTask = NoTask => s.gDoSchedule
  PROVE  /\ Settled(SwapTask(s))
         /\ Ready(SwapTask(s)) = Ready(s)
         /\ SwapTask(s).gCurrentTask # NoTask
<1> DEFINE n == NextTask(s)
           r == StartIfWanted([Schedule(s) EXCEPT !.gCurrentTask = n])
<1>1. CASE s.gDoSchedule
  <2>1. SwapTask(s) = r
    BY <1>1 DEF SwapTask
  <2>2. /\ r \in SchedulerRecord
        /\ QueuesOK(r) /\ BucketsOK(r) /\ SliceOK(r)
        /\ r.gCurrentTask = n
        /\ n \in Task \cup {IdleTask}
        /\ n = IdleTask => r.queued = {}
        /\ n # IdleTask => n \in Ready(s)
        /\ r.queued = Ready(s) \ {n}
        /\ r.gTaskPriority = PriorityOf(n)
        /\ r.gHoldScheduleLevel = s.gHoldScheduleLevel
    BY SwapOK DEF Settled, Ready
  <2> HIDE DEF n, r
  <2>3. Ready(s) \subseteq Task
    BY DEF Settled, Ready, SchedulerRecord
  <2>4. Ready(r) = Ready(s) /\ r.gCurrentTask # NoTask /\ r.gCurrentTask \notin r.queued
    BY <2>2, <2>3 DEF Ready
  <2>5. QED
    BY <2>1, <2>2, <2>4 DEF Settled
<1>2. CASE ~s.gDoSchedule
  <2> DEFINE u == StartIfWanted(s)
  <2>1. SwapTask(s) = u
    BY <1>2 DEF SwapTask
  <2>2. /\ u \in SchedulerRecord
        /\ u.fTasks = s.fTasks
        /\ u.fPriorityMask = s.fPriorityMask
        /\ u.fHighestPriority = s.fHighestPriority
        /\ u.queued = s.queued
        /\ u.gCurrentTask = s.gCurrentTask
        /\ u.gTaskPriority = s.gTaskPriority
        /\ u.gHoldScheduleLevel = s.gHoldScheduleLevel
        /\ u.gSchedulerRunning <=> s.gWantSchedulerToRun \/ s.gSchedulerRunning
    BY StartIfWantedFields DEF Settled
  <2> HIDE DEF u
  <2>3. QueuesOK(u) /\ BucketsOK(u)
    BY <2>2, QueueFrame DEF Settled
  <2>4. SliceOK(u)
    BY <2>2 DEF Settled, SliceOK
  <2>5. QED
    BY <1>2, <2>1, <2>2, <2>3, <2>4 DEF Settled, Ready
<1>3. QED
  BY <1>1, <1>2

\* A task that may not run yet is queued.
LEMMA ScheduleTaskSettles ==
  ASSUME NEW s, Settled(s), NEW t \in Task, t \notin Ready(s)
  PROVE  /\ Settled(ScheduleTask(s, t))
         /\ Ready(ScheduleTask(s, t)) = Ready(s) \cup {t}
         /\ ScheduleTask(s, t).gCurrentTask = s.gCurrentTask
<1> DEFINE a == ScheduleTask(s, t)
<1>1. t \notin s.queued /\ t # s.gCurrentTask
  BY DEF Ready
<1>2. /\ a \in SchedulerRecord
      /\ QueuesOK(a) /\ BucketsOK(a) /\ SliceOK(a)
      /\ a.queued = s.queued \cup {t}
      /\ a.gCurrentTask = s.gCurrentTask
      /\ a.gTaskPriority = s.gTaskPriority
      /\ a.gHoldScheduleLevel = s.gHoldScheduleLevel
  BY <1>1, ScheduleTaskFields DEF Settled
<1> HIDE DEF a
<1>3. QED
  BY <1>1, <1>2 DEF Settled, Ready, a

\* A request to schedule.
LEMMA WantScheduleSettles ==
  ASSUME NEW s, Settled(s)
  PROVE  /\ Settled(WantSchedule(s))
         /\ Ready(WantSchedule(s)) = Ready(s)
         /\ WantSchedule(s).gCurrentTask = s.gCurrentTask
         /\ WantSchedule(s).gDoSchedule
<1> DEFINE w == WantSchedule(s)
<1>1. /\ w \in SchedulerRecord
      /\ w.queued = s.queued
      /\ w.gCurrentTask = s.gCurrentTask
      /\ w.gTaskPriority = s.gTaskPriority
      /\ w.gHoldScheduleLevel = s.gHoldScheduleLevel
      /\ w.gDoSchedule = (s.gDoSchedule \/ s.gHoldScheduleLevel = 0)
  BY WantScheduleFields DEF Settled
<1>2. QueuesOK(w) /\ BucketsOK(w) /\ SliceOK(w)
  BY WantScheduleOK DEF Settled
<1> HIDE DEF w
<1>3. QED
  BY <1>1, <1>2 DEF Settled, Ready, w

\* The current task gives up the processor.
LEMMA UnScheduleSettles ==
  ASSUME NEW s, Settled(s), s.gCurrentTask \in Task
  PROVE  LET r == UnScheduleTask(s, s.gCurrentTask) IN
         /\ Settled(r)
         /\ Ready(r) = Ready(s) \ {s.gCurrentTask}
         /\ r.gDoSchedule
<1> DEFINE r == UnScheduleTask(s, s.gCurrentTask)
<1>1. /\ r \in SchedulerRecord
      /\ r.fTasks = s.fTasks
      /\ r.fPriorityMask = s.fPriorityMask
      /\ r.fHighestPriority = s.fHighestPriority
      /\ r.queued = s.queued
      /\ r.gCurrentTask = NoTask
      /\ r.gHoldScheduleLevel = s.gHoldScheduleLevel
      /\ r.gWantSchedulerToRun = TRUE
      /\ r.gDoSchedule = (s.gDoSchedule \/ s.gHoldScheduleLevel = 0)
  BY UnScheduleCurrentFields DEF Settled
<1> HIDE DEF r
<1>2. QueuesOK(r) /\ BucketsOK(r)
  BY <1>1, QueueFrame DEF Settled
<1>3. SliceOK(r)
  BY <1>1 DEF SliceOK
<1>4. s.queued \subseteq Task
  BY DEF Settled, SchedulerRecord
<1>5. Ready(r) = Ready(s) \ {s.gCurrentTask} /\ r.gCurrentTask \notin r.queued
  BY <1>1, <1>4 DEF Ready, Settled
<1>6. QED
  BY <1>1, <1>2, <1>3, <1>5 DEF Settled, r

\* The hint does not matter.
LEMMA SetCurrentTaskSettles ==
  ASSUME NEW s, Settled(s), NEW t \in Task \cup {NoTask}
  PROVE  LET h == SetCurrentTask(s, t) IN
         /\ Settled(h)
         /\ Ready(h) = Ready(s)
         /\ h.gCurrentTask = s.gCurrentTask
<1> DEFINE h == SetCurrentTask(s, t)
<1>1. /\ h \in SchedulerRecord
      /\ h.fTasks = s.fTasks
      /\ h.fPriorityMask = s.fPriorityMask
      /\ h.fHighestPriority = s.fHighestPriority
      /\ h.queued = s.queued
      /\ h.gCurrentTask = s.gCurrentTask
      /\ h.gTaskPriority = s.gTaskPriority
      /\ h.gHoldScheduleLevel = s.gHoldScheduleLevel
      /\ h.gWantSchedulerToRun = s.gWantSchedulerToRun
      /\ h.gSchedulerRunning = s.gSchedulerRunning
  BY SetCurrentTaskFields DEF Settled
<1> HIDE DEF h
<1>2. QueuesOK(h) /\ BucketsOK(h)
  BY <1>1, QueueFrame DEF Settled
<1>3. SliceOK(h)
  BY <1>1 DEF SliceOK, Settled
<1>4. QED
  BY <1>1, <1>2, <1>3 DEF Settled, Ready, h

=============================================================================
