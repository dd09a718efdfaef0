---------------------------- MODULE TimerEngine ----------------------------
(***************************************************************************)
(* CTimerEngine (src/OS/Timers.cc): messages wait in a queue, earliest     *)
(* first, for the one alarm of the hardware; those whose time has come go  *)
(* to gTimerDeferred until DoDeferrals deals with them.  The queues are    *)
(* DoubleQ's, which share the item fTimerQItem of each message.            *)
(*                                                                         *)
(* A SWI computes the time of a message and then queues it, with interrupts *)
(* disabled.  The loop of alarm() runs in an atomic section, by a SWI or by *)
(* the interrupt; the clock does not wait for it.                          *)
(***************************************************************************)
EXTENDS Naturals, Sequences, FiniteSets, FiniteSetsExt

CONSTANTS
  Msg,
  MaxTime,   \* bound of the clock and of the times asked for
  OnHost,    \* interrupts are those of MPController.mm, not of hardware that keeps them
  None

ASSUME TimeAssumption == MaxTime \in Nat \ {0} /\ OnHost \in BOOLEAN

(* There is room for so many messages, and none is taken for a mark. *)
ASSUME MessageAssumption ==
  /\ IsFiniteSet(Msg)
  /\ None \notin Msg \cup Nat \cup {"gTimerEngine", "gTimerDeferred"}
  /\ Msg \cap {"none", "leaves"} = {}

VARIABLES
  clock,        \* GetClock
  d,            \* the two queues
  fExpiryTime,
  hw,           \* the alarm (alarmAt, or None) and its pending interrupt
  alarming,     \* in the loop of alarm()
  swi           \* the message a SWI is about to queue, "leaves" when it has, or "none"

vars == <<clock, d, fExpiryTime, hw, alarming, swi>>

Q == INSTANCE DoubleQ WITH Item <- Msg, Container <- {"gTimerEngine", "gTimerDeferred"}, NULL <- None

Waiting == Q!Items(d, "gTimerEngine")
First(q) == Q!peek(q, "gTimerEngine")
-----------------------------------------------------------------------------
(* SetAlarm refuses a time that is not more than one microsecond away, the   *)
(* unit of the clock.                                                        *)
InFuture(time) == time > clock + 1

SetAlarm(time) == hw' = [hw EXCEPT !.alarmAt = time]

(* DisableAlarm1 also acknowledges the interrupt; the host has nothing there. *)
ClearAlarm == hw' = IF OnHost THEN hw ELSE [alarmAt |-> None, raised |-> FALSE]

(* alarm(), called on the queues q: the loop unless there is nothing to do. *)
Alarm(q) ==
  /\ d' = q
  /\ alarming' = (First(q) # None)
  /\ IF First(q) = None THEN ClearAlarm ELSE UNCHANGED hw

(* The callback of a message is QueueNotify. *)
Fired(q, m) == Q!Add(Q!Remove(q, "gTimerEngine"), "gTimerDeferred", m)

\* mutant: only one message is fired, the alarm is not set for one in the past
AlarmLoopOnce ==
  /\ alarming /\ alarming' = FALSE
  /\ LET m == First(d) IN d' = IF fExpiryTime[m] <= clock THEN Fired(d, m) ELSE d
  /\ LET next == First(d')
     IN  IF next # None /\ InFuture(fExpiryTime[next]) THEN SetAlarm(fExpiryTime[next])
         ELSE UNCHANGED hw
  /\ UNCHANGED <<clock, fExpiryTime, swi>>

AlarmLoop ==
  /\ alarming
  /\ LET m == First(d) IN d' = IF fExpiryTime[m] <= clock THEN Fired(d, m) ELSE d
  /\ LET next == First(d')
         isSet == next # None /\ InFuture(fExpiryTime[next])
     IN  /\ IF isSet THEN SetAlarm(fExpiryTime[next]) ELSE UNCHANGED hw
         /\ alarming' = (next # None /\ ~isSet)
  /\ UNCHANGED <<clock, fExpiryTime, swi>>
-----------------------------------------------------------------------------
(* queueTimeout and queueDelay.  Ports start no timer for a message that has *)
(* one; a delay may name a time that has passed.                             *)
Start(m, time) ==
  /\ swi = "none" /\ ~alarming /\ d.fContainer[m] = None
  /\ swi' = m
  /\ fExpiryTime' = [fExpiryTime EXCEPT ![m] = time]
  /\ UNCHANGED <<clock, d, hw, alarming>>

\* mutant: a message goes before the last one that expires later
QueueLast(m) ==
  LET later == {i \in DOMAIN Waiting : fExpiryTime[m] < fExpiryTime[Waiting[i]]}
      isFirst == Waiting = <<>> \/ 1 \in later
  IN  IF isFirst /\ ~InFuture(fExpiryTime[m]) THEN Alarm(d)
      ELSE /\ d' = IF later = {} THEN Q!Add(d, "gTimerEngine", m)
                   ELSE Q!AddBefore(d, "gTimerEngine", Waiting[Max(later)], m)
           /\ IF isFirst THEN SetAlarm(fExpiryTime[m]) ELSE UNCHANGED hw
           /\ UNCHANGED alarming

\* mutant: the alarm is set if the queue was empty, only
QueueSetsNoAlarm(m) ==
  LET later == {i \in DOMAIN Waiting : fExpiryTime[m] < fExpiryTime[Waiting[i]]}
      isFirst == Waiting = <<>> \/ 1 \in later
  IN  IF isFirst /\ ~InFuture(fExpiryTime[m]) THEN Alarm(d)
      ELSE /\ d' = IF later = {} THEN Q!Add(d, "gTimerEngine", m)
                   ELSE Q!AddBefore(d, "gTimerEngine", Waiting[Min(later)], m)
           /\ IF Waiting = <<>> THEN SetAlarm(fExpiryTime[m]) ELSE UNCHANGED hw
           /\ UNCHANGED alarming

(* queue: a message that is first needs the alarm, and is not queued if that *)
(* cannot be set; alarm() then fires what has expired with it.               *)
Queue(m) ==
  LET later == {i \in DOMAIN Waiting : fExpiryTime[m] < fExpiryTime[Waiting[i]]}
      isFirst == Waiting = <<>> \/ 1 \in later
  IN  IF isFirst /\ ~InFuture(fExpiryTime[m]) THEN Alarm(d)
      ELSE /\ d' = IF later = {} THEN Q!Add(d, "gTimerEngine", m)
                   ELSE Q!AddBefore(d, "gTimerEngine", Waiting[Min(later)], m)
           /\ IF isFirst THEN SetAlarm(fExpiryTime[m]) ELSE UNCHANGED hw
           /\ UNCHANGED alarming

FinishStart ==
  /\ swi \in Msg /\ Queue(swi)
  /\ swi' = "leaves"
  /\ UNCHANGED <<clock, fExpiryTime>>

(* remove: a message that has expired already, the next one, or any other. *)
Remove(m) ==
  /\ swi = "none" /\ ~alarming
  /\ CASE d.fContainer[m] = "gTimerDeferred" ->
            d' = Q!RemoveFromQueue(d, "gTimerDeferred", m) /\ UNCHANGED <<hw, alarming>>
       [] d.fContainer[m] # "gTimerDeferred" /\ First(d) = m ->
            Alarm(Q!Remove(d, "gTimerEngine"))
       [] OTHER ->
            d' = Q!RemoveFromQueue(d, "gTimerEngine", m) /\ UNCHANGED <<hw, alarming>>
  /\ swi' = "leaves"
  /\ UNCHANGED <<clock, fExpiryTime>>

(* DeferredNotify. *)
Notify ==
  /\ swi = "none" /\ ~alarming /\ Q!peek(d, "gTimerDeferred") # None
  /\ d' = Q!Remove(d, "gTimerDeferred")
  /\ UNCHANGED <<clock, fExpiryTime, hw, alarming, swi>>
-----------------------------------------------------------------------------
(* Hardware keeps its interrupt until it is served.  On the host             *)
(* ServicePendingInterrupts queues a block that reads gPendingInterrupt and  *)
(* clears it at once: the block dispatches it, or finds nothing.             *)
EndSWI ==
  /\ swi = "leaves" /\ ~alarming
  /\ swi' = "none"
  /\ hw' = IF OnHost THEN [hw EXCEPT !.raised = FALSE] ELSE hw
  /\ alarming' \in IF OnHost /\ hw.raised /\ First(d) # None THEN BOOLEAN ELSE {FALSE}
  /\ UNCHANGED <<clock, d, fExpiryTime>>

(* The one-shot alarm.  On the host its handler calls the interrupt routine  *)
(* if interrupts are enabled, and else leaves a bit.                         *)
AlarmGoesOff ==
  /\ hw.alarmAt # None /\ hw.alarmAt <= clock
  /\ IF OnHost /\ swi = "none"
     THEN /\ ~alarming
          /\ hw' = [hw EXCEPT !.alarmAt = None] /\ alarming' = (First(d) # None)
     ELSE hw' = [alarmAt |-> None, raised |-> TRUE] /\ UNCHANGED alarming
  /\ UNCHANGED <<clock, d, fExpiryTime, swi>>

TimerInterruptHandler ==
  /\ ~OnHost /\ hw.raised /\ swi = "none" /\ ~alarming
  /\ alarming' = (First(d) # None)
  /\ hw' = [alarmAt |-> IF First(d) = None THEN None ELSE hw.alarmAt, raised |-> FALSE]
  /\ UNCHANGED <<clock, d, fExpiryTime, swi>>

Tick == clock < MaxTime /\ clock' = clock + 1 /\ UNCHANGED <<d, fExpiryTime, hw, alarming, swi>>

Init ==
  /\ clock = 0 /\ d = Q!Empty /\ fExpiryTime = [m \in Msg |-> 0]
  /\ hw = [alarmAt |-> None, raised |-> FALSE]
  /\ alarming = FALSE /\ swi = "none"

Next ==
  \/ \E m \in Msg : Remove(m) \/ \E time \in 1 .. MaxTime : Start(m, time)
  \/ FinishStart \/ EndSWI \/ AlarmLoop \/ Notify
  \/ AlarmGoesOff \/ TimerInterruptHandler \/ Tick

(* SWIs and the loop of alarm() end, the clock and the alarm go on, and an   *)
(* interrupt that is pending is taken when interrupts are enabled, however   *)
(* briefly.                                                                  *)
Fairness ==
  /\ WF_vars(FinishStart) /\ WF_vars(EndSWI) /\ WF_vars(AlarmLoop) /\ WF_vars(Tick)
  /\ WF_vars(AlarmGoesOff) /\ SF_vars(TimerInterruptHandler)

Spec == Init /\ [][Next]_vars /\ Fairness
-----------------------------------------------------------------------------
(* Properties. *)

(* Messages move between the two queues by way of their own links and are    *)
(* taken out of the middle and from either end; each queue threads its own,  *)
(* although removeFromQueue leaves the fPrev of a new head pointing at the   *)
(* item it has taken out.                                                    *)
Threaded == \A c \in {"gTimerEngine", "gTimerDeferred"} : Q!Threads(d, c)

(* There is one alarm for all: while a message waits, the alarm will go off  *)
(* no later than the message's time, or its interrupt is on the way or being *)
(* served.                                                                   *)
AlarmArmed ==
  \A m \in Msg : d.fContainer[m] = "gTimerEngine" =>
    hw.raised \/ alarming \/ (hw.alarmAt # None /\ hw.alarmAt <= fExpiryTime[m])

(* The engine is an alarm clock: no message is fired before its time, before *)
(* an earlier one, or twice (alarm, queue and remove together).              *)
Clock == INSTANCE AlarmClock WITH
  now <- clock,
  due <- [m \in Msg |-> IF d.fContainer[m] = "gTimerEngine" THEN fExpiryTime[m] ELSE None],
  ended <- Q!Items(d, "gTimerDeferred")
IsAlarmClock == Clock!Spec

(* Whoever waits for a time does not wait for ever: "queue it; run it when   *)
(* IRQ re-enabled" (src/Platform/MPController.mm:53).                        *)
TimersEnd ==
  \A m \in Msg : (d.fContainer[m] = "gTimerEngine") ~> (d.fContainer[m] # "gTimerEngine")
=============================================================================
