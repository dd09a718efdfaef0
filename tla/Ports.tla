------------------------------- MODULE Ports -------------------------------
(***************************************************************************)
(* The messages of the kernel: ports (OS/KernelPorts.cc), shared memory    *)
(* messages (OS/SharedMem.cc) and the timers that delay a message or time  *)
(* it out (CTimerEngine of OS/Timers.cc).                                  *)
(*                                                                         *)
(* The same object, a CSharedMemMsg, is what a sender sends and what a     *)
(* receiver receives into.  A port has a queue of each; when two match,    *)
(* the receiver's message is completed with the sender's id, type and a    *)
(* signature, and the sender's message joins the receiver's queue f8C until*)
(* somebody who has the signature calls MsgDone.  Completing a message     *)
(* resumes the task that waits for it, or sends the message to its         *)
(* collector port, or only stores the status.                              *)
(*                                                                         *)
(* Time is abstract: an alarm fires at any moment after it is set.  The    *)
(* scheduler appears as the set of tasks it has been told to stop.         *)
(***************************************************************************)
EXTENDS FiniteSets, Integers, SequencesExt

CONSTANTS
  Task, Port, Message,
  Type,          \* the types that user code gives to messages
  Filters,       \* the filters it receives with
  Owner,         \* the task that uses each message
  BuiltIn,       \* kBuiltInSMemMsgId: the message of a task's own calls
  PortToNotify,  \* the collector port of a message, or None
  Reads,         \* the ports a message receives from
  Writes,        \* the ports it is sent to
  Interrupting,  \* the messages that SendForInterrupt sends
  SendTimeouts,  \* the timeouts user code asks for when it sends
  ReadTimeouts,  \* and when it receives
  Calls,         \* the other calls it makes
  MaxSends,      \* bound: how often each message is sent
  None

CollectedSender == "CollectedSender"
CollectedReceiver == "CollectedReceiver"
Collector == {CollectedSender, CollectedReceiver}
NoType == "NoType"
MatchAll == Type \cup Collector

kNoTimeout == "kNoTimeout"
kTimeOutImmediate == "kTimeOutImmediate"
Finite == "Finite"

noErr == "noErr"
kInProgress == "kInProgress"
Status == {noErr, kInProgress, "kOSErrCallAborted", "kOSErrMessageTimedOut",
           "kOSErrNoMessageWaiting", "kOSErrNestedCollection",
           "kOSErrBadObjectId", "kOSErrPortNoLongerExists",
           "kOSErrSharedMemMsgNoLongerExists",
           "kOSErrReceiverObjectNoLongerExists"}

\* a message links itself into one of these queues at a time, with f80
fSenders(p) == <<"fSenders", p>>
fReceivers(p) == <<"fReceivers", p>>
f8C(m) == <<"f8C", m>>
gDeferredSends == <<"gDeferredSends", None>>
Queue == {fSenders(p) : p \in Port} \cup {fReceivers(p) : p \in Port}
           \cup {f8C(m) : m \in Message} \cup {gDeferredSends}

ASSUME PortsAssumption ==
  /\ None \notin Task \cup Port \cup Message \cup Queue
  /\ Task \cap Port = {}
  /\ Type \cap (Collector \cup {NoType}) = {}
  /\ Owner \in [Message -> Task]
  /\ BuiltIn \in [Task -> Message]
  /\ \A t \in Task : Owner[BuiltIn[t]] = t
  /\ PortToNotify \in [Message -> Port \cup {None}]
  /\ \A t \in Task : PortToNotify[BuiltIn[t]] = None
  /\ Filters \subseteq SUBSET MatchAll
  /\ Reads \in [Message -> SUBSET Port]
  /\ Writes \in [Message -> SUBSET Port]
  /\ Interrupting \subseteq Message
  /\ SendTimeouts \cup ReadTimeouts \subseteq {kNoTimeout, kTimeOutImmediate, Finite}
  /\ MaxSends \in Nat

VARIABLES
  k,          \* the record of the kernel's state
  deferring   \* where DoDeferrals is: "no", "sends" or "notifies"

vars == <<k, deferring>>

Token == [msg : Message, sig : Nat, rcvr : Message, nth : Nat]

KernelRecord ==
  [ fStatus : [Message -> Status],
    fType : [Message -> Type \cup Collector \cup {NoType}],
    fFilter : [Message -> SUBSET MatchAll],
    fNotify : [Message -> Task \cup Port \cup {None}],
    fSignature : [Message -> Nat],
    fSequenceNo : [Message -> Nat],
    fTimeout : [Message -> {kNoTimeout, kTimeOutImmediate, Finite}],
    fUrgent : [Message -> BOOLEAN],        \* kPortFlags_Urgent, kept in fFilter
    fSendingPort : [Message -> Port \cup {None}],
    f0020 : [Message -> BOOLEAN],          \* flag: an interrupt wants a delay
    f0080 : [Message -> BOOLEAN],          \* flag: a sender has a timeout
    fTimer : [Message -> {"no", "Timeout", "Delay"}],
    fContainer : [Message -> Queue \cup {None}],
    queue : [Queue -> Seq(Message)],
    gTimerDeferred : Seq(Message),         \* its alarm has fired
    gWantDeferred : BOOLEAN,
    ports : SUBSET Port,                   \* the ports that exist
    msgs : SUBSET Message,                 \* the messages that exist
    blocked : SUBSET Task,                 \* told to stop by UnScheduleTask
    result : [Task -> Status],             \* kResultReg of a resumed task
    tokens : SUBSET Token,                 \* history: what receivers hold
    sends : [Message -> Nat] ]             \* history: how often it was sent

TypeOK == k \in KernelRecord /\ deferring \in {"no", "sends", "notifies"}

Init ==
  /\ k = [ fStatus |-> [m \in Message |-> noErr],
           fType |-> [m \in Message |-> NoType],
           fFilter |-> [m \in Message |-> {}],
           fNotify |-> [m \in Message |-> None],
           fSignature |-> [m \in Message |-> 0],
           fSequenceNo |-> [m \in Message |-> 1],
           fTimeout |-> [m \in Message |-> kNoTimeout],
           fUrgent |-> [m \in Message |-> FALSE],
           fSendingPort |-> [m \in Message |-> None],
           f0020 |-> [m \in Message |-> FALSE],
           f0080 |-> [m \in Message |-> FALSE],
           fTimer |-> [m \in Message |-> "no"],
           fContainer |-> [m \in Message |-> None],
           queue |-> [c \in Queue |-> <<>>],
           gTimerDeferred |-> <<>>,
           gWantDeferred |-> FALSE,
           ports |-> Port,
           msgs |-> Message,
           blocked |-> {},
           result |-> [t \in Task |-> noErr],
           tokens |-> {},
           sends |-> [m \in Message |-> 0] ]
  /\ deferring = "no"

-----------------------------------------------------------------------------
(* CDoubleQContainer and CTimerEngine.  Each operator below returns the    *)
(* record that a procedure leaves.                                         *)

\* a queue without m
Without[q \in Seq(Message)] ==
  [m \in Message |-> IF m \notin ToSet(q) THEN q
                    ELSE RemoveAt(q, CHOOSE i \in DOMAIN q : q[i] = m)]

Add(s, c, m) ==
  [s EXCEPT !.queue[c] = Append(@, m), !.fContainer[m] = c]

AddToFront(s, c, m) ==
  [s EXCEPT !.queue[c] = <<m>> \o @, !.fContainer[m] = c]

RemoveFromQueue(s, c, m) ==
  IF s.fContainer[m] # c THEN s
  ELSE [s EXCEPT !.queue[c] = Without[@][m], !.fContainer[m] = None]

\* CTimerEngine::remove
RemoveTimer(s, m) ==
  [s EXCEPT !.fTimer[m] = "no", !.gTimerDeferred = Without[@][m]]

Busy(s, m) == s.fStatus[m] = kInProgress \/ s.fType[m] \in Collector

\* the first message of a queue that is in S, or None
FirstIn[q \in Seq(Message)] ==
  [S \in SUBSET Message |->
     IF ToSet(q) \cap S = {} THEN None
     ELSE q[CHOOSE i \in DOMAIN q : q[i] \in S /\ \A j \in 1 .. i - 1 : q[j] \notin S]]

\* the receiver of port p that gets m, and the sender that the filter finds
Wanting(s, p, m) ==
  FirstIn[s.queue[fReceivers(p)]][{r \in Message : s.fType[m] \in s.fFilter[r]}]
Matching(s, p, filter) ==
  FirstIn[s.queue[fSenders(p)]][{m \in Message : s.fType[m] \in filter}]

-----------------------------------------------------------------------------
(* CSharedMemMsg::completeMsg.  A message that is collected completes the  *)
(* message that collects it with inCollector set, which ends the recursion.*)

\* mutant: the signature survives
QuietKeepsSignature(s, m) ==
  LET u == RemoveTimer(s, m)
      v == IF s.fContainer[m] = None THEN u
           ELSE RemoveFromQueue(u, s.fContainer[m], m)
  IN  [v EXCEPT !.fType[m] = NoType]

\* mutant: the message stays in its queue
QuietStaysQueued(s, m) ==
  [RemoveTimer(s, m) EXCEPT !.fType[m] = NoType, !.fSignature[m] = 0]

\* mutant: the timer is left running
QuietLeavesTimer(s, m) ==
  LET v == IF s.fContainer[m] = None THEN s
           ELSE RemoveFromQueue(s, s.fContainer[m], m)
  IN  [v EXCEPT !.fType[m] = NoType, !.fSignature[m] = 0]

\* no type, no timer, no queue, no signature
Quiet(s, m) ==
  LET u == RemoveTimer(s, m)
      v == IF s.fContainer[m] = None THEN u
           ELSE RemoveFromQueue(u, s.fContainer[m], m)
  IN  [v EXCEPT !.fType[m] = NoType, !.fSignature[m] = 0]

\* a sync call: its task goes on with err as its result
WakeTask(s, m, err) ==
  [s EXCEPT !.result[s.fNotify[m]] = err,
            !.blocked = @ \ {s.fNotify[m]},
            !.fStatus[m] = noErr]

CompleteNested(s, m, err) ==
  LET u == Quiet(s, m)
  IN  IF s.fNotify[m] = None THEN [u EXCEPT !.fStatus[m] = err]
      ELSE IF s.fNotify[m] \in Task THEN WakeTask(u, m, err)
      ELSE [u EXCEPT !.fStatus[m] = IF s.fNotify[m] \in s.ports
                                    THEN "kOSErrNestedCollection"
                                    ELSE "kOSErrBadObjectId"]

\* completeReceiver of a message r that collects m
Collect(s, r, m) ==
  CompleteNested([s EXCEPT !.fType[m] = NoType,
                           !.tokens = @ \cup {[msg |-> m, sig |-> 0, rcvr |-> r,
                                               nth |-> s.sends[m]]}], r, noErr)

\* port->send(this, 0)
SendToCollector(s, p, m) ==
  IF Wanting(s, p, m) = None THEN Add(s, fSenders(p), m)
  ELSE LET r == Wanting(s, p, m)
       IN  Collect(RemoveFromQueue(s, fReceivers(p), r), r, m)

CompleteMsg(s, m, type, err) ==
  LET u == Quiet(s, m)
  IN  IF s.fNotify[m] = None THEN [u EXCEPT !.fStatus[m] = err]
      ELSE IF s.fNotify[m] \in Task THEN WakeTask(u, m, err)
      ELSE IF s.fNotify[m] \notin s.ports
           THEN [u EXCEPT !.fStatus[m] = "kOSErrBadObjectId"]
      ELSE SendToCollector([u EXCEPT !.fStatus[m] = err, !.fType[m] = type],
                           s.fNotify[m], m)

CompleteSender(s, m, err) == CompleteMsg(s, m, CollectedSender, err)

\* completeReceiver(NULL, err)
FailReceiver(s, r, err) == CompleteMsg(s, r, CollectedReceiver, err)

\* r.completeReceiver(m)
CompleteReceiver(s, r, m) ==
  IF s.fType[m] \in Collector THEN Collect(s, r, m)
  ELSE LET u == Add(s, f8C(r), m)
           v == [u EXCEPT !.fSignature[m] = s.fSequenceNo[m],
                          !.fSequenceNo[m] = @ + 1,
                          !.tokens = @ \cup {[msg |-> m, sig |-> s.fSequenceNo[m],
                                              rcvr |-> r, nth |-> s.sends[m]]}]
       IN  CompleteMsg(v, r, CollectedReceiver, noErr)

-----------------------------------------------------------------------------
(* The calls of a task fill in the message that they send, or receive      *)
(* into.                                                                   *)

ToSend(s, m, p, type, notify, timeout, urgent) ==
  [s EXCEPT !.fStatus[m] = kInProgress, !.fType[m] = type, !.fSendingPort[m] = p,
            !.f0020[m] = FALSE, !.f0080[m] = FALSE, !.fNotify[m] = notify,
            !.fTimeout[m] = timeout, !.fUrgent[m] = urgent, !.sends[m] = @ + 1]

ToReceive(s, r, filter, notify, timeout, urgent) ==
  [s EXCEPT !.fStatus[r] = kInProgress, !.fType[r] = NoType, !.fFilter[r] = filter,
            !.f0020[r] = FALSE, !.f0080[r] = FALSE, !.fNotify[r] = notify,
            !.fTimeout[r] = timeout, !.fUrgent[r] = urgent]

-----------------------------------------------------------------------------
(* CPort::send and CPort::receive.  late holds the kinds of alarm that can *)
(* not be set any more, because their time has passed.                     *)

TimesOutAtOnce(s, m, late) ==
  \/ s.fTimeout[m] = kTimeOutImmediate
  \/ s.fTimeout[m] = Finite /\ "Timeout" \in late

\* queueTimeout
StartTimeout(s, m) ==
  IF s.fTimeout[m] = Finite THEN [s EXCEPT !.fTimer[m] = "Timeout"] ELSE s

\* a sync call: the task is stopped, and perhaps resumed in the same call
Block(s, m) ==
  IF s.fNotify[m] \in Task THEN [s EXCEPT !.blocked = @ \cup {s.fNotify[m]}]
  ELSE s

\* mutant: the task is stopped before the timer is known to be set
SendBlocksFirst(s, p, m, sync, late) ==
  LET b == IF sync THEN Block(s, m) ELSE s
      v == StartTimeout(b, m)
      u == IF s.fTimeout[m] = Finite THEN [v EXCEPT !.f0080[m] = TRUE] ELSE v
  IN  IF TimesOutAtOnce(s, m, late)
      THEN [b EXCEPT !.fStatus[m] = "kOSErrMessageTimedOut"]
      ELSE IF Wanting(s, p, m) = None
           THEN IF s.fUrgent[m] THEN AddToFront(u, fSenders(p), m)
                ELSE Add(u, fSenders(p), m)
           ELSE LET r == Wanting(s, p, m)
                IN  CompleteReceiver(RemoveFromQueue(u, fReceivers(p), r), r, m)

\* mutant: a sender does not look for a receiver that waits already
SendQueues(s, p, m, sync, late) ==
  LET b == StartTimeout(IF sync THEN Block(s, m) ELSE s, m)
  IN  IF TimesOutAtOnce(s, m, late)
      THEN [s EXCEPT !.fStatus[m] = "kOSErrMessageTimedOut"]
      ELSE Add([b EXCEPT !.f0080[m] = s.fTimeout[m] = Finite], fSenders(p), m)

Send(s, p, m, sync, late) ==
  LET b == IF sync THEN Block(s, m) ELSE s
      v == StartTimeout(b, m)
      u == IF s.fTimeout[m] = Finite THEN [v EXCEPT !.f0080[m] = TRUE] ELSE v
  IN  IF TimesOutAtOnce(s, m, late)
      THEN [s EXCEPT !.fStatus[m] = "kOSErrMessageTimedOut"]
      ELSE IF Wanting(s, p, m) = None
           THEN IF s.fUrgent[m] THEN AddToFront(u, fSenders(p), m)
                ELSE Add(u, fSenders(p), m)
           ELSE LET r == Wanting(s, p, m)
                IN  CompleteReceiver(RemoveFromQueue(u, fReceivers(p), r), r, m)

\* take: the flag kPortFlags_ReceiveOnMsgAvail; peek: kPortFlags_IsMsgAvail
Receive(s, p, r, how, late) ==
  LET found == Matching(s, p, s.fFilter[r])
      u == StartTimeout(s, r)
  IN  IF TimesOutAtOnce(s, r, late)
      THEN [s EXCEPT !.fStatus[r] = "kOSErrMessageTimedOut"]
      ELSE IF found # None
           THEN CompleteReceiver(RemoveFromQueue(
                  IF how = "peek" THEN [s EXCEPT !.fStatus[r] = noErr] ELSE u,
                  fSenders(p), found), r, found)
      ELSE IF how \in {"take", "peek"}
           THEN [s EXCEPT !.fStatus[r] = "kOSErrNoMessageWaiting"]
      ELSE IF s.fUrgent[r] THEN AddToFront(Block(u, r), fReceivers(p), r)
           ELSE Add(Block(u, r), fReceivers(p), r)

-----------------------------------------------------------------------------
(* DoDeferrals, which every SWI calls on its way out when gWantDeferred is *)
(* set, with interrupts enabled: it clears the flag, then empties          *)
(* gDeferredSends, then gTimerDeferred.                                    *)

\* the end of a SWI that leaves the record s
SwiExit(s) ==
  /\ k' = [s EXCEPT !.gWantDeferred = FALSE]
  /\ deferring' = IF s.gWantDeferred THEN "sends" ELSE "no"

NotifySend(s, m, late) ==
  IF s.fSendingPort[m] \notin s.ports THEN CompleteSender(s, m, "kOSErrBadObjectId")
  ELSE LET u == Send(s, s.fSendingPort[m], m, FALSE, late)
       IN  IF TimesOutAtOnce(s, m, late)
           THEN CompleteSender(u, m, "kOSErrMessageTimedOut") ELSE u

\* a sender's message is completed with completeSender's default, noErr
NotifyTimeout(s, m) ==
  IF s.f0080[m] THEN CompleteSender(s, m, noErr)
  ELSE FailReceiver(s, m, "kOSErrMessageTimedOut")

\* a SWI of any other kind, such as those of the idle task
OtherSWI ==
  /\ deferring = "no"
  /\ k.gWantDeferred
  /\ SwiExit(k)

PortDeferredSendNotify(late) ==
  /\ deferring = "sends"
  /\ IF k.queue[gDeferredSends] = <<>>
     THEN deferring' = "notifies" /\ UNCHANGED k
     ELSE /\ UNCHANGED deferring
          /\ \E m \in {Head(k.queue[gDeferredSends])} :
               LET s == RemoveFromQueue(k, gDeferredSends, m)
               IN  k' = IF s.f0020[m] /\ "Delay" \notin late
                        THEN [s EXCEPT !.fTimer[m] = "Delay"]
                        ELSE NotifySend(s, m, late)

\* mutant: the request flag is cleared when the work is done
DeferredNotifyClears(late) ==
  /\ deferring = "notifies"
  /\ IF k.gTimerDeferred = <<>>
     THEN deferring' = "no" /\ k' = [k EXCEPT !.gWantDeferred = FALSE]
     ELSE /\ UNCHANGED deferring
          /\ \E m \in {Head(k.gTimerDeferred)} :
               LET s == RemoveTimer(k, m)
               IN  k' = IF k.fTimer[m] = "Timeout" THEN NotifyTimeout(s, m)
                        ELSE NotifySend(s, m, late)

DeferredNotify(late) ==
  /\ deferring = "notifies"
  /\ IF k.gTimerDeferred = <<>>
     THEN deferring' = "no" /\ UNCHANGED k
     ELSE /\ UNCHANGED deferring
          /\ \E m \in {Head(k.gTimerDeferred)} :
               LET s == RemoveTimer(k, m)
               IN  k' = IF k.fTimer[m] = "Timeout" THEN NotifyTimeout(s, m)
                        ELSE NotifySend(s, m, late)

-----------------------------------------------------------------------------
(* Interrupts, which come at any moment outside the body of a SWI.         *)

\* mutant: nobody is told that there is something to defer
AlarmFiresQuietly(m) ==
  /\ k.fTimer[m] # "no"
  /\ ~Contains(k.gTimerDeferred, m)
  /\ k' = [k EXCEPT !.gTimerDeferred = Append(@, m)]
  /\ UNCHANGED deferring

\* CTimerEngine::alarm finds that m has expired and calls QueueNotify
AlarmFires(m) ==
  /\ k.fTimer[m] # "no"
  /\ ~Contains(k.gTimerDeferred, m)
  /\ k' = [k EXCEPT !.gTimerDeferred = Append(@, m), !.gWantDeferred = TRUE]
  /\ UNCHANGED deferring

SendForInterrupt(m, p, type, timeout, urgent, delay) ==
  /\ m \in Interrupting \cap k.msgs
  /\ ~Busy(k, m)
  /\ k.sends[m] < MaxSends
  /\ LET s == ToSend(k, m, p, type, PortToNotify[m], timeout, urgent)
     IN  k' = Add([s EXCEPT !.gWantDeferred = TRUE, !.fFilter[m] = {}, !.f0020[m] = delay],
                  gDeferredSends, m)
  /\ UNCHANGED deferring

-----------------------------------------------------------------------------
(* The calls of a task.                                                    *)

(***************************************************************************)
(* A task that runs, and is not between the two calls of CUPort::receive:  *)
(* a message collected without a signature is reported done at once.       *)
(***************************************************************************)
CollectedBy(t) == {x \in k.tokens : x.sig = 0 /\ Owner[x.rcvr] = t}
Runs(t) == deferring = "no" /\ t \notin k.blocked
Free(t) == Runs(t) /\ CollectedBy(t) = {}

\* a message a task may use: its own, or one it shares
IsBuiltIn(m) == m = BuiltIn[Owner[m]]

Notified(m) == IF IsBuiltIn(m) THEN Owner[m] ELSE PortToNotify[m]

PortSendSWI(m, p, type, timeout, urgent, delay, late) ==
  /\ Free(Owner[m])
  /\ m \in k.msgs \ Interrupting
  /\ p \in k.ports
  /\ ~Busy(k, m)
  /\ k.sends[m] < MaxSends
  /\ LET s == ToSend(k, m, p, type, Notified(m), timeout, urgent)
     IN  SwiExit(IF delay /\ "Delay" \notin late
                 THEN Block([s EXCEPT !.fTimer[m] = "Delay", !.fFilter[m] = {}], m)
                 ELSE Send(s, p, m, TRUE, late))

PortReceiveSWI(r, p, filter, timeout, urgent, how, late) ==
  /\ Free(Owner[r])
  /\ r \in k.msgs \ Interrupting
  /\ p \in k.ports
  /\ ~Busy(k, r)
  /\ SwiExit(Receive(ToReceive(k, r, filter, Notified(r), timeout, urgent),
                     p, r, how, late))

\* CUPort::isMsgAvailable: async, with the task's own message; what it received
\* is not returned, so nobody holds a token for it
IsMsgAvailable(t, p, filter) ==
  LET r == BuiltIn[t]
      s == Receive(ToReceive(k, r, filter, None, kNoTimeout, k.fUrgent[r]),
                   p, r, "peek", {})
  IN  /\ "isMsgAvailable" \in Calls
      /\ Free(t)
      /\ p \in k.ports \cap Reads[r]
      /\ ~Busy(k, r)
      /\ SwiExit([s EXCEPT !.tokens = k.tokens])

\* CUAsyncMessage::getResult, when the message waits in its collector port
GetResult(m) ==
  /\ "getResult" \in Calls
  /\ Free(Owner[m])
  /\ m \in k.msgs
  /\ k.fType[m] \in Collector
  /\ SwiExit(CompleteMsg([k EXCEPT !.fNotify[m] = Owner[m]], m, k.fType[m],
                         k.fStatus[m]))

\* CUAsyncMessage::blockTillDone
BlockTillDone(t, m) ==
  /\ "blockTillDone" \in Calls
  /\ Free(t)
  /\ m \in k.msgs
  /\ ~IsBuiltIn(m)
  /\ t = Owner[m]
  /\ k.fStatus[m] = kInProgress
  /\ k.fNotify[m] \notin Task
  /\ SwiExit(Block([k EXCEPT !.fNotify[m] = t], m))

\* CUAsyncMessage::abort
Abort(t, m) ==
  /\ "abort" \in Calls
  /\ Free(t)
  /\ m \in k.msgs
  /\ ~IsBuiltIn(m)
  /\ t = Owner[m]
  /\ k.fStatus[m] = kInProgress
  /\ SwiExit(CompleteNested([k EXCEPT !.fNotify[m] = t], m, "kOSErrCallAborted"))

\* mutant: a signature of an earlier delivery is accepted
MsgDoneAcceptedUnsigned(m, sig) ==
  /\ m \in k.msgs
  /\ k.fStatus[m] = kInProgress
  /\ k.fContainer[m] # None

\* SMemMsgMsgDoneKernelGlue accepts this signature
MsgDoneAccepted(m, sig) ==
  /\ m \in k.msgs
  /\ k.fStatus[m] = kInProgress
  /\ k.fSignature[m] = sig
  /\ k.fContainer[m] # None

\* replyRPC, or the end of CUPort::receive
MsgDone(x) ==
  /\ x \in k.tokens
  /\ Runs(Owner[x.rcvr])
  /\ x.sig = 0 \/ Free(Owner[x.rcvr])
  /\ LET s == [k EXCEPT !.tokens = @ \ {x}]
     IN  SwiExit(IF MsgDoneAccepted(x.msg, x.sig)
                 THEN CompleteSender(RemoveFromQueue(s, s.fContainer[x.msg], x.msg),
                                     x.msg, noErr)
                 ELSE s)

\* CPort::resetFilter: the senders are searched with the fields swapped
ResetFilter(r, p, filter) ==
  /\ "resetFilter" \in Calls
  /\ Free(Owner[r])
  /\ k.fContainer[r] = fReceivers(p)
  /\ LET s == [k EXCEPT !.fFilter[r] = filter]
         found == FirstIn[s.queue[fSenders(p)]][
                        {m \in Message : s.fFilter[m] = MatchAll \/ s.fType[r] \in s.fFilter[m]}]
     IN  SwiExit(IF found = None THEN s
                 ELSE CompleteReceiver(RemoveFromQueue(s, fSenders(p), found), r, found))

\* every message of a queue is removed from it and completed
Flush(s, c, type, err) ==
  FoldLeft(LAMBDA u, m : CompleteMsg(RemoveTimer(RemoveFromQueue(u, c, m), m), m, type, err),
           s, s.queue[c])

FlushSenders(s, p, err) == Flush(s, fSenders(p), CollectedSender, err)
FlushReceivers(s, p, err) == Flush(s, fReceivers(p), CollectedReceiver, err)

\* CUPort::reset of the senders or of the receivers; a port that collects its
\* own messages would be emptied for ever
Reset(t, p) ==
  /\ "reset" \in Calls
  /\ Free(t)
  /\ p \in k.ports \cap Reads[BuiltIn[t]]
  /\ \A m \in Message : PortToNotify[m] # p
  /\ \/ SwiExit(FlushSenders(k, p, "kOSErrCallAborted"))
     \/ SwiExit(FlushReceivers(k, p, "kOSErrMessageTimedOut"))

\* the object manager deletes a port, which is out of the table by then
DestroyPort(t, p) ==
  /\ "destroyPort" \in Calls
  /\ Free(t)
  /\ p \in k.ports \cap Reads[BuiltIn[t]]
  /\ LET gone == "kOSErrPortNoLongerExists"
         s == [k EXCEPT !.ports = @ \ {p}]
     IN  SwiExit(FlushReceivers(FlushSenders(s, p, gone), p, gone))

\* the object manager deletes a message
DestroyMessage(m) ==
  /\ "destroyMessage" \in Calls
  /\ Free(Owner[m])
  /\ m \in k.msgs
  /\ ~IsBuiltIn(m)
  /\ LET s == [k EXCEPT !.msgs = @ \ {m}]
         u == RemoveTimer(Flush(s, f8C(m), CollectedSender,
                                "kOSErrReceiverObjectNoLongerExists"), m)
     IN  SwiExit(IF Busy(u, m)
                 THEN CompleteNested(u, m, "kOSErrSharedMemMsgNoLongerExists")
                 ELSE u)

-----------------------------------------------------------------------------

Urgency == IF "urgent" \in Calls THEN BOOLEAN ELSE {FALSE}
Delays == IF "delay" \in Calls THEN BOOLEAN ELSE {FALSE}
Hows == IF "take" \in Calls THEN {"wait", "take"} ELSE {"wait"}
Late == SUBSET ((IF "delay" \in Calls THEN {"Delay"} ELSE {})
                 \cup (IF Finite \in SendTimeouts \cup ReadTimeouts THEN {"Timeout"} ELSE {}))

TaskStep ==
  \/ \E m \in Message : \E p \in Writes[m], type \in Type, timeout \in SendTimeouts,
        urgent \in Urgency, delay \in Delays, late \in Late :
        PortSendSWI(m, p, type, timeout, urgent, delay, late)
  \/ \E r \in Message : \E p \in Reads[r], filter \in Filters, timeout \in ReadTimeouts,
        urgent \in Urgency, how \in Hows, late \in Late :
        PortReceiveSWI(r, p, filter, timeout, urgent, how, late)
  \/ \E t \in Task, m \in Message : BlockTillDone(t, m) \/ Abort(t, m)
  \/ \E t \in Task, p \in Port : Reset(t, p) \/ DestroyPort(t, p)
  \/ \E t \in Task, p \in Port, filter \in Filters : IsMsgAvailable(t, p, filter)
  \/ \E r \in Message, p \in Port, filter \in Filters : ResetFilter(r, p, filter)
  \/ \E m \in Message : GetResult(m) \/ DestroyMessage(m)
  \/ \E x \in k.tokens : MsgDone(x)

Interrupt ==
  \/ \E m \in Message : AlarmFires(m)
  \/ \E m \in Interrupting : \E p \in Writes[m], type \in Type, timeout \in SendTimeouts,
        urgent \in Urgency, delay \in Delays :
        SendForInterrupt(m, p, type, timeout, urgent, delay)

DoDeferrals ==
  \E late \in Late : PortDeferredSendNotify(late) \/ DeferredNotify(late)

Next == TaskStep \/ OtherSWI \/ Interrupt \/ DoDeferrals

Spec == Init /\ [][Next]_vars

(***************************************************************************)
(* The idle task makes SWIs for ever when nobody else does, each SWI runs  *)
(* DoDeferrals to its end, and the timer interrupt of an armed alarm comes,*)
(* as it does on hardware that keeps an interrupt pending while disabled.  *)
(***************************************************************************)
FairSpec ==
  /\ Spec
  /\ WF_vars(OtherSWI)
  /\ WF_vars(DoDeferrals)
  /\ \A m \in Message : WF_vars(AlarmFires(m))

-----------------------------------------------------------------------------

\* A message is in the queue its one pair of links says, once, and in no other,
\* whatever completes it first.  Nothing in CDoubleQContainer checks it.
LinksExact ==
  /\ \A c \in Queue, m \in Message :
       Cardinality({i \in DOMAIN k.queue[c] : k.queue[c][i] = m})
         = IF k.fContainer[m] = c THEN 1 ELSE 0
  /\ \A m \in Message :
       Cardinality({i \in DOMAIN k.gTimerDeferred : k.gTimerDeferred[i] = m})
         <= IF k.fTimer[m] = "no" THEN 0 ELSE 1

\* A message that is in progress, or waits to be collected, is in a queue or has
\* a timer, so that something can still end it; and once it has ended no queue
\* and no timer holds it, so that nothing ends it again.
PendingIffHeld ==
  \A m \in Message :
    Busy(k, m) <=> (k.fContainer[m] # None \/ k.fTimer[m] # "no")

\* A task that was stopped waits for a message that is in progress and that will
\* resume it, and a message resumes no task that runs.
NoTaskForgotten ==
  \A t \in Task :
    (t \in k.blocked) <=> (\E m \in Message : k.fStatus[m] = kInProgress /\ k.fNotify[m] = t)

\* A receiver does not wait in a port that holds a message it would accept ("see
\* if someone's sent a suitable message").
NoMatchWaiting ==
  \A p \in Port, m \in Message, r \in Message :
    (k.fContainer[m] = fSenders(p) /\ k.fContainer[r] = fReceivers(p))
      => k.fType[m] \notin k.fFilter[r]

\* The token a receiver holds answers the message that was received with it, and
\* never a later use of the same message object.
TokenAnswersItsSend ==
  \A x \in k.tokens :
    MsgDoneAccepted(x.msg, x.sig)
      => x.nth = k.sends[x.msg] /\ k.fContainer[x.msg] = f8C(x.rcvr)

\* What interrupts leave for DoDeferrals is done or still requested.
DeferralsRemembered ==
  /\ k.queue[gDeferredSends] # <<>> => deferring = "sends" \/ k.gWantDeferred
  /\ k.gTimerDeferred # <<>> => deferring # "no" \/ k.gWantDeferred

Sending(s, m) == s.fStatus[m] = kInProgress /\ s.fType[m] \in Type

EndsWithNoErr(m) ==
  /\ Sending(k, m)
  /\ ~Sending(k', m)
  /\ IF k'.fNotify[m] \in Task THEN k'.result[k'.fNotify[m]] = noErr
                               ELSE k'.fStatus[m] = noErr

\* A send that ends with noErr was received and its receiver said it was done.
NoErrMeansReceived ==
  [][\A m \in Message :
       EndsWithNoErr(m) => \E r \in Message : k.fContainer[m] = f8C(r)]_vars

\* A task whose call has a timeout is resumed.
TimeoutsEnd ==
  \A t \in Task :
    (t \in k.blocked /\ \E m \in Message : k.fTimer[m] = "Timeout" /\ k.fNotify[m] = t)
      ~> (t \notin k.blocked)

=============================================================================
