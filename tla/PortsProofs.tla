----------------------------- MODULE PortsProofs -----------------------------
(***************************************************************************)
(* Proofs about Ports, for every set of tasks, ports and messages.         *)
(*                                                                         *)
(* The operators of Ports go from record to record and call each other, so *)
(* the invariant is a predicate of a record and of a set M of messages     *)
(* that a procedure has in its hands: they may be in none of the states in *)
(* which a message is left between two procedures.                         *)
(*                                                                         *)
(* What a step tells the tasks that send is a relation of the record that  *)
(* the step begins with and the one a procedure has come to: see Roles and *)
(* Told.  The lemmas whose names end in Says keep it.                      *)
(***************************************************************************)
EXTENDS Ports, FiniteSetTheorems, SequenceTheorems, WellFoundedInduction, NaturalsInduction, TLAPS

Distinct(q) == \A i, j \in DOMAIN q : q[i] = q[j] => i = j

\* The queues and the containers that messages name agree.
Exact(s) ==
  \A c \in Queue :
    /\ Distinct(s.queue[c])
    /\ \A m \in Message : m \in ToSet(s.queue[c]) <=> s.fContainer[m] = c

\* Who is in the timer's queue has a timer, and is there once.
Timed(s) ==
  /\ Distinct(s.gTimerDeferred)
  /\ \A m \in ToSet(s.gTimerDeferred) : s.fTimer[m] # "no"

\* A message that nothing holds,
Idle(s, m) ==
  /\ s.fStatus[m] # kInProgress /\ s.fType[m] \notin Collector
  /\ s.fContainer[m] = None /\ s.fTimer[m] = "no" /\ s.fSignature[m] = 0

\* one that has ended and waits in its collector port,
Waits(s, m) ==
  /\ s.fStatus[m] # kInProgress /\ s.fType[m] \in Collector
  /\ s.fNotify[m] \in Port /\ s.fContainer[m] = fSenders(s.fNotify[m])
  /\ s.fTimer[m] = "no" /\ s.fSignature[m] = 0

InReply(s, m) == \E r \in Message : s.fContainer[m] = f8C(r)

\* and one in progress: only a receiver has a signature to come back with, and a
\* message that is delayed is in no queue, and a deferred send has no timer yet.
Active(s, m) ==
  /\ s.fStatus[m] = kInProgress /\ s.fType[m] \notin Collector
  /\ s.fContainer[m] # None \/ s.fTimer[m] # "no"
  /\ s.fTimer[m] = "Delay" => s.fContainer[m] = None
  /\ s.fContainer[m] = gDeferredSends => s.fTimer[m] = "no"
  /\ s.fSignature[m] # 0 <=> InReply(s, m)
  /\ \A p \in Port : s.fContainer[m] = fReceivers(p) => p \in Reads[m]

Mode(s, m) == Idle(s, m) \/ Waits(s, m) \/ Active(s, m)

\* whom a message notifies
Addressed(s) == \A m \in Message : s.fNotify[m] \in {None, Owner[m], PortToNotify[m]}

\* A stopped task waits for one message, and a message in progress resumes a
\* stopped task.
Claims(s, M, m) == m \in M \/ s.fStatus[m] = kInProgress

Claimed(s, M) ==
  /\ \A t \in s.blocked : \E m \in Message : Claims(s, M, m) /\ s.fNotify[m] = t
  /\ \A m \in Message \ M :
       s.fStatus[m] = kInProgress /\ s.fNotify[m] \in Task => s.fNotify[m] \in s.blocked
  /\ \A m, n \in Message :
       Claims(s, M, m) /\ Claims(s, M, n) /\ s.fNotify[m] \in Task /\ s.fNotify[m] = s.fNotify[n]
         => m = n

Unmatched(s) ==
  \A p \in Port, m \in Message, r \in Message :
    s.fContainer[m] = fSenders(p) /\ s.fContainer[r] = fReceivers(p)
      => s.fType[m] \notin s.fFilter[r]

\* resetFilter looks for the wrong senders.
Matched(s) == "resetFilter" \in Calls \/ Unmatched(s)

\* Nobody but its own task collects a message, and an interrupt's is not collected.
CollectedAtHome ==
  \A m \in Message : PortToNotify[m] # None =>
    /\ m \notin Interrupting
    /\ \A r \in Message : PortToNotify[m] \in Reads[r] => Owner[r] = Owner[m]

\* A token with a signature is older than the next signature, and is good as long as
\* its message is with the receiver; one without is of a message that has ended.
Signed(s, x) ==
  /\ x.sig < s.fSequenceNo[x.msg]
  /\ s.fSignature[x.msg] = x.sig /\ s.fContainer[x.msg] # None =>
       x.nth = s.sends[x.msg] /\ s.fContainer[x.msg] = f8C(x.rcvr)

Ended(s, x) ==
  /\ s.fStatus[x.msg] # kInProgress
  /\ Owner[x.rcvr] = Owner[x.msg] /\ x.msg \notin Interrupting

Held(s) ==
  /\ \A m \in Message : s.fSignature[m] < s.fSequenceNo[m]
  /\ \A x \in s.tokens : /\ x.sig # 0 => Signed(s, x)
                         /\ x.sig = 0 /\ CollectedAtHome => Ended(s, x)

Fit(s, M) ==
  /\ s \in KernelRecord
  /\ Exact(s) /\ Timed(s)
  /\ \A m \in Message \ M : Mode(s, m)
  /\ Addressed(s) /\ Claimed(s, M) /\ Matched(s) /\ Held(s)

\* What a procedure leaves alone.
Calm(s, u) ==
  /\ u.gWantDeferred = s.gWantDeferred /\ u.ports = s.ports /\ u.msgs = s.msgs
  /\ s.queue[gDeferredSends] = <<>> => u.queue[gDeferredSends] = <<>>
  /\ s.gTimerDeferred = <<>> => u.gTimerDeferred = <<>>
  /\ s.tokens \subseteq u.tokens

Inv == Fit(k, {}) /\ TypeOK /\ DeferralsRemembered

-----------------------------------------------------------------------------
(* Queues.                                                                 *)

\* The elements of a sequence.
LEMMA QueueElements ==
  ASSUME NEW q \in Seq(Message)
  PROVE  /\ Len(q) \in Nat /\ DOMAIN q = 1 .. Len(q)
         /\ \A i \in DOMAIN q : q[i] \in Message
         /\ ToSet(q) \subseteq Message
         /\ ToSet(q) = {} <=> q = <<>>
<1>1. Len(q) \in Nat /\ DOMAIN q = 1 .. Len(q) /\ \A i \in 1 .. Len(q) : q[i] \in Message
  OBVIOUS
<1>2. ToSet(q) \subseteq Message
  BY <1>1 DEF ToSet
<1>3. ASSUME q # <<>> PROVE ToSet(q) # {}
  <2>1. q[1] \in ToSet(q) /\ 1 \in DOMAIN q
    BY <1>3, <1>1 DEF ToSet
  <2>2. QED
    BY <2>1
<1>4. q = <<>> => ToSet(q) = {}
  BY DEF ToSet
<1>5. QED
  BY <1>1, <1>2, <1>3, <1>4

\* A queue without a message.
LEMMA WithoutIs ==
  ASSUME NEW q \in Seq(Message), Distinct(q), NEW m \in Message
  PROVE  /\ Without[q][m] \in Seq(Message) /\ Distinct(Without[q][m])
         /\ ToSet(Without[q][m]) = ToSet(q) \ {m}
<1> DEFINE w == Without[q][m]
           n == Len(q)
<1>1. n \in Nat /\ DOMAIN q = 1 .. n /\ \A j \in 1 .. n : q[j] \in Message
  OBVIOUS
<1>2. CASE m \notin ToSet(q)
  <2>1. w = q
    BY <1>2 DEF Without
  <2>2. QED
    BY <1>2, <2>1
<1>3. CASE m \in ToSet(q)
  <2> DEFINE i == CHOOSE j \in DOMAIN q : q[j] = m
  <2>1. i \in 1 .. n /\ q[i] = m
    BY <1>1, <1>3 DEF ToSet
  <2>2. w = SubSeq(q, 1, i - 1) \o SubSeq(q, i + 1, n)
    BY <1>3 DEF Without, RemoveAt
  <2> HIDE DEF i, w
  <2> DEFINE a == SubSeq(q, 1, i - 1)
             b == SubSeq(q, i + 1, n)
  <2>3. a \in Seq(Message) /\ Len(a) = i - 1 /\ \A j \in 1 .. i - 1 : a[j] = q[j]
    BY <1>1, <2>1
  <2>4. b \in Seq(Message) /\ Len(b) = n - i /\ \A j \in 1 .. n - i : b[j] = q[i + j]
    <3>1. i + 1 \in 1 .. n + 1 /\ n \in (i + 1) - 1 .. n
      BY <1>1, <2>1
    <3>2. /\ b \in Seq(Message) /\ Len(b) = n - (i + 1) + 1
          /\ \A j \in 1 .. n - (i + 1) + 1 : b[j] = q[i + 1 + j - 1]
      BY <3>1, SubSeqProperties
    <3>3. n - (i + 1) + 1 = n - i /\ \A j \in Nat : i + 1 + j - 1 = i + j
      BY <1>1, <2>1
    <3> HIDE DEF b
    <3>4. QED
      BY <1>1, <2>1, <3>2, <3>3
  <2>5. w = a \o b
    BY <2>2
  <2> HIDE DEF a, b
  <2>6. w \in Seq(Message) /\ Len(w) = n - 1 /\ DOMAIN w = 1 .. n - 1
    <3>1. w \in Seq(Message) /\ Len(w) = Len(a) + Len(b)
      BY <2>3, <2>4, <2>5
    <3>2. DOMAIN w = 1 .. Len(w)
      BY <3>1
    <3>3. (i - 1) + (n - i) = n - 1
      BY <1>1, <2>1
    <3>4. QED
      BY <2>3, <2>4, <3>1, <3>2, <3>3
  <2>7. \A j \in 1 .. n - 1 : w[j] = IF j <= i - 1 THEN a[j] ELSE b[j - (i - 1)]
    BY <1>1, <2>1, <2>3, <2>4, <2>5
  <2>8. /\ w \in Seq(Message) /\ DOMAIN w = 1 .. n - 1
        /\ \A j \in 1 .. n - 1 : w[j] = IF j < i THEN q[j] ELSE q[j + 1]
    <3>1. \A j \in 1 .. n - 1 : j < i => j <= i - 1 /\ j \in 1 .. i - 1
      BY <1>1, <2>1
    <3>2. \A j \in 1 .. n - 1 :
            ~(j < i) => ~(j <= i - 1) /\ j - (i - 1) \in 1 .. n - i /\ i + (j - (i - 1)) = j + 1
      BY <1>1, <2>1
    <3>3. QED
      BY <2>3, <2>4, <2>6, <2>7, <3>1, <3>2
  <2>9. Distinct(w)
    BY <1>1, <2>1, <2>8 DEF Distinct
  <2>10. ASSUME NEW x \in ToSet(w) PROVE x \in ToSet(q) \ {m}
    <3>1. PICK j \in 1 .. n - 1 : x = w[j]
      BY <2>8 DEF ToSet
    <3>2. QED
      BY <1>1, <2>1, <2>8, <3>1 DEF Distinct, ToSet
  <2>11. ASSUME NEW x \in ToSet(q) \ {m} PROVE x \in ToSet(w)
    <3>1. PICK j \in 1 .. n : x = q[j]
      BY <1>1 DEF ToSet
    <3>2. j # i
      BY <2>1, <3>1
    <3>3. CASE j < i
      BY <1>1, <2>1, <2>8, <3>1, <3>3 DEF ToSet
    <3>4. CASE j > i
      <4>1. j - 1 \in 1 .. n - 1 /\ w[j - 1] = q[j]
        BY <1>1, <2>1, <2>8, <3>4
      <4>2. QED
        BY <2>8, <3>1, <4>1 DEF ToSet
    <3>5. QED
      BY <1>1, <2>1, <3>2, <3>3, <3>4
  <2>12. QED
    BY <2>8, <2>9, <2>10, <2>11 DEF w
<1>4. QED
  BY <1>2, <1>3

\* A message is added to a queue at its end or at its front.
LEMMA AppendIs ==
  ASSUME NEW q \in Seq(Message), Distinct(q), NEW m \in Message \ ToSet(q)
  PROVE  /\ Append(q, m) \in Seq(Message) /\ Distinct(Append(q, m))
         /\ ToSet(Append(q, m)) = ToSet(q) \cup {m}
<1> DEFINE n == Len(q)  w == Append(q, m)
<1>1. n \in Nat /\ DOMAIN q = 1 .. n /\ \A j \in 1 .. n : q[j] # m
  BY DEF ToSet
<1>2. /\ w \in Seq(Message) /\ DOMAIN w = 1 .. n + 1
      /\ \A j \in 1 .. n : w[j] = q[j]
      /\ w[n + 1] = m
  OBVIOUS
<1> HIDE DEF w
<1>3. Distinct(w)
  BY <1>1, <1>2 DEF Distinct
<1>4. ToSet(w) = ToSet(q) \cup {m}
  BY <1>1, <1>2 DEF ToSet
<1>5. QED
  BY <1>2, <1>3, <1>4 DEF w

LEMMA ConsIs ==
  ASSUME NEW q \in Seq(Message), Distinct(q), NEW m \in Message \ ToSet(q)
  PROVE  /\ <<m>> \o q \in Seq(Message) /\ Distinct(<<m>> \o q)
         /\ ToSet(<<m>> \o q) = ToSet(q) \cup {m}
<1> DEFINE n == Len(q)  w == <<m>> \o q
<1>1. n \in Nat /\ DOMAIN q = 1 .. n /\ \A j \in 1 .. n : q[j] # m
  BY DEF ToSet
<1>2. /\ w \in Seq(Message) /\ DOMAIN w = 1 .. n + 1
      /\ \A j \in 1 .. n : w[j + 1] = q[j]
      /\ w[1] = m
  OBVIOUS
<1> HIDE DEF w
<1>3. \A j \in 2 .. n + 1 : w[j] = q[j - 1] /\ j - 1 \in 1 .. n
  BY <1>1, <1>2
<1>4. Distinct(w)
  <2>1. ASSUME NEW i \in 1 .. n + 1, NEW j \in 1 .. n + 1, w[i] = w[j] PROVE i = j
    <3>1. CASE i = 1 \/ j = 1
      BY <1>1, <1>2, <1>3, <2>1, <3>1
    <3>2. CASE i \in 2 .. n + 1 /\ j \in 2 .. n + 1
      BY <1>1, <1>3, <2>1, <3>2 DEF Distinct
    <3>3. QED
      BY <1>1, <3>1, <3>2
  <2>2. QED
    BY <1>2, <2>1 DEF Distinct
<1>5. ToSet(w) \subseteq ToSet(q) \cup {m}
  <2>1. \A j \in DOMAIN w : w[j] \in ToSet(q) \cup {m}
    BY <1>1, <1>2, <1>3 DEF ToSet
  <2>2. QED
    BY <2>1 DEF ToSet
<1>6. ToSet(q) \cup {m} \subseteq ToSet(w)
  BY <1>1, <1>2 DEF ToSet
<1>7. QED
  BY <1>2, <1>4, <1>5, <1>6 DEF w

\* A set of numbers has a least one.
LEMMA LeastNumber ==
  ASSUME NEW T \in SUBSET Nat, T # {}
  PROVE  \E n \in T : \A m \in T : n <= m
<1>1. IsWellFoundedOn(OpToRel(<, Nat), Nat)
  BY NatLessThanWellFounded
<1>2. PICK n \in T : \A m \in T : ~(<<m, n>> \in OpToRel(<, Nat))
  BY <1>1, WFMin
<1>3. \A m \in T : ~(m < n)
  BY <1>2 DEF OpToRel
<1>4. QED
  BY <1>3

\* So what holds at 0 and is passed on holds up to any n.
LEMMA UpTo ==
  ASSUME NEW n \in Nat, NEW T \in SUBSET (0..n), 0 \in T,
         \A i \in 1..n : i - 1 \in T => i \in T
  PROVE  T = 0..n
<1>1. SUFFICES ASSUME T # 0..n PROVE FALSE
  OBVIOUS
<1> DEFINE U == (0..n) \ T
<1>2. U # {} /\ U \in SUBSET Nat
  <2>1. \E i \in 0..n : i \notin T
    BY <1>1, Zenon
  <2>2. \A i \in 0..n : i \in Nat
    OBVIOUS
  <2>3. QED
    BY <2>1, <2>2
<1>3. PICK i \in U : \A m \in U : i <= m
  BY <1>2, LeastNumber
<1>4. i \in 1..n /\ i - 1 \in 0..n /\ ~(i <= i - 1)
  BY <1>3
<1>5. i - 1 \in T
  BY <1>3, <1>4
<1>6. QED
  BY <1>3, <1>4, <1>5

\* The greatest of the first numbers.
LEMMA MaxUpTo ==
  ASSUME NEW n \in Nat, NEW T \in SUBSET (1..n), T # {}
  PROVE  /\ Max(T) \in T
         /\ \A y \in T : Max(T) >= y
<1> DEFINE U == {n - i : i \in T}
<1>1. U \in SUBSET Nat /\ U # {}
  <2>1. \A i \in T : n - i \in Nat
    OBVIOUS
  <2>2. PICK i \in T : TRUE
    OBVIOUS
  <2>3. n - i \in U
    BY <2>2
  <2>4. QED
    BY <2>1, <2>3
<1>2. PICK l \in U : \A m \in U : l <= m
  BY <1>1, LeastNumber
<1>3. PICK x \in T : l = n - x
  BY <1>2
<1>4. \A y \in T : n - y \in U
  OBVIOUS
<1>5. ASSUME NEW y \in T PROVE x >= y
  <2>1. l <= n - y
    BY <1>2, <1>4
  <2>2. n \in Int /\ x \in Int /\ y \in Int
    OBVIOUS
  <2>3. QED
    BY <1>3, <2>1, <2>2
<1>6. \E z \in T : \A y \in T : z >= y
  BY <1>5
<1>7. QED
  BY <1>6 DEF Max

\* The first message of a queue that is in S.
LEMMA FirstInIs ==
  ASSUME NEW q \in Seq(Message), NEW S \in SUBSET Message
  PROVE  /\ FirstIn[q][S] = None <=> ToSet(q) \cap S = {}
         /\ FirstIn[q][S] # None => FirstIn[q][S] \in ToSet(q) \cap S
<1>1. CASE ToSet(q) \cap S = {}
  <2>1. FirstIn[q][S] = None
    BY <1>1 DEF FirstIn
  <2>2. QED
    BY <1>1, <2>1
<1>2. CASE ToSet(q) \cap S # {}
  <2> DEFINE T == {i \in DOMAIN q : q[i] \in S}
             First(i) == q[i] \in S /\ \A j \in 1 .. i - 1 : q[j] \notin S
             f == CHOOSE i \in DOMAIN q : First(i)
  <2>1. DOMAIN q = 1 .. Len(q) /\ Len(q) \in Nat
    OBVIOUS
  <2>2. T \in SUBSET Nat /\ T # {}
    BY <1>2, <2>1 DEF ToSet
  <2>3. PICK i \in T : \A j \in T : i <= j
    BY <2>2, LeastNumber
  <2>4. First(i) /\ i \in DOMAIN q
    BY <2>1, <2>3
  <2>5. f \in DOMAIN q /\ First(f)
    BY <2>4
  <2>6. FirstIn[q][S] = q[f]
    BY <1>2 DEF FirstIn
  <2> HIDE DEF f
  <2>7. q[f] \in ToSet(q) \cap S
    BY <2>5 DEF ToSet
  <2>8. q[f] \in Message /\ None \notin Message
    BY <2>7, PortsAssumption
  <2>9. QED
    BY <1>2, <2>6, <2>7, <2>8
<1>3. QED
  BY <1>1, <1>2

\* The queues are different queues.
LEMMA QueueNames ==
  /\ None \notin Queue /\ gDeferredSends \in Queue
  /\ \A p \in Port : /\ fSenders(p) \in Queue /\ fReceivers(p) \in Queue
                     /\ fSenders(p) # gDeferredSends /\ fReceivers(p) # gDeferredSends
                     /\ fSenders(p) # None /\ fReceivers(p) # None
  /\ \A m \in Message : f8C(m) \in Queue /\ f8C(m) # gDeferredSends /\ f8C(m) # None
  /\ \A p, q \in Port : /\ fSenders(p) # fReceivers(q)
                        /\ fSenders(p) = fSenders(q) => p = q
                        /\ fReceivers(p) = fReceivers(q) => p = q
  /\ \A p \in Port, m \in Message : f8C(m) # fSenders(p) /\ f8C(m) # fReceivers(p)
  /\ \A m, n \in Message : f8C(m) = f8C(n) => m = n
<1>1. None \notin Queue
  BY PortsAssumption
<1>2. /\ gDeferredSends \in Queue
      /\ \A p \in Port : fSenders(p) \in Queue /\ fReceivers(p) \in Queue
      /\ \A m \in Message : f8C(m) \in Queue
  BY DEF Queue
<1>3. /\ \A p : fSenders(p)[1] = "fSenders" /\ fSenders(p)[2] = p
      /\ \A p : fReceivers(p)[1] = "fReceivers" /\ fReceivers(p)[2] = p
      /\ \A m : f8C(m)[1] = "f8C" /\ f8C(m)[2] = m
      /\ gDeferredSends[1] = "gDeferredSends"
  BY DEF fSenders, fReceivers, f8C, gDeferredSends
<1>4. QED
  BY <1>1, <1>2, <1>3

\* The constants that say who uses a message and where it goes.
LEMMA Parties ==
  /\ None \notin Task /\ None \notin Port /\ None \notin Message /\ Task \cap Port = {}
  /\ Owner \in [Message -> Task] /\ PortToNotify \in [Message -> Port \cup {None}]
  /\ Reads \in [Message -> SUBSET Port] /\ Writes \in [Message -> SUBSET Port]
  /\ BuiltIn \in [Task -> Message]
BY PortsAssumption

LEMMA Fields ==
  ASSUME NEW s \in KernelRecord
  PROVE  /\ s.fStatus \in [Message -> Status]
         /\ s.fType \in [Message -> Type \cup Collector \cup {NoType}]
         /\ s.fFilter \in [Message -> SUBSET MatchAll]
         /\ s.fNotify \in [Message -> Task \cup Port \cup {None}]
         /\ s.fSignature \in [Message -> Nat] /\ s.fSequenceNo \in [Message -> Nat]
         /\ s.fTimer \in [Message -> {"no", "Timeout", "Delay"}]
         /\ s.fContainer \in [Message -> Queue \cup {None}]
         /\ s.queue \in [Queue -> Seq(Message)]
         /\ s.gTimerDeferred \in Seq(Message)
         /\ s.gWantDeferred \in BOOLEAN
         /\ s.ports \subseteq Port /\ s.msgs \subseteq Message
         /\ s.blocked \subseteq Task /\ s.tokens \subseteq Token
         /\ s.sends \in [Message -> Nat]
BY DEF KernelRecord

-----------------------------------------------------------------------------
(* The messages in hand.                                                   *)

\* A message in progress, or one that resumes no task, is taken in hand.
LEMMA Opens ==
  ASSUME NEW s, NEW M \in SUBSET Message, Fit(s, M), NEW m \in Message,
         s.fStatus[m] = kInProgress \/ s.fNotify[m] \notin Task
  PROVE  Fit(s, M \cup {m})
<1>1. Claimed(s, M \cup {m})
  BY DEF Fit, Claimed, Claims
<1>2. \A x \in Message \ (M \cup {m}) : Mode(s, x)
  BY DEF Fit
<1>3. QED
  BY <1>1, <1>2 DEF Fit

\* A message is left in one of its states.
LEMMA Closes ==
  ASSUME NEW s, NEW M \in SUBSET Message, Fit(s, M), NEW m \in M, Mode(s, m),
         s.fStatus[m] = kInProgress /\ s.fNotify[m] \in Task => s.fNotify[m] \in s.blocked,
         s.fStatus[m] # kInProgress => s.fNotify[m] \notin s.blocked
  PROVE  Fit(s, M \ {m})
<1>1. Claimed(s, M \ {m})
  BY DEF Fit, Claimed, Claims
<1>2. \A x \in Message \ (M \ {m}) : Mode(s, x)
  BY DEF Fit
<1>3. QED
  BY <1>1, <1>2 DEF Fit

\* What u says of a message is what s says.
Same(s, u, x) ==
  /\ u.fStatus[x] = s.fStatus[x] /\ u.fType[x] = s.fType[x]
  /\ u.fFilter[x] = s.fFilter[x] /\ u.fNotify[x] = s.fNotify[x]
  /\ u.fSignature[x] = s.fSignature[x] /\ u.fSequenceNo[x] = s.fSequenceNo[x]
  /\ u.fTimer[x] = s.fTimer[x] /\ u.fContainer[x] = s.fContainer[x]
  /\ u.sends[x] = s.sends[x]

Others(s, u, X) == \A x \in Message \ X : Same(s, u, x)

LEMMA SameMode ==
  ASSUME NEW s, NEW u, NEW x, Same(s, u, x), Mode(s, x)
  PROVE  Mode(u, x)
BY DEF Same, Mode, Idle, Waits, Active, InReply

LEMMA OthersMode ==
  ASSUME NEW s, NEW u, NEW X, Others(s, u, X), \A x \in Message \ X : Mode(s, x)
  PROVE  \A x \in Message \ X : Mode(u, x)
<1>1. ASSUME NEW x \in Message \ X PROVE Mode(u, x)
  BY <1>1, SameMode DEF Others
<1>2. QED
  BY <1>1

LEMMA OthersTrans ==
  ASSUME NEW s, NEW u, NEW v, NEW X, Others(s, u, X), Others(u, v, X)
  PROVE  Others(s, v, X)
BY DEF Others, Same

LEMMA CalmTrans ==
  ASSUME NEW s, NEW u, NEW v, Calm(s, u), Calm(u, v)
  PROVE  Calm(s, v)
BY DEF Calm

\* What a move from queue to queue, or a change of the timer, leaves alone.
Text(s, u) ==
  /\ u.fStatus = s.fStatus /\ u.fType = s.fType /\ u.fFilter = s.fFilter
  /\ u.fNotify = s.fNotify /\ u.fSignature = s.fSignature
  /\ u.fSequenceNo = s.fSequenceNo /\ u.sends = s.sends
  /\ u.tokens = s.tokens /\ u.blocked = s.blocked
  /\ u.gWantDeferred = s.gWantDeferred /\ u.ports = s.ports /\ u.msgs = s.msgs

LEMMA TextKeeps ==
  ASSUME NEW s, NEW u, Text(s, u), NEW M
  PROVE  /\ Addressed(s) => Addressed(u)
         /\ Claimed(s, M) => Claimed(u, M)
BY DEF Text, Addressed, Claimed, Claims

\* u is s with the queue c as q and m in d.
Moves(s, u, c, q, m, d) ==
  /\ u \in KernelRecord /\ Text(s, u)
  /\ u.fTimer = s.fTimer /\ u.gTimerDeferred = s.gTimerDeferred
  /\ u.queue[c] = q /\ \A e \in Queue \ {c} : u.queue[e] = s.queue[e]
  /\ u.fContainer[m] = d /\ \A x \in Message \ {m} : u.fContainer[x] = s.fContainer[x]

LEMMA MoveFields ==
  ASSUME NEW s \in KernelRecord, NEW c \in Queue, NEW m \in Message, NEW q \in Seq(Message),
         NEW d \in Queue \cup {None}, NEW u, u = [s EXCEPT !.queue[c] = q, !.fContainer[m] = d]
  PROVE  Moves(s, u, c, q, m, d)
<1> DEFINE w == [s.queue EXCEPT ![c] = q]
           f == [s.fContainer EXCEPT ![m] = d]
<1>1. s.queue \in [Queue -> Seq(Message)] /\ s.fContainer \in [Message -> Queue \cup {None}]
  BY Fields
<1>2. w \in [Queue -> Seq(Message)] /\ f \in [Message -> Queue \cup {None}]
  BY <1>1
<1>3. /\ w[c] = q /\ \A e \in Queue \ {c} : w[e] = s.queue[e]
      /\ f[m] = d /\ \A x \in Message \ {m} : f[x] = s.fContainer[x]
  BY <1>1
<1>4. u = [s EXCEPT !.queue = w, !.fContainer = f]
  BY DEF KernelRecord
<1> HIDE DEF w, f
<1>5. u \in KernelRecord
  BY <1>2, <1>4 DEF KernelRecord
<1>6. Text(s, u) /\ u.fTimer = s.fTimer /\ u.gTimerDeferred = s.gTimerDeferred
      /\ u.fContainer = f /\ u.queue = w
  BY <1>4 DEF Text, KernelRecord
<1>7. QED
  BY <1>3, <1>5, <1>6 DEF Moves

\* A message in hand is taken out of its queue.
LEMMA TakeFits ==
  ASSUME NEW s, NEW M \in SUBSET Message, Fit(s, M), NEW m \in M, NEW c \in Queue,
         s.fContainer[m] = c, NEW u, u = RemoveFromQueue(s, c, m)
  PROVE  /\ Fit(u, M) /\ Calm(s, u) /\ Others(s, u, {m})
         /\ Text(s, u) /\ u.fTimer = s.fTimer /\ u.fContainer[m] = None
<1>1. s \in KernelRecord /\ Exact(s) /\ Timed(s) /\ Claimed(s, M) /\ Addressed(s) /\ Matched(s) /\ Held(s)
  BY DEF Fit
<1>2. s.queue[c] \in Seq(Message) /\ Distinct(s.queue[c])
  BY <1>1, Fields DEF Exact
<1> DEFINE q == Without[s.queue[c]][m]
<1>3. q \in Seq(Message) /\ Distinct(q) /\ ToSet(q) = ToSet(s.queue[c]) \ {m}
  BY <1>2, WithoutIs
<1>4. u = [s EXCEPT !.queue[c] = q, !.fContainer[m] = None]
  BY <1>1 DEF RemoveFromQueue
<1> HIDE DEF q
<1>5. Moves(s, u, c, q, m, None)
  BY <1>1, <1>3, <1>4, MoveFields
<1>6. /\ Text(s, u) /\ u.fTimer = s.fTimer /\ u.gTimerDeferred = s.gTimerDeferred
      /\ u \in KernelRecord
      /\ u.queue[c] = q
      /\ \A d \in Queue \ {c} : u.queue[d] = s.queue[d]
      /\ u.fContainer[m] = None
      /\ \A x \in Message \ {m} : u.fContainer[x] = s.fContainer[x]
  BY <1>5 DEF Moves
<1>7. Exact(u)
  <2>1. ASSUME NEW d \in Queue, NEW x \in Message
        PROVE  Distinct(u.queue[d]) /\ (x \in ToSet(u.queue[d]) <=> u.fContainer[x] = d)
    <3>1. /\ Distinct(s.queue[d])
          /\ x \in ToSet(s.queue[d]) <=> s.fContainer[x] = d
          /\ d # None
      BY <1>1, QueueNames DEF Exact
    <3>2. CASE d = c
      BY <1>3, <1>6, <3>1, <3>2
    <3>3. CASE d # c
      BY <1>6, <3>1, <3>3
    <3>4. QED
      BY <3>2, <3>3
  <2>2. QED
    BY <2>1 DEF Exact
<1>8. Timed(u)
  BY <1>1, <1>6 DEF Timed
<1>9. Others(s, u, {m})
  BY <1>6 DEF Others, Same, Text
<1>10. \A x \in Message \ M : Mode(u, x)
  BY <1>9, SameMode DEF Fit, Others
<1>11. Matched(u)
  BY <1>1, <1>6, QueueNames DEF Matched, Unmatched, Text
<1>12. Held(u)
  <2>1. s.tokens \subseteq Token
    BY <1>1, Fields
  <2>2. \A x \in s.tokens : x.msg \in Message
    BY <2>1 DEF Token
  <2>3. QED
    BY <1>1, <1>6, <2>2 DEF Held, Signed, Ended, Text
<1>13. Calm(s, u)
  <2>1. s.queue[gDeferredSends] = <<>> => u.queue[gDeferredSends] = <<>>
    <3>1. CASE c = gDeferredSends
      <4>1. m \in ToSet(s.queue[c])
        BY <1>1 DEF Exact
      <4>2. QED
        BY <1>2, <3>1, <4>1, QueueElements
    <3>2. CASE c # gDeferredSends
      BY <1>6, <3>2, QueueNames
    <3>3. QED
      BY <3>1, <3>2
  <2>2. QED
    BY <1>6, <2>1 DEF Calm, Text
<1>14. QED
  BY <1>1, <1>6, <1>7, <1>8, <1>9, <1>10, <1>11, <1>12, <1>13, TextKeeps DEF Fit

TakenOut(s, u, M, m) ==
  /\ Fit(u, M) /\ Calm(s, u) /\ Others(s, u, {m})
  /\ Text(s, u) /\ u.fTimer = s.fTimer /\ u.fContainer[m] = None

LEMMA TakeOut ==
  ASSUME NEW s, NEW M \in SUBSET Message, Fit(s, M), NEW m \in M, NEW c \in Queue,
         s.fContainer[m] = c, NEW u, u = RemoveFromQueue(s, c, m)
  PROVE  TakenOut(s, u, M, m)
BY TakeFits DEF TakenOut

\* The timer of a message in hand, or one that is not set, is removed.
LEMMA TimerFits ==
  ASSUME NEW s, NEW M \in SUBSET Message, Fit(s, M), NEW m \in Message,
         m \in M \/ s.fTimer[m] = "no", NEW u, u = RemoveTimer(s, m)
  PROVE  /\ Fit(u, M) /\ Calm(s, u) /\ Others(s, u, {m})
         /\ Text(s, u) /\ u.fContainer = s.fContainer /\ u.fTimer[m] = "no"
<1>1. s \in KernelRecord /\ Exact(s) /\ Timed(s) /\ Claimed(s, M) /\ Addressed(s) /\ Matched(s) /\ Held(s)
  BY DEF Fit
<1> DEFINE q == Without[s.gTimerDeferred][m]
           f == [s.fTimer EXCEPT ![m] = "no"]
<1>2. s.gTimerDeferred \in Seq(Message) /\ s.fTimer \in [Message -> {"no", "Timeout", "Delay"}]
  BY <1>1, Fields
<1>3. q \in Seq(Message) /\ Distinct(q) /\ ToSet(q) = ToSet(s.gTimerDeferred) \ {m}
  BY <1>1, <1>2, WithoutIs DEF Timed
<1>4. /\ f \in [Message -> {"no", "Timeout", "Delay"}] /\ f[m] = "no"
      /\ \A x \in Message \ {m} : f[x] = s.fTimer[x]
  BY <1>2
<1>5. u = [s EXCEPT !.fTimer = f, !.gTimerDeferred = q]
  BY <1>1 DEF RemoveTimer, KernelRecord
<1> HIDE DEF q, f
<1>6. u \in KernelRecord
  BY <1>1, <1>3, <1>4, <1>5 DEF KernelRecord
<1>7. Text(s, u) /\ u.fTimer = f /\ u.gTimerDeferred = q /\ u.fContainer = s.fContainer /\ u.queue = s.queue
  BY <1>1, <1>5 DEF Text, KernelRecord
<1>8. Exact(u) /\ Timed(u)
  <2>1. Exact(u)
    BY <1>1, <1>7 DEF Exact
  <2>2. ToSet(q) \subseteq Message
    BY <1>3, QueueElements
  <2>3. \A x \in ToSet(q) : x \in Message \ {m} /\ s.fTimer[x] # "no"
    BY <1>1, <1>3, <2>2 DEF Timed
  <2>4. QED
    BY <1>3, <1>4, <1>7, <2>1, <2>3 DEF Timed
<1>9. Others(s, u, {m})
  BY <1>4, <1>7 DEF Others, Same, Text
<1>10. \A x \in Message \ M : Mode(u, x)
  <2>1. ASSUME NEW x \in Message \ M PROVE Same(s, u, x)
    <3>1. CASE x = m
      <4>1. s.fTimer[x] = f[x]
        BY <1>4, <3>1
      <4>2. QED
        BY <1>7, <4>1 DEF Same, Text
    <3>2. CASE x # m
      BY <1>9, <3>2 DEF Others
    <3>3. QED
      BY <3>1, <3>2
  <2>2. QED
    BY <2>1, SameMode DEF Fit
<1>11. Matched(u)
  BY <1>1, <1>7 DEF Matched, Unmatched, Text
<1>12. Held(u)
  BY <1>1, <1>7 DEF Held, Signed, Ended, Text
<1>13. Calm(s, u)
  <2>1. s.gTimerDeferred = <<>> => q = <<>>
    <3>1. ASSUME s.gTimerDeferred = <<>> PROVE q = <<>>
      <4>1. ToSet(s.gTimerDeferred) = {}
        BY <1>2, <3>1, QueueElements
      <4>2. QED
        BY <1>3, <4>1, QueueElements
    <3>2. QED
      BY <3>1
  <2>2. QED
    BY <1>7, <2>1 DEF Calm, Text
<1>14. QED
  BY <1>1, <1>4, <1>6, <1>7, <1>8, <1>9, <1>10, <1>11, <1>12, <1>13, TextKeeps DEF Fit

\* m goes to c without meeting what it would match.
Suits(s, c, m) ==
  \A p \in Port, x \in Message :
    /\ c = fSenders(p) /\ s.fContainer[x] = fReceivers(p) => s.fType[m] \notin s.fFilter[x]
    /\ c = fReceivers(p) /\ s.fContainer[x] = fSenders(p) => s.fType[x] \notin s.fFilter[m]

\* A message in hand is put into a queue.
LEMMA PutFits ==
  ASSUME NEW s, NEW M \in SUBSET Message, Fit(s, M), NEW m \in M, NEW c \in Queue,
         s.fContainer[m] = None, s.fSignature[m] = 0,
         "resetFilter" \in Calls \/ Suits(s, c, m),
         NEW u, u \in {Add(s, c, m), AddToFront(s, c, m)}
  PROVE  /\ Fit(u, M) /\ Others(s, u, {m})
         /\ c # gDeferredSends => Calm(s, u)
         /\ Text(s, u) /\ u.fTimer = s.fTimer /\ u.fContainer[m] = c
         /\ u.gTimerDeferred = s.gTimerDeferred
<1>1. s \in KernelRecord /\ Exact(s) /\ Timed(s) /\ Claimed(s, M) /\ Addressed(s) /\ Matched(s) /\ Held(s)
  BY DEF Fit
<1>2. s.queue[c] \in Seq(Message) /\ Distinct(s.queue[c])
  BY <1>1, Fields DEF Exact
<1>3. m \notin ToSet(s.queue[c])
  BY <1>1, QueueNames DEF Exact
<1>4. PICK q : /\ q \in Seq(Message) /\ Distinct(q) /\ ToSet(q) = ToSet(s.queue[c]) \cup {m}
               /\ u = [s EXCEPT !.queue[c] = q, !.fContainer[m] = c]
  <2>1. CASE u = Add(s, c, m)
    <3> DEFINE q == Append(s.queue[c], m)
    <3>1. q \in Seq(Message) /\ Distinct(q) /\ ToSet(q) = ToSet(s.queue[c]) \cup {m}
      BY <1>2, <1>3, AppendIs
    <3>2. u = [s EXCEPT !.queue[c] = q, !.fContainer[m] = c]
      BY <1>1, <2>1 DEF Add
    <3> HIDE DEF q
    <3>3. QED
      BY <3>1, <3>2
  <2>2. CASE u = AddToFront(s, c, m)
    <3> DEFINE q == <<m>> \o s.queue[c]
    <3>1. q \in Seq(Message) /\ Distinct(q) /\ ToSet(q) = ToSet(s.queue[c]) \cup {m}
      BY <1>2, <1>3, ConsIs
    <3>2. u = [s EXCEPT !.queue[c] = q, !.fContainer[m] = c]
      BY <1>1, <2>2 DEF AddToFront
    <3> HIDE DEF q
    <3>3. QED
      BY <3>1, <3>2
  <2>3. QED
    BY <2>1, <2>2
<1>5. Moves(s, u, c, q, m, c)
  BY <1>1, <1>4, MoveFields
<1>6. /\ Text(s, u) /\ u.fTimer = s.fTimer /\ u.gTimerDeferred = s.gTimerDeferred
      /\ u \in KernelRecord
      /\ u.queue[c] = q
      /\ \A d \in Queue \ {c} : u.queue[d] = s.queue[d]
      /\ u.fContainer[m] = c
      /\ \A x \in Message \ {m} : u.fContainer[x] = s.fContainer[x]
  BY <1>5 DEF Moves
<1>7. Exact(u)
  <2>1. ASSUME NEW d \in Queue, NEW x \in Message
        PROVE  Distinct(u.queue[d]) /\ (x \in ToSet(u.queue[d]) <=> u.fContainer[x] = d)
    <3>1. /\ Distinct(s.queue[d])
          /\ x \in ToSet(s.queue[d]) <=> s.fContainer[x] = d
          /\ d # None
      BY <1>1, QueueNames DEF Exact
    <3>2. CASE d = c
      BY <1>4, <1>6, <3>1, <3>2
    <3>3. CASE d # c
      BY <1>6, <3>1, <3>3
    <3>4. QED
      BY <3>2, <3>3
  <2>2. QED
    BY <2>1 DEF Exact
<1>8. Timed(u)
  BY <1>1, <1>6 DEF Timed
<1>9. Others(s, u, {m})
  BY <1>6 DEF Others, Same, Text
<1>10. \A x \in Message \ M : Mode(u, x)
  BY <1>9, SameMode DEF Fit, Others
<1>11. Matched(u)
  <2>1. CASE "resetFilter" \in Calls
    BY <2>1 DEF Matched
  <2>2. CASE "resetFilter" \notin Calls
    <3>1. Unmatched(s) /\ Suits(s, c, m)
      BY <1>1, <2>2 DEF Matched
    <3>2. ASSUME NEW p \in Port, NEW x \in Message, NEW r \in Message,
                 u.fContainer[x] = fSenders(p), u.fContainer[r] = fReceivers(p)
          PROVE  u.fType[x] \notin u.fFilter[r]
      <4>1. s.fContainer[x] = fSenders(p) \/ (x = m /\ c = fSenders(p))
        BY <1>6, <3>2
      <4>2. s.fContainer[r] = fReceivers(p) \/ (r = m /\ c = fReceivers(p))
        BY <1>6, <3>2
      <4>3. fSenders(p) # fReceivers(p)
        BY QueueNames
      <4>4. s.fType[x] \notin s.fFilter[r]
        BY <3>1, <4>1, <4>2, <4>3 DEF Unmatched, Suits
      <4>5. QED
        BY <1>6, <4>4 DEF Text
    <3>3. QED
      BY <3>2 DEF Matched, Unmatched
  <2>3. QED
    BY <2>1, <2>2
<1>12. Held(u)
  <2>1. \A x \in s.tokens : x.msg \in Message
    <3>1. s.tokens \subseteq Token
      BY <1>1, Fields
    <3>2. QED
      BY <3>1 DEF Token
  <2>2. QED
    BY <1>1, <1>6, <2>1 DEF Held, Signed, Ended, Text
<1>13. c # gDeferredSends => Calm(s, u)
  BY <1>6, QueueNames DEF Calm, Text
<1>14. QED
  BY <1>1, <1>6, <1>7, <1>8, <1>9, <1>10, <1>11, <1>12, <1>13, TextKeeps DEF Fit

\* What a change of the fields of m, in no queue, leaves alone.
Turns(s, u, m) ==
  /\ u \in KernelRecord
  /\ u.queue = s.queue /\ u.fContainer = s.fContainer /\ u.gTimerDeferred = s.gTimerDeferred
  /\ u.fNotify = s.fNotify /\ u.fSequenceNo = s.fSequenceNo /\ u.sends = s.sends
  /\ u.tokens = s.tokens /\ u.blocked = s.blocked
  /\ u.gWantDeferred = s.gWantDeferred /\ u.ports = s.ports /\ u.msgs = s.msgs
  /\ \A x \in Message \ {m} :
       /\ u.fStatus[x] = s.fStatus[x] /\ u.fType[x] = s.fType[x] /\ u.fFilter[x] = s.fFilter[x]
       /\ u.fSignature[x] = s.fSignature[x] /\ u.fTimer[x] = s.fTimer[x]
  /\ u.fStatus[m] # kInProgress \/ u.fStatus[m] = s.fStatus[m]
  /\ u.fSignature[m] \in {0, s.fSignature[m]}
  /\ u.fTimer[m] # "no" \/ u.fTimer[m] = s.fTimer[m]

LEMMA TurnFits ==
  ASSUME NEW s, NEW M \in SUBSET Message, Fit(s, M), NEW m \in M, s.fContainer[m] = None,
         NEW u, Turns(s, u, m)
  PROVE  Fit(u, M) /\ Calm(s, u) /\ Others(s, u, {m})
<1>1. s \in KernelRecord /\ Exact(s) /\ Timed(s) /\ Claimed(s, M) /\ Addressed(s) /\ Matched(s) /\ Held(s)
  BY DEF Fit
<1>2. Exact(u)
  BY <1>1 DEF Exact, Turns
<1>3. Timed(u)
  <2>1. ToSet(s.gTimerDeferred) \subseteq Message
    BY <1>1, Fields, QueueElements
  <2>2. ASSUME NEW x \in ToSet(s.gTimerDeferred) PROVE u.fTimer[x] # "no"
    BY <1>1, <2>1 DEF Timed, Turns
  <2>3. QED
    BY <1>1, <2>2 DEF Timed, Turns
<1>4. Others(s, u, {m})
  BY DEF Others, Same, Turns
<1>5. \A x \in Message \ M : Mode(u, x)
  BY <1>4, SameMode DEF Fit, Others
<1>6. Addressed(u)
  BY <1>1 DEF Addressed, Turns
<1>7. Claimed(u, M)
  <2>1. /\ u.fNotify = s.fNotify /\ u.blocked = s.blocked
        /\ \A x \in Message \ M : u.fStatus[x] = s.fStatus[x]
    BY DEF Turns
  <2>2. \A x \in Message : Claims(u, M, x) <=> Claims(s, M, x)
    BY <2>1 DEF Claims
  <2>3. QED
    BY <1>1, <2>1, <2>2 DEF Claimed
<1>8. Matched(u)
  <2>1. \A p \in Port : fSenders(p) # None /\ fReceivers(p) # None
    BY QueueNames
  <2>2. \A x \in Message : u.fContainer[x] # None =>
          u.fContainer[x] = s.fContainer[x] /\ u.fType[x] = s.fType[x] /\ u.fFilter[x] = s.fFilter[x]
    BY DEF Turns
  <2>3. QED
    BY <1>1, <2>1, <2>2 DEF Matched, Unmatched, Turns
<1>9. Held(u)
  <2>1. \A x \in s.tokens : x.msg \in Message
    <3>1. s.tokens \subseteq Token
      BY <1>1, Fields
    <3>2. QED
      BY <3>1 DEF Token
  <2>2. \A x \in Message : /\ u.fContainer[x] # None => u.fSignature[x] = s.fSignature[x]
                           /\ s.fStatus[x] # kInProgress => u.fStatus[x] # kInProgress
    BY DEF Turns
  <2>3. \A x \in Message : u.fSignature[x] < u.fSequenceNo[x]
    <3>1. ASSUME NEW x \in Message PROVE u.fSignature[x] < u.fSequenceNo[x]
      <4>1. s.fSignature[x] \in Nat /\ s.fSequenceNo[x] \in Nat
        BY <1>1, Fields
      <4>2. s.fSignature[x] < s.fSequenceNo[x]
        BY <1>1 DEF Held
      <4>3. u.fSignature[x] \in {0, s.fSignature[x]}
        BY DEF Turns
      <4>4. u.fSequenceNo[x] = s.fSequenceNo[x]
        BY DEF Turns
      <4>5. QED
        BY <4>1, <4>2, <4>3, <4>4
    <3>2. QED
      BY <3>1
  <2>4. ASSUME NEW x \in s.tokens
        PROVE  /\ x.sig # 0 => Signed(u, x)
               /\ x.sig = 0 /\ CollectedAtHome => Ended(u, x)
    <3>1. /\ x.sig # 0 => Signed(s, x)
          /\ x.sig = 0 /\ CollectedAtHome => Ended(s, x)
      BY <1>1 DEF Held
    <3>2. x.msg \in Message
      BY <2>1
    <3>3. Signed(s, x) => Signed(u, x)
      BY <2>2, <3>2 DEF Signed, Turns
    <3>4. Ended(s, x) => Ended(u, x)
      BY <2>2, <3>2 DEF Ended
    <3>5. QED
      BY <3>1, <3>3, <3>4
  <2>5. u.tokens = s.tokens
    BY DEF Turns
  <2>6. QED
    BY <2>3, <2>4, <2>5 DEF Held
<1>10. Calm(s, u)
  BY DEF Calm, Turns
<1>11. u \in KernelRecord
  BY DEF Turns
<1>12. QED
  BY <1>2, <1>3, <1>4, <1>5, <1>6, <1>7, <1>8, <1>9, <1>10, <1>11 DEF Fit

\* The task that a message in hand resumes is stopped.
LEMMA BlockFits ==
  ASSUME NEW s, NEW M \in SUBSET Message, Fit(s, M), NEW m \in M, NEW u, u = Block(s, m)
  PROVE  /\ Fit(u, M) /\ Calm(s, u) /\ Others(s, u, {})
         /\ s.fNotify[m] \in Task => s.fNotify[m] \in u.blocked
<1>1. s \in KernelRecord /\ Exact(s) /\ Timed(s) /\ Claimed(s, M) /\ Addressed(s) /\ Matched(s) /\ Held(s)
  BY DEF Fit
<1>2. CASE s.fNotify[m] \notin Task
  <2>1. u = s
    BY <1>2 DEF Block
  <2>2. QED
    BY <1>2, <2>1 DEF Calm, Others, Same
<1>3. CASE s.fNotify[m] \in Task
  <2> DEFINE b == s.blocked \cup {s.fNotify[m]}
  <2>1. b \subseteq Task
    BY <1>1, <1>3, Fields
  <2>2. u = [s EXCEPT !.blocked = b]
    BY <1>1, <1>3 DEF Block, KernelRecord
  <2>3. s.fNotify[m] \in b /\ \A t \in b : t \in s.blocked \/ t = s.fNotify[m]
    OBVIOUS
  <2>4. s.blocked \subseteq b
    OBVIOUS
  <2> HIDE DEF b
  <2>5. u \in KernelRecord
    BY <1>1, <2>1, <2>2 DEF KernelRecord
  <2>6. /\ u.queue = s.queue /\ u.fContainer = s.fContainer /\ u.gTimerDeferred = s.gTimerDeferred
        /\ u.fStatus = s.fStatus /\ u.fType = s.fType /\ u.fFilter = s.fFilter
        /\ u.fSignature = s.fSignature /\ u.fTimer = s.fTimer
        /\ u.fNotify = s.fNotify /\ u.fSequenceNo = s.fSequenceNo /\ u.sends = s.sends
        /\ u.tokens = s.tokens /\ u.blocked = b
        /\ u.gWantDeferred = s.gWantDeferred /\ u.ports = s.ports /\ u.msgs = s.msgs
    BY <1>1, <2>2 DEF KernelRecord
  <2>7. Exact(u) /\ Timed(u) /\ Addressed(u)
    BY <1>1, <2>6 DEF Exact, Timed, Addressed
  <2>8. Matched(u) /\ Held(u) /\ Calm(s, u)
    BY <1>1, <2>6 DEF Matched, Unmatched, Held, Signed, Ended, Calm
  <2>9. Others(s, u, {})
    BY <2>6 DEF Others, Same
  <2>10. \A x \in Message \ M : Mode(u, x)
    BY <2>9, SameMode DEF Fit, Others
  <2>11. Claimed(u, M)
    BY <1>1, <2>3, <2>4, <2>6 DEF Claimed, Claims
  <2>12. QED
    BY <2>3, <2>5, <2>6, <2>7, <2>8, <2>9, <2>10, <2>11 DEF Fit
<1>4. QED
  BY <1>2, <1>3

\* Changes of the status leave a record of the kernel.
LEMMA StatusTyped ==
  ASSUME NEW s \in KernelRecord, NEW f \in [Message -> Status],
         NEW u, u = [s EXCEPT !.fStatus = f]
  PROVE  u \in KernelRecord
BY Zenon DEF KernelRecord

LEMMA WokenTyped ==
  ASSUME NEW s \in KernelRecord, NEW f \in [Message -> Status], NEW r \in [Task -> Status],
         NEW b, b \subseteq Task, NEW u, u = [s EXCEPT !.result = r, !.blocked = b, !.fStatus = f]
  PROVE  u \in KernelRecord
BY Zenon DEF KernelRecord

\* A message in hand that nothing holds resumes its task, and is let go.
LEMMA WakeFits ==
  ASSUME NEW s, NEW M \in SUBSET Message, Fit(s, M), NEW m \in M, s.fNotify[m] \in Task,
         s.fContainer[m] = None, s.fTimer[m] = "no", s.fType[m] \notin Collector,
         s.fSignature[m] = 0, NEW err \in Status, NEW u, u = WakeTask(s, m, err)
  PROVE  Fit(u, M \ {m}) /\ Calm(s, u) /\ Others(s, u, {m}) /\ u.fStatus[m] # kInProgress
<1>1. s \in KernelRecord /\ Exact(s) /\ Timed(s) /\ Claimed(s, M) /\ Addressed(s) /\ Matched(s) /\ Held(s)
  BY DEF Fit
<1> DEFINE b == s.blocked \ {s.fNotify[m]}
           f == [s.fStatus EXCEPT ![m] = noErr]
           r == [s.result EXCEPT ![s.fNotify[m]] = err]
<1>2. /\ b \subseteq Task /\ f \in [Message -> Status] /\ r \in [Task -> Status]
      /\ f[m] = noErr /\ \A x \in Message \ {m} : f[x] = s.fStatus[x]
  <2>1. s.fStatus \in [Message -> Status] /\ s.blocked \subseteq Task /\ s.result \in [Task -> Status]
    BY <1>1 DEF KernelRecord
  <2>2. noErr \in Status
    BY DEF Status
  <2>3. QED
    BY <2>1, <2>2
<1>3. u = [s EXCEPT !.result = r, !.blocked = b, !.fStatus = f]
  BY <1>1 DEF WakeTask, KernelRecord
<1>4. \A t \in b : t \in s.blocked /\ t # s.fNotify[m]
  OBVIOUS
<1>5. \A t \in s.blocked : t # s.fNotify[m] => t \in b
  OBVIOUS
<1> HIDE DEF b, f, r
<1>6. u \in KernelRecord
  <2>1. b \subseteq Task /\ f \in [Message -> Status] /\ r \in [Task -> Status]
    BY <1>2
  <2>2. QED
    BY <1>1, <1>3, <2>1, WokenTyped
<1>7. /\ u.queue = s.queue /\ u.fContainer = s.fContainer /\ u.gTimerDeferred = s.gTimerDeferred
      /\ u.fStatus = f /\ u.fType = s.fType /\ u.fFilter = s.fFilter
      /\ u.fSignature = s.fSignature /\ u.fTimer = s.fTimer
      /\ u.fNotify = s.fNotify /\ u.fSequenceNo = s.fSequenceNo /\ u.sends = s.sends
      /\ u.tokens = s.tokens /\ u.blocked = b
      /\ u.gWantDeferred = s.gWantDeferred /\ u.ports = s.ports /\ u.msgs = s.msgs
  BY <1>1, <1>3 DEF KernelRecord
<1>8. f[m] # kInProgress
  BY <1>2 DEF noErr, kInProgress
<1>9. Exact(u) /\ Timed(u) /\ Addressed(u) /\ Matched(u) /\ Calm(s, u)
  BY <1>1, <1>7 DEF Exact, Timed, Addressed, Matched, Unmatched, Calm
<1>10. Held(u)
  <2>1. \A x \in s.tokens : x.msg \in Message
    <3>1. s.tokens \subseteq Token
      BY <1>1, Fields
    <3>2. QED
      BY <3>1 DEF Token
  <2>2. \A x \in Message : s.fStatus[x] # kInProgress => u.fStatus[x] # kInProgress
    BY <1>2, <1>7, <1>8
  <2>3. QED
    BY <1>1, <1>7, <2>1, <2>2 DEF Held, Signed, Ended
<1>11. Others(s, u, {m})
  BY <1>2, <1>7 DEF Others, Same
<1>12. \A x \in Message \ (M \ {m}) : Mode(u, x)
  <2>1. Mode(u, m)
    BY <1>7, <1>8 DEF Mode, Idle
  <2>2. \A x \in Message \ M : Mode(u, x)
    BY <1>11, SameMode DEF Fit, Others
  <2>3. QED
    BY <2>1, <2>2
<1>13. Claimed(u, M \ {m})
  <2>1. \A x \in Message : Claims(u, M \ {m}, x) <=> x # m /\ Claims(s, M, x)
    BY <1>2, <1>7, <1>8 DEF Claims
  <2>2. Claims(s, M, m)
    BY DEF Claims
  <2>3. \A t \in u.blocked : \E x \in Message : Claims(u, M \ {m}, x) /\ u.fNotify[x] = t
    <3>1. ASSUME NEW t \in b PROVE \E x \in Message : Claims(u, M \ {m}, x) /\ u.fNotify[x] = t
      <4>1. PICK x \in Message : Claims(s, M, x) /\ s.fNotify[x] = t
        BY <1>1, <1>4 DEF Claimed
      <4>2. x # m
        BY <1>4, <4>1
      <4>3. QED
        BY <1>7, <2>1, <4>1, <4>2
    <3>2. QED
      BY <1>7, <3>1
  <2>4. ASSUME NEW x \in Message \ (M \ {m}), u.fStatus[x] = kInProgress, u.fNotify[x] \in Task
        PROVE  u.fNotify[x] \in u.blocked
    <3>1. x # m /\ x \notin M /\ s.fStatus[x] = kInProgress
      BY <1>2, <1>7, <1>8, <2>4
    <3>2. s.fNotify[x] \in s.blocked
      BY <1>1, <1>7, <2>4, <3>1 DEF Claimed
    <3>3. s.fNotify[x] # s.fNotify[m]
      BY <1>1, <1>7, <2>2, <2>4, <3>1 DEF Claimed, Claims
    <3>4. QED
      BY <1>5, <1>7, <3>2, <3>3
  <2>5. \A x, n \in Message :
          Claims(u, M \ {m}, x) /\ Claims(u, M \ {m}, n) /\ u.fNotify[x] \in Task
            /\ u.fNotify[x] = u.fNotify[n] => x = n
    BY <1>1, <1>7, <2>1 DEF Claimed
  <2>6. QED
    BY <2>3, <2>4, <2>5 DEF Claimed
<1>14. QED
  BY <1>6, <1>7, <1>8, <1>9, <1>10, <1>11, <1>12, <1>13 DEF Fit

-----------------------------------------------------------------------------
(* completeMsg.                                                            *)

\* What Quiet leaves of m.
Quieted(s, u, m) ==
  /\ u.fContainer[m] = None /\ u.fTimer[m] = "no" /\ u.fType[m] = NoType /\ u.fSignature[m] = 0
  /\ u.fStatus = s.fStatus /\ u.fNotify = s.fNotify /\ u.blocked = s.blocked

LEMMA QuietFits ==
  ASSUME NEW s, NEW M \in SUBSET Message, Fit(s, M), NEW m \in M, NEW u, u = Quiet(s, m)
  PROVE  Fit(u, M) /\ Calm(s, u) /\ Others(s, u, {m}) /\ Quieted(s, u, m)
<1> DEFINE v == RemoveTimer(s, m)
           w == IF s.fContainer[m] = None THEN v ELSE RemoveFromQueue(v, s.fContainer[m], m)
<1>1. u = [w EXCEPT !.fType[m] = NoType, !.fSignature[m] = 0]
  BY DEF Quiet
<1>2. /\ Fit(v, M) /\ Calm(s, v) /\ Others(s, v, {m})
      /\ Text(s, v) /\ v.fContainer = s.fContainer /\ v.fTimer[m] = "no"
  BY TimerFits
<1> HIDE DEF v
<1>3. /\ Fit(w, M) /\ Calm(s, w) /\ Others(s, w, {m})
      /\ Text(s, w) /\ w.fContainer[m] = None /\ w.fTimer[m] = "no"
  <2>1. CASE s.fContainer[m] = None
    BY <1>2, <2>1
  <2>2. CASE s.fContainer[m] # None
    <3>1. s.fContainer[m] \in Queue
      BY <2>2, Fields DEF Fit
    <3>2. w = RemoveFromQueue(v, s.fContainer[m], m)
      BY <2>2
    <3> HIDE DEF w
    <3>3. /\ Fit(w, M) /\ Calm(v, w) /\ Others(v, w, {m})
          /\ Text(v, w) /\ w.fTimer = v.fTimer /\ w.fContainer[m] = None
      BY <1>2, <3>1, <3>2, TakeFits
    <3>4. Text(s, w)
      BY <1>2, <3>3 DEF Text
    <3>5. QED
      BY <1>2, <3>3, <3>4, CalmTrans, OthersTrans
  <2>3. QED
    BY <2>1, <2>2
<1> HIDE DEF w
<1>4. w \in KernelRecord
  BY <1>3 DEF Fit
<1> DEFINE y == [w.fType EXCEPT ![m] = NoType]
           g == [w.fSignature EXCEPT ![m] = 0]
<1>5. /\ y \in [Message -> Type \cup Collector \cup {NoType}] /\ g \in [Message -> Nat]
      /\ y[m] = NoType /\ g[m] = 0
      /\ \A x \in Message \ {m} : y[x] = w.fType[x] /\ g[x] = w.fSignature[x]
  BY <1>4, Fields
<1>6. u = [w EXCEPT !.fType = y, !.fSignature = g]
  BY <1>1, <1>4 DEF KernelRecord
<1> HIDE DEF y, g
<1>7. Turns(w, u, m)
  <2>1. u \in KernelRecord
    <3>1. y \in [Message -> Type \cup Collector \cup {NoType}] /\ g \in [Message -> Nat]
      BY <1>5
    <3>2. QED
      BY <1>4, <1>6, <3>1 DEF KernelRecord
  <2>2. QED
    BY <1>4, <1>5, <1>6, <2>1 DEF Turns, KernelRecord
<1>8. Fit(u, M) /\ Calm(w, u) /\ Others(w, u, {m})
  BY <1>3, <1>7, TurnFits
<1>9. u.fType = y /\ u.fSignature = g /\ u.fStatus = w.fStatus /\ u.fTimer = w.fTimer
  BY <1>4, <1>6 DEF KernelRecord
<1>10. Quieted(s, u, m)
  BY <1>3, <1>5, <1>7, <1>9 DEF Quieted, Turns, Text
<1>11. QED
  BY <1>3, <1>8, <1>10, CalmTrans, OthersTrans

\* A status that ends a message.
WithStatus(s, m, err) == [s EXCEPT !.fStatus[m] = err]

LEMMA StatusFits ==
  ASSUME NEW s, NEW M \in SUBSET Message, Fit(s, M), NEW m \in M, s.fContainer[m] = None,
         NEW err \in Status \ {kInProgress}, NEW u, u = WithStatus(s, m, err)
  PROVE  /\ Fit(u, M) /\ Calm(s, u) /\ Others(s, u, {m})
         /\ u.fStatus[m] = err /\ u.fContainer = s.fContainer /\ u.fTimer = s.fTimer
         /\ u.fType = s.fType /\ u.fSignature = s.fSignature
         /\ u.fNotify = s.fNotify /\ u.blocked = s.blocked
<1>1. s \in KernelRecord
  BY DEF Fit
<1> DEFINE f == [s.fStatus EXCEPT ![m] = err]
<1>2. f \in [Message -> Status] /\ f[m] = err /\ \A x \in Message \ {m} : f[x] = s.fStatus[x]
  BY <1>1, Fields
<1>3. u = [s EXCEPT !.fStatus = f]
  BY <1>1 DEF KernelRecord, WithStatus
<1> HIDE DEF f
<1>4. Turns(s, u, m)
  <2>1. u \in KernelRecord
    <3>1. f \in [Message -> Status]
      BY <1>2
    <3>2. QED
      BY <1>1, <1>3, <3>1, StatusTyped
  <2>2. QED
    <3>1. /\ u.fStatus = f /\ u.fContainer = s.fContainer /\ u.fTimer = s.fTimer
          /\ u.queue = s.queue /\ u.gTimerDeferred = s.gTimerDeferred
          /\ u.fType = s.fType /\ u.fFilter = s.fFilter /\ u.fSignature = s.fSignature
          /\ u.fNotify = s.fNotify /\ u.fSequenceNo = s.fSequenceNo /\ u.sends = s.sends
          /\ u.tokens = s.tokens /\ u.blocked = s.blocked
          /\ u.gWantDeferred = s.gWantDeferred /\ u.ports = s.ports /\ u.msgs = s.msgs
      BY <1>1, <1>3 DEF KernelRecord
    <3>2. QED
      BY <1>2, <2>1, <3>1 DEF Turns
<1>5. /\ u.fStatus = f /\ u.fContainer = s.fContainer /\ u.fTimer = s.fTimer
      /\ u.fType = s.fType /\ u.fSignature = s.fSignature
      /\ u.fNotify = s.fNotify /\ u.blocked = s.blocked
  BY <1>1, <1>3 DEF KernelRecord
<1>6. Fit(u, M) /\ Calm(s, u) /\ Others(s, u, {m})
  BY <1>4, TurnFits
<1>7. QED
  BY <1>2, <1>5, <1>6

\* The tokens change, and the new ones are good.
Answers(s, T) ==
  \A x \in T : x \in s.tokens \/ /\ x.sig # 0 => Signed(s, x)
                                 /\ x.sig = 0 /\ CollectedAtHome => Ended(s, x)

LEMMA TokensFit ==
  ASSUME NEW s, NEW M, Fit(s, M), NEW T, T \subseteq Token, Answers(s, T),
         NEW u, u = [s EXCEPT !.tokens = T]
  PROVE  /\ Fit(u, M) /\ Others(s, u, {})
         /\ s.tokens \subseteq T => Calm(s, u)
         /\ u.fStatus = s.fStatus /\ u.fNotify = s.fNotify /\ u.blocked = s.blocked
         /\ u.fType = s.fType /\ u.fContainer = s.fContainer /\ u.fTimer = s.fTimer
         /\ u.fSignature = s.fSignature /\ u.ports = s.ports /\ u.msgs = s.msgs
         /\ u.gWantDeferred = s.gWantDeferred /\ u.queue = s.queue
         /\ u.gTimerDeferred = s.gTimerDeferred /\ u.tokens = T
<1>1. s \in KernelRecord /\ Exact(s) /\ Timed(s) /\ Claimed(s, M) /\ Addressed(s) /\ Matched(s) /\ Held(s)
  BY DEF Fit
<1>2. u \in KernelRecord
  BY <1>1 DEF KernelRecord
<1>3. /\ u.queue = s.queue /\ u.fContainer = s.fContainer /\ u.gTimerDeferred = s.gTimerDeferred
      /\ u.fStatus = s.fStatus /\ u.fType = s.fType /\ u.fFilter = s.fFilter
      /\ u.fSignature = s.fSignature /\ u.fTimer = s.fTimer
      /\ u.fNotify = s.fNotify /\ u.fSequenceNo = s.fSequenceNo /\ u.sends = s.sends
      /\ u.tokens = T /\ u.blocked = s.blocked
      /\ u.gWantDeferred = s.gWantDeferred /\ u.ports = s.ports /\ u.msgs = s.msgs
  BY <1>1 DEF KernelRecord
<1>4. Exact(u) /\ Timed(u) /\ Addressed(u) /\ Matched(u)
  BY <1>1, <1>3 DEF Exact, Timed, Addressed, Matched, Unmatched
<1>5. Claimed(u, M)
  BY <1>1, <1>3 DEF Claimed, Claims
<1>6. Held(u)
  <2>1. \A x : (Signed(s, x) => Signed(u, x)) /\ (Ended(s, x) => Ended(u, x))
    BY <1>3 DEF Signed, Ended
  <2>2. QED
    BY <1>1, <1>3, <2>1 DEF Held, Answers
<1>7. Others(s, u, {})
  BY <1>3 DEF Others, Same
<1>8. \A x \in Message \ M : Mode(u, x)
  BY <1>7, SameMode DEF Fit, Others
<1>9. s.tokens \subseteq T => Calm(s, u)
  BY <1>3 DEF Calm
<1>10. QED
  BY <1>2, <1>3, <1>4, <1>5, <1>6, <1>7, <1>8, <1>9 DEF Fit

\* Nobody is stopped who is no task.
LEMMA NotStopped ==
  ASSUME NEW s, NEW M, Fit(s, M)
  PROVE  s.blocked \subseteq Task
BY Fields DEF Fit

LEMMA OthersMore ==
  ASSUME NEW s, NEW u, NEW X, NEW Y, X \subseteq Y, Others(s, u, X)
  PROVE  Others(s, u, Y)
BY DEF Others

\* A message that is ended while another is: the recursion stops here.
LEMMA NestedFits ==
  ASSUME NEW s, NEW M \in SUBSET Message, Fit(s, M), NEW m \in M,
         NEW err \in Status \ {kInProgress}, NEW u, u = CompleteNested(s, m, err)
  PROVE  Fit(u, M \ {m}) /\ Calm(s, u) /\ Others(s, u, {m})
<1> DEFINE v == Quiet(s, m)
<1>1. Fit(v, M) /\ Calm(s, v) /\ Others(s, v, {m}) /\ Quieted(s, v, m)
  BY QuietFits
<1>2. s.fNotify[m] = None \/ s.fNotify[m] \in Task \/ s.fNotify[m] \in Port
  BY Fields DEF Fit
<1>3. u = IF s.fNotify[m] = None THEN [v EXCEPT !.fStatus[m] = err]
          ELSE IF s.fNotify[m] \in Task THEN WakeTask(v, m, err)
          ELSE [v EXCEPT !.fStatus[m] = IF s.fNotify[m] \in s.ports
                                        THEN "kOSErrNestedCollection"
                                        ELSE "kOSErrBadObjectId"]
  BY DEF CompleteNested
<1> HIDE DEF v
<1>4. NoType \notin Collector
  BY DEF NoType, Collector, CollectedSender, CollectedReceiver
<1>5. CASE s.fNotify[m] \in Task
  <2>1. u = WakeTask(v, m, err)
    BY <1>3, <1>5, Parties
  <2>2. Fit(u, M \ {m}) /\ Calm(v, u) /\ Others(v, u, {m})
    BY <1>1, <1>4, <1>5, <2>1, WakeFits DEF Quieted
  <2>3. QED
    BY <1>1, <2>2, CalmTrans, OthersTrans
<1>6. CASE s.fNotify[m] \notin Task
  <2>1. PICK e \in Status \ {kInProgress} : u = WithStatus(v, m, e)
    <3>1. {"kOSErrNestedCollection", "kOSErrBadObjectId"} \subseteq Status \ {kInProgress}
      BY DEF Status, kInProgress, noErr
    <3>2. QED
      BY <1>3, <1>6, <3>1 DEF WithStatus
  <2>2. v.fContainer[m] = None
    BY <1>1 DEF Quieted
  <2>3. /\ Fit(u, M) /\ Calm(v, u) /\ Others(v, u, {m})
        /\ u.fStatus[m] = e /\ u.fContainer = v.fContainer /\ u.fTimer = v.fTimer
        /\ u.fType = v.fType /\ u.fSignature = v.fSignature
        /\ u.fNotify = v.fNotify /\ u.blocked = v.blocked
    BY <1>1, <2>2, <2>1, StatusFits
  <2>4. Mode(u, m) /\ u.fStatus[m] # kInProgress
    BY <1>1, <1>4, <2>3 DEF Quieted, Mode, Idle
  <2>5. u.fNotify[m] \notin u.blocked
    BY <1>1, <1>6, <2>3, NotStopped DEF Quieted
  <2>6. Fit(u, M \ {m})
    BY <2>3, <2>4, <2>5, Closes
  <2>7. QED
    BY <1>1, <2>3, <2>6, CalmTrans, OthersTrans
<1>7. QED
  BY <1>5, <1>6

-----------------------------------------------------------------------------
(* Who is told what.  b is the record that a step begins with.             *)

\* Only a send is deferred or delayed, and then without a timeout; who waits in a port to
\* receive is not sent; and no sender has a timeout.
Roles(s) ==
  \A m \in Message :
    /\ ~s.f0080[m]
    /\ s.fContainer[m] = gDeferredSends \/ s.fTimer[m] = "Delay" => s.fTimeout[m] # Finite
    /\ \A p \in Port : s.fContainer[m] = fReceivers(p) => s.fType[m] \notin Type

\* The task of m, or whoever looks at its status, is told of an error.
Failed(s, m) ==
  /\ s.fStatus[m] # kInProgress
  /\ IF s.fNotify[m] \in Task
     THEN s.result[s.fNotify[m]] # noErr /\ s.fNotify[m] \notin s.blocked
     ELSE s.fStatus[m] # noErr

\* A send that has ended since b was with a receiver in b, or has failed.
Told(b, s) ==
  \A m \in Message : Sending(b, m) => InReply(b, m) \/ Sending(s, m) \/ Failed(s, m)

Said(b, s) == Roles(s) /\ Told(b, s)

\* the same of all but m, which is in the hand
SaidBut(b, s, m) ==
  Roles(s) /\ \A x \in Message \ {m} :
                Sending(b, x) => InReply(b, x) \/ Sending(s, x) \/ Failed(s, x)

Tells(s, u) == \A b : Said(b, s) => Said(b, u)

\* No other message has told the task of m that it has failed,
Clear(b, s, m) ==
  s.fNotify[m] \in Task =>
    \A x \in Message \ {m} : Sending(b, x) /\ Failed(s, x) => s.fNotify[x] # s.fNotify[m]

\* and m may be told err.
Due(b, s, m, err) ==
  /\ Clear(b, s, m)
  /\ Sending(b, m) => InReply(b, m) \/ err # noErr

\* All that they speak of is as it was,
Voice(s, u) ==
  /\ u.fStatus = s.fStatus /\ u.fType = s.fType /\ u.fNotify = s.fNotify
  /\ u.result = s.result /\ u.blocked = s.blocked
  /\ u.f0080 = s.f0080 /\ u.fTimeout = s.fTimeout

\* or all but what is said of m, which is in the hand.
Changes(s, u, m) ==
  /\ u.fNotify = s.fNotify /\ u.f0080 = s.f0080 /\ u.fTimeout = s.fTimeout
  /\ u.blocked \subseteq s.blocked
  /\ \A t \in Task : u.result[t] = s.result[t] \/ t = s.fNotify[m]
  /\ \A x \in Message \ {m} :
       /\ u.fStatus[x] = s.fStatus[x] /\ u.fType[x] = s.fType[x]
       /\ u.fContainer[x] = s.fContainer[x] /\ u.fTimer[x] = s.fTimer[x]
  /\ u.fContainer[m] = None /\ u.fTimer[m] # "Delay"

LEMMA SaidMore ==
  ASSUME NEW b, NEW s, Said(b, s), NEW m
  PROVE  SaidBut(b, s, m)
BY DEF Said, Told, SaidBut

\* Who has failed depends on these.
LEMMA DueKeeps ==
  ASSUME NEW s, NEW u, u.fStatus = s.fStatus, u.fNotify = s.fNotify, u.result = s.result,
         u.blocked = s.blocked, NEW b, NEW m
  PROVE  /\ Clear(b, s, m) => Clear(b, u, m)
         /\ \A err : Due(b, s, m, err) => Due(b, u, m, err)
<1>1. \A x : Failed(u, x) <=> Failed(s, x)
  BY DEF Failed
<1>2. Clear(b, s, m) => Clear(b, u, m)
  BY <1>1 DEF Clear
<1>3. QED
  BY <1>2 DEF Due

LEMMA VoiceTold ==
  ASSUME NEW s, NEW u, Voice(s, u), NEW b
  PROVE  /\ Told(b, s) => Told(b, u)
         /\ \A m : Clear(b, s, m) => Clear(b, u, m)
         /\ \A m, err : Due(b, s, m, err) => Due(b, u, m, err)
<1>1. \A x : Failed(u, x) <=> Failed(s, x)
  BY DEF Voice, Failed
<1>2. \A x : Sending(u, x) <=> Sending(s, x)
  BY DEF Voice, Sending
<1>3. QED
  BY <1>1, <1>2, DueKeeps DEF Told, Voice

\* What a change of m comes to.
LEMMA ChangeSays ==
  ASSUME NEW s, NEW u, NEW m \in Message, Changes(s, u, m), NEW b, SaidBut(b, s, m),
         Clear(b, s, m) \/ u.result = s.result,
         Sending(b, m) => InReply(b, m) \/ Failed(u, m)
  PROVE  Said(b, u)
<1>1. Roles(u)
  <2>1. u.f0080 = s.f0080 /\ u.fTimeout = s.fTimeout
    BY DEF Changes
  <2>2. ASSUME NEW x \in Message
        PROVE  /\ ~u.f0080[x]
               /\ u.fContainer[x] = gDeferredSends \/ u.fTimer[x] = "Delay" => u.fTimeout[x] # Finite
               /\ \A p \in Port : u.fContainer[x] = fReceivers(p) => u.fType[x] \notin Type
    <3>1. CASE x = m
      BY <2>1, <3>1, QueueNames DEF SaidBut, Roles, Changes
    <3>2. CASE x # m
      <4>1. /\ u.fContainer[x] = s.fContainer[x] /\ u.fTimer[x] = s.fTimer[x]
            /\ u.fType[x] = s.fType[x]
        BY <3>2 DEF Changes
      <4>2. QED
        BY <2>1, <4>1 DEF SaidBut, Roles
    <3>3. QED
      BY <3>1, <3>2
  <2>3. QED
    BY <2>2 DEF Roles
<1>2. ASSUME NEW x \in Message, Sending(b, x), ~InReply(b, x)
      PROVE  Sending(u, x) \/ Failed(u, x)
  <2>1. CASE x = m
    BY <1>2, <2>1
  <2>2. CASE x # m
    <3>1. u.fStatus[x] = s.fStatus[x] /\ u.fType[x] = s.fType[x] /\ u.fNotify[x] = s.fNotify[x]
      BY <2>2 DEF Changes
    <3>2. CASE Sending(s, x)
      BY <3>1, <3>2 DEF Sending
    <3>3. CASE Failed(s, x)
      <4>1. CASE s.fNotify[x] \in Task
        <5>1. u.result[s.fNotify[x]] = s.result[s.fNotify[x]]
          BY <1>2, <2>2, <3>3, <4>1 DEF Changes, Clear
        <5>2. s.fNotify[x] \notin u.blocked
          BY <3>3, <4>1 DEF Changes, Failed
        <5>3. QED
          BY <3>1, <3>3, <4>1, <5>1, <5>2 DEF Failed
      <4>2. CASE s.fNotify[x] \notin Task
        BY <3>1, <3>3, <4>2 DEF Failed
      <4>3. QED
        BY <4>1, <4>2
    <3>4. QED
      BY <1>2, <2>2, <3>2, <3>3 DEF SaidBut
  <2>3. QED
    BY <2>1, <2>2
<1>3. QED
  BY <1>1, <1>2 DEF Said, Told

\* Moves between queues say nothing, where m is no receiver and no send with a timeout.
Moved(s, u) == Voice(s, u) /\ u.fTimer = s.fTimer /\ Tells(s, u)

LEMMA RemoveSays ==
  ASSUME NEW s \in KernelRecord, NEW m \in Message, NEW c \in Queue,
         NEW u, u = RemoveFromQueue(s, c, m)
  PROVE  Moved(s, u)
<1>1. Voice(s, u) /\ u.fTimer = s.fTimer
  BY DEF RemoveFromQueue, Voice, KernelRecord
<1>2. \A x \in Message : u.fContainer[x] \in {None, s.fContainer[x]}
  <2>1. CASE u = s
    BY <2>1
  <2>2. CASE u = [s EXCEPT !.queue[c] = Without[@][m], !.fContainer[m] = None]
    BY <2>2 DEF KernelRecord
  <2>3. QED
    BY <2>1, <2>2 DEF RemoveFromQueue
<1>3. Roles(s) => Roles(u)
  BY <1>1, <1>2, QueueNames DEF Roles, Voice
<1>4. QED
  BY <1>1, <1>3, VoiceTold DEF Moved, Tells, Said

LEMMA AddSays ==
  ASSUME NEW s \in KernelRecord, NEW m \in Message, NEW c \in Queue,
         c = gDeferredSends => s.fTimeout[m] # Finite,
         \A p \in Port : c = fReceivers(p) => s.fType[m] \notin Type,
         NEW u, u \in {Add(s, c, m), AddToFront(s, c, m)}
  PROVE  Moved(s, u)
<1>1. Voice(s, u) /\ u.fTimer = s.fTimer
  BY DEF Add, AddToFront, Voice, KernelRecord
<1>2. \A x \in Message : u.fContainer[x] = IF x = m THEN c ELSE s.fContainer[x]
  <2>1. u.fContainer = [s.fContainer EXCEPT ![m] = c]
    BY DEF Add, AddToFront, KernelRecord
  <2>2. DOMAIN s.fContainer = Message
    BY DEF KernelRecord
  <2>3. QED
    BY <2>1, <2>2
<1>3. Roles(s) => Roles(u)
  BY <1>1, <1>2, QueueNames DEF Roles, Voice
<1>4. QED
  BY <1>1, <1>3, VoiceTold DEF Moved, Tells, Said

LEMMA TimerSays ==
  ASSUME NEW s \in KernelRecord, NEW m \in Message, NEW u, u = RemoveTimer(s, m)
  PROVE  Voice(s, u) /\ Tells(s, u)
<1>1. Voice(s, u) /\ u.fContainer = s.fContainer
  BY DEF RemoveTimer, Voice, KernelRecord
<1>2. \A x \in Message : u.fTimer[x] \in {"no", s.fTimer[x]}
  BY DEF RemoveTimer, KernelRecord
<1>3. Roles(s) => Roles(u)
  BY <1>1, <1>2 DEF Roles, Voice
<1>4. QED
  BY <1>1, <1>3, VoiceTold DEF Tells, Said

\* A message is quiet, and what is said of it is what it was.
Hushed(s, u, m) ==
  /\ u.fStatus = s.fStatus /\ u.fNotify = s.fNotify /\ u.f0080 = s.f0080
  /\ u.fTimeout = s.fTimeout /\ u.result = s.result /\ u.blocked = s.blocked
  /\ u.ports = s.ports
  /\ u.fContainer[m] = None /\ u.fTimer[m] = "no"
  /\ \A x \in Message \ {m} :
       /\ u.fType[x] = s.fType[x]
       /\ u.fContainer[x] = s.fContainer[x] /\ u.fTimer[x] = s.fTimer[x]

LEMMA QuietHushes ==
  ASSUME NEW s, NEW M \in SUBSET Message, Fit(s, M), NEW m \in M, NEW u, u = Quiet(s, m)
  PROVE  Hushed(s, u, m) /\ u \in KernelRecord
<1>1. Fit(u, M) /\ Calm(s, u) /\ Others(s, u, {m}) /\ Quieted(s, u, m)
  BY QuietFits
<1>2. s \in KernelRecord
  BY DEF Fit
<1>3. u.f0080 = s.f0080 /\ u.fTimeout = s.fTimeout /\ u.result = s.result
  BY <1>2 DEF Quiet, RemoveTimer, RemoveFromQueue, KernelRecord
<1>4. QED
  BY <1>1, <1>3 DEF Hushed, Quieted, Others, Same, Calm, Fit

\* What is told when a message ends: to its task,
LEMMA WakeSays ==
  ASSUME NEW s \in KernelRecord, NEW v \in KernelRecord, NEW m \in Message, Hushed(s, v, m),
         s.fNotify[m] \in Task, NEW err \in Status \ {kInProgress}, NEW u, u = WakeTask(v, m, err)
  PROVE  \A b : SaidBut(b, s, m) /\ Due(b, s, m, err) => Said(b, u)
<1>1. /\ v.result \in [Task -> Status] /\ v.fStatus \in [Message -> Status]
      /\ v.fNotify[m] = s.fNotify[m]
  BY DEF KernelRecord, Hushed
<1>2. /\ u.result = [v.result EXCEPT ![v.fNotify[m]] = err]
      /\ u.blocked = v.blocked \ {v.fNotify[m]} /\ u.fStatus = [v.fStatus EXCEPT ![m] = noErr]
      /\ u.fNotify = v.fNotify /\ u.f0080 = v.f0080 /\ u.fTimeout = v.fTimeout
      /\ u.fType = v.fType /\ u.fContainer = v.fContainer /\ u.fTimer = v.fTimer
  BY DEF WakeTask, KernelRecord
<1>3. Changes(s, u, m)
  BY <1>1, <1>2 DEF Changes, Hushed
<1>4. err # noErr => Failed(u, m)
  BY <1>1, <1>2 DEF Failed, Status, kInProgress, noErr
<1>5. QED
  BY <1>3, <1>4, ChangeSays DEF Due

LEMMA StatusIs ==
  ASSUME NEW v \in KernelRecord, NEW m \in Message, NEW e \in Status,
         NEW w, w = WithStatus(v, m, e)
  PROVE  /\ w \in KernelRecord
         /\ w.result = v.result /\ w.blocked = v.blocked /\ w.fStatus = [v.fStatus EXCEPT ![m] = e]
         /\ w.fNotify = v.fNotify /\ w.f0080 = v.f0080 /\ w.fTimeout = v.fTimeout
         /\ w.fContainer = v.fContainer /\ w.fTimer = v.fTimer /\ w.fType = v.fType
<1> DEFINE f == [v.fStatus EXCEPT ![m] = e]
<1>1. f \in [Message -> Status]
  BY Fields
<1>2. w = [v EXCEPT !.fStatus = f]
  BY DEF KernelRecord, WithStatus
<1> HIDE DEF f
<1>3. w \in KernelRecord
  BY <1>1, <1>2, StatusTyped
<1>4. /\ w.result = v.result /\ w.blocked = v.blocked /\ w.fStatus = f
      /\ w.fNotify = v.fNotify /\ w.f0080 = v.f0080 /\ w.fTimeout = v.fTimeout
      /\ w.fContainer = v.fContainer /\ w.fTimer = v.fTimer /\ w.fType = v.fType
  BY <1>2 DEF KernelRecord
<1>5. QED
  BY <1>3, <1>4 DEF f

\* or to whoever looks at its status,
LEMMA StatusSays ==
  ASSUME NEW s \in KernelRecord, NEW v \in KernelRecord, NEW m \in Message, Hushed(s, v, m),
         s.fNotify[m] \notin Task, NEW err, NEW e \in Status \ {kInProgress},
         err = noErr \/ e # noErr,
         NEW u,
         \/ u = WithStatus(v, m, e)
         \/ \E type : u = [WithStatus(v, m, e) EXCEPT !.fType[m] = type]
  PROVE  \A b : SaidBut(b, s, m) /\ Due(b, s, m, err) => Said(b, u)
<1>1. v.fStatus \in [Message -> Status] /\ DOMAIN v.fType = Message
  BY DEF KernelRecord
<1>2. /\ u.result = v.result /\ u.blocked = v.blocked /\ u.fStatus = [v.fStatus EXCEPT ![m] = e]
      /\ u.fNotify = v.fNotify /\ u.f0080 = v.f0080 /\ u.fTimeout = v.fTimeout
      /\ u.fContainer = v.fContainer /\ u.fTimer = v.fTimer
      /\ \A x \in Message \ {m} : u.fType[x] = v.fType[x]
  <2> DEFINE w == WithStatus(v, m, e)
  <2>1. /\ w \in KernelRecord
        /\ w.result = v.result /\ w.blocked = v.blocked /\ w.fStatus = [v.fStatus EXCEPT ![m] = e]
        /\ w.fNotify = v.fNotify /\ w.f0080 = v.f0080 /\ w.fTimeout = v.fTimeout
        /\ w.fContainer = v.fContainer /\ w.fTimer = v.fTimer /\ w.fType = v.fType
    BY StatusIs
  <2>2. u = w \/ \E type : u = [w EXCEPT !.fType[m] = type]
    OBVIOUS
  <2> HIDE DEF w
  <2>3. ASSUME NEW type, u = [w EXCEPT !.fType[m] = type]
        PROVE  /\ u.result = w.result /\ u.blocked = w.blocked /\ u.fStatus = w.fStatus
               /\ u.fNotify = w.fNotify /\ u.f0080 = w.f0080 /\ u.fTimeout = w.fTimeout
               /\ u.fContainer = w.fContainer /\ u.fTimer = w.fTimer
               /\ \A x \in Message \ {m} : u.fType[x] = w.fType[x]
    BY <2>1, <2>3 DEF KernelRecord
  <2>4. QED
    BY <2>1, <2>2, <2>3
<1>3. Changes(s, u, m)
  BY <1>1, <1>2 DEF Changes, Hushed
<1>4. e # noErr => Failed(u, m)
  BY <1>1, <1>2 DEF Failed, Hushed
<1>5. QED
  BY <1>3, <1>4, ChangeSays DEF Due

\* A message that is ended while another is.
LEMMA NestedSays ==
  ASSUME NEW s, NEW M \in SUBSET Message, Fit(s, M), NEW m \in M,
         NEW err \in Status \ {kInProgress}, NEW u, u = CompleteNested(s, m, err)
  PROVE  \A b : Said(b, s) /\ Due(b, s, m, err) => Said(b, u)
<1> DEFINE v == Quiet(s, m)
<1>1. Hushed(s, v, m) /\ v \in KernelRecord /\ s \in KernelRecord
  BY QuietHushes DEF Fit
<1>2. u = IF s.fNotify[m] = None THEN WithStatus(v, m, err)
          ELSE IF s.fNotify[m] \in Task THEN WakeTask(v, m, err)
          ELSE WithStatus(v, m, IF s.fNotify[m] \in s.ports THEN "kOSErrNestedCollection"
                                ELSE "kOSErrBadObjectId")
  BY DEF CompleteNested, WithStatus
<1> HIDE DEF v
<1>3. CASE s.fNotify[m] \in Task
  <2>1. u = WakeTask(v, m, err)
    BY <1>2, <1>3, Parties
  <2>2. QED
    BY <1>1, <1>3, <2>1, WakeSays, SaidMore
<1>4. CASE s.fNotify[m] \notin Task
  <2>1. PICK e \in Status \ {kInProgress} : u = WithStatus(v, m, e) /\ (e = err \/ e # noErr)
    <3>1. {"kOSErrNestedCollection", "kOSErrBadObjectId"} \subseteq Status \ {kInProgress, noErr}
      BY DEF Status, kInProgress, noErr
    <3>2. QED
      BY <1>2, <1>4, <3>1
  <2>2. err = noErr \/ e # noErr
    BY <2>1
  <2>3. \A b : SaidBut(b, s, m) /\ Due(b, s, m, err) => Said(b, u)
    BY <1>1, <1>4, <2>1, <2>2, StatusSays
  <2>4. QED
    BY <2>3, SaidMore
<1>5. QED
  BY <1>3, <1>4

\* A message that is not sent is taken back, or has ended and loses its type.
LEMMA RefuseSays ==
  ASSUME NEW s \in KernelRecord, NEW m \in Message, s.fContainer[m] = None, s.fTimer[m] = "no",
         NEW e \in Status \ {kInProgress}, NEW u, u = WithStatus(s, m, e),
         NEW b, Said(b, s), ~Sending(b, m)
  PROVE  Said(b, u) /\ (Clear(b, s, m) => Due(b, u, m, noErr))
<1>1. /\ u.result = s.result /\ u.blocked = s.blocked
      /\ \A x \in Message \ {m} : u.fStatus[x] = s.fStatus[x]
      /\ u.fNotify = s.fNotify /\ u.f0080 = s.f0080 /\ u.fTimeout = s.fTimeout
      /\ u.fType = s.fType /\ u.fContainer = s.fContainer /\ u.fTimer = s.fTimer
  BY DEF WithStatus, KernelRecord
<1>2. Changes(s, u, m)
  BY <1>1 DEF Changes
<1>3. Said(b, u)
  BY <1>1, <1>2, ChangeSays, SaidMore
<1>4. \A x \in Message \ {m} : Failed(u, x) <=> Failed(s, x)
  BY <1>1 DEF Failed
<1>5. QED
  BY <1>1, <1>3, <1>4 DEF Clear, Due

LEMMA UntypeSays ==
  ASSUME NEW s, NEW m \in Message, s.fStatus[m] # kInProgress,
         s.fContainer[m] = None, s.fTimer[m] = "no", NEW u,
         u.result = s.result, u.blocked = s.blocked, u.fStatus = s.fStatus,
         u.fNotify = s.fNotify, u.f0080 = s.f0080, u.fTimeout = s.fTimeout,
         u.fContainer = s.fContainer, u.fTimer = s.fTimer,
         \A x \in Message \ {m} : u.fType[x] = s.fType[x]
  PROVE  \A b : Said(b, s) => Said(b, u)
<1>1. Changes(s, u, m)
  BY DEF Changes
<1>2. Failed(s, m) => Failed(u, m)
  BY DEF Failed
<1>3. \A b : Said(b, s) => (Sending(b, m) => InReply(b, m) \/ Failed(u, m))
  BY <1>2 DEF Said, Told, Sending
<1>4. QED
  BY <1>1, <1>3, ChangeSays, SaidMore

\* A task is stopped that has not been told anything.
LEMMA BlockSays ==
  ASSUME NEW s \in KernelRecord, NEW m \in Message, NEW u, u = Block(s, m),
         NEW b, Said(b, s), Clear(b, s, m), ~Sending(b, m) \/ Sending(s, m)
  PROVE  Said(b, u)
<1>1. /\ u.fStatus = s.fStatus /\ u.fType = s.fType /\ u.fNotify = s.fNotify
      /\ u.result = s.result /\ u.f0080 = s.f0080 /\ u.fTimeout = s.fTimeout
      /\ u.fContainer = s.fContainer /\ u.fTimer = s.fTimer
      /\ u.blocked = s.blocked \/ (/\ s.fNotify[m] \in Task
                                  /\ u.blocked = s.blocked \cup {s.fNotify[m]})
  BY DEF Block, KernelRecord
<1>2. Roles(u)
  BY <1>1 DEF Said, Roles
<1>3. ASSUME NEW x \in Message, Sending(b, x), Failed(s, x)
      PROVE  Sending(u, x) \/ Failed(u, x)
  <2>1. CASE x = m
    BY <1>1, <1>3, <2>1 DEF Sending
  <2>2. CASE x # m
    <3>1. s.fNotify[m] \in Task => s.fNotify[x] # s.fNotify[m]
      BY <1>3, <2>2 DEF Clear
    <3>2. QED
      BY <1>1, <1>3, <3>1 DEF Failed
  <2>3. QED
    BY <2>1, <2>2
<1>4. \A x \in Message : Sending(s, x) => Sending(u, x)
  BY <1>1 DEF Sending
<1>5. QED
  BY <1>2, <1>3, <1>4 DEF Said, Told

\* A receiver has a timeout.
LEMMA TimeoutSays ==
  ASSUME NEW s \in KernelRecord, NEW m \in Message, NEW u, u = StartTimeout(s, m)
  PROVE  Voice(s, u) /\ Tells(s, u)
<1>1. Voice(s, u) /\ u.fContainer = s.fContainer
  BY DEF StartTimeout, Voice, KernelRecord
<1>2. \A x \in Message : u.fTimer[x] \in {"Timeout", s.fTimer[x]}
  BY DEF StartTimeout, KernelRecord
<1>3. Roles(s) => Roles(u)
  BY <1>1, <1>2 DEF Roles, Voice
<1>4. QED
  BY <1>1, <1>3, VoiceTold DEF Tells, Said

\* A call has begun with m, which was not sent, and nobody else has told its task.
Started(b, s, m) == Said(b, s) /\ Clear(b, s, m) /\ ~Sending(b, m)

\* r collects m, which has ended and waits nowhere any more.
Collectable(s, m) ==
  /\ s.fStatus[m] # kInProgress /\ s.fNotify[m] \notin Task
  /\ s.fContainer[m] = None /\ s.fTimer[m] = "no" /\ s.fSignature[m] = 0

AtHome(r, m) == CollectedAtHome => Owner[r] = Owner[m] /\ m \notin Interrupting

LEMMA CollectFits ==
  ASSUME NEW s, NEW M \in SUBSET Message, Fit(s, M), NEW m \in M, NEW r \in M, r # m,
         Collectable(s, m), AtHome(r, m), NEW u, u = Collect(s, r, m)
  PROVE  /\ Fit(u, M \ {m, r}) /\ Calm(s, u) /\ Others(s, u, {m, r})
         /\ \A b : Said(b, s) /\ Due(b, s, r, noErr) => Said(b, u)
<1> DEFINE x == [msg |-> m, sig |-> 0, rcvr |-> r, nth |-> s.sends[m]]
           T == s.tokens \cup {x}
           y == [s.fType EXCEPT ![m] = NoType]
           v == [s EXCEPT !.fType = y]
           w == [v EXCEPT !.tokens = T]
<1>1. s \in KernelRecord
  BY DEF Fit
<1>2. x \in Token /\ T \subseteq Token /\ x.sig = 0 /\ x.msg = m /\ x.rcvr = r
  <2>1. s.sends[m] \in Nat /\ s.tokens \subseteq Token
    BY <1>1, Fields
  <2>2. x \in Token
    BY <2>1 DEF Token
  <2>3. QED
    BY <2>1, <2>2
<1>3. /\ y \in [Message -> Type \cup Collector \cup {NoType}] /\ y[m] = NoType
      /\ \A z \in Message \ {m} : y[z] = s.fType[z]
  BY <1>1, Fields
<1>4. u = CompleteNested(w, r, noErr)
  <2>1. w = [s EXCEPT !.fType[m] = NoType, !.tokens = @ \cup {x}]
    BY <1>1 DEF KernelRecord
  <2>2. QED
    BY <2>1 DEF Collect
<1> HIDE DEF x, y
<1>5. v \in KernelRecord
  BY <1>1, <1>3 DEF KernelRecord
<1>6. v.fType = y /\ v.tokens = s.tokens
  BY <1>1 DEF KernelRecord
<1>7. Turns(s, v, m)
  BY <1>1, <1>3, <1>5 DEF Turns, KernelRecord
<1> HIDE DEF v
<1>8. Fit(v, M) /\ Calm(s, v) /\ Others(s, v, {m})
  BY <1>7, TurnFits DEF Collectable
<1>9. /\ v.fStatus[m] # kInProgress /\ v.fContainer[m] = None /\ v.fTimer[m] = "no"
      /\ v.fSignature[m] = 0 /\ v.fNotify = s.fNotify
  <2>1. v.fStatus = s.fStatus /\ v.fTimer = s.fTimer /\ v.fSignature = s.fSignature
    BY <1>1 DEF v, KernelRecord
  <2>2. QED
    BY <1>7, <2>1 DEF Turns, Collectable
<1>10. CollectedAtHome => Ended(v, x)
  BY <1>2, <1>9 DEF Ended, AtHome
<1> HIDE DEF w
<1>11. Answers(v, T)
  BY <1>2, <1>6, <1>10 DEF Answers
<1>12. w = [v EXCEPT !.tokens = T] /\ v.tokens \subseteq T
  BY <1>6 DEF w
<1> HIDE DEF T
<1>13. /\ Fit(w, M) /\ Others(v, w, {}) /\ Calm(v, w)
       /\ w.fStatus = v.fStatus /\ w.fNotify = v.fNotify /\ w.blocked = v.blocked
       /\ w.fType = v.fType /\ w.fContainer = v.fContainer /\ w.fTimer = v.fTimer
       /\ w.fSignature = v.fSignature
  BY <1>2, <1>8, <1>11, <1>12, TokensFit
<1>14. NoType \notin Collector
  BY DEF NoType, Collector, CollectedSender, CollectedReceiver
<1>15. Mode(w, m) /\ w.fStatus[m] # kInProgress
  BY <1>3, <1>6, <1>9, <1>13, <1>14 DEF Mode, Idle
<1>16. w.fNotify[m] \notin w.blocked
  BY <1>9, <1>13, NotStopped DEF Collectable
<1>17. Fit(w, M \ {m})
  BY <1>13, <1>15, <1>16, Closes
<1>18. noErr \in Status \ {kInProgress}
  BY DEF Status, kInProgress, noErr
<1>19. Fit(u, (M \ {m}) \ {r}) /\ Calm(w, u) /\ Others(w, u, {r})
  BY <1>4, <1>17, <1>18, NestedFits
<1>20. (M \ {m}) \ {r} = M \ {m, r}
  OBVIOUS
<1>21. Others(s, v, {m, r}) /\ Others(v, w, {m, r}) /\ Others(w, u, {m, r})
  BY <1>8, <1>13, <1>19, OthersMore
<1>22. Fit(u, M \ {m, r}) /\ Calm(s, u) /\ Others(s, u, {m, r})
  BY <1>8, <1>13, <1>19, <1>20, <1>21, CalmTrans, OthersTrans
<1>23. \A b : (Said(b, s) => Said(b, w)) /\ (Due(b, s, r, noErr) => Due(b, w, r, noErr))
  <2>1. /\ w.result = s.result /\ w.blocked = s.blocked /\ w.fStatus = s.fStatus
        /\ w.fNotify = s.fNotify /\ w.f0080 = s.f0080 /\ w.fTimeout = s.fTimeout
        /\ w.fContainer = s.fContainer /\ w.fTimer = s.fTimer /\ w.fType = y
    BY <1>1 DEF w, v, KernelRecord
  <2>2. QED
    BY <1>3, <2>1, UntypeSays, DueKeeps DEF Collectable
<1>24. \A b : Said(b, w) /\ Due(b, w, r, noErr) => Said(b, u)
  <2>1. r \in M \ {m} /\ M \ {m} \in SUBSET Message
    OBVIOUS
  <2>2. QED
    BY <1>4, <1>17, <1>18, <2>1, NestedSays
<1>25. QED
  BY <1>22, <1>23, <1>24

\* The receiver that gets a message, if there is one.
LEMMA WantingIs ==
  ASSUME NEW s \in KernelRecord, Exact(s), NEW p \in Port, NEW m \in Message,
         NEW r, r = Wanting(s, p, m)
  PROVE  /\ r = None => \A x \in Message : s.fContainer[x] = fReceivers(p) => s.fType[m] \notin s.fFilter[x]
         /\ r # None => r \in Message /\ s.fContainer[r] = fReceivers(p) /\ s.fType[m] \in s.fFilter[r]
<1> DEFINE S == {x \in Message : s.fType[m] \in s.fFilter[x]}
           q == s.queue[fReceivers(p)]
<1>1. fReceivers(p) \in Queue /\ q \in Seq(Message) /\ S \in SUBSET Message
  BY Fields, QueueNames
<1>2. r = FirstIn[q][S]
  BY DEF Wanting
<1>3. \A x \in Message : x \in ToSet(q) <=> s.fContainer[x] = fReceivers(p)
  BY <1>1 DEF Exact
<1>4. ToSet(q) \subseteq Message
  BY <1>1, QueueElements
<1>5. \A x \in Message : x \in S <=> s.fType[m] \in s.fFilter[x]
  OBVIOUS
<1> HIDE DEF S, q
<1>6. /\ r = None <=> ToSet(q) \cap S = {}
      /\ r # None => r \in ToSet(q) \cap S
  BY <1>1, <1>2, FirstInIs
<1>7. ASSUME r = None, NEW x \in Message, s.fContainer[x] = fReceivers(p)
      PROVE  s.fType[m] \notin s.fFilter[x]
  BY <1>3, <1>5, <1>6, <1>7
<1>8. ASSUME r # None
      PROVE  r \in Message /\ s.fContainer[r] = fReceivers(p) /\ s.fType[m] \in s.fFilter[r]
  BY <1>3, <1>4, <1>5, <1>6, <1>8
<1>9. QED
  BY <1>7, <1>8

\* The sender that the filter finds.
LEMMA MatchingIs ==
  ASSUME NEW s \in KernelRecord, Exact(s), NEW p \in Port, NEW filter,
         NEW m, m = Matching(s, p, filter)
  PROVE  /\ m = None => \A x \in Message : s.fContainer[x] = fSenders(p) => s.fType[x] \notin filter
         /\ m # None => m \in Message /\ s.fContainer[m] = fSenders(p)
<1> DEFINE S == {x \in Message : s.fType[x] \in filter}
           q == s.queue[fSenders(p)]
<1>1. fSenders(p) \in Queue /\ q \in Seq(Message) /\ S \in SUBSET Message
  BY Fields, QueueNames
<1>2. m = FirstIn[q][S]
  BY DEF Matching
<1>3. \A x \in Message : x \in ToSet(q) <=> s.fContainer[x] = fSenders(p)
  BY <1>1 DEF Exact
<1>4. ToSet(q) \subseteq Message
  BY <1>1, QueueElements
<1>5. \A x \in Message : x \in S <=> s.fType[x] \in filter
  OBVIOUS
<1> HIDE DEF S, q
<1>6. /\ m = None <=> ToSet(q) \cap S = {}
      /\ m # None => m \in ToSet(q) \cap S
  BY <1>1, <1>2, FirstInIs
<1>7. ASSUME m = None, NEW x \in Message, s.fContainer[x] = fSenders(p)
      PROVE  s.fType[x] \notin filter
  BY <1>3, <1>5, <1>6, <1>7
<1>8. ASSUME m # None PROVE m \in Message /\ s.fContainer[m] = fSenders(p)
  BY <1>3, <1>4, <1>6, <1>8
<1>9. QED
  BY <1>7, <1>8

\* Who waits in a receivers' queue is in progress, and may read there.
LEMMA ReceiverIs ==
  ASSUME NEW s, NEW r \in Message, Mode(s, r), NEW p \in Port, s.fContainer[r] = fReceivers(p)
  PROVE  Active(s, r) /\ s.fStatus[r] = kInProgress /\ p \in Reads[r]
BY QueueNames DEF Mode, Idle, Waits, Active

\* A receiver in a port may be told that it has received.
LEMMA ReceiverDue ==
  ASSUME NEW s, NEW m \in Message, Fit(s, {m}), NEW r \in Message \ {m},
         NEW p \in Port, s.fContainer[r] = fReceivers(p), NEW b, Said(b, s)
  PROVE  Due(b, s, r, noErr)
<1>1. Mode(s, r) /\ Claimed(s, {m})
  BY DEF Fit
<1>2. s.fStatus[r] = kInProgress
  BY <1>1, ReceiverIs
<1>3. s.fNotify[r] \in Task => s.fNotify[r] \in s.blocked
  BY <1>1, <1>2 DEF Claimed
<1>4. Clear(b, s, r)
  BY <1>3 DEF Clear, Failed
<1>5. ~Sending(s, r) /\ ~Failed(s, r)
  BY <1>2 DEF Said, Roles, Sending, Failed
<1>6. QED
  BY <1>4, <1>5 DEF Due, Said, Told

\* p is the port that collects m.
LEMMA CollectorIs ==
  ASSUME NEW s, Addressed(s), NEW m \in Message, NEW p \in Port, s.fNotify[m] = p,
         NEW r \in Message, p \in Reads[r]
  PROVE  AtHome(r, m)
<1>1. PortToNotify[m] = p
  BY Parties DEF Addressed
<1>2. QED
  BY <1>1, Parties DEF AtHome, CollectedAtHome

\* who completing m may complete
Bystanders(s, u, m) ==
  \A x \in Message \ {m} :
    \/ Same(s, u, x)
    \/ s.fNotify[m] \in s.ports /\ s.fContainer[x] = fReceivers(s.fNotify[m])

LEMMA OthersStandBy ==
  ASSUME NEW s, NEW u, NEW m, Others(s, u, {m})
  PROVE  Bystanders(s, u, m)
BY Zenon DEF Bystanders, Others

LEMMA StandByAfter ==
  ASSUME NEW s, NEW u, NEW v, NEW m, Others(s, u, {m}), Bystanders(u, v, m),
         u.fNotify[m] = s.fNotify[m], u.ports = s.ports
  PROVE  Bystanders(s, v, m)
BY DEF Bystanders, Others, Same

LEMMA CollectorStandsBy ==
  ASSUME NEW s, NEW u, NEW m, NEW r, Others(s, u, {m, r}), s.fNotify[m] \in s.ports,
         s.fContainer[r] = fReceivers(s.fNotify[m])
  PROVE  Bystanders(s, u, m)
<1>1. ASSUME NEW x \in Message \ {m}
      PROVE  \/ Same(s, u, x)
             \/ s.fNotify[m] \in s.ports /\ s.fContainer[x] = fReceivers(s.fNotify[m])
  <2>1. x = r \/ x \in Message \ {m, r}
    OBVIOUS
  <2>2. CASE x = r
    BY Zenon, <2>2
  <2>3. CASE x \in Message \ {m, r}
    BY Zenon, <2>3 DEF Others
  <2>4. QED
    BY Zenon, <2>1, <2>2, <2>3
<1>2. QED
  BY Zenon, <1>1 DEF Bystanders

\* A completed message is sent to its collector.
LEMMA SendToCollectorFits ==
  ASSUME NEW s, NEW m \in Message, Fit(s, {m}), Collectable(s, m), s.fType[m] \in Collector,
         NEW p \in s.ports, s.fNotify[m] = p, NEW u, u = SendToCollector(s, p, m)
  PROVE  Fit(u, {}) /\ Calm(s, u) /\ Bystanders(s, u, m) /\ Tells(s, u)
<1> DEFINE r == Wanting(s, p, m)
<1>1. /\ s \in KernelRecord /\ Exact(s) /\ Addressed(s)
      /\ \A x \in Message \ {m} : Mode(s, x)
      /\ p \in Port
  BY Fields DEF Fit
<1>2. /\ r = None => \A x \in Message : s.fContainer[x] = fReceivers(p) => s.fType[m] \notin s.fFilter[x]
      /\ r # None => r \in Message /\ s.fContainer[r] = fReceivers(p)
  BY <1>1, WantingIs
<1>3. u = IF r = None THEN Add(s, fSenders(p), m)
          ELSE Collect(RemoveFromQueue(s, fReceivers(p), r), r, m)
  BY DEF SendToCollector
<1>4. {m} \ {m} = {}
  OBVIOUS
<1> HIDE DEF r
<1>5. CASE r = None
  <2> DEFINE c == fSenders(p)
  <2>1. c \in Queue /\ c # gDeferredSends
    BY <1>1, QueueNames
  <2>2. Suits(s, c, m)
    BY <1>1, <1>2, <1>5, QueueNames DEF Suits
  <2> HIDE DEF c
  <2>3. u \in {Add(s, c, m), AddToFront(s, c, m)}
    BY <1>3, <1>5 DEF c
  <2>4. s.fContainer[m] = None /\ s.fSignature[m] = 0
    BY DEF Collectable
  <2>5. /\ Fit(u, {m}) /\ Others(s, u, {m}) /\ Calm(s, u)
        /\ Text(s, u) /\ u.fTimer = s.fTimer /\ u.fContainer[m] = c
    BY <2>1, <2>2, <2>3, <2>4, PutFits
  <2>6. Mode(u, m) /\ u.fStatus[m] # kInProgress /\ u.fNotify[m] \notin Task
    BY <1>1, <2>5 DEF Mode, Waits, Text, Collectable, c
  <2>7. Fit(u, {m} \ {m})
    BY <2>5, <2>6, Closes, NotStopped
  <2>8. Tells(s, u)
    BY <1>1, <2>1, <2>3, AddSays, QueueNames DEF c, Moved
  <2>9. QED
    BY <1>4, <2>5, <2>7, <2>8, OthersStandBy
<1>6. CASE r # None
  <2> DEFINE c == fReceivers(p)
             v == RemoveFromQueue(s, c, r)
             M == {m} \cup {r}
  <2>1. r \in Message /\ s.fContainer[r] = c /\ c \in Queue /\ r # m
    BY <1>1, <1>2, <1>6, QueueNames DEF Collectable
  <2>2. s.fStatus[r] = kInProgress /\ p \in Reads[r]
    BY <1>1, <2>1, ReceiverIs
  <2>3. AtHome(r, m)
    BY <1>1, <2>1, <2>2, CollectorIs
  <2> HIDE DEF c
  <2>4. Fit(s, M)
    BY <2>1, <2>2, Opens
  <2>5. u = Collect(v, r, m)
    BY <1>3, <1>6 DEF c
  <2> HIDE DEF v
  <2>6. /\ Fit(v, M) /\ Calm(s, v) /\ Others(s, v, {r})
        /\ Text(s, v) /\ v.fTimer = s.fTimer
    <3>1. M \in SUBSET Message /\ r \in M
      BY <2>1
    <3>2. QED
      BY <2>1, <2>4, <3>1, TakeFits DEF v
  <2>7. Collectable(v, m)
    BY <2>1, <2>6 DEF Collectable, Others, Same
  <2>8. M \in SUBSET Message /\ m \in M /\ r \in M
    BY <2>1
  <2>9. /\ Fit(u, M \ {m, r}) /\ Calm(v, u) /\ Others(v, u, {m, r})
        /\ \A b : Said(b, v) /\ Due(b, v, r, noErr) => Said(b, u)
    BY <2>1, <2>3, <2>5, <2>6, <2>7, <2>8, CollectFits
  <2>10. M \ {m, r} = {}
    OBVIOUS
  <2>11. Others(s, v, {m, r})
    BY <2>6, OthersMore
  <2>12. Others(s, u, {m, r}) /\ Calm(s, u)
    BY <2>6, <2>9, <2>11, OthersTrans, CalmTrans
  <2>13. s.fNotify[m] \in s.ports /\ s.fContainer[r] = fReceivers(s.fNotify[m])
    BY <2>1 DEF c
  <2>14. Bystanders(s, u, m)
    BY <2>12, CollectorStandsBy, <2>13
  <2>15. Moved(s, v)
    BY <1>1, <2>1, RemoveSays DEF v
  <2>16. \A b : Said(b, s) => Due(b, s, r, noErr)
    <3>1. r \in Message \ {m} /\ s.fContainer[r] = fReceivers(p)
      BY <2>1 DEF c
    <3>2. QED
      BY <1>1, <3>1, ReceiverDue
  <2>17. Tells(s, u)
    BY <2>9, <2>15, <2>16, VoiceTold DEF Moved, Tells
  <2>18. QED
    BY <2>9, <2>10, <2>12, <2>14, <2>17
<1>7. QED
  BY <1>5, <1>6

\* completeMsg lets its message go.
LEMMA CompleteMsgFits ==
  ASSUME NEW s, NEW m \in Message, Fit(s, {m}), NEW type \in Collector,
         NEW err \in Status \ {kInProgress}, NEW u, u = CompleteMsg(s, m, type, err)
  PROVE  /\ Fit(u, {}) /\ Calm(s, u) /\ Bystanders(s, u, m)
         /\ \A b : SaidBut(b, s, m) /\ Due(b, s, m, err) => Said(b, u)
<1> DEFINE v == Quiet(s, m)
           w == [WithStatus(v, m, err) EXCEPT !.fType[m] = type]
<1>1. Fit(v, {m}) /\ Calm(s, v) /\ Others(s, v, {m}) /\ Quieted(s, v, m)
  BY QuietFits
<1>2. s.fNotify[m] = None \/ s.fNotify[m] \in Task \/ s.fNotify[m] \in Port
  BY Fields DEF Fit
<1>3. u = IF s.fNotify[m] = None THEN WithStatus(v, m, err)
          ELSE IF s.fNotify[m] \in Task THEN WakeTask(v, m, err)
          ELSE IF s.fNotify[m] \notin s.ports THEN WithStatus(v, m, "kOSErrBadObjectId")
          ELSE SendToCollector(w, s.fNotify[m], m)
  <2>1. w = [v EXCEPT !.fStatus[m] = err, !.fType[m] = type]
    BY DEF WithStatus
  <2>2. QED
    BY <2>1 DEF CompleteMsg, WithStatus
<1>4. Hushed(s, v, m) /\ v \in KernelRecord /\ s \in KernelRecord
  BY QuietHushes DEF Fit
<1> HIDE DEF v
<1>5. NoType \notin Collector
  BY DEF NoType, Collector, CollectedSender, CollectedReceiver
<1>6. {m} \ {m} = {}
  OBVIOUS
<1>7. CASE s.fNotify[m] \in Task
  <2>1. u = WakeTask(v, m, err)
    BY <1>3, <1>7, Parties
  <2>2. Fit(u, {m} \ {m}) /\ Calm(v, u) /\ Others(v, u, {m})
    BY <1>1, <1>5, <1>7, <2>1, WakeFits DEF Quieted
  <2>3. Others(s, u, {m}) /\ Calm(s, u)
    BY <1>1, <2>2, CalmTrans, OthersTrans
  <2>4. \A b : SaidBut(b, s, m) /\ Due(b, s, m, err) => Said(b, u)
    BY <1>4, <1>7, <2>1, WakeSays
  <2>5. QED
    BY <1>6, <2>2, <2>3, <2>4, OthersStandBy
<1>8. CASE s.fNotify[m] \notin Task /\ s.fNotify[m] \notin s.ports
  <2>1. PICK e \in Status \ {kInProgress} : u = WithStatus(v, m, e) /\ (e = err \/ e # noErr)
    <3>1. "kOSErrBadObjectId" \in Status \ {kInProgress, noErr}
      BY DEF Status, kInProgress, noErr
    <3>2. QED
      BY <1>3, <1>8, <3>1
  <2>2. v.fContainer[m] = None
    BY <1>1 DEF Quieted
  <2>3. /\ Fit(u, {m}) /\ Calm(v, u) /\ Others(v, u, {m})
        /\ u.fStatus[m] = e /\ u.fContainer = v.fContainer /\ u.fTimer = v.fTimer
        /\ u.fType = v.fType /\ u.fSignature = v.fSignature
        /\ u.fNotify = v.fNotify /\ u.blocked = v.blocked
    BY <1>1, <2>2, <2>1, StatusFits
  <2>4. Mode(u, m) /\ u.fStatus[m] # kInProgress
    BY <1>1, <1>5, <2>3 DEF Quieted, Mode, Idle
  <2>5. u.fNotify[m] \notin u.blocked
    BY <1>1, <1>8, <2>3, NotStopped DEF Quieted
  <2>6. Fit(u, {m} \ {m})
    BY <2>3, <2>4, <2>5, Closes
  <2>7. Others(s, u, {m}) /\ Calm(s, u)
    BY <1>1, <2>3, CalmTrans, OthersTrans
  <2>8. \A b : SaidBut(b, s, m) /\ Due(b, s, m, err) => Said(b, u)
    <3>1. err = noErr \/ e # noErr
      BY <2>1
    <3>2. QED
      BY <1>4, <1>8, <2>1, <3>1, StatusSays
  <2>9. QED
    BY <1>6, <2>6, <2>7, <2>8, OthersStandBy
<1>9. CASE s.fNotify[m] \in s.ports
  <2> DEFINE p == s.fNotify[m]
             x == WithStatus(v, m, err)
  <2>1. p \in Port /\ p \notin Task /\ p # None
    <3>1. s.ports \subseteq Port
      BY Fields DEF Fit
    <3>2. QED
      BY <1>9, <3>1, Parties
  <2>2. u = SendToCollector(w, p, m)
    BY <1>3, <1>9, <2>1
  <2>3. v.fContainer[m] = None
    BY <1>1 DEF Quieted
  <2>4. /\ Fit(x, {m}) /\ Calm(v, x) /\ Others(v, x, {m})
        /\ x.fStatus[m] = err /\ x.fContainer = v.fContainer /\ x.fTimer = v.fTimer
        /\ x.fSignature = v.fSignature /\ x.fNotify = v.fNotify
    BY <1>1, <2>3, StatusFits
  <2> HIDE DEF x
  <2>5. w = [x EXCEPT !.fType[m] = type]
    BY DEF x
  <2> HIDE DEF w
  <2>6. x \in KernelRecord
    BY <2>4 DEF Fit
  <2>7. /\ Turns(x, w, m) /\ w.fType[m] = type /\ w.fStatus = x.fStatus
        /\ w.fTimer = x.fTimer /\ w.fSignature = x.fSignature
    <3> DEFINE y == [x.fType EXCEPT ![m] = type]
    <3>1. y \in [Message -> Type \cup Collector \cup {NoType}]
      BY <2>6, Fields
    <3>2. y[m] = type /\ \A z \in Message \ {m} : y[z] = x.fType[z]
      BY <2>6, Fields
    <3>3. w = [x EXCEPT !.fType = y]
      BY <2>5, <2>6 DEF KernelRecord
    <3> HIDE DEF y
    <3>4. w \in KernelRecord
      BY <2>6, <3>1, <3>3 DEF KernelRecord
    <3>5. QED
      BY <2>6, <3>2, <3>3, <3>4 DEF Turns, KernelRecord
  <2>8. x.fContainer[m] = None
    BY <2>3, <2>4
  <2>9. Fit(w, {m}) /\ Calm(x, w) /\ Others(x, w, {m})
    BY <2>4, <2>7, <2>8, TurnFits
  <2>10. Collectable(w, m) /\ w.fType[m] \in Collector /\ w.fNotify[m] = p /\ w.ports = s.ports
    <3>1. w.fContainer = x.fContainer /\ w.fNotify = x.fNotify /\ w.ports = x.ports
      BY <2>7 DEF Turns
    <3>2. v.ports = s.ports /\ x.ports = v.ports
      BY <1>1, <2>4 DEF Calm
    <3>3. QED
      BY <1>1, <2>1, <2>4, <2>7, <2>8, <3>1, <3>2 DEF Collectable, Quieted
  <2> HIDE DEF p
  <2>11. Fit(u, {}) /\ Calm(w, u) /\ Bystanders(w, u, m) /\ Tells(w, u)
    BY <1>9, <2>2, <2>9, <2>10, SendToCollectorFits DEF p
  <2>12. Others(s, w, {m}) /\ Calm(s, w)
    BY <1>1, <2>4, <2>9, CalmTrans, OthersTrans
  <2>13. Bystanders(s, u, m)
    <3>1. w.fNotify[m] = s.fNotify[m] /\ w.ports = s.ports
      BY <2>10 DEF p
    <3>2. QED
      BY <2>11, <2>12, <3>1, StandByAfter
  <2>14. \A b : SaidBut(b, s, m) /\ Due(b, s, m, err) => Said(b, w)
    <3>1. w = [WithStatus(v, m, err) EXCEPT !.fType[m] = type]
      BY DEF w
    <3>2. s.fNotify[m] \notin Task /\ (err = noErr \/ err # noErr)
      BY <2>1 DEF p
    <3>3. QED
      BY <1>4, <3>1, <3>2, StatusSays
  <2>15. QED
    BY <2>11, <2>12, <2>13, <2>14, CalmTrans DEF Tells
<1>10. QED
  BY <1>7, <1>8, <1>9

-----------------------------------------------------------------------------
(* completeReceiver, send and receive.                                     *)

\* m is given a signature for its receiver r.
SignedFor(s, r, m, g, n) ==
  [s EXCEPT !.fSignature[m] = g, !.fSequenceNo[m] = @ + 1,
            !.tokens = @ \cup {[msg |-> m, sig |-> g, rcvr |-> r, nth |-> n]}]

LEMMA SignedTyped ==
  ASSUME NEW s \in KernelRecord, NEW a \in [Message -> Nat], NEW b \in [Message -> Nat],
         NEW T, T \subseteq Token,
         NEW u, u = [s EXCEPT !.fSignature = a, !.fSequenceNo = b, !.tokens = T]
  PROVE  u \in KernelRecord
BY Zenon DEF KernelRecord

\* What a signature leaves alone.
LEMMA SignatureIs ==
  ASSUME NEW s \in KernelRecord, NEW m \in Message, NEW r \in Message,
         NEW g, g = s.fSequenceNo[m], NEW n, n = s.sends[m], NEW u, u = SignedFor(s, r, m, g, n),
         NEW x, x = [msg |-> m, sig |-> g, rcvr |-> r, nth |-> n]
  PROVE  /\ u \in KernelRecord /\ g \in Nat
         /\ u.queue = s.queue /\ u.fContainer = s.fContainer /\ u.gTimerDeferred = s.gTimerDeferred
         /\ u.fStatus = s.fStatus /\ u.fType = s.fType /\ u.fFilter = s.fFilter
         /\ u.fTimer = s.fTimer /\ u.fNotify = s.fNotify /\ u.sends = s.sends
         /\ u.blocked = s.blocked /\ u.tokens = s.tokens \cup {x}
         /\ u.gWantDeferred = s.gWantDeferred /\ u.ports = s.ports /\ u.msgs = s.msgs
         /\ u.fSignature[m] = g /\ u.fSequenceNo[m] = g + 1
         /\ \A y \in Message \ {m} : /\ u.fSignature[y] = s.fSignature[y]
                                     /\ u.fSequenceNo[y] = s.fSequenceNo[y]
<1> DEFINE a == [s.fSignature EXCEPT ![m] = g]
           b == [s.fSequenceNo EXCEPT ![m] = g + 1]
           T == s.tokens \cup {x}
<1>1. /\ s.fSignature \in [Message -> Nat] /\ s.fSequenceNo \in [Message -> Nat]
      /\ s.sends \in [Message -> Nat] /\ s.tokens \subseteq Token
  BY Fields
<1>2. g \in Nat /\ x \in Token
  BY <1>1 DEF Token
<1>3. a \in [Message -> Nat] /\ b \in [Message -> Nat] /\ T \subseteq Token
  BY <1>1, <1>2
<1>4. /\ a[m] = g /\ b[m] = g + 1
      /\ \A y \in Message \ {m} : a[y] = s.fSignature[y] /\ b[y] = s.fSequenceNo[y]
  BY <1>1
<1>5. u = [s EXCEPT !.fSignature = a, !.fSequenceNo = b, !.tokens = T]
  BY DEF SignedFor, KernelRecord
<1> HIDE DEF a, b
<1>6. u.fSignature = a /\ u.fSequenceNo = b /\ u.tokens = T
  BY <1>5 DEF KernelRecord
<1>7. /\ u.queue = s.queue /\ u.fContainer = s.fContainer /\ u.gTimerDeferred = s.gTimerDeferred
      /\ u.fStatus = s.fStatus /\ u.fType = s.fType /\ u.fFilter = s.fFilter
      /\ u.fTimer = s.fTimer /\ u.fNotify = s.fNotify /\ u.sends = s.sends
      /\ u.blocked = s.blocked
      /\ u.gWantDeferred = s.gWantDeferred /\ u.ports = s.ports /\ u.msgs = s.msgs
  BY <1>5 DEF KernelRecord
<1> HIDE DEF T
<1>8. u \in KernelRecord
  <2>1. a \in [Message -> Nat] /\ b \in [Message -> Nat] /\ T \subseteq Token
    BY <1>3
  <2>2. QED
    BY <1>5, <2>1, SignedTyped
<1>9. QED
  BY <1>2, <1>4, <1>6, <1>7, <1>8 DEF T

LEMMA SignatureFits ==
  ASSUME NEW s, NEW M \in SUBSET Message, Fit(s, M), NEW m \in M, NEW r \in Message,
         s.fContainer[m] = f8C(r), NEW g, g = s.fSequenceNo[m], NEW n, n = s.sends[m],
         NEW u, u = SignedFor(s, r, m, g, n)
  PROVE  /\ Fit(u, M) /\ Calm(s, u) /\ Others(s, u, {m})
         /\ u.fSignature[m] = g /\ g # 0 /\ u.fContainer = s.fContainer /\ u.fTimer = s.fTimer
         /\ u.fStatus = s.fStatus /\ u.fType = s.fType /\ u.fNotify = s.fNotify
         /\ u.blocked = s.blocked
<1> DEFINE x == [msg |-> m, sig |-> g, rcvr |-> r, nth |-> n]
<1>1. s \in KernelRecord /\ Exact(s) /\ Timed(s) /\ Claimed(s, M) /\ Addressed(s) /\ Matched(s) /\ Held(s)
  BY DEF Fit
<1>2. /\ u \in KernelRecord /\ g \in Nat
      /\ u.queue = s.queue /\ u.fContainer = s.fContainer /\ u.gTimerDeferred = s.gTimerDeferred
      /\ u.fStatus = s.fStatus /\ u.fType = s.fType /\ u.fFilter = s.fFilter
      /\ u.fTimer = s.fTimer /\ u.fNotify = s.fNotify /\ u.sends = s.sends
      /\ u.blocked = s.blocked /\ u.tokens = s.tokens \cup {x}
      /\ u.gWantDeferred = s.gWantDeferred /\ u.ports = s.ports /\ u.msgs = s.msgs
      /\ u.fSignature[m] = g /\ u.fSequenceNo[m] = g + 1
      /\ \A y \in Message \ {m} : /\ u.fSignature[y] = s.fSignature[y]
                                  /\ u.fSequenceNo[y] = s.fSequenceNo[y]
  <2>1. x = [msg |-> m, sig |-> g, rcvr |-> r, nth |-> n]
    OBVIOUS
  <2> HIDE DEF x
  <2>2. QED
    BY <1>1, <2>1, SignatureIs
<1>3. x.sig = g /\ x.msg = m /\ x.nth = n /\ x.rcvr = r
  OBVIOUS
<1> HIDE DEF x
<1>4. g # 0
  <2>1. s.fSignature[m] \in Nat /\ s.fSignature[m] < g
    BY <1>1, Fields DEF Held
  <2>2. QED
    BY <1>2, <2>1
<1>5. Exact(u) /\ Timed(u) /\ Addressed(u) /\ Matched(u)
  BY <1>1, <1>2 DEF Exact, Timed, Addressed, Matched, Unmatched
<1>6. Claimed(u, M)
  BY <1>1, <1>2 DEF Claimed, Claims
<1>7. Others(s, u, {m})
  BY <1>2 DEF Others, Same
<1>8. \A y \in Message \ M : Mode(u, y)
  BY <1>7, SameMode DEF Fit, Others
<1>9. Calm(s, u)
  BY <1>2 DEF Calm
<1>10. \A y \in Message : u.fSignature[y] < u.fSequenceNo[y]
  <2>1. ASSUME NEW y \in Message PROVE u.fSignature[y] < u.fSequenceNo[y]
    <3>1. CASE y = m
      BY <1>2, <3>1
    <3>2. CASE y # m
      BY <1>1, <1>2, <3>2 DEF Held
    <3>3. QED
      BY <3>1, <3>2
  <2>2. QED
    BY <2>1
<1>11. Signed(u, x)
  BY <1>2, <1>3 DEF Signed
<1>12. ASSUME NEW y \in s.tokens, y.sig # 0 PROVE Signed(u, y)
  <2>1. Signed(s, y)
    BY <1>1, <1>12 DEF Held
  <2>2. y.msg \in Message /\ y.sig \in Nat
    <3>1. y \in Token
      BY <1>1, Fields
    <3>2. QED
      BY <3>1 DEF Token
  <2>3. CASE y.msg = m
    <3>1. y.sig < g
      BY <2>1, <2>3 DEF Signed
    <3>2. y.sig < g + 1 /\ y.sig # g
      BY <1>2, <2>2, <3>1
    <3>3. QED
      BY <1>2, <2>3, <3>2 DEF Signed
  <2>4. CASE y.msg # m
    BY <1>2, <2>1, <2>2, <2>4 DEF Signed
  <2>5. QED
    BY <2>3, <2>4
<1>13. ASSUME NEW y \in s.tokens, y.sig = 0, CollectedAtHome PROVE Ended(u, y)
  BY <1>1, <1>2, <1>13 DEF Held, Ended
<1>14. Held(u)
  BY <1>2, <1>3, <1>4, <1>10, <1>11, <1>12, <1>13 DEF Held
<1>15. QED
  BY <1>2, <1>4, <1>5, <1>6, <1>7, <1>8, <1>9, <1>14 DEF Fit

\* A sender that a receiver gets, in hand and in no queue: one that is collected, or
\* one in progress.
Given(s, r, m) ==
  /\ s.fContainer[m] = None /\ s.fSignature[m] = 0
  /\ s.fType[m] \in Collector => Collectable(s, m) /\ AtHome(r, m)
  /\ s.fType[m] \notin Collector =>
       /\ s.fStatus[m] = kInProgress /\ s.fTimer[m] # "Delay"
       /\ s.fNotify[m] \in Task => s.fNotify[m] \in s.blocked

\* completeReceiver lets the receiver and the sender go.
LEMMA CompleteReceiverFits ==
  ASSUME NEW s, NEW m \in Message, NEW r \in Message, r # m, Fit(s, {m, r}), Given(s, r, m),
         NEW u, u = CompleteReceiver(s, r, m)
  PROVE  /\ Fit(u, {}) /\ Calm(s, u)
         /\ \A b : Said(b, s) /\ Due(b, s, r, noErr) => Said(b, u)
<1> DEFINE M == {m, r}
           g == s.fSequenceNo[m]
           n == s.sends[m]
<1>1. M \in SUBSET Message /\ m \in M /\ r \in M /\ M \ {m, r} = {} /\ M \ {m} = {r}
  OBVIOUS
<1>2. CASE s.fType[m] \in Collector
  <2>1. u = Collect(s, r, m)
    BY <1>2 DEF CompleteReceiver
  <2>2. Collectable(s, m) /\ AtHome(r, m) /\ Fit(s, M)
    BY <1>2 DEF Given
  <2>3. /\ Fit(u, M \ {m, r}) /\ Calm(s, u)
        /\ \A b : Said(b, s) /\ Due(b, s, r, noErr) => Said(b, u)
    BY <1>1, <2>1, <2>2, CollectFits
  <2>4. QED
    BY <1>1, <2>3
<1>3. CASE s.fType[m] \notin Collector
  <2> DEFINE c == f8C(r)
             a == Add(s, c, m)
             b == SignedFor(a, r, m, g, n)
  <2>1. u = CompleteMsg(b, r, CollectedReceiver, noErr)
    BY <1>3 DEF CompleteReceiver, SignedFor
  <2>2. c \in Queue /\ c # gDeferredSends /\ c # None
    BY QueueNames
  <2>3. Suits(s, c, m)
    BY QueueNames DEF Suits
  <2>4. s.fContainer[m] = None /\ s.fSignature[m] = 0 /\ Fit(s, M)
    BY DEF Given
  <2> HIDE DEF M
  <2>5. \A y : y = a => y \in {Add(s, c, m), AddToFront(s, c, m)}
    OBVIOUS
  <2> HIDE DEF a
  <2>6. a \in {Add(s, c, m), AddToFront(s, c, m)}
    BY <2>5
  <2> HIDE DEF c
  <2>7. /\ Fit(a, M) /\ Others(s, a, {m}) /\ Calm(s, a)
        /\ Text(s, a) /\ a.fTimer = s.fTimer /\ a.fContainer[m] = c
    BY <1>1, <2>2, <2>3, <2>4, <2>6, PutFits
  <2>8. g = a.fSequenceNo[m] /\ n = a.sends[m]
    BY <2>7 DEF Text
  <2> HIDE DEF g, n
  <2>9. a.fContainer[m] = f8C(r)
    BY <2>7 DEF c
  <2> HIDE DEF b
  <2>10. b = SignedFor(a, r, m, g, n)
    BY DEF b
  <2>11. /\ Fit(b, M) /\ Calm(a, b) /\ Others(a, b, {m})
         /\ b.fSignature[m] = g /\ g # 0 /\ b.fContainer = a.fContainer /\ b.fTimer = a.fTimer
         /\ b.fStatus = a.fStatus /\ b.fType = a.fType /\ b.fNotify = a.fNotify
         /\ b.blocked = a.blocked
    <3>1. Fit(a, M) /\ M \in SUBSET Message /\ m \in M
      BY <1>1, <2>7
    <3>2. QED
      BY <2>8, <2>9, <2>10, <3>1, SignatureFits
  <2>12. /\ b.fStatus[m] = kInProgress /\ b.fType[m] \notin Collector
         /\ b.fTimer[m] # "Delay" /\ b.fContainer[m] = f8C(r)
         /\ b.fSignature[m] # 0
         /\ b.fNotify[m] \in Task => b.fNotify[m] \in b.blocked
    BY <1>3, <2>7, <2>9, <2>11 DEF Given, Text
  <2>13. Active(b, m)
    BY <2>12, QueueNames DEF Active, InReply
  <2>14. Mode(b, m)
    BY <2>13 DEF Mode
  <2>15. Fit(b, {r})
    BY <1>1, <2>11, <2>12, <2>14, Closes
  <2>16. noErr \in Status \ {kInProgress} /\ CollectedReceiver \in Collector
    BY DEF Status, kInProgress, noErr, Collector
  <2>17. /\ Fit(u, {}) /\ Calm(b, u)
         /\ \A z : Said(z, b) /\ Due(z, b, r, noErr) => Said(z, u)
    <3>1. /\ Fit(u, {}) /\ Calm(b, u)
          /\ \A z : SaidBut(z, b, r) /\ Due(z, b, r, noErr) => Said(z, u)
      BY <2>1, <2>15, <2>16, CompleteMsgFits
    <3>2. QED
      BY <3>1, SaidMore
  <2>18. Moved(s, a)
    <3>1. s \in KernelRecord
      BY <2>4 DEF Fit
    <3>2. QED
      BY <2>2, <2>6, <3>1, AddSays, QueueNames DEF c
  <2>19. Voice(a, b)
    <3>1. a \in KernelRecord
      BY <2>7 DEF Fit
    <3>2. QED
      BY <2>10, <3>1 DEF SignedFor, Voice, KernelRecord
  <2>20. Roles(a) => Roles(b)
    BY <2>11, <2>19 DEF Roles, Voice
  <2>21. \A z : (Said(z, s) => Said(z, b)) /\ (Due(z, s, r, noErr) => Due(z, b, r, noErr))
    BY <2>18, <2>19, <2>20, VoiceTold DEF Moved, Tells, Said
  <2>22. QED
    BY <2>7, <2>11, <2>17, <2>21, CalmTrans
<1>4. QED
  BY <1>2, <1>3

\* A message in hand that a call has begun with.
Begun(s, m) ==
  /\ s.fStatus[m] = kInProgress /\ s.fType[m] \notin Collector
  /\ s.fContainer[m] = None /\ s.fTimer[m] = "no" /\ s.fSignature[m] = 0

\* A timeout is set, and is noted for a sender.
Armed(s, m) == [StartTimeout(s, m) EXCEPT !.f0080[m] = TRUE]

LEMMA ArmedTyped ==
  ASSUME NEW s \in KernelRecord, NEW a \in [Message -> {"no", "Timeout", "Delay"}],
         NEW b \in [Message -> BOOLEAN], NEW u, u = [s EXCEPT !.fTimer = a, !.f0080 = b]
  PROVE  u \in KernelRecord
BY Zenon DEF KernelRecord

LEMMA ArmFits ==
  ASSUME NEW s, NEW M \in SUBSET Message, Fit(s, M), NEW m \in M, s.fContainer[m] = None,
         NEW u, u \in {s, StartTimeout(s, m), Armed(s, m)}
  PROVE  /\ Fit(u, M) /\ Calm(s, u) /\ Others(s, u, {m})
         /\ u.fTimer[m] \in {s.fTimer[m], "Timeout"}
         /\ u.fStatus = s.fStatus /\ u.fType = s.fType /\ u.fFilter = s.fFilter
         /\ u.fContainer = s.fContainer /\ u.fSignature = s.fSignature
         /\ u.fNotify = s.fNotify /\ u.blocked = s.blocked
<1>1. s \in KernelRecord
  BY DEF Fit
<1> DEFINE f == [s.fTimer EXCEPT ![m] = "Timeout"]
           g == [s.f0080 EXCEPT ![m] = TRUE]
<1>2. /\ f \in [Message -> {"no", "Timeout", "Delay"}] /\ f[m] = "Timeout"
      /\ \A x \in Message \ {m} : f[x] = s.fTimer[x]
  BY <1>1, Fields
<1>3. g \in [Message -> BOOLEAN] /\ s.f0080 \in [Message -> BOOLEAN]
      /\ s.fTimer \in [Message -> {"no", "Timeout", "Delay"}]
  BY <1>1 DEF KernelRecord
<1>4. PICK a \in {s.fTimer, f}, b \in {s.f0080, g} : u = [s EXCEPT !.fTimer = a, !.f0080 = b]
  <2>1. s = [s EXCEPT !.fTimer = s.fTimer, !.f0080 = s.f0080]
    BY <1>1 DEF KernelRecord
  <2>2. StartTimeout(s, m) \in {s, [s EXCEPT !.fTimer = f, !.f0080 = s.f0080]}
    BY <1>1 DEF KernelRecord, StartTimeout
  <2>3. Armed(s, m) \in {[s EXCEPT !.fTimer = s.fTimer, !.f0080 = g],
                         [s EXCEPT !.fTimer = f, !.f0080 = g]}
    BY <1>1 DEF KernelRecord, StartTimeout, Armed
  <2> HIDE DEF f, g
  <2>4. QED
    BY <2>1, <2>2, <2>3
<1> HIDE DEF f, g
<1>5. a \in [Message -> {"no", "Timeout", "Delay"}] /\ b \in [Message -> BOOLEAN]
  BY <1>2, <1>3
<1>6. u \in KernelRecord
  BY Zenon, <1>1, <1>4, <1>5, ArmedTyped
<1>7. /\ u.fStatus = s.fStatus /\ u.fContainer = s.fContainer /\ u.fTimer = a
      /\ u.queue = s.queue /\ u.gTimerDeferred = s.gTimerDeferred
      /\ u.fType = s.fType /\ u.fFilter = s.fFilter /\ u.fSignature = s.fSignature
      /\ u.fNotify = s.fNotify /\ u.fSequenceNo = s.fSequenceNo /\ u.sends = s.sends
      /\ u.tokens = s.tokens /\ u.blocked = s.blocked
      /\ u.gWantDeferred = s.gWantDeferred /\ u.ports = s.ports /\ u.msgs = s.msgs
  BY <1>1, <1>4 DEF KernelRecord
<1>8. /\ a[m] = s.fTimer[m] \/ a[m] = "Timeout"
      /\ \A x \in Message \ {m} : a[x] = s.fTimer[x]
  BY <1>2
<1>9. Turns(s, u, m)
  BY <1>6, <1>7, <1>8 DEF Turns
<1>10. Fit(u, M) /\ Calm(s, u) /\ Others(s, u, {m})
  BY <1>9, TurnFits
<1>11. QED
  BY <1>7, <1>8, <1>10

\* A message begins to wait in its port.
LEMMA QueuedFits ==
  ASSUME NEW s, NEW m \in Message, Fit(s, {m}), NEW c \in Queue, c # gDeferredSends,
         s.fStatus[m] = kInProgress, s.fType[m] \notin Collector, s.fContainer[m] = None,
         s.fTimer[m] # "Delay", s.fSignature[m] = 0,
         s.fNotify[m] \in Task => s.fNotify[m] \in s.blocked,
         \A r \in Message : c # f8C(r),
         \A p \in Port : c = fReceivers(p) => p \in Reads[m],
         "resetFilter" \in Calls \/ Suits(s, c, m),
         NEW u, u \in {Add(s, c, m), AddToFront(s, c, m)}
  PROVE  Fit(u, {}) /\ Calm(s, u)
<1>1. /\ Fit(u, {m}) /\ Calm(s, u)
      /\ Text(s, u) /\ u.fTimer = s.fTimer /\ u.fContainer[m] = c
  <2>1. {m} \in SUBSET Message /\ m \in {m}
    OBVIOUS
  <2>2. QED
    BY <2>1, PutFits
<1>2. c # None
  BY QueueNames
<1>3. Active(u, m)
  BY <1>1, <1>2 DEF Active, InReply, Text
<1>4. Mode(u, m) /\ u.fStatus[m] = kInProgress
  BY <1>1, <1>3 DEF Mode, Text
<1>5. u.fNotify[m] \in Task => u.fNotify[m] \in u.blocked
  BY <1>1 DEF Text
<1>6. Fit(u, {m} \ {m})
  BY <1>1, <1>4, <1>5, Closes
<1>7. {m} \ {m} = {}
  OBVIOUS
<1>8. QED
  BY <1>1, <1>6, <1>7

\* A message in hand meets a receiver that waits in a port.
LEMMA ReceivedFits ==
  ASSUME NEW s, NEW m \in Message, Fit(s, {m}), s.fStatus[m] = kInProgress,
         s.fType[m] \notin Collector, s.fContainer[m] = None,
         s.fTimer[m] # "Delay", s.fSignature[m] = 0,
         s.fNotify[m] \in Task => s.fNotify[m] \in s.blocked,
         NEW p \in Port, NEW r \in Message, s.fContainer[r] = fReceivers(p),
         NEW u, u = CompleteReceiver(RemoveFromQueue(s, fReceivers(p), r), r, m)
  PROVE  Fit(u, {}) /\ Calm(s, u) /\ Tells(s, u)
<1> DEFINE M == {m} \cup {r}
           c == fReceivers(p)
           v == RemoveFromQueue(s, c, r)
<1>1. r # m /\ c \in Queue /\ M \in SUBSET Message /\ m \in M /\ r \in M /\ M = {m, r}
  BY QueueNames
<1>2. Mode(s, r)
  BY <1>1 DEF Fit
<1>3. s.fStatus[r] = kInProgress
  BY <1>2, ReceiverIs
<1>4. {m} \in SUBSET Message
  OBVIOUS
<1>5. Fit(s, M)
  BY <1>3, <1>4, Opens
<1>6. v = RemoveFromQueue(s, c, r) /\ s.fContainer[r] = c /\ u = CompleteReceiver(v, r, m)
  OBVIOUS
<1> HIDE DEF v, c
<1>7. Fit(v, M) /\ Calm(s, v) /\ Others(s, v, {r}) /\ Text(s, v) /\ v.fTimer = s.fTimer
  BY <1>1, <1>5, <1>6, TakeFits
<1>8. v.fContainer[m] = s.fContainer[m]
  BY <1>1, <1>7 DEF Others, Same
<1>9. Given(v, r, m)
  BY <1>7, <1>8 DEF Given, Text
<1>10. Fit(v, {m, r})
  BY <1>1, <1>7
<1>11. /\ Fit(u, {}) /\ Calm(v, u)
       /\ \A b : Said(b, v) /\ Due(b, v, r, noErr) => Said(b, u)
  BY <1>1, <1>6, <1>9, <1>10, CompleteReceiverFits
<1>12. Moved(s, v)
  <2>1. s \in KernelRecord
    BY DEF Fit
  <2>2. QED
    BY <1>1, <1>6, <2>1, RemoveSays
<1>13. \A b : Said(b, s) => Due(b, s, r, noErr)
  BY <1>1, ReceiverDue
<1>14. Tells(s, u)
  BY <1>11, <1>12, <1>13, VoiceTold DEF Moved, Tells
<1>15. QED
  BY <1>7, <1>11, <1>14, CalmTrans

\* m, in hand, was not even begun with and is left alone, or is taken back at once.
LEMMA RefusedFits ==
  ASSUME NEW s, NEW m \in Message, Fit(s, {m}), Begun(s, m), s.fNotify[m] \notin s.blocked,
         NEW err \in Status \ {kInProgress}, NEW u, u = WithStatus(s, m, err)
  PROVE  Fit(u, {}) /\ Calm(s, u)
<1>1. {m} \in SUBSET Message /\ m \in {m} /\ {m} \ {m} = {}
  OBVIOUS
<1>2. s.fContainer[m] = None
  BY DEF Begun
<1>3. /\ Fit(u, {m}) /\ Calm(s, u)
      /\ u.fStatus[m] = err /\ u.fContainer = s.fContainer /\ u.fTimer = s.fTimer
      /\ u.fType = s.fType /\ u.fSignature = s.fSignature
      /\ u.fNotify = s.fNotify /\ u.blocked = s.blocked
  BY <1>1, <1>2, StatusFits
<1>4. Idle(u, m)
  BY <1>3 DEF Idle, Begun
<1>5. Mode(u, m) /\ u.fStatus[m] # kInProgress /\ u.fNotify[m] \notin u.blocked
  BY <1>3, <1>4 DEF Mode
<1>6. Fit(u, {m} \ {m})
  BY <1>1, <1>3, <1>5, Closes
<1>7. QED
  BY <1>1, <1>3, <1>6

TimedOut == "kOSErrMessageTimedOut"

\* Where m may still be told,
Heeds(s, u, m) ==
  \A b : Said(b, s) /\ Clear(b, s, m) /\ (~Sending(b, m) \/ Sending(s, m)) => Said(b, u)

\* send: the message waits in the port, is received, or is taken back.
LEMMA SendFits ==
  ASSUME NEW s, NEW m \in Message, Fit(s, {m}), Begun(s, m), NEW p \in Port,
         NEW sync \in BOOLEAN, NEW late,
         sync \/ (s.fNotify[m] \in Task => s.fNotify[m] \in s.blocked),
         NEW u, u = Send(s, p, m, sync, late)
  PROVE  IF TimesOutAtOnce(s, m, late) THEN u = WithStatus(s, m, TimedOut)
         ELSE /\ Fit(u, {}) /\ Calm(s, u)
              /\ s.fTimeout[m] # Finite => Heeds(s, u, m)
<1>1. CASE TimesOutAtOnce(s, m, late)
  BY <1>1 DEF Send, WithStatus, TimedOut
<1>2. CASE ~TimesOutAtOnce(s, m, late)
  <2> DEFINE b == IF sync THEN Block(s, m) ELSE s
             v == StartTimeout(b, m)
             w == IF s.fTimeout[m] = Finite THEN Armed(b, m) ELSE v
             r == Wanting(s, p, m)
             c == fSenders(p)
  <2>1. u = IF r = None
            THEN IF s.fUrgent[m] THEN AddToFront(w, c, m) ELSE Add(w, c, m)
            ELSE CompleteReceiver(RemoveFromQueue(w, fReceivers(p), r), r, m)
    BY <1>2 DEF Send, Armed
  <2>2. s \in KernelRecord /\ Exact(s)
    BY DEF Fit
  <2>3. /\ r = None => \A x \in Message : s.fContainer[x] = fReceivers(p) => s.fType[m] \notin s.fFilter[x]
        /\ r # None => r \in Message /\ s.fContainer[r] = fReceivers(p)
    BY <2>2, WantingIs
  <2>4. w \in {b, StartTimeout(b, m), Armed(b, m)}
    OBVIOUS
  <2>5. {m} \in SUBSET Message /\ m \in {m}
    OBVIOUS
  <2>6. /\ Fit(b, {m}) /\ Calm(s, b) /\ Others(s, b, {})
        /\ s.fNotify[m] \in Task => s.fNotify[m] \in b.blocked
    <3>1. CASE sync
      <4>1. b = Block(s, m)
        BY <3>1
      <4> HIDE DEF b
      <4>2. QED
        BY <2>5, <4>1, BlockFits
    <3>2. CASE ~sync
      <4>1. b = s
        BY <3>2
      <4>2. Calm(s, s) /\ Others(s, s, {})
        BY DEF Calm, Others, Same
      <4>3. QED
        BY <3>2, <4>1, <4>2
    <3>3. QED
      BY <3>1, <3>2
  <2>7. s.fTimeout[m] # Finite => Heeds(s, w, m)
    <3>1. Heeds(s, b, m)
      BY <2>2, BlockSays DEF Heeds
    <3>2. b.fTimeout = s.fTimeout
      BY <2>2 DEF Block, KernelRecord
    <3> HIDE DEF b
    <3>3. s.fTimeout[m] # Finite => w = b
      BY <3>2 DEF StartTimeout
    <3>4. QED
      BY <3>1, <3>3
  <2> HIDE DEF b, v, w, r, c
  <2>8. \A x \in Message : Same(s, b, x)
    BY <2>6 DEF Others
  <2>9. /\ b.fStatus[m] = kInProgress /\ b.fType[m] = s.fType[m] /\ b.fType[m] \notin Collector
        /\ b.fContainer[m] = None /\ b.fTimer[m] = "no" /\ b.fSignature[m] = 0
        /\ b.fNotify[m] \in Task => b.fNotify[m] \in b.blocked
    BY <2>6, <2>8 DEF Begun, Same
  <2>10. /\ Fit(w, {m}) /\ Calm(b, w) /\ Others(b, w, {m})
        /\ w.fTimer[m] \in {b.fTimer[m], "Timeout"}
        /\ w.fStatus = b.fStatus /\ w.fType = b.fType /\ w.fFilter = b.fFilter
        /\ w.fContainer = b.fContainer /\ w.fSignature = b.fSignature
        /\ w.fNotify = b.fNotify /\ w.blocked = b.blocked
    BY <2>4, <2>5, <2>6, <2>9, ArmFits
  <2>11. /\ w.fStatus[m] = kInProgress /\ w.fType[m] \notin Collector
         /\ w.fContainer[m] = None /\ w.fTimer[m] # "Delay" /\ w.fSignature[m] = 0
         /\ w.fNotify[m] \in Task => w.fNotify[m] \in w.blocked
    BY <2>9, <2>10
  <2>12. CASE r = None
    <3>1. u \in {Add(w, c, m), AddToFront(w, c, m)}
      BY <2>1, <2>12
    <3>2. /\ c \in Queue /\ c # gDeferredSends
          /\ \A x \in Message : c # f8C(x)
          /\ \A q \in Port : c = fReceivers(q) => q \in Reads[m]
      BY QueueNames DEF c
    <3>3. Suits(w, c, m)
      <4>1. ASSUME NEW x \in Message, w.fContainer[x] = fReceivers(p)
            PROVE  w.fType[m] \notin w.fFilter[x]
        BY <2>3, <2>8, <2>9, <2>10, <2>12, <4>1 DEF Same
      <4>2. QED
        BY <4>1, QueueNames DEF Suits, c
    <3>4. Fit(u, {}) /\ Calm(w, u)
      BY <2>10, <2>11, <3>1, <3>2, <3>3, QueuedFits
    <3>5. Tells(w, u)
      <4>1. w \in KernelRecord
        BY <2>10 DEF Fit
      <4>2. QED
        BY <3>1, <3>2, <4>1, AddSays, QueueNames DEF Moved, c
    <3>6. QED
      BY <1>2, <2>7, <2>6, <2>10, <3>4, <3>5, CalmTrans DEF Tells, Heeds
  <2>13. CASE r # None
    <3>1. u = CompleteReceiver(RemoveFromQueue(w, fReceivers(p), r), r, m)
      BY <2>1, <2>13
    <3>2. r \in Message /\ w.fContainer[r] = fReceivers(p)
      BY <2>3, <2>8, <2>10, <2>13 DEF Same
    <3>3. Fit(u, {}) /\ Calm(w, u) /\ Tells(w, u)
      BY <2>10, <2>11, <3>1, <3>2, ReceivedFits
    <3>4. QED
      BY <1>2, <2>7, <2>6, <2>10, <3>3, CalmTrans DEF Tells, Heeds
  <2>14. QED
    BY <2>12, <2>13
<1>3. QED
  BY <1>1, <1>2

\* A message of a port is taken out and into the hand.
Taken(s, u, m, r) ==
  /\ Fit(u, {m, r}) /\ Calm(s, u) /\ Text(s, u)
  /\ u.fTimer = s.fTimer /\ u.fContainer[m] = None

LEMMA TakenFits ==
  ASSUME NEW s, NEW r \in Message, Fit(s, {r}), NEW m \in Message,
         s.fStatus[m] = kInProgress \/ s.fNotify[m] \notin Task,
         NEW p \in Port, s.fContainer[m] = fSenders(p),
         NEW u, u = RemoveFromQueue(s, fSenders(p), m)
  PROVE  Taken(s, u, m, r)
<1> DEFINE M == {r} \cup {m}
           c == fSenders(p)
<1>1. c \in Queue /\ M \in SUBSET Message /\ m \in M /\ {r} \in SUBSET Message
  BY QueueNames
<1>2. Fit(s, M)
  BY <1>1, Opens
<1>3. s.fContainer[m] = c /\ u = RemoveFromQueue(s, c, m)
  OBVIOUS
<1> HIDE DEF c, M
<1>4. TakenOut(s, u, M, m)
  BY <1>1, <1>2, <1>3, TakeOut
<1>5. M = {m, r}
  BY DEF M
<1>6. QED
  BY <1>4, <1>5 DEF Taken, TakenOut

\* A message in hand meets a sender that waits in a port.
LEMMA FoundFits ==
  ASSUME NEW s, NEW r \in Message, Fit(s, {r}),
         NEW p \in Port, p \in Reads[r], NEW m \in Message, r # m, s.fContainer[m] = fSenders(p),
         NEW u, u = CompleteReceiver(RemoveFromQueue(s, fSenders(p), m), r, m)
  PROVE  /\ Fit(u, {}) /\ Calm(s, u)
         /\ \A b : Said(b, s) /\ Due(b, s, r, noErr) => Said(b, u)
<1> DEFINE v == RemoveFromQueue(s, fSenders(p), m)
<1>1. p \in Port /\ p \notin Task
  BY Parties
<1>2. r # m
  OBVIOUS
<1>3. Mode(s, m) /\ Addressed(s) /\ Claimed(s, {r})
  BY <1>2 DEF Fit
<1>4. ~Idle(s, m) /\ ~InReply(s, m)
  BY <1>1, QueueNames DEF Idle, InReply
<1>5. \A b : (Said(b, s) => Said(b, v)) /\ (Due(b, s, r, noErr) => Due(b, v, r, noErr))
  <2>1. s \in KernelRecord /\ fSenders(p) \in Queue
    BY QueueNames DEF Fit
  <2>2. Moved(s, v)
    BY <2>1, RemoveSays
  <2> HIDE DEF v
  <2>3. QED
    BY <2>2, VoiceTold DEF Moved, Tells
<1>6. CASE Waits(s, m)
  <2>1. s.fNotify[m] = p /\ s.fNotify[m] \notin Task
    BY <1>1, <1>6, QueueNames DEF Waits
  <2>2. AtHome(r, m)
    BY <1>1, <1>3, <2>1, CollectorIs
  <2>3. v = RemoveFromQueue(s, fSenders(p), m) /\ u = CompleteReceiver(v, r, m)
    OBVIOUS
  <2> HIDE DEF v
  <2>4. /\ Fit(v, {m, r}) /\ Calm(s, v) /\ Text(s, v)
        /\ v.fTimer = s.fTimer /\ v.fContainer[m] = None
    BY <1>1, <2>1, <2>3, TakenFits DEF Taken
  <2>5. Collectable(v, m)
    BY <1>6, <2>1, <2>4 DEF Waits, Collectable, Text
  <2>6. v.fType[m] \in Collector
    BY <1>6, <2>4 DEF Waits, Text
  <2>7. Given(v, r, m)
    BY <2>2, <2>5, <2>6 DEF Given, Collectable
  <2>8. /\ Fit(u, {}) /\ Calm(v, u)
         /\ \A b : Said(b, v) /\ Due(b, v, r, noErr) => Said(b, u)
    BY <1>2, <2>3, <2>4, <2>7, CompleteReceiverFits
  <2>9. QED
    BY <1>5, <2>4, <2>8, CalmTrans
<1>7. CASE Active(s, m)
  <2>1. /\ s.fStatus[m] = kInProgress /\ s.fType[m] \notin Collector
        /\ s.fTimer[m] # "Delay" /\ s.fSignature[m] = 0
    BY <1>1, <1>4, <1>7, QueueNames DEF Active
  <2>2. s.fNotify[m] \in Task => s.fNotify[m] \in s.blocked
    BY <1>2, <1>3, <2>1 DEF Claimed
  <2>3. v = RemoveFromQueue(s, fSenders(p), m) /\ u = CompleteReceiver(v, r, m)
    OBVIOUS
  <2> HIDE DEF v
  <2>4. /\ Fit(v, {m, r}) /\ Calm(s, v) /\ Text(s, v)
        /\ v.fTimer = s.fTimer /\ v.fContainer[m] = None
    BY <1>1, <2>1, <2>3, TakenFits DEF Taken
  <2>5. Given(v, r, m)
    BY <2>1, <2>2, <2>4 DEF Given, Text
  <2>6. /\ Fit(u, {}) /\ Calm(v, u)
         /\ \A b : Said(b, v) /\ Due(b, v, r, noErr) => Said(b, u)
    BY <1>2, <2>3, <2>4, <2>5, CompleteReceiverFits
  <2>7. QED
    BY <1>5, <2>4, <2>6, CalmTrans
<1>8. QED
  BY <1>3, <1>4, <1>6, <1>7 DEF Mode

\* receive: the message gets another, waits in the port, or is taken back.
LEMMA ReceiveFits ==
  ASSUME NEW s, NEW r \in Message, Fit(s, {r}), Begun(s, r), s.fNotify[r] \notin s.blocked,
         NEW p \in Reads[r], NEW how, NEW late, NEW u, u = Receive(s, p, r, how, late)
  PROVE  /\ Fit(u, {}) /\ Calm(s, u)
         /\ \A z : Started(z, s, r) /\ s.fType[r] \notin Type => Said(z, u)
<1> DEFINE found == Matching(s, p, s.fFilter[r])
           w == StartTimeout(s, r)
           n == WithStatus(s, r, noErr)
           b == Block(w, r)
           c == fReceivers(p)
<1>1. p \in Port
  BY Parties
<1>2. s \in KernelRecord /\ Exact(s) /\ {r} \in SUBSET Message /\ r \in {r}
  BY DEF Fit
<1>3. /\ found = None => \A x \in Message : s.fContainer[x] = fSenders(p) => s.fType[x] \notin s.fFilter[r]
      /\ found # None => found \in Message /\ s.fContainer[found] = fSenders(p)
  BY <1>1, <1>2, MatchingIs
<1>4. {noErr, TimedOut, "kOSErrNoMessageWaiting"} \subseteq Status \ {kInProgress}
  BY DEF Status, kInProgress, noErr, TimedOut
<1>5. s.fContainer[r] = None
  BY DEF Begun
<1>6. u = IF TimesOutAtOnce(s, r, late) THEN WithStatus(s, r, TimedOut)
          ELSE IF found # None
          THEN CompleteReceiver(RemoveFromQueue(IF how = "peek" THEN n ELSE w, fSenders(p), found),
                                r, found)
          ELSE IF how \in {"take", "peek"} THEN WithStatus(s, r, "kOSErrNoMessageWaiting")
          ELSE IF s.fUrgent[r] THEN AddToFront(b, c, r) ELSE Add(b, c, r)
  BY DEF Receive, WithStatus, TimedOut
<1>7. /\ w \in {s, StartTimeout(s, r), Armed(s, r)} /\ w = StartTimeout(s, r)
      /\ n = WithStatus(s, r, noErr) /\ b = Block(w, r)
  OBVIOUS
<1> HIDE DEF found, w, n, b, c
<1>8. /\ Fit(w, {r}) /\ Calm(s, w) /\ Others(s, w, {r})
      /\ w.fTimer[r] \in {s.fTimer[r], "Timeout"}
      /\ w.fStatus = s.fStatus /\ w.fType = s.fType /\ w.fFilter = s.fFilter
      /\ w.fContainer = s.fContainer /\ w.fSignature = s.fSignature
      /\ w.fNotify = s.fNotify /\ w.blocked = s.blocked
  BY <1>2, <1>5, <1>7, ArmFits
<1>9. Fit(n, {r}) /\ Calm(s, n) /\ n.fContainer = s.fContainer
  BY <1>2, <1>4, <1>5, <1>7, StatusFits
<1>10. /\ Voice(s, w) /\ Tells(s, w)
       /\ \A z : Started(z, s, r) => Said(z, w) /\ Due(z, w, r, noErr)
  <2>1. Voice(s, w) /\ Tells(s, w)
    BY <1>2, <1>7, TimeoutSays
  <2>2. QED
    BY <2>1, VoiceTold DEF Started, Due, Tells
<1>11. \A z : Started(z, s, r) => Said(z, n) /\ Due(z, n, r, noErr)
  BY <1>2, <1>4, <1>7, RefuseSays DEF Started, Begun
<1>12. CASE \E e \in Status \ {kInProgress} : u = WithStatus(s, r, e)
  BY <1>2, <1>12, RefusedFits, RefuseSays DEF Started, Begun
<1>13. CASE found # None /\ ~TimesOutAtOnce(s, r, late)
  <2>1. PICK v \in {n, w} : u = CompleteReceiver(RemoveFromQueue(v, fSenders(p), found), r, found)
    BY <1>6, <1>13
  <2>2. Fit(v, {r}) /\ Calm(s, v) /\ v.fContainer = s.fContainer
    BY <1>8, <1>9
  <2>3. found \in Message /\ v.fContainer[found] = fSenders(p) /\ r # found
    BY <1>1, <1>3, <1>5, <1>13, <2>2, QueueNames
  <2>4. /\ Fit(u, {}) /\ Calm(v, u)
        /\ \A z : Said(z, v) /\ Due(z, v, r, noErr) => Said(z, u)
    BY <1>1, <2>1, <2>2, <2>3, FoundFits
  <2>5. QED
    BY <1>10, <1>11, <2>2, <2>4, CalmTrans
<1>14. CASE found = None /\ u \in {AddToFront(b, c, r), Add(b, c, r)}
  <2>1. /\ Fit(b, {r}) /\ Calm(w, b) /\ Others(w, b, {})
        /\ w.fNotify[r] \in Task => w.fNotify[r] \in b.blocked
    BY <1>2, <1>7, <1>8, BlockFits
  <2>2. \A x \in Message : Same(w, b, x)
    BY <2>1 DEF Others
  <2>3. /\ b.fStatus[r] = kInProgress /\ b.fType[r] \notin Collector
        /\ b.fContainer[r] = None /\ b.fTimer[r] # "Delay" /\ b.fSignature[r] = 0
        /\ b.fNotify[r] \in Task => b.fNotify[r] \in b.blocked
    BY <1>8, <2>1, <2>2 DEF Begun, Same
  <2>4. /\ c \in Queue /\ c # gDeferredSends
        /\ \A x \in Message : c # f8C(x)
        /\ \A q \in Port : c = fReceivers(q) => q \in Reads[r]
    BY <1>1, QueueNames DEF c
  <2>5. Suits(b, c, r)
    <3>1. ASSUME NEW x \in Message, b.fContainer[x] = fSenders(p)
          PROVE  b.fType[x] \notin b.fFilter[r]
      BY <1>3, <1>8, <1>14, <2>2, <3>1 DEF Same
    <3>2. QED
      BY <1>1, <3>1, QueueNames DEF Suits, c
  <2>6. u \in {Add(b, c, r), AddToFront(b, c, r)}
    BY <1>14
  <2>7. Fit(u, {}) /\ Calm(b, u)
    BY <2>1, <2>3, <2>4, <2>5, <2>6, QueuedFits
  <2>8. ASSUME NEW z, Started(z, s, r), s.fType[r] \notin Type
        PROVE  Said(z, u)
    <3>1. w \in KernelRecord /\ b \in KernelRecord
      BY <1>8, <2>1 DEF Fit
    <3>2. Said(z, b)
      BY <1>7, <1>10, <2>8, <3>1, BlockSays DEF Started, Due
    <3>3. b.fType[r] \notin Type
      BY <1>8, <2>2, <2>8 DEF Same
    <3>4. Moved(b, u)
      BY <2>4, <2>6, <3>1, <3>3, AddSays
    <3>5. QED
      BY <3>2, <3>4 DEF Moved, Tells
  <2>9. QED
    BY <1>8, <2>1, <2>7, <2>8, CalmTrans
<1>15. QED
  BY <1>4, <1>6, <1>12, <1>13, <1>14

-----------------------------------------------------------------------------
(* The fold of a function h over the places 1 to n, as FoldLeft takes it.   *)

IsFold(g, R, l, base, h) ==
  /\ g \in [SUBSET (1 .. l) -> R]
  /\ \A S \in SUBSET (1 .. l) :
       g[S] = IF S = {} THEN base ELSE h[<<g[S \ {Max(S)}], Max(S)>>]

LEMMA Iterates ==
  ASSUME NEW R, NEW n \in Nat, NEW base \in R, NEW h \in [R \X (1 .. n) -> R]
  PROVE  \E g : IsFold(g, R, n, base, h)
<1> DEFINE IsIter(g, l) == IsFold(g, R, l, base, h)
           T == {l \in 0 .. n : \E g : IsIter(g, l)}
<1>1. 0 \in T
  <2>1. \A S \in SUBSET (1 .. 0) : S = {}
    OBVIOUS
  <2>2. IsIter([S \in SUBSET (1 .. 0) |-> base], 0)
    BY <2>1 DEF IsFold
  <2>3. 0 \in 0 .. n
    OBVIOUS
  <2> HIDE DEF IsIter
  <2>4. QED
    BY <2>2, <2>3
<1>2. ASSUME NEW l \in 1 .. n, l - 1 \in T PROVE l \in T
  <2>1. PICK f : IsIter(f, l - 1)
    BY <1>2
  <2> DEFINE g == [S \in SUBSET (1 .. l) |-> IF l \in S THEN h[<<f[S \ {l}], l>>] ELSE f[S]]
  <2>2. /\ f \in [SUBSET (1 .. (l - 1)) -> R]
        /\ \A S \in SUBSET (1 .. (l - 1)) :
             f[S] = IF S = {} THEN base ELSE h[<<f[S \ {Max(S)}], Max(S)>>]
    BY <2>1 DEF IsFold
  <2>3. l \in Nat /\ 1 .. (l - 1) = (1 .. l) \ {l} /\ l \in 1 .. n
    OBVIOUS
  <2>4. ASSUME NEW S \in SUBSET (1 .. l)
        PROVE  g[S] \in R /\ g[S] = IF S = {} THEN base ELSE h[<<g[S \ {Max(S)}], Max(S)>>]
    <3>1. CASE l \in S
      <4>1. Max(S) \in S /\ Max(S) >= l
        BY <2>3, <3>1, MaxUpTo
      <4>2. Max(S) = l
        <5>1. Max(S) \in 1 .. l
          BY <4>1
        <5>2. QED
          BY <2>3, <4>1, <5>1
      <4>3. S \ {l} \in SUBSET (1 .. (l - 1)) /\ g[S \ {l}] = f[S \ {l}]
        BY <2>3
      <4>4. g[S] = h[<<f[S \ {l}], l>>]
        BY <3>1
      <4>5. f[S \ {l}] \in R
        BY <2>2, <4>3
      <4>6. h[<<f[S \ {l}], l>>] \in R
        BY <2>3, <4>5
      <4> HIDE DEF g
      <4>7. QED
        BY <3>1, <4>2, <4>3, <4>4, <4>6
    <3>2. CASE l \notin S
      <4>1. S \in SUBSET (1 .. (l - 1))
        BY <2>3, <3>2
      <4>2. g[S] = f[S] /\ g[S \ {Max(S)}] = f[S \ {Max(S)}]
        BY <3>2
      <4>3. f[S] \in R
        BY <2>2, <4>1
      <4> HIDE DEF g
      <4>4. QED
        BY <2>2, <4>1, <4>2, <4>3
    <3>3. QED
      BY <3>1, <3>2
  <2>5. g = [S \in SUBSET (1 .. l) |-> g[S]]
    OBVIOUS
  <2> HIDE DEF g
  <2>6. g \in [SUBSET (1 .. l) -> R]
    BY <2>4, <2>5
  <2>7. IsIter(g, l)
    BY <2>4, <2>6 DEF IsFold
  <2> HIDE DEF IsIter
  <2>8. l \in 0 .. n
    BY <2>3
  <2>9. QED
    BY <2>7, <2>8
<1>3. T \in SUBSET (0 .. n)
  OBVIOUS
<1> HIDE DEF T
<1>4. T = 0 .. n
  BY <1>1, <1>2, <1>3, UpTo
<1>5. n \in T
  BY <1>4
<1> HIDE DEF IsIter
<1>6. QED
  BY <1>5 DEF T, IsIter

\* The places up to i, as FoldLeft takes them from the last to the first.
UpToPlace(n, i) ==
  /\ 1 .. i \in SUBSET (1 .. n) /\ 1 .. i # {} /\ Max(1 .. i) = i
  /\ (1 .. i) \ {i} = 1 .. (i - 1)

LEMMA FirstPlaces ==
  ASSUME NEW n \in Nat, NEW i \in 1 .. n
  PROVE  UpToPlace(n, i)
<1>1. i \in Nat /\ i \in 1 .. i
  OBVIOUS
<1>2. 1 .. i \in SUBSET (1 .. n)
  OBVIOUS
<1>3. 1 .. i # {}
  BY <1>1
<1>4. (1 .. i) \ {i} = 1 .. (i - 1)
  OBVIOUS
<1>5. Max(1 .. i) \in 1 .. i /\ Max(1 .. i) >= i
  BY <1>1, <1>3, MaxUpTo
<1>6. Max(1 .. i) = i
  BY <1>1, <1>5
<1>7. QED
  BY <1>2, <1>3, <1>4, <1>6 DEF UpToPlace

-----------------------------------------------------------------------------
(* A queue whose messages are all completed.                               *)

\* Nobody is collected in c.
Apart(s, c) ==
  \A p \in s.ports : c = fReceivers(p) => \A m \in Message : PortToNotify[m] # p

\* A message in progress may be told of an error.
LEMMA QueuedDue ==
  ASSUME NEW s, Fit(s, {}), NEW m \in Message,
         s.fStatus[m] = kInProgress \/ s.fNotify[m] \notin Task,
         NEW err, err # noErr, NEW b
  PROVE  Due(b, s, m, err)
<1>1. s.fNotify[m] \in Task => s.fNotify[m] \in s.blocked
  BY DEF Fit, Claimed
<1>2. QED
  BY <1>1 DEF Due, Clear, Failed

FlushOne(s, c, m, type, err) ==
  CompleteMsg(RemoveTimer(RemoveFromQueue(s, c, m), m), m, type, err)

LEMMA FlushOneFits ==
  ASSUME NEW s, Fit(s, {}), NEW c \in Queue, NEW m \in Message, s.fContainer[m] = c,
         NEW type \in Collector, NEW err \in Status \ {kInProgress, noErr},
         NEW u, u = FlushOne(s, c, m, type, err)
  PROVE  Fit(u, {}) /\ Calm(s, u) /\ Bystanders(s, u, m) /\ Tells(s, u)
<1> DEFINE v == RemoveFromQueue(s, c, m)
           w == RemoveTimer(v, m)
<1>1. Mode(s, m) /\ c # None
  BY QueueNames DEF Fit
<1>2. s.fStatus[m] = kInProgress \/ s.fNotify[m] \notin Task
  BY <1>1, Parties DEF Mode, Idle, Waits, Active
<1>3. {m} = {} \cup {m} /\ {} \in SUBSET Message /\ {m} \in SUBSET Message /\ m \in {m}
  OBVIOUS
<1>4. Fit(s, {m})
  BY <1>2, <1>3, Opens
<1>5. u = CompleteMsg(w, m, type, err)
  BY DEF FlushOne
<1>6. v = RemoveFromQueue(s, c, m) /\ w = RemoveTimer(v, m)
  OBVIOUS
<1> HIDE DEF v, w
<1>7. TakenOut(s, v, {m}, m)
  BY <1>3, <1>4, <1>6, TakeOut
<1>8. Fit(v, {m}) /\ Calm(s, v) /\ Others(s, v, {m}) /\ Text(s, v)
  BY <1>7 DEF TakenOut
<1>9. Fit(w, {m}) /\ Calm(v, w) /\ Others(v, w, {m}) /\ Text(v, w)
  BY <1>3, <1>6, <1>8, TimerFits
<1>10. /\ Fit(u, {}) /\ Calm(w, u) /\ Bystanders(w, u, m)
       /\ \A b : SaidBut(b, w, m) /\ Due(b, w, m, err) => Said(b, u)
  BY <1>5, <1>9, CompleteMsgFits
<1>11. Others(s, w, {m}) /\ Calm(s, w)
  BY <1>8, <1>9, OthersTrans, CalmTrans
<1>12. w.fNotify[m] = s.fNotify[m] /\ w.ports = s.ports
  BY <1>8, <1>9 DEF Text
<1>13. Bystanders(s, u, m)
  BY <1>10, <1>11, <1>12, StandByAfter
<1>14. Voice(s, v) /\ Tells(s, v) /\ Voice(v, w) /\ Tells(v, w)
  <2>1. s \in KernelRecord /\ v \in KernelRecord
    BY <1>8 DEF Fit
  <2>2. QED
    BY <1>6, <2>1, RemoveSays, TimerSays DEF Moved
<1>15. \A b : Due(b, s, m, err)
  BY <1>2, QueuedDue
<1>16. Tells(s, u)
  BY <1>10, <1>14, <1>15, VoiceTold, SaidMore DEF Tells
<1>17. QED
  BY <1>10, <1>11, <1>13, <1>16, CalmTrans

\* It leaves the rest of the queue where it is.
LEMMA FlushOneLeaves ==
  ASSUME NEW s, Fit(s, {}), NEW c \in Queue, NEW m \in Message,
         NEW u, Bystanders(s, u, m), Apart(s, c),
         NEW x \in Message, x # m, s.fContainer[x] = c
  PROVE  u.fContainer[x] = c
<1>1. CASE Same(s, u, x)
  BY <1>1 DEF Same
<1>2. CASE s.fNotify[m] \in s.ports /\ s.fContainer[x] = fReceivers(s.fNotify[m])
  <2>1. s.fNotify[m] \in Port
    BY <1>2, Fields DEF Fit
  <2>2. PortToNotify[m] = s.fNotify[m]
    BY <2>1, Parties DEF Fit, Addressed
  <2>3. QED
    BY <1>2, <2>2 DEF Apart
<1>3. QED
  BY <1>1, <1>2 DEF Bystanders

\* The messages of q at the places outside S are still in c.
Rest(s, q, c, S) == \A j \in DOMAIN q \ S : s.fContainer[q[j]] = c

LEMMA FlushPlace ==
  ASSUME NEW s, Fit(s, {}), NEW c \in Queue, Apart(s, c),
         NEW q \in Seq(Message), Distinct(q), NEW S, NEW i \in DOMAIN q, i \notin S, Rest(s, q, c, S),
         NEW type \in Collector, NEW err \in Status \ {kInProgress, noErr},
         NEW u, u = FlushOne(s, c, q[i], type, err)
  PROVE  /\ Fit(u, {}) /\ Calm(s, u) /\ Apart(u, c) /\ Rest(u, q, c, S \cup {i})
         /\ Tells(s, u)
<1>1. \A j \in DOMAIN q : q[j] \in Message
  BY QueueElements
<1>2. s.fContainer[q[i]] = c
  BY DEF Rest
<1>3. Fit(u, {}) /\ Calm(s, u) /\ Bystanders(s, u, q[i]) /\ Tells(s, u)
  BY <1>1, <1>2, FlushOneFits
<1>4. Apart(u, c)
  BY <1>3 DEF Apart, Calm
<1>5. ASSUME NEW j \in DOMAIN q \ (S \cup {i}) PROVE u.fContainer[q[j]] = c
  <2>1. q[j] # q[i] /\ q[j] \in Message /\ q[i] \in Message
    BY <1>1 DEF Distinct
  <2>2. s.fContainer[q[j]] = c
    BY DEF Rest
  <2>3. QED
    BY <1>3, <2>1, <2>2, FlushOneLeaves
<1>6. QED
  BY <1>3, <1>4, <1>5 DEF Rest

\* What holds of the record that is left when the places S have been flushed.
Flushing(s, u, q, c, S) ==
  Fit(u, {}) /\ Calm(s, u) /\ Apart(u, c) /\ Rest(u, q, c, S) /\ Tells(s, u)

FlushIter(g, n, s, q, c, type, err) ==
  g = [S \in SUBSET (1 .. n) |->
         IF S = {} THEN s
         ELSE CompleteMsg(RemoveTimer(RemoveFromQueue(g[S \ {Max(S)}], c, q[Max(S)]), q[Max(S)]),
                          q[Max(S)], type, err)]

LEMMA FlushIterates ==
  ASSUME NEW s, Fit(s, {}), NEW c \in Queue, Apart(s, c),
         NEW type \in Collector, NEW err \in Status \ {kInProgress, noErr},
         NEW q \in Seq(Message), Distinct(q), Rest(s, q, c, {}), NEW n \in Nat, n = Len(q)
  PROVE  \E g : FlushIter(g, n, s, q, c, type, err)
<1> DEFINE R == {r \in KernelRecord : Fit(r, {}) /\ Apart(r, c)}
           h == [p \in R \X (1 .. n) |-> IF p[1].fContainer[q[p[2]]] = c
                                         THEN FlushOne(p[1], c, q[p[2]], type, err) ELSE p[1]]
<1>1. DOMAIN q = 1 .. n /\ \A i \in 1 .. n : q[i] \in Message
  BY QueueElements
<1>2. \A r : Fit(r, {}) => r \in KernelRecord
  BY DEF Fit
<1>3. ASSUME NEW r \in R, NEW i \in 1 .. n, r.fContainer[q[i]] = c
      PROVE  FlushOne(r, c, q[i], type, err) \in R
  <2>1. Fit(r, {}) /\ Apart(r, c) /\ q[i] \in Message
    BY <1>1
  <2> DEFINE v == FlushOne(r, c, q[i], type, err)
  <2>2. v = FlushOne(r, c, q[i], type, err)
    OBVIOUS
  <2> HIDE DEF v
  <2>3. Fit(v, {}) /\ Calm(r, v)
    BY <1>3, <2>1, <2>2, FlushOneFits
  <2>4. Apart(v, c)
    BY <2>1, <2>3 DEF Apart, Calm
  <2>5. v \in R
    BY <1>2, <2>3, <2>4
  <2>6. QED
    BY <2>2, <2>5
<1>4. s \in R /\ h \in [R \X (1 .. n) -> R]
  <2>1. s \in R
    BY <1>2
  <2>2. ASSUME NEW p \in R \X (1 .. n)
        PROVE  (IF p[1].fContainer[q[p[2]]] = c
                THEN FlushOne(p[1], c, q[p[2]], type, err) ELSE p[1]) \in R
    <3>1. p[1] \in R /\ p[2] \in 1 .. n
      OBVIOUS
    <3> HIDE DEF R
    <3>2. QED
      BY <1>3, <3>1
  <2> HIDE DEF R
  <2>3. QED
    BY <2>1, <2>2
<1>5. \A r \in R : Fit(r, {}) /\ Apart(r, c)
  OBVIOUS
<1>6. \A r \in R, i \in 1 .. n :
        r.fContainer[q[i]] = c => h[<<r, i>>] = FlushOne(r, c, q[i], type, err)
  OBVIOUS
<1> HIDE DEF h, R
<1>7. PICK g : IsFold(g, R, n, s, h)
  BY <1>4, Iterates
<1>8. /\ g \in [SUBSET (1 .. n) -> R]
      /\ \A S \in SUBSET (1 .. n) :
           g[S] = IF S = {} THEN s ELSE h[<<g[S \ {Max(S)}], Max(S)>>]
  BY <1>7 DEF IsFold
<1> DEFINE Kept(S) == Rest(g[S], q, c, S)
           T == {l \in 0 .. n : \A S \in SUBSET (1 .. l) : Kept(S)}
<1>9. ASSUME NEW S \in SUBSET (1 .. n), NEW i \in S, Max(S) = i, Kept(S \ {i})
      PROVE  g[S] = FlushOne(g[S \ {i}], c, q[i], type, err) /\ Kept(S)
  <2> DEFINE P == S \ {i}
  <2>1. i \in DOMAIN q /\ i \in 1 .. n /\ i \notin P /\ P \cup {i} = S /\ P \in SUBSET (1 .. n)
    BY <1>1
  <2>2. Rest(g[P], q, c, P) /\ g[P] \in R
    BY <1>8, <1>9, <2>1
  <2>3. g[S] = h[<<g[P], i>>]
    BY <1>8, <1>9
  <2> HIDE DEF P, Kept
  <2>4. g[P].fContainer[q[i]] = c
    BY <2>1, <2>2 DEF Rest
  <2>5. g[S] = FlushOne(g[P], c, q[i], type, err)
    BY <1>6, <2>1, <2>2, <2>3, <2>4
  <2>6. Fit(g[P], {}) /\ Apart(g[P], c)
    BY <1>5, <2>2
  <2>7. Rest(g[S], q, c, P \cup {i})
    BY <2>1, <2>2, <2>5, <2>6, FlushPlace
  <2>8. QED
    BY <2>1, <2>5, <2>7 DEF P, Kept
<1>10. 0 \in T
  <2>1. \A S \in SUBSET (1 .. 0) : S = {}
    OBVIOUS
  <2>2. g[{}] = s
    BY <1>8
  <2>3. \A S \in SUBSET (1 .. 0) : Kept(S)
    BY <2>1, <2>2
  <2>4. 0 \in 0 .. n
    OBVIOUS
  <2> HIDE DEF Kept
  <2>5. QED
    BY <2>3, <2>4
<1>11. ASSUME NEW l \in 1 .. n, l - 1 \in T PROVE l \in T
  <2>1. l \in Nat /\ 1 .. l \in SUBSET (1 .. n) /\ 1 .. (l - 1) = (1 .. l) \ {l}
    OBVIOUS
  <2>2. ASSUME NEW S \in SUBSET (1 .. l) PROVE Kept(S)
    <3>1. CASE l \in S
      <4>1. Max(S) \in S /\ Max(S) >= l
        BY <2>1, <3>1, MaxUpTo
      <4>2. Max(S) \in 1 .. l
        BY <4>1
      <4>3. Max(S) = l
        BY <2>1, <4>1, <4>2
      <4>4. S \ {l} \in SUBSET (1 .. (l - 1)) /\ S \in SUBSET (1 .. n)
        BY <2>1
      <4>5. Kept(S \ {l})
        BY <1>11, <4>4
      <4> HIDE DEF Kept
      <4>6. QED
        BY <1>9, <3>1, <4>3, <4>4, <4>5
    <3>2. CASE l \notin S
      <4>1. S \in SUBSET (1 .. (l - 1))
        BY <2>1, <3>2
      <4> HIDE DEF Kept
      <4>2. QED
        BY <1>11, <4>1
    <3>3. QED
      BY <3>1, <3>2
  <2>3. l \in 0 .. n
    BY <2>1
  <2> HIDE DEF Kept
  <2>4. QED
    BY <2>2, <2>3
<1>12. \A S \in SUBSET (1 .. n) : Kept(S)
  <2>1. T \in SUBSET (0 .. n)
    OBVIOUS
  <2> HIDE DEF T
  <2>2. T = 0 .. n
    BY <1>10, <1>11, <2>1, UpTo
  <2>3. n \in T
    BY <2>2
  <2> HIDE DEF Kept
  <2>4. QED
    BY <2>3 DEF T
<1>13. ASSUME NEW S \in SUBSET (1 .. n), S # {}
       PROVE  g[S] = FlushOne(g[S \ {Max(S)}], c, q[Max(S)], type, err)
  <2>1. Max(S) \in S
    BY <1>13, MaxUpTo
  <2>2. Kept(S \ {Max(S)})
    BY <1>12
  <2> HIDE DEF Kept
  <2>3. QED
    BY <1>9, <2>1, <2>2
<1>14. \A S \in SUBSET (1 .. n) :
         g[S] = IF S = {} THEN s ELSE FlushOne(g[S \ {Max(S)}], c, q[Max(S)], type, err)
  BY <1>8, <1>13
<1>15. g = [S \in SUBSET (1 .. n) |-> g[S]]
  BY <1>8
<1>16. FlushIter(g, n, s, q, c, type, err)
  BY <1>14, <1>15 DEF FlushIter, FlushOne
<1>17. QED
  BY <1>16

LEMMA FlushIs ==
  ASSUME NEW s, NEW c, NEW type, NEW err, NEW q, q = s.queue[c], NEW n \in Nat, DOMAIN q = 1 .. n,
         NEW it, it = CHOOSE g : FlushIter(g, n, s, q, c, type, err)
  PROVE  Flush(s, c, type, err) = it[1 .. n]
BY DEF Flush, FoldLeft, MapThenFoldSet, FlushIter

\* All messages of a queue are completed.
LEMMA FlushFits ==
  ASSUME NEW s, Fit(s, {}), NEW c \in Queue, Apart(s, c),
         NEW type \in Collector, NEW err \in Status \ {kInProgress, noErr},
         NEW u, u = Flush(s, c, type, err)
  PROVE  Fit(u, {}) /\ Calm(s, u) /\ Apart(u, c) /\ Tells(s, u)
<1> DEFINE q == s.queue[c]
           n == Len(q)
           it == CHOOSE g : FlushIter(g, n, s, q, c, type, err)
<1>1. s \in KernelRecord /\ Exact(s)
  BY DEF Fit
<1>2. q \in Seq(Message) /\ Distinct(q)
  BY <1>1, Fields DEF Exact
<1>3. n \in Nat /\ DOMAIN q = 1 .. n /\ \A i \in 1 .. n : q[i] \in Message /\ q[i] \in ToSet(q)
  BY <1>2, QueueElements DEF ToSet
<1>4. Rest(s, q, c, {})
  BY <1>1, <1>3 DEF Exact, Rest
<1>5. n = Len(q) /\ q = s.queue[c] /\ it = CHOOSE g : FlushIter(g, n, s, q, c, type, err)
  OBVIOUS
<1> HIDE DEF q, n
<1>6. \E g : FlushIter(g, n, s, q, c, type, err)
  BY <1>2, <1>3, <1>4, <1>5, FlushIterates
<1>7. FlushIter(it, n, s, q, c, type, err)
  BY <1>6
<1> HIDE DEF it
<1>8. u = it[1 .. n]
  BY <1>3, <1>5, FlushIs
<1>9. \A S \in SUBSET (1 .. n) :
        it[S] = IF S = {} THEN s ELSE FlushOne(it[S \ {Max(S)}], c, q[Max(S)], type, err)
  BY <1>7 DEF FlushIter, FlushOne
<1> DEFINE V == {i \in 0 .. n : Flushing(s, it[1 .. i], q, c, 1 .. i)}
<1>10. 0 \in V
  <2>1. 1 .. 0 = {} /\ 0 \in 0 .. n /\ {} \in SUBSET (1 .. n)
    BY <1>3
  <2>2. it[{}] = s
    BY <1>9, <2>1
  <2>3. Calm(s, s) /\ Tells(s, s)
    BY DEF Calm, Tells
  <2>4. Flushing(s, s, q, c, {})
    BY <1>4, <2>3 DEF Flushing
  <2>5. Flushing(s, it[1 .. 0], q, c, 1 .. 0)
    BY ONLY <2>1, <2>2, <2>4
  <2>6. QED
    BY <2>1, <2>5
<1>11. ASSUME NEW i \in 1 .. n, i - 1 \in V PROVE i \in V
  <2> DEFINE P == 1 .. (i - 1)
             v == it[P]
             w == it[1 .. i]
  <2>1. Flushing(s, v, q, c, P)
    BY <1>11
  <2>2. UpToPlace(n, i)
    BY <1>3, FirstPlaces
  <2>3. /\ 1 .. i \in SUBSET (1 .. n) /\ 1 .. i # {} /\ Max(1 .. i) = i
        /\ (1 .. i) \ {i} = P
    BY <2>2 DEF UpToPlace
  <2>4. w = FlushOne(v, c, q[i], type, err)
    BY <1>9, <2>3
  <2>5. i \in DOMAIN q /\ i \notin P /\ P \cup {i} = 1 .. i
    BY <1>3
  <2> HIDE DEF P, v, w
  <2>6. Fit(v, {}) /\ Apart(v, c) /\ Rest(v, q, c, P) /\ Calm(s, v) /\ Tells(s, v)
    BY <2>1 DEF Flushing
  <2>7. Fit(w, {}) /\ Calm(v, w) /\ Apart(w, c) /\ Rest(w, q, c, P \cup {i}) /\ Tells(v, w)
    BY <1>2, <2>4, <2>5, <2>6, FlushPlace
  <2>8. Calm(s, w) /\ Tells(s, w)
    BY <2>6, <2>7, CalmTrans DEF Tells
  <2>9. Flushing(s, w, q, c, 1 .. i)
    BY <2>5, <2>7, <2>8 DEF Flushing
  <2>10. i \in 0 .. n
    BY <1>3
  <2>11. QED
    BY <2>9, <2>10 DEF w
<1>12. V \in SUBSET (0 .. n)
  OBVIOUS
<1>13. n \in V
  <2> HIDE DEF V
  <2>1. V = 0 .. n
    BY <1>3, <1>10, <1>11, <1>12, UpTo
  <2>2. QED
    BY <1>3, <2>1
<1>14. Flushing(s, it[1 .. n], q, c, 1 .. n)
  BY <1>13
<1>15. QED
  BY <1>8, <1>14 DEF Flushing

\* What only changes besides.
Aside(s, u) ==
  /\ u \in KernelRecord
  /\ u.queue = s.queue /\ u.fContainer = s.fContainer /\ u.gTimerDeferred = s.gTimerDeferred
  /\ u.fStatus = s.fStatus /\ u.fType = s.fType /\ u.fFilter = s.fFilter
  /\ u.fSignature = s.fSignature /\ u.fTimer = s.fTimer
  /\ u.fNotify = s.fNotify /\ u.fSequenceNo = s.fSequenceNo /\ u.sends = s.sends
  /\ u.tokens = s.tokens /\ u.blocked = s.blocked
  /\ u.result = s.result /\ u.f0080 = s.f0080 /\ u.fTimeout = s.fTimeout

LEMMA AsideSays ==
  ASSUME NEW s, NEW u, Aside(s, u)
  PROVE  Voice(s, u) /\ Tells(s, u)
<1>1. Voice(s, u) /\ u.fContainer = s.fContainer /\ u.fTimer = s.fTimer
  BY DEF Aside, Voice
<1>2. Roles(s) => Roles(u)
  BY <1>1 DEF Roles, Voice
<1>3. QED
  BY <1>1, <1>2, VoiceTold DEF Tells, Said

LEMMA AsideFits ==
  ASSUME NEW s, NEW M \in SUBSET Message, Fit(s, M), NEW u, Aside(s, u)
  PROVE  Fit(u, M)
<1>1. Others(s, u, {})
  BY DEF Aside, Others, Same
<1>2. \A x \in Message \ M : Mode(u, x)
  BY <1>1, SameMode DEF Fit, Others
<1>3. Exact(u) /\ Timed(u) /\ Addressed(u) /\ Matched(u)
  BY DEF Fit, Aside, Exact, Timed, Addressed, Matched, Unmatched
<1>4. Held(u)
  BY DEF Fit, Aside, Held, Signed, Ended
<1>5. Claimed(u, M)
  BY DEF Fit, Aside, Claimed, Claims
<1>6. QED
  BY <1>2, <1>3, <1>4, <1>5 DEF Fit, Aside

-----------------------------------------------------------------------------
(* A call begins with an idle message.                                     *)

\* What a beginning changes.
Starts(s, u, m, d) ==
  /\ u \in KernelRecord
  /\ u.queue = s.queue /\ u.fContainer = s.fContainer /\ u.gTimerDeferred = s.gTimerDeferred
  /\ u.fSignature = s.fSignature /\ u.fSequenceNo = s.fSequenceNo /\ u.fTimer = s.fTimer
  /\ u.tokens = s.tokens /\ u.blocked = s.blocked
  /\ \A x \in Message \ {m} :
       /\ u.fStatus[x] = s.fStatus[x] /\ u.fType[x] = s.fType[x] /\ u.fFilter[x] = s.fFilter[x]
       /\ u.fNotify[x] = s.fNotify[x] /\ u.sends[x] = s.sends[x]
  /\ u.fStatus[m] = kInProgress /\ u.fType[m] \notin Collector /\ u.fNotify[m] = d

Opened(s, u, m, type, timeout) ==
  /\ u.result = s.result
  /\ \A x \in Message \ {m} : u.f0080[x] = s.f0080[x] /\ u.fTimeout[x] = s.fTimeout[x]
  /\ ~u.f0080[m] /\ u.fTimeout[m] = timeout /\ u.fType[m] = type

\* Who is still sending has not been told anything.
LEMMA StillSending ==
  ASSUME NEW s, NEW u, \A x \in Message : Sending(s, x) => Sending(u, x)
  PROVE  Told(s, u) /\ \A m : Clear(s, u, m)
BY DEF Told, Clear, Failed, Sending

\* Nobody is told anything when a call begins.
LEMMA StartSays ==
  ASSUME NEW s, Fit(s, {}), NEW m \in Message, ~Busy(s, m), Roles(s), NEW d, NEW type, NEW timeout,
         NEW u, Starts(s, u, m, d), Opened(s, u, m, type, timeout)
  PROVE  Started(s, u, m)
<1>1. Idle(s, m)
  <2>1. Mode(s, m)
    BY DEF Fit
  <2>2. QED
    BY <2>1 DEF Mode, Waits, Active, Busy
<1>2. /\ u.fContainer = s.fContainer /\ u.fTimer = s.fTimer
      /\ \A x \in Message \ {m} : u.fStatus[x] = s.fStatus[x] /\ u.fType[x] = s.fType[x]
  BY DEF Starts
<1>3. ~Sending(s, m) /\ \A x \in Message : Sending(s, x) => Sending(u, x)
  BY <1>1, <1>2 DEF Sending, Idle
<1>4. Told(s, u) /\ Clear(s, u, m)
  BY <1>3, StillSending
<1>5. ASSUME NEW x \in Message
      PROVE  /\ ~u.f0080[x]
             /\ u.fContainer[x] = gDeferredSends \/ u.fTimer[x] = "Delay" => u.fTimeout[x] # Finite
             /\ \A p \in Port : u.fContainer[x] = fReceivers(p) => u.fType[x] \notin Type
  <2>1. CASE x = m
    BY <1>1, <1>2, <2>1, QueueNames DEF Opened, Idle
  <2>2. CASE x # m
    BY <1>2, <2>2 DEF Opened, Roles
  <2>3. QED
    BY <2>1, <2>2
<1>6. Roles(u)
  BY <1>5 DEF Roles
<1>7. QED
  BY <1>3, <1>4, <1>6 DEF Started, Said

\* Nobody has collected m and not yet said so.
NotCollected(s, m) == CollectedAtHome => \A x \in s.tokens : x.sig = 0 => x.msg # m

LEMMA StartFits ==
  ASSUME NEW s, Fit(s, {}), NEW m \in Message, ~Busy(s, m), NotCollected(s, m),
         NEW d \in {None, Owner[m], PortToNotify[m]}, d \notin s.blocked,
         NEW u, Starts(s, u, m, d)
  PROVE  Fit(u, {m}) /\ Begun(u, m)
<1>1. s \in KernelRecord /\ Exact(s) /\ Timed(s) /\ Claimed(s, {}) /\ Addressed(s) /\ Matched(s) /\ Held(s)
  BY DEF Fit
<1>2. Idle(s, m)
  <2>1. Mode(s, m)
    BY DEF Fit
  <2>2. QED
    BY <2>1 DEF Mode, Waits, Active, Busy
<1>3. Begun(u, m)
  BY <1>2 DEF Begun, Starts, Idle
<1>4. Exact(u) /\ Timed(u)
  BY <1>1 DEF Exact, Timed, Starts
<1>5. ASSUME NEW x \in Message \ {m} PROVE Mode(u, x)
  <2>1. Mode(s, x)
    BY DEF Fit
  <2>2. /\ u.fStatus[x] = s.fStatus[x] /\ u.fType[x] = s.fType[x] /\ u.fNotify[x] = s.fNotify[x]
        /\ u.fContainer = s.fContainer /\ u.fTimer = s.fTimer /\ u.fSignature = s.fSignature
    BY DEF Starts
  <2>3. QED
    BY <2>1, <2>2 DEF Mode, Idle, Waits, Active, InReply
<1>6. Addressed(u)
  BY <1>1 DEF Addressed, Starts
<1>7. Claimed(u, {m})
  <2>1. /\ \A x \in Message \ {m} : u.fStatus[x] = s.fStatus[x] /\ u.fNotify[x] = s.fNotify[x]
        /\ u.blocked = s.blocked /\ u.fNotify[m] = d
    BY DEF Starts
  <2>2. s.fStatus[m] # kInProgress
    BY <1>2 DEF Idle
  <2>3. \A x \in Message \ {m} : Claims(u, {m}, x) <=> Claims(s, {}, x)
    BY <2>1 DEF Claims
  <2>4. ~Claims(s, {}, m)
    BY <2>2 DEF Claims
  <2>5. ASSUME NEW t \in u.blocked PROVE \E x \in Message : Claims(u, {m}, x) /\ u.fNotify[x] = t
    <3>1. PICK x \in Message : Claims(s, {}, x) /\ s.fNotify[x] = t
      BY <1>1, <2>1 DEF Claimed
    <3>2. x # m
      BY <2>4, <3>1
    <3>3. QED
      BY <2>1, <2>3, <3>1, <3>2
  <2>6. ASSUME NEW x \in Message \ {m}, u.fStatus[x] = kInProgress, u.fNotify[x] \in Task
        PROVE  u.fNotify[x] \in u.blocked
    BY <1>1, <2>1, <2>6 DEF Claimed
  <2>7. ASSUME NEW x \in Message \ {m}, Claims(u, {m}, x), u.fNotify[x] \in Task
        PROVE  u.fNotify[x] # d
    <3>1. u.fStatus[x] = kInProgress
      BY <2>7 DEF Claims
    <3>2. u.fNotify[x] \in s.blocked
      BY <2>1, <2>6, <2>7, <3>1
    <3>3. QED
      BY <3>2
  <2>8. ASSUME NEW x \in Message, NEW y \in Message, Claims(u, {m}, x), Claims(u, {m}, y),
               u.fNotify[x] \in Task, u.fNotify[x] = u.fNotify[y]
        PROVE  x = y
    <3>1. CASE x = m \/ y = m
      BY <2>1, <2>7, <2>8, <3>1
    <3>2. CASE x # m /\ y # m
      BY <1>1, <2>1, <2>3, <2>8, <3>2 DEF Claimed
    <3>3. QED
      BY <3>1, <3>2
  <2>9. QED
    BY <2>5, <2>6, <2>8 DEF Claimed
<1>8. Matched(u)
  <2>1. \A x \in Message : s.fContainer[x] # None => x # m
    BY <1>2 DEF Idle
  <2>2. \A p \in Port : fSenders(p) # None /\ fReceivers(p) # None
    BY QueueNames
  <2>3. \A x \in Message \ {m} : u.fType[x] = s.fType[x] /\ u.fFilter[x] = s.fFilter[x]
    BY DEF Starts
  <2>4. u.fContainer = s.fContainer
    BY DEF Starts
  <2>5. QED
    BY <1>1, <2>1, <2>2, <2>3, <2>4 DEF Matched, Unmatched
<1>9. Held(u)
  <2>1. /\ u.fSignature = s.fSignature /\ u.fSequenceNo = s.fSequenceNo /\ u.tokens = s.tokens
        /\ u.fContainer = s.fContainer
        /\ \A x \in Message \ {m} : u.fStatus[x] = s.fStatus[x] /\ u.sends[x] = s.sends[x]
    BY DEF Starts
  <2>2. s.fContainer[m] = None
    BY <1>2 DEF Idle
  <2>3. \A x \in s.tokens : x.msg \in Message
    <3>1. s.tokens \subseteq Token
      BY <1>1, Fields
    <3>2. QED
      BY <3>1 DEF Token
  <2>4. ASSUME NEW x \in s.tokens, x.sig # 0 PROVE Signed(u, x)
    <3>1. Signed(s, x)
      BY <1>1, <2>4 DEF Held
    <3>2. CASE x.msg = m
      BY <2>1, <2>2, <3>1, <3>2 DEF Signed
    <3>3. CASE x.msg # m
      BY <2>1, <2>3, <3>1, <3>3 DEF Signed
    <3>4. QED
      BY <3>2, <3>3
  <2>5. ASSUME NEW x \in s.tokens, x.sig = 0, CollectedAtHome PROVE Ended(u, x)
    <3>1. Ended(s, x)
      BY <1>1, <2>5 DEF Held
    <3>2. x.msg \in Message \ {m}
      BY <2>3, <2>5 DEF NotCollected
    <3>3. QED
      BY <2>1, <3>1, <3>2 DEF Ended
  <2>6. QED
    BY <1>1, <2>1, <2>4, <2>5 DEF Held
<1>10. u \in KernelRecord
  BY DEF Starts
<1>11. QED
  BY <1>3, <1>4, <1>5, <1>6, <1>7, <1>8, <1>9, <1>10 DEF Fit

LEMMA WantTyped ==
  ASSUME NEW s \in KernelRecord, NEW w, w \in BOOLEAN, NEW u, u = [s EXCEPT !.gWantDeferred = w]
  PROVE  u \in KernelRecord
BY Zenon DEF KernelRecord

\* A call fills in its message.
Called(s, u, m, d) ==
  /\ Starts(s, u, m, d)
  /\ u.gWantDeferred = s.gWantDeferred /\ u.ports = s.ports /\ u.msgs = s.msgs

LEMMA CallTyped ==
  ASSUME NEW s \in KernelRecord, NEW fa \in [Message -> Status],
         NEW fb \in [Message -> Type \cup Collector \cup {NoType}],
         NEW fd \in [Message -> Task \cup Port \cup {None}],
         NEW u, u = [s EXCEPT !.fStatus = fa, !.fType = fb, !.fNotify = fd]
  PROVE  u \in KernelRecord
BY Zenon DEF KernelRecord

LEMMA OptionsTyped ==
  ASSUME NEW s \in KernelRecord, NEW fe \in [Message -> {kNoTimeout, kTimeOutImmediate, Finite}],
         NEW ff \in [Message -> BOOLEAN], NEW fh \in [Message -> BOOLEAN],
         NEW fi \in [Message -> BOOLEAN],
         NEW u, u = [s EXCEPT !.f0020 = fh, !.f0080 = fi, !.fTimeout = fe, !.fUrgent = ff]
  PROVE  u \in KernelRecord
BY Zenon DEF KernelRecord

LEMMA SendingTyped ==
  ASSUME NEW s \in KernelRecord, NEW fg \in [Message -> Port \cup {None}],
         NEW fj \in [Message -> Nat],
         NEW u, u = [s EXCEPT !.fSendingPort = fg, !.sends = fj]
  PROVE  u \in KernelRecord
BY Zenon DEF KernelRecord

LEMMA FilterTyped ==
  ASSUME NEW s \in KernelRecord, NEW fc \in [Message -> SUBSET MatchAll],
         NEW u, u = [s EXCEPT !.fFilter = fc]
  PROVE  u \in KernelRecord
BY Zenon DEF KernelRecord

LEMMA OtherFields ==
  ASSUME NEW s \in KernelRecord
  PROVE  /\ s.fTimeout \in [Message -> {kNoTimeout, kTimeOutImmediate, Finite}]
         /\ s.fUrgent \in [Message -> BOOLEAN] /\ s.fSendingPort \in [Message -> Port \cup {None}]
         /\ s.f0020 \in [Message -> BOOLEAN] /\ s.f0080 \in [Message -> BOOLEAN]
BY DEF KernelRecord

LEMMA Plain ==
  ASSUME NEW type \in Type \cup {NoType}
  PROVE  type \notin Collector /\ type \in Type \cup Collector \cup {NoType}
<1>1. NoType \notin Collector
  BY DEF NoType, Collector, CollectedSender, CollectedReceiver
<1>2. QED
  BY <1>1, PortsAssumption

LEMMA ToSendStarts ==
  ASSUME NEW s \in KernelRecord, NEW m \in Message, NEW p \in Port, NEW type \in Type,
         NEW d \in {None, Owner[m], PortToNotify[m]},
         NEW timeout \in {kNoTimeout, kTimeOutImmediate, Finite}, NEW urgent \in BOOLEAN,
         NEW u, u = ToSend(s, m, p, type, d, timeout, urgent)
  PROVE  Called(s, u, m, d) /\ Opened(s, u, m, type, timeout)
<1> DEFINE fa == [s.fStatus EXCEPT ![m] = kInProgress]
           fb == [s.fType EXCEPT ![m] = type]
           fd == [s.fNotify EXCEPT ![m] = d]
           fe == [s.fTimeout EXCEPT ![m] = timeout]
           ff == [s.fUrgent EXCEPT ![m] = urgent]
           fg == [s.fSendingPort EXCEPT ![m] = p]
           fh == [s.f0020 EXCEPT ![m] = FALSE]
           fi == [s.f0080 EXCEPT ![m] = FALSE]
           fj == [s.sends EXCEPT ![m] = s.sends[m] + 1]
           v == [s EXCEPT !.fStatus = fa, !.fType = fb, !.fNotify = fd]
           w == [v EXCEPT !.f0020 = fh, !.f0080 = fi, !.fTimeout = fe, !.fUrgent = ff]
<1>1. u = [s EXCEPT !.fStatus = fa, !.fType = fb, !.fSendingPort = fg, !.f0020 = fh, !.f0080 = fi,
                    !.fNotify = fd, !.fTimeout = fe, !.fUrgent = ff, !.sends = fj]
  BY DEF ToSend, KernelRecord
<1>2. kInProgress \in Status /\ d \in Task \cup Port \cup {None}
  BY Parties DEF Status
<1>3. type \notin Collector /\ type \in Type \cup Collector \cup {NoType}
  BY Plain
<1>4. fa \in [Message -> Status] /\ fb \in [Message -> Type \cup Collector \cup {NoType}]
  BY <1>2, <1>3, Fields
<1>5. fd \in [Message -> Task \cup Port \cup {None}] /\ fj \in [Message -> Nat]
  BY <1>2, Fields
<1>6. /\ fe \in [Message -> {kNoTimeout, kTimeOutImmediate, Finite}]
      /\ ff \in [Message -> BOOLEAN] /\ fg \in [Message -> Port \cup {None}]
      /\ fh \in [Message -> BOOLEAN] /\ fi \in [Message -> BOOLEAN]
  BY OtherFields
<1>7. /\ fa[m] = kInProgress /\ fb[m] = type /\ fd[m] = d
      /\ \A x \in Message \ {m} : /\ fa[x] = s.fStatus[x] /\ fb[x] = s.fType[x]
                                  /\ fd[x] = s.fNotify[x] /\ fj[x] = s.sends[x]
  BY Fields
<1>8. /\ fe[m] = timeout /\ ~fi[m]
       /\ \A x \in Message \ {m} : fe[x] = s.fTimeout[x] /\ fi[x] = s.f0080[x]
  BY OtherFields
<1> HIDE DEF fa, fb, fd, fe, ff, fg, fh, fi, fj
<1>9. u = [w EXCEPT !.fSendingPort = fg, !.sends = fj]
  BY <1>1
<1>10. v = [s EXCEPT !.fStatus = fa, !.fType = fb, !.fNotify = fd]
  OBVIOUS
<1>11. w = [v EXCEPT !.f0020 = fh, !.f0080 = fi, !.fTimeout = fe, !.fUrgent = ff]
  OBVIOUS
<1> HIDE DEF v, w
<1>12. v \in KernelRecord
  BY Zenon, <1>4, <1>5, <1>10, CallTyped
<1>13. w \in KernelRecord
  BY Zenon, <1>6, <1>11, <1>12, OptionsTyped
<1>14. u \in KernelRecord
  BY Zenon, <1>5, <1>6, <1>9, <1>13, SendingTyped
<1>15. /\ u.queue = s.queue /\ u.fContainer = s.fContainer /\ u.gTimerDeferred = s.gTimerDeferred
       /\ u.fSignature = s.fSignature /\ u.fSequenceNo = s.fSequenceNo /\ u.fTimer = s.fTimer
       /\ u.tokens = s.tokens /\ u.blocked = s.blocked
       /\ u.fStatus = fa /\ u.fType = fb /\ u.fFilter = s.fFilter /\ u.fNotify = fd /\ u.sends = fj
       /\ u.gWantDeferred = s.gWantDeferred /\ u.ports = s.ports /\ u.msgs = s.msgs
  BY <1>1 DEF KernelRecord
<1>16. u.result = s.result /\ u.f0080 = fi /\ u.fTimeout = fe /\ u.fType = fb
  BY <1>1 DEF KernelRecord
<1>17. Opened(s, u, m, type, timeout)
  BY <1>7, <1>8, <1>16 DEF Opened
<1>18. QED
  BY <1>3, <1>7, <1>14, <1>15, <1>17 DEF Starts, Called

LEMMA ToReceiveStarts ==
  ASSUME NEW s \in KernelRecord, NEW m \in Message, NEW filter \in SUBSET MatchAll,
         NEW d \in {None, Owner[m], PortToNotify[m]},
         NEW timeout \in {kNoTimeout, kTimeOutImmediate, Finite}, NEW urgent \in BOOLEAN,
         NEW u, u = ToReceive(s, m, filter, d, timeout, urgent)
  PROVE  Called(s, u, m, d) /\ Opened(s, u, m, NoType, timeout)
<1> DEFINE fa == [s.fStatus EXCEPT ![m] = kInProgress]
           fb == [s.fType EXCEPT ![m] = NoType]
           fc == [s.fFilter EXCEPT ![m] = filter]
           fd == [s.fNotify EXCEPT ![m] = d]
           fe == [s.fTimeout EXCEPT ![m] = timeout]
           ff == [s.fUrgent EXCEPT ![m] = urgent]
           fh == [s.f0020 EXCEPT ![m] = FALSE]
           fi == [s.f0080 EXCEPT ![m] = FALSE]
           v == [s EXCEPT !.fStatus = fa, !.fType = fb, !.fNotify = fd]
           w == [v EXCEPT !.f0020 = fh, !.f0080 = fi, !.fTimeout = fe, !.fUrgent = ff]
<1>1. u = [s EXCEPT !.fStatus = fa, !.fType = fb, !.fFilter = fc, !.f0020 = fh, !.f0080 = fi,
                    !.fNotify = fd, !.fTimeout = fe, !.fUrgent = ff]
  BY DEF ToReceive, KernelRecord
<1>2. kInProgress \in Status /\ d \in Task \cup Port \cup {None}
  BY Parties DEF Status
<1>3. NoType \notin Collector /\ NoType \in Type \cup Collector \cup {NoType}
  BY Plain
<1>4. fa \in [Message -> Status] /\ fb \in [Message -> Type \cup Collector \cup {NoType}]
  BY <1>2, <1>3, Fields
<1>5. fd \in [Message -> Task \cup Port \cup {None}] /\ fc \in [Message -> SUBSET MatchAll]
  BY <1>2, Fields
<1>6. /\ fe \in [Message -> {kNoTimeout, kTimeOutImmediate, Finite}]
      /\ ff \in [Message -> BOOLEAN]
      /\ fh \in [Message -> BOOLEAN] /\ fi \in [Message -> BOOLEAN]
  BY OtherFields
<1>7. /\ fa[m] = kInProgress /\ fb[m] = NoType /\ fd[m] = d
      /\ \A x \in Message \ {m} : /\ fa[x] = s.fStatus[x] /\ fb[x] = s.fType[x]
                                  /\ fc[x] = s.fFilter[x] /\ fd[x] = s.fNotify[x]
  BY Fields
<1>8. /\ fe[m] = timeout /\ ~fi[m]
       /\ \A x \in Message \ {m} : fe[x] = s.fTimeout[x] /\ fi[x] = s.f0080[x]
  BY OtherFields
<1> HIDE DEF fa, fb, fc, fd, fe, ff, fh, fi
<1>9. u = [w EXCEPT !.fFilter = fc]
  BY <1>1
<1>10. v = [s EXCEPT !.fStatus = fa, !.fType = fb, !.fNotify = fd]
  OBVIOUS
<1>11. w = [v EXCEPT !.f0020 = fh, !.f0080 = fi, !.fTimeout = fe, !.fUrgent = ff]
  OBVIOUS
<1> HIDE DEF v, w
<1>12. v \in KernelRecord
  BY Zenon, <1>4, <1>5, <1>10, CallTyped
<1>13. w \in KernelRecord
  BY Zenon, <1>6, <1>11, <1>12, OptionsTyped
<1>14. u \in KernelRecord
  BY <1>5, <1>9, <1>13, FilterTyped
<1>15. /\ u.queue = s.queue /\ u.fContainer = s.fContainer /\ u.gTimerDeferred = s.gTimerDeferred
       /\ u.fSignature = s.fSignature /\ u.fSequenceNo = s.fSequenceNo /\ u.fTimer = s.fTimer
       /\ u.tokens = s.tokens /\ u.blocked = s.blocked
       /\ u.fStatus = fa /\ u.fType = fb /\ u.fFilter = fc /\ u.fNotify = fd /\ u.sends = s.sends
       /\ u.gWantDeferred = s.gWantDeferred /\ u.ports = s.ports /\ u.msgs = s.msgs
  BY <1>1 DEF KernelRecord
<1>16. u.result = s.result /\ u.f0080 = fi /\ u.fTimeout = fe /\ u.fType = fb
  BY <1>1 DEF KernelRecord
<1>17. Opened(s, u, m, NoType, timeout)
  BY <1>7, <1>8, <1>16 DEF Opened
<1>18. QED
  BY <1>3, <1>7, <1>14, <1>15, <1>17 DEF Starts, Called

\* A message in hand is put off.
Delay(s, m, filter) == [s EXCEPT !.fTimer[m] = "Delay", !.fFilter[m] = filter]

Delayed(s, u, m) ==
  /\ Fit(u, {m}) /\ Calm(s, u)
  /\ u.fStatus = s.fStatus /\ u.fType = s.fType /\ u.fContainer = s.fContainer
  /\ u.fSignature = s.fSignature /\ u.fNotify = s.fNotify /\ u.blocked = s.blocked
  /\ u.fTimer[m] = "Delay"

\* A send without a timeout is put off.
LEMMA DelaySays ==
  ASSUME NEW s \in KernelRecord, NEW m \in Message, s.fTimeout[m] # Finite, NEW filter,
         NEW u, u \in {Delay(s, m, filter), [s EXCEPT !.fTimer[m] = "Delay"]}
  PROVE  Voice(s, u) /\ Tells(s, u)
<1>1. Voice(s, u) /\ u.fContainer = s.fContainer /\ u.fTimer = [s.fTimer EXCEPT ![m] = "Delay"]
  <2>1. CASE u = [s EXCEPT !.fTimer[m] = "Delay"]
    BY <2>1 DEF Voice, KernelRecord
  <2>2. CASE u = Delay(s, m, filter)
    BY <2>2 DEF Delay, Voice, KernelRecord
  <2>3. QED
    BY <2>1, <2>2
<1>2. \A x \in Message : u.fTimer[x] = IF x = m THEN "Delay" ELSE s.fTimer[x]
  BY <1>1 DEF KernelRecord
<1>3. Roles(s) => Roles(u)
  BY <1>1, <1>2 DEF Roles, Voice
<1>4. QED
  BY <1>1, <1>3, VoiceTold DEF Tells, Said

LEMMA DelayTyped ==
  ASSUME NEW s \in KernelRecord, NEW f \in [Message -> {"no", "Timeout", "Delay"}],
         NEW g \in [Message -> SUBSET MatchAll], NEW u, u = [s EXCEPT !.fTimer = f, !.fFilter = g]
  PROVE  u \in KernelRecord
BY Zenon DEF KernelRecord

LEMMA DelayIs ==
  ASSUME NEW s \in KernelRecord, NEW m \in Message, NEW filter \in SUBSET MatchAll,
         NEW u, u = Delay(s, m, filter)
  PROVE  Turns(s, u, m) /\ u.fTimer[m] = "Delay" /\ u.fStatus = s.fStatus /\ u.fType = s.fType
         /\ u.fSignature = s.fSignature
<1> DEFINE f == [s.fTimer EXCEPT ![m] = "Delay"]
           g == [s.fFilter EXCEPT ![m] = filter]
<1>1. /\ f \in [Message -> {"no", "Timeout", "Delay"}] /\ f[m] = "Delay"
      /\ \A x \in Message \ {m} : f[x] = s.fTimer[x] /\ g[x] = s.fFilter[x]
  BY Fields
<1>2. g \in [Message -> SUBSET MatchAll]
  BY Fields
<1>3. u = [s EXCEPT !.fTimer = f, !.fFilter = g]
  BY DEF Delay, KernelRecord
<1> HIDE DEF f, g
<1>4. f \in [Message -> {"no", "Timeout", "Delay"}]
  BY <1>1
<1>5. u \in KernelRecord
  BY Zenon, <1>2, <1>3, <1>4, DelayTyped
<1>6. /\ u.fStatus = s.fStatus /\ u.fContainer = s.fContainer /\ u.fTimer = f
      /\ u.queue = s.queue /\ u.gTimerDeferred = s.gTimerDeferred
      /\ u.fType = s.fType /\ u.fFilter = g /\ u.fSignature = s.fSignature
      /\ u.fNotify = s.fNotify /\ u.fSequenceNo = s.fSequenceNo /\ u.sends = s.sends
      /\ u.tokens = s.tokens /\ u.blocked = s.blocked
      /\ u.gWantDeferred = s.gWantDeferred /\ u.ports = s.ports /\ u.msgs = s.msgs
  BY <1>3 DEF KernelRecord
<1>7. Turns(s, u, m)
  BY <1>1, <1>5, <1>6 DEF Turns
<1>8. QED
  BY <1>1, <1>6, <1>7

LEMMA DelayFits ==
  ASSUME NEW s, NEW m \in Message, Fit(s, {m}), Begun(s, m), NEW filter, filter \in SUBSET MatchAll,
         NEW u, u = Delay(s, m, filter)
  PROVE  Delayed(s, u, m)
<1>1. s \in KernelRecord /\ m \in {m} /\ {m} \in SUBSET Message
  BY DEF Fit
<1>2. /\ Turns(s, u, m) /\ u.fTimer[m] = "Delay" /\ u.fStatus = s.fStatus /\ u.fType = s.fType
      /\ u.fSignature = s.fSignature
  BY <1>1, DelayIs
<1>3. s.fContainer[m] = None
  BY DEF Begun
<1>4. Fit(u, {m}) /\ Calm(s, u)
  BY <1>1, <1>2, <1>3, TurnFits
<1>5. u.fContainer = s.fContainer /\ u.fNotify = s.fNotify /\ u.blocked = s.blocked
  BY <1>2 DEF Turns
<1>6. QED
  BY <1>2, <1>4, <1>5 DEF Delayed

LEMMA DelayedFits ==
  ASSUME NEW s, NEW m \in Message, Fit(s, {m}), s.fStatus[m] = kInProgress,
         s.fType[m] \notin Collector, s.fContainer[m] = None, s.fSignature[m] = 0,
         s.fTimer[m] = "Delay", s.fNotify[m] \in Task => s.fNotify[m] \in s.blocked
  PROVE  Fit(s, {})
<1>1. Active(s, m)
  BY QueueNames DEF Active, InReply
<1>2. Mode(s, m)
  BY <1>1 DEF Mode
<1>3. m \in {m} /\ {m} \in SUBSET Message /\ {m} \ {m} = {}
  OBVIOUS
<1>4. Fit(s, {m} \ {m})
  BY <1>2, <1>3, Closes
<1>5. QED
  BY <1>3, <1>4

-----------------------------------------------------------------------------
(* The calls of a task.                                                    *)

\* What the deferrals ask of a step.
Remembers(s, u) ==
  /\ u.gWantDeferred = s.gWantDeferred
  /\ s.queue[gDeferredSends] = <<>> => u.queue[gDeferredSends] = <<>>
  /\ s.gTimerDeferred = <<>> => u.gTimerDeferred = <<>>

LEMMA CalmRemembers ==
  ASSUME NEW s, NEW u, Calm(s, u)
  PROVE  Remembers(s, u)
BY DEF Calm, Remembers

LEMMA RemembersTrans ==
  ASSUME NEW s, NEW u, NEW v, Remembers(s, u), Remembers(u, v)
  PROVE  Remembers(s, v)
BY DEF Remembers

\* What a step that begins with k tells by the record u, where no send has a timeout.
Speaks(u) == Finite \notin SendTimeouts /\ CollectedAtHome /\ Roles(k) => Said(k, u)

LEMMA SpeaksMore ==
  ASSUME NEW s, NEW u, Tells(s, u), Speaks(s)
  PROVE  Speaks(u)
BY DEF Tells, Speaks

LEMMA SpeaksFirst == Speaks(k)
BY DEF Speaks, Said, Told

LEMMA ExitInv ==
  ASSUME Inv, deferring = "no", NEW u, Fit(u, {}), Remembers(k, u), SwiExit(u)
  PROVE  Inv' /\ (Speaks(u) => Speaks(k'))
<1>1. k' = [u EXCEPT !.gWantDeferred = FALSE] /\ u \in KernelRecord
  BY DEF SwiExit, Fit
<1>2. FALSE \in BOOLEAN
  OBVIOUS
<1>3. k' \in KernelRecord
  BY Zenon, <1>1, <1>2, WantTyped
<1>4. /\ k'.queue = u.queue /\ k'.fContainer = u.fContainer /\ k'.gTimerDeferred = u.gTimerDeferred
      /\ k'.fStatus = u.fStatus /\ k'.fType = u.fType /\ k'.fFilter = u.fFilter
      /\ k'.fSignature = u.fSignature /\ k'.fTimer = u.fTimer
      /\ k'.fNotify = u.fNotify /\ k'.fSequenceNo = u.fSequenceNo /\ k'.sends = u.sends
      /\ k'.tokens = u.tokens /\ k'.blocked = u.blocked
      /\ k'.result = u.result /\ k'.f0080 = u.f0080 /\ k'.fTimeout = u.fTimeout
  BY <1>1 DEF KernelRecord
<1>5. Aside(u, k')
  BY <1>3, <1>4 DEF Aside
<1>6. Fit(k', {})
  BY <1>5, AsideFits
<1>7. deferring' = IF u.gWantDeferred THEN "sends" ELSE "no"
  BY DEF SwiExit
<1>8. DeferralsRemembered'
  <2>1. k.queue[gDeferredSends] # <<>> \/ k.gTimerDeferred # <<>> => k.gWantDeferred
    BY DEF Inv, DeferralsRemembered
  <2>2. k'.queue[gDeferredSends] # <<>> \/ k'.gTimerDeferred # <<>> => deferring' = "sends"
    BY <1>4, <1>7, <2>1 DEF Remembers
  <2>3. QED
    BY <2>2 DEF DeferralsRemembered
<1>9. TypeOK'
  BY <1>3, <1>7 DEF TypeOK
<1>10. Speaks(u) => Speaks(k')
  BY <1>5, AsideSays, SpeaksMore
<1>11. QED
  BY <1>6, <1>8, <1>9, <1>10 DEF Inv

LEMMA InvFacts ==
  ASSUME Inv
  PROVE  /\ Fit(k, {}) /\ k \in KernelRecord
         /\ k.gWantDeferred \in BOOLEAN /\ k.ports \subseteq Port
         /\ k.blocked \subseteq Task /\ k.tokens \subseteq Token
         /\ \A m \in Message : /\ k.fFilter[m] \in SUBSET MatchAll /\ k.sends[m] \in Nat
                               /\ k.fSendingPort[m] \in Port \cup {None} /\ Mode(k, m)
<1>1. Fit(k, {}) /\ k \in KernelRecord
  BY DEF Inv, Fit
<1>2. k.fSendingPort \in [Message -> Port \cup {None}]
  BY <1>1 DEF KernelRecord
<1>3. \A m \in Message : Mode(k, m)
  BY <1>1 DEF Fit
<1>4. QED
  BY <1>1, <1>2, <1>3, Fields

\* A task that is free has nobody's message, and runs.
LEMMA FreeOwner ==
  ASSUME Inv, NEW m \in Message, Free(Owner[m])
  PROVE  /\ NotCollected(k, m) /\ deferring = "no"
         /\ \A d \in {None, Owner[m], PortToNotify[m]} : d \notin k.blocked
<1>1. deferring = "no" /\ Owner[m] \notin k.blocked /\ CollectedBy(Owner[m]) = {}
  BY DEF Free, Runs
<1>2. k.blocked \subseteq Task
  BY InvFacts
<1>3. ASSUME NEW d \in {None, Owner[m], PortToNotify[m]} PROVE d \notin k.blocked
  BY <1>1, <1>2, Parties
<1>4. ASSUME CollectedAtHome, NEW x \in k.tokens, x.sig = 0 PROVE x.msg # m
  <2>1. Ended(k, x)
    BY <1>4, InvFacts DEF Fit, Held
  <2>2. x \notin CollectedBy(Owner[m])
    BY <1>1
  <2>3. Owner[x.rcvr] # Owner[m]
    BY <1>4, <2>2 DEF CollectedBy
  <2>4. QED
    BY <2>1, <2>3 DEF Ended
<1>5. QED
  BY <1>1, <1>3, <1>4 DEF NotCollected

\* A call of a free task has its message in hand.
Ready(u, m, d) ==
  /\ Fit(u, {m}) /\ Begun(u, m) /\ Remembers(k, u)
  /\ u.fNotify[m] = d /\ u.fNotify[m] \notin u.blocked
  /\ u.tokens = k.tokens /\ u.ports = k.ports /\ u.msgs = k.msgs

LEMMA CalledReady ==
  ASSUME Inv, NEW m \in Message, ~Busy(k, m), NotCollected(k, m),
         NEW d \in {None, Owner[m], PortToNotify[m]}, d \notin k.blocked,
         NEW u, Called(k, u, m, d)
  PROVE  Ready(u, m, d)
<1>1. /\ Starts(k, u, m, d) /\ u.gWantDeferred = k.gWantDeferred
      /\ u.ports = k.ports /\ u.msgs = k.msgs
  BY DEF Called
<1>2. Fit(k, {})
  BY InvFacts
<1>3. Fit(u, {m}) /\ Begun(u, m)
  BY <1>1, <1>2, StartFits
<1>4. /\ u.fNotify[m] = d /\ u.blocked = k.blocked /\ u.queue = k.queue
      /\ u.gTimerDeferred = k.gTimerDeferred /\ u.tokens = k.tokens
  BY <1>1 DEF Starts
<1>5. Remembers(k, u)
  BY <1>1, <1>4 DEF Remembers
<1>6. QED
  BY <1>1, <1>3, <1>4, <1>5 DEF Ready

\* msgSend.
LEMMA PortSendInv ==
  ASSUME Inv, NEW m \in Message, NEW p \in Writes[m], NEW type \in Type,
         NEW timeout \in SendTimeouts, NEW urgent \in BOOLEAN, NEW delay \in BOOLEAN, NEW late,
         PortSendSWI(m, p, type, timeout, urgent, delay, late)
  PROVE  Inv' /\ Speaks(k')
<1> DEFINE d == Notified(m)
           s == ToSend(k, m, p, type, d, timeout, urgent)
           z == {}
           v == Delay(s, m, z)
           b == Block(v, m)
           w == Send(s, p, m, TRUE, late)
           u == IF delay /\ "Delay" \notin late THEN b ELSE w
<1>1. Free(Owner[m]) /\ ~Busy(k, m)
  BY DEF PortSendSWI
<1>2. k \in KernelRecord
  BY InvFacts
<1>3. SwiExit(u)
  BY DEF PortSendSWI, Delay
<1>4. /\ d \in {None, Owner[m], PortToNotify[m]} /\ p \in Port
      /\ timeout \in {kNoTimeout, kTimeOutImmediate, Finite} /\ z \in SUBSET MatchAll
  BY PortsAssumption DEF Notified
<1>5. NotCollected(k, m) /\ deferring = "no" /\ d \notin k.blocked
  BY <1>1, <1>4, FreeOwner
<1>6. v = Delay(s, m, z) /\ b = Block(v, m) /\ w = Send(s, p, m, TRUE, late) /\ TRUE \in BOOLEAN
      /\ s = ToSend(k, m, p, type, d, timeout, urgent)
  OBVIOUS
<1> HIDE DEF s, v, b, w, d, z
<1>7. Called(k, s, m, d) /\ Opened(k, s, m, type, timeout)
  BY <1>2, <1>4, <1>6, ToSendStarts
<1>8. Ready(s, m, d)
  BY <1>1, <1>4, <1>5, <1>7, CalledReady
<1>9. Fit(s, {m}) /\ Begun(s, m) /\ Remembers(k, s) /\ s.fNotify[m] \notin s.blocked
  BY <1>8 DEF Ready
<1>10. m \in {m} /\ {m} \in SUBSET Message /\ s \in KernelRecord
  BY <1>9 DEF Fit
<1>11. s.fContainer[m] = None /\ s.fTimer[m] = "no" /\ s.fTimeout[m] = timeout
  BY <1>7, <1>9 DEF Begun, Opened
<1>12. ASSUME Roles(k) PROVE Started(k, s, m)
  <2>1. Starts(k, s, m, d) /\ Fit(k, {})
    BY <1>7, InvFacts DEF Called
  <2>2. QED
    BY <1>1, <1>7, <1>12, <2>1, StartSays
<1>13. CASE delay /\ "Delay" \notin late
  <2>1. u = b
    BY <1>13
  <2>2. Delayed(s, v, m)
    BY <1>4, <1>6, <1>9, DelayFits
  <2>3. /\ Fit(v, {m}) /\ Calm(s, v)
        /\ v.fStatus = s.fStatus /\ v.fType = s.fType /\ v.fContainer = s.fContainer
        /\ v.fSignature = s.fSignature /\ v.fNotify = s.fNotify /\ v.blocked = s.blocked
        /\ v.fTimer[m] = "Delay"
    BY <2>2 DEF Delayed
  <2>4. /\ Fit(b, {m}) /\ Calm(v, b) /\ Others(v, b, {})
        /\ v.fNotify[m] \in Task => v.fNotify[m] \in b.blocked
    BY <1>6, <1>10, <2>3, BlockFits
  <2>5. Same(v, b, m)
    BY <2>4 DEF Others
  <2>6. /\ b.fStatus[m] = kInProgress /\ b.fType[m] \notin Collector /\ b.fContainer[m] = None
        /\ b.fSignature[m] = 0 /\ b.fTimer[m] = "Delay"
        /\ b.fNotify[m] \in Task => b.fNotify[m] \in b.blocked
    BY <1>9, <2>3, <2>4, <2>5 DEF Begun, Same
  <2>7. Fit(b, {})
    BY <2>4, <2>6, DelayedFits
  <2>8. Remembers(k, b)
    BY <1>9, <2>3, <2>4, CalmTrans, CalmRemembers, RemembersTrans
  <2> HIDE DEF u
  <2>9. Speaks(b)
    <3>1. SUFFICES ASSUME timeout # Finite, Roles(k) PROVE Said(k, b)
      BY DEF Speaks
    <3>2. Said(k, s) /\ Clear(k, s, m) /\ ~Sending(k, m)
      BY <1>12, <3>1 DEF Started
    <3>3. Voice(s, v) /\ Tells(s, v)
      BY <1>6, <1>10, <1>11, <3>1, DelaySays
    <3>4. Said(k, v) /\ Clear(k, v, m)
      BY <3>2, <3>3, VoiceTold DEF Tells
    <3>5. v \in KernelRecord
      BY <2>3 DEF Fit
    <3>6. QED
      BY <1>6, <3>2, <3>4, <3>5, BlockSays
  <2>10. QED
    BY <1>3, <1>5, <2>1, <2>7, <2>8, <2>9, ExitInv
<1>14. CASE ~(delay /\ "Delay" \notin late)
  <2>1. u = w
    BY <1>14
  <2> HIDE DEF u
  <2>2. IF TimesOutAtOnce(s, m, late) THEN w = WithStatus(s, m, TimedOut)
        ELSE /\ Fit(w, {}) /\ Calm(s, w)
             /\ s.fTimeout[m] # Finite => Heeds(s, w, m)
    BY <1>4, <1>6, <1>9, SendFits
  <2>3. Fit(w, {}) /\ Calm(s, w) /\ Speaks(w)
    <3>1. CASE TimesOutAtOnce(s, m, late)
      <4>1. TimedOut \in Status \ {kInProgress}
        BY DEF TimedOut, Status, kInProgress, noErr
      <4>2. w = WithStatus(s, m, TimedOut)
        BY <2>2, <3>1
      <4>3. Fit(w, {}) /\ Calm(s, w)
        BY <1>9, <4>1, <4>2, RefusedFits
      <4>4. Speaks(w)
        BY <1>10, <1>11, <1>12, <4>1, <4>2, RefuseSays DEF Speaks, Started
      <4>5. QED
        BY <4>3, <4>4
    <3>2. CASE ~TimesOutAtOnce(s, m, late)
      BY <1>11, <1>12, <2>2, <3>2 DEF Speaks, Started, Heeds
    <3>3. QED
      BY <3>1, <3>2
  <2>4. Remembers(k, w)
    BY <1>9, <2>3, CalmRemembers, RemembersTrans
  <2>5. QED
    BY <1>3, <1>5, <2>1, <2>3, <2>4, ExitInv
<1>15. QED
  BY <1>13, <1>14

\* msgReceive.
LEMMA PortReceiveInv ==
  ASSUME Inv, NEW r \in Message, NEW p \in Reads[r], NEW filter \in Filters,
         NEW timeout \in ReadTimeouts, NEW urgent \in BOOLEAN, NEW how, NEW late,
         PortReceiveSWI(r, p, filter, timeout, urgent, how, late)
  PROVE  Inv' /\ Speaks(k')
<1> DEFINE d == Notified(r)
           s == ToReceive(k, r, filter, d, timeout, urgent)
           u == Receive(s, p, r, how, late)
<1>1. Free(Owner[r]) /\ ~Busy(k, r)
  BY DEF PortReceiveSWI
<1>2. k \in KernelRecord
  BY InvFacts
<1>3. SwiExit(u)
  BY DEF PortReceiveSWI
<1>4. /\ d \in {None, Owner[r], PortToNotify[r]} /\ filter \in SUBSET MatchAll
      /\ timeout \in {kNoTimeout, kTimeOutImmediate, Finite}
  BY PortsAssumption DEF Notified
<1>5. NotCollected(k, r) /\ deferring = "no" /\ d \notin k.blocked
  BY <1>1, <1>4, FreeOwner
<1>6. s = ToReceive(k, r, filter, d, timeout, urgent) /\ u = Receive(s, p, r, how, late)
  OBVIOUS
<1> HIDE DEF s, u, d
<1>7. Called(k, s, r, d) /\ Opened(k, s, r, NoType, timeout)
  BY <1>2, <1>4, <1>6, ToReceiveStarts
<1>8. Ready(s, r, d)
  BY <1>1, <1>4, <1>5, <1>7, CalledReady
<1>9. Fit(s, {r}) /\ Begun(s, r) /\ Remembers(k, s) /\ s.fNotify[r] \notin s.blocked
  BY <1>8 DEF Ready
<1>10. /\ Fit(u, {}) /\ Calm(s, u)
       /\ \A z : Started(z, s, r) /\ s.fType[r] \notin Type => Said(z, u)
  BY <1>6, <1>9, ReceiveFits
<1>11. Speaks(u)
  <2>1. Roles(k) => Started(k, s, r)
    <3>1. Starts(k, s, r, d) /\ Fit(k, {})
      BY <1>7, InvFacts DEF Called
    <3>2. QED
      BY <1>1, <1>7, <3>1, StartSays
  <2>2. s.fType[r] \notin Type
    BY <1>7, PortsAssumption DEF Opened
  <2>3. QED
    BY <1>10, <2>1, <2>2 DEF Speaks
<1>12. Remembers(k, u)
  BY <1>9, <1>10, CalmRemembers, RemembersTrans
<1>13. QED
  BY <1>3, <1>5, <1>10, <1>12, <1>11, ExitInv
\* The tokens are changed, and nothing else.
WithTokens(s, T) == [s EXCEPT !.tokens = T]

Retold(s, u) ==
  /\ Fit(u, {}) /\ Remembers(s, u)
  /\ u.fStatus = s.fStatus /\ u.fNotify = s.fNotify /\ u.fContainer = s.fContainer
  /\ Tells(s, u)

LEMMA TokensRetold ==
  ASSUME NEW s, Fit(s, {}), NEW T, T \subseteq Token, Answers(s, T), NEW u, u = WithTokens(s, T)
  PROVE  Retold(s, u)
<1>1. u = [s EXCEPT !.tokens = T]
  BY DEF WithTokens
<1> DEFINE M == {}
<1>2. Fit(s, M)
  OBVIOUS
<1> HIDE DEF M
<1>3. /\ Fit(u, M)
      /\ u.fStatus = s.fStatus /\ u.fNotify = s.fNotify /\ u.fContainer = s.fContainer
      /\ u.gWantDeferred = s.gWantDeferred /\ u.queue = s.queue
      /\ u.gTimerDeferred = s.gTimerDeferred
  BY <1>1, <1>2, TokensFit
<1>4. Tells(s, u)
  <2>1. /\ Voice(s, u) /\ u.fContainer = s.fContainer /\ u.fTimer = s.fTimer
    BY <1>1 DEF Fit, KernelRecord, Voice
  <2>2. Roles(s) => Roles(u)
    BY <2>1 DEF Roles, Voice
  <2>3. QED
    BY <2>1, <2>2, VoiceTold DEF Tells, Said
<1>5. QED
  BY <1>3, <1>4 DEF Retold, Remembers, M

LEMMA PeekInv ==
  ASSUME Inv, deferring = "no", NEW s, Fit(s, {}), Remembers(k, s), Speaks(s),
         NEW u, u = WithTokens(s, k.tokens), SwiExit(u), NEW v, Calm(v, s), v.tokens = k.tokens
  PROVE  Inv' /\ Speaks(k')
<1>1. k.tokens \subseteq Token /\ k.tokens \subseteq s.tokens
  BY InvFacts DEF Calm
<1>2. Answers(s, k.tokens)
  BY <1>1 DEF Answers
<1>3. Retold(s, u)
  BY <1>1, <1>2, TokensRetold
<1>4. Fit(u, {}) /\ Remembers(k, u) /\ Speaks(u)
  BY <1>3, RemembersTrans, SpeaksMore DEF Retold
<1>5. QED
  BY <1>4, ExitInv

\* isMsgAvailable.
LEMMA IsMsgAvailableInv ==
  ASSUME Inv, NEW t \in Task, NEW p \in Port, NEW filter \in Filters, IsMsgAvailable(t, p, filter)
  PROVE  Inv' /\ Speaks(k')
<1> DEFINE r == BuiltIn[t]
           d == None
           urgent == k.fUrgent[r]
           late == {}
           v == ToReceive(k, r, filter, d, kNoTimeout, urgent)
           s == Receive(v, p, r, "peek", late)
           u == WithTokens(s, k.tokens)
<1>1. r \in Message /\ Owner[r] = t
  BY PortsAssumption
<1>2. Free(Owner[r]) /\ ~Busy(k, r) /\ p \in Reads[r] /\ SwiExit(u)
  <2>1. Free(t) /\ ~Busy(k, r) /\ p \in Reads[r] /\ SwiExit(u)
    BY DEF IsMsgAvailable, WithTokens
  <2>2. QED
    BY <1>1, <2>1
<1>3. k \in KernelRecord
  BY InvFacts
<1>4. /\ d \in {None, Owner[r], PortToNotify[r]} /\ filter \in SUBSET MatchAll
      /\ kNoTimeout \in {kNoTimeout, kTimeOutImmediate, Finite}
  BY PortsAssumption
<1>5. urgent \in BOOLEAN
  BY <1>1, <1>3, OtherFields
<1>6. v = ToReceive(k, r, filter, d, kNoTimeout, urgent) /\ s = Receive(v, p, r, "peek", late)
      /\ u = WithTokens(s, k.tokens)
  OBVIOUS
<1> HIDE DEF r, d, urgent, late, v, s, u
<1>7. NotCollected(k, r) /\ deferring = "no" /\ d \notin k.blocked
  BY <1>1, <1>2, <1>4, FreeOwner
<1>8. Called(k, v, r, d) /\ Opened(k, v, r, NoType, kNoTimeout)
  BY <1>1, <1>3, <1>4, <1>5, <1>6, ToReceiveStarts
<1>9. Ready(v, r, d)
  BY <1>1, <1>2, <1>4, <1>7, <1>8, CalledReady
<1>10. /\ Fit(v, {r}) /\ Begun(v, r) /\ Remembers(k, v) /\ v.fNotify[r] \notin v.blocked
       /\ v.tokens = k.tokens
  BY <1>9 DEF Ready
<1>11. /\ Fit(s, {}) /\ Calm(v, s)
       /\ \A z : Started(z, v, r) /\ v.fType[r] \notin Type => Said(z, s)
  BY <1>1, <1>2, <1>6, <1>10, ReceiveFits
<1>12. Remembers(k, s)
  BY <1>10, <1>11, CalmRemembers, RemembersTrans
<1>13. Speaks(s)
  <2>1. Roles(k) => Started(k, v, r)
    <3>1. Starts(k, v, r, d) /\ Fit(k, {})
      BY <1>8, InvFacts DEF Called
    <3>2. QED
      BY <1>1, <1>2, <1>8, <3>1, StartSays
  <2>2. v.fType[r] \notin Type
    BY <1>8, PortsAssumption DEF Opened
  <2>3. QED
    BY <1>11, <2>1, <2>2 DEF Speaks
<1>14. QED
  BY <1>2, <1>6, <1>7, <1>10, <1>11, <1>12, <1>13, PeekInv

\* A message in hand will resume the task that uses it.
Renotify(s, m, t) == [s EXCEPT !.fNotify[m] = t]

Renotified(s, u, m, t) ==
  /\ Fit(u, {m}) /\ Calm(s, u)
  /\ u.fStatus = s.fStatus /\ u.fType = s.fType /\ u.fContainer = s.fContainer
  /\ u.fSignature = s.fSignature /\ u.fTimer = s.fTimer /\ u.blocked = s.blocked
  /\ u.f0080 = s.f0080 /\ u.fTimeout = s.fTimeout
  /\ u.fNotify[m] = t

\* and is told nothing by that.
LEMMA RenotifySays ==
  ASSUME NEW u, NEW m, NEW t, Renotified(k, u, m, t)
  PROVE  /\ Roles(k) => Said(k, u)
         /\ \A x : Sending(k, x) <=> Sending(u, x)
         /\ \A x : Clear(k, u, x)
<1>1. \A x : Sending(k, x) <=> Sending(u, x)
  BY DEF Renotified, Sending
<1>2. Told(k, u) /\ \A x : Clear(k, u, x)
  BY <1>1, StillSending
<1>3. Roles(k) => Roles(u)
  BY DEF Renotified, Roles
<1>4. QED
  BY <1>1, <1>2, <1>3 DEF Said

LEMMA NotifyTyped ==
  ASSUME NEW s \in KernelRecord, NEW f \in [Message -> Task \cup Port \cup {None}],
         NEW u, u = [s EXCEPT !.fNotify = f]
  PROVE  u \in KernelRecord
BY Zenon DEF KernelRecord

LEMMA RenotifyFits ==
  ASSUME NEW s, NEW m \in Message, Fit(s, {m}), s.fNotify[m] \notin s.blocked,
         NEW t, t = Owner[m], t \notin s.blocked, NEW u, u = Renotify(s, m, t)
  PROVE  Renotified(s, u, m, t)
<1>1. /\ s \in KernelRecord /\ Exact(s) /\ Timed(s) /\ Claimed(s, {m}) /\ Addressed(s)
      /\ Matched(s) /\ Held(s)
  BY DEF Fit
<1> DEFINE f == [s.fNotify EXCEPT ![m] = t]
<1>2. t \in Task
  BY Parties
<1>3. f \in [Message -> Task \cup Port \cup {None}] /\ f[m] = t
      /\ \A x \in Message \ {m} : f[x] = s.fNotify[x]
  BY <1>1, <1>2, Fields
<1>4. u = [s EXCEPT !.fNotify = f]
  BY <1>1 DEF Renotify, KernelRecord
<1> HIDE DEF f
<1>5. f \in [Message -> Task \cup Port \cup {None}]
  BY <1>3
<1>6. u \in KernelRecord
  BY Zenon, <1>1, <1>4, <1>5, NotifyTyped
<1>7. /\ u.queue = s.queue /\ u.fContainer = s.fContainer /\ u.gTimerDeferred = s.gTimerDeferred
      /\ u.fStatus = s.fStatus /\ u.fType = s.fType /\ u.fFilter = s.fFilter
      /\ u.fSignature = s.fSignature /\ u.fTimer = s.fTimer
      /\ u.fNotify = f /\ u.fSequenceNo = s.fSequenceNo /\ u.sends = s.sends
      /\ u.tokens = s.tokens /\ u.blocked = s.blocked
      /\ u.gWantDeferred = s.gWantDeferred /\ u.ports = s.ports /\ u.msgs = s.msgs
      /\ u.f0080 = s.f0080 /\ u.fTimeout = s.fTimeout
  BY <1>1, <1>4 DEF KernelRecord
<1>8. Exact(u) /\ Timed(u) /\ Matched(u)
  BY <1>1, <1>7 DEF Exact, Timed, Matched, Unmatched
<1>9. Held(u) /\ Calm(s, u)
  BY <1>1, <1>7 DEF Held, Signed, Ended, Calm
<1>10. Addressed(u)
  <2>1. ASSUME NEW x \in Message PROVE u.fNotify[x] \in {None, Owner[x], PortToNotify[x]}
    <3>1. CASE x = m
      BY <1>3, <1>7, <3>1
    <3>2. CASE x # m
      BY <1>1, <1>3, <1>7, <3>2 DEF Addressed
    <3>3. QED
      BY <3>1, <3>2
  <2>2. QED
    BY <2>1 DEF Addressed
<1>11. Claimed(u, {m})
  <2>1. \A x \in Message : Claims(u, {m}, x) <=> Claims(s, {m}, x)
    BY <1>7 DEF Claims
  <2>2. ASSUME NEW y \in u.blocked PROVE \E x \in Message : Claims(u, {m}, x) /\ u.fNotify[x] = y
    <3>1. PICK x \in Message : Claims(s, {m}, x) /\ s.fNotify[x] = y
      BY <1>1, <1>7, <2>2 DEF Claimed
    <3>2. x # m
      BY <1>7, <2>2, <3>1
    <3>3. QED
      BY <1>3, <1>7, <2>1, <3>1, <3>2
  <2>3. ASSUME NEW x \in Message \ {m}, u.fStatus[x] = kInProgress, u.fNotify[x] \in Task
        PROVE  u.fNotify[x] \in u.blocked
    BY <1>1, <1>3, <1>7, <2>3 DEF Claimed
  <2>4. ASSUME NEW x \in Message \ {m}, Claims(u, {m}, x) PROVE u.fNotify[x] # t
    BY <1>2, <1>7, <2>3, <2>4 DEF Claims
  <2>5. ASSUME NEW x \in Message, NEW y \in Message, Claims(u, {m}, x), Claims(u, {m}, y),
               u.fNotify[x] \in Task, u.fNotify[x] = u.fNotify[y]
        PROVE  x = y
    <3>1. CASE x = m \/ y = m
      BY <1>3, <1>7, <2>4, <2>5, <3>1
    <3>2. CASE x # m /\ y # m
      BY <1>1, <1>3, <1>7, <2>1, <2>5, <3>2 DEF Claimed
    <3>3. QED
      BY <3>1, <3>2
  <2>6. QED
    BY <2>2, <2>3, <2>5 DEF Claimed
<1>12. \A x \in Message \ {m} : Mode(u, x)
  <2>1. Others(s, u, {m})
    BY <1>3, <1>7 DEF Others, Same
  <2>2. QED
    BY <2>1, OthersMode DEF Fit
<1>13. Fit(u, {m})
  BY <1>6, <1>8, <1>9, <1>10, <1>11, <1>12 DEF Fit
<1>14. QED
  BY <1>3, <1>7, <1>9, <1>13 DEF Renotified

\* A message of a free task that is in progress, or waits in its port.
LEMMA TakeInHand ==
  ASSUME Inv, NEW m \in Message, Free(Owner[m]), k.fStatus[m] = kInProgress \/ k.fType[m] \in Collector
  PROVE  /\ Fit(k, {m}) /\ k.fNotify[m] \notin k.blocked /\ deferring = "no"
         /\ Owner[m] \notin k.blocked
<1>1. Fit(k, {}) /\ k \in KernelRecord /\ Mode(k, m) /\ Addressed(k) /\ Claimed(k, {})
  BY InvFacts DEF Fit
<1>2. deferring = "no" /\ \A d \in {None, Owner[m], PortToNotify[m]} : d \notin k.blocked
  BY FreeOwner
<1>3. k.fNotify[m] \notin k.blocked /\ Owner[m] \notin k.blocked
  BY <1>1, <1>2 DEF Addressed
<1>4. k.fStatus[m] = kInProgress \/ k.fNotify[m] \notin Task
  <2>1. CASE k.fStatus[m] # kInProgress
    <3>1. Waits(k, m)
      BY <1>1, <2>1 DEF Mode, Idle, Active
    <3>2. QED
      BY <3>1, Parties DEF Waits
  <2>2. QED
    BY <2>1
<1>5. {} \in SUBSET Message /\ {} \cup {m} = {m}
  OBVIOUS
<1>6. Fit(k, {} \cup {m})
  BY <1>1, <1>4, <1>5, Opens
<1>7. QED
  BY <1>2, <1>3, <1>5, <1>6

\* getResult.
LEMMA GetResultInv ==
  ASSUME Inv, NEW m \in Message, GetResult(m)
  PROVE  Inv' /\ Speaks(k')
<1> DEFINE t == Owner[m]
           type == k.fType[m]
           err == k.fStatus[m]
           s == Renotify(k, m, t)
           u == CompleteMsg(s, m, type, err)
<1>1. Free(Owner[m]) /\ type \in Collector /\ SwiExit(u)
  BY DEF GetResult, Renotify
<1>2. /\ Fit(k, {m}) /\ k.fNotify[m] \notin k.blocked /\ deferring = "no"
      /\ Owner[m] \notin k.blocked
  BY <1>1, TakeInHand
<1>3. err \in Status \ {kInProgress}
  <2>1. k \in KernelRecord /\ Mode(k, m)
    BY InvFacts
  <2>2. err # kInProgress
    BY <1>1, <2>1 DEF Mode, Idle, Waits, Active
  <2>3. err \in Status
    BY <2>1, Fields
  <2>4. QED
    BY <2>2, <2>3
<1>4. err = k.fStatus[m]
  OBVIOUS
<1>5. s = Renotify(k, m, t) /\ t = Owner[m] /\ u = CompleteMsg(s, m, type, err)
  OBVIOUS
<1> HIDE DEF s, u, t, type, err
<1>6. Renotified(k, s, m, t)
  BY <1>2, <1>5, RenotifyFits
<1>7. Fit(s, {m}) /\ Calm(k, s)
  BY <1>6 DEF Renotified
<1>8. /\ Fit(u, {}) /\ Calm(s, u)
      /\ \A b : SaidBut(b, s, m) /\ Due(b, s, m, err) => Said(b, u)
  BY <1>1, <1>3, <1>5, <1>7, CompleteMsgFits
<1>9. Remembers(k, u)
  BY <1>7, <1>8, CalmTrans, CalmRemembers
<1>10. Speaks(u)
  <2>1. SUFFICES ASSUME Roles(k) PROVE Said(k, u)
    BY DEF Speaks
  <2>2. ~Sending(k, m)
    BY <1>1, <1>3, <1>4 DEF Sending
  <2>3. Said(k, s) /\ Clear(k, s, m)
    BY <1>6, <2>1, RenotifySays
  <2>4. QED
    BY <1>8, <2>2, <2>3, SaidMore DEF Due
<1>11. QED
  BY <1>1, <1>2, <1>8, <1>9, <1>10, ExitInv

\* blockTillDone.
LEMMA BlockTillDoneInv ==
  ASSUME Inv, NEW t \in Task, NEW m \in Message, BlockTillDone(t, m)
  PROVE  Inv' /\ Speaks(k')
<1> DEFINE s == Renotify(k, m, t)
           u == Block(s, m)
<1>1. Free(Owner[m]) /\ t = Owner[m] /\ k.fStatus[m] = kInProgress /\ SwiExit(u)
  BY DEF BlockTillDone, Renotify
<1>2. /\ Fit(k, {m}) /\ k.fNotify[m] \notin k.blocked /\ deferring = "no"
      /\ Owner[m] \notin k.blocked
  BY <1>1, TakeInHand
<1>3. s = Renotify(k, m, t) /\ u = Block(s, m)
  OBVIOUS
<1> HIDE DEF s, u
<1>4. Renotified(k, s, m, t)
  BY <1>1, <1>2, <1>3, RenotifyFits
<1>5. /\ Fit(s, {m}) /\ Calm(k, s) /\ s.fNotify[m] = t
      /\ s.fStatus = k.fStatus /\ s.fType = k.fType /\ s.fContainer = k.fContainer
      /\ s.fSignature = k.fSignature /\ s.fTimer = k.fTimer
  BY <1>4 DEF Renotified
<1>6. m \in {m} /\ {m} \in SUBSET Message /\ {m} \ {m} = {}
  OBVIOUS
<1>7. /\ Fit(u, {m}) /\ Calm(s, u) /\ Others(s, u, {})
      /\ s.fNotify[m] \in Task => s.fNotify[m] \in u.blocked
  BY <1>3, <1>5, <1>6, BlockFits
<1>8. Same(s, u, m)
  BY <1>7 DEF Others
<1>9. Mode(u, m) /\ u.fNotify[m] \in u.blocked /\ u.fStatus[m] = kInProgress
  <2>1. Mode(k, m)
    BY InvFacts
  <2>2. Active(k, m)
    BY <1>1, <2>1 DEF Mode, Idle, Waits
  <2>3. Active(s, m)
    BY <1>5, <2>2 DEF Active, InReply
  <2>4. Active(u, m)
    BY <1>8, <2>3 DEF Active, InReply, Same
  <2>5. u.fNotify[m] = t /\ u.fStatus[m] = kInProgress
    BY <1>1, <1>5, <1>8 DEF Same
  <2>6. QED
    BY <1>5, <1>7, <2>4, <2>5 DEF Mode
<1>10. Fit(u, {m} \ {m})
  BY <1>6, <1>7, <1>9, Closes
<1>11. Fit(u, {}) /\ Remembers(k, u)
  BY <1>5, <1>6, <1>7, <1>10, CalmTrans, CalmRemembers
<1>12. Speaks(u)
  <2>1. SUFFICES ASSUME Roles(k) PROVE Said(k, u)
    BY DEF Speaks
  <2>2. Said(k, s) /\ Clear(k, s, m) /\ (~Sending(k, m) \/ Sending(s, m))
    BY <1>4, <2>1, RenotifySays
  <2>3. s \in KernelRecord
    BY <1>5 DEF Fit
  <2>4. QED
    BY <1>3, <2>2, <2>3, BlockSays
<1>13. QED
  BY <1>1, <1>2, <1>11, <1>12, ExitInv

\* abort.
LEMMA AbortInv ==
  ASSUME Inv, NEW t \in Task, NEW m \in Message, Abort(t, m)
  PROVE  Inv' /\ Speaks(k')
<1> DEFINE err == "kOSErrCallAborted"
           s == Renotify(k, m, t)
           u == CompleteNested(s, m, err)
<1>1. Free(Owner[m]) /\ t = Owner[m] /\ k.fStatus[m] = kInProgress /\ SwiExit(u)
  BY DEF Abort, Renotify
<1>2. /\ Fit(k, {m}) /\ k.fNotify[m] \notin k.blocked /\ deferring = "no"
      /\ Owner[m] \notin k.blocked
  BY <1>1, TakeInHand
<1>3. s = Renotify(k, m, t) /\ u = CompleteNested(s, m, err) /\ err \in Status \ {kInProgress, noErr}
  BY DEF Status, kInProgress, noErr
<1> HIDE DEF s, u, err
<1>4. Renotified(k, s, m, t)
  BY <1>1, <1>2, <1>3, RenotifyFits
<1>5. Fit(s, {m}) /\ Calm(k, s)
  BY <1>4 DEF Renotified
<1>6. m \in {m} /\ {m} \in SUBSET Message /\ {m} \ {m} = {}
  OBVIOUS
<1>7. Fit(u, {m} \ {m}) /\ Calm(s, u)
  BY <1>3, <1>5, <1>6, NestedFits
<1>8. Fit(u, {}) /\ Remembers(k, u)
  BY <1>5, <1>6, <1>7, CalmTrans, CalmRemembers
<1>9. Speaks(u)
  <2>1. SUFFICES ASSUME Roles(k) PROVE Said(k, u)
    BY DEF Speaks
  <2>2. Said(k, s) /\ Due(k, s, m, err)
    BY <1>3, <1>4, <2>1, RenotifySays DEF Due
  <2>3. \A b : Said(b, s) /\ Due(b, s, m, err) => Said(b, u)
    BY <1>3, <1>5, <1>6, NestedSays
  <2>4. QED
    BY <2>2, <2>3
<1>10. QED
  BY <1>1, <1>2, <1>8, <1>9, ExitInv

\* msgDone.
LEMMA MsgDoneInv ==
  ASSUME Inv, NEW x \in k.tokens, MsgDone(x)
  PROVE  Inv' /\ Speaks(k')
<1> DEFINE m == x.msg
           T == k.tokens \ {x}
           s == WithTokens(k, T)
           c == s.fContainer[m]
           v == RemoveFromQueue(s, c, m)
           w == CompleteMsg(v, m, CollectedSender, noErr)
           u == IF MsgDoneAccepted(m, x.sig) THEN w ELSE s
<1>1. deferring = "no" /\ SwiExit(u)
  BY DEF MsgDone, Runs, CompleteSender, WithTokens
<1>2. Fit(k, {}) /\ k \in KernelRecord /\ k.tokens \subseteq Token
  BY InvFacts
<1>3. m \in Message /\ T \subseteq Token /\ Answers(k, T)
  BY <1>2 DEF Token, Answers
<1>4. s = WithTokens(k, T) /\ v = RemoveFromQueue(s, c, m) /\ c = s.fContainer[m]
      /\ w = CompleteMsg(v, m, CollectedSender, noErr)
  OBVIOUS
<1> HIDE DEF m, T, s, v, w, c
<1>5. Retold(k, s)
  BY <1>2, <1>3, <1>4, TokensRetold
<1>6. /\ Fit(s, {}) /\ Remembers(k, s) /\ s.fStatus = k.fStatus /\ s.fContainer = k.fContainer
      /\ Tells(k, s)
  BY <1>5 DEF Retold
<1>7. CASE ~MsgDoneAccepted(m, x.sig)
  <2>1. u = s
    BY <1>7
  <2> HIDE DEF u
  <2>2. QED
    BY <1>1, <1>6, <2>1, SpeaksFirst, SpeaksMore, ExitInv
<1>8. CASE MsgDoneAccepted(m, x.sig)
  <2>1. u = w
    BY <1>8
  <2> HIDE DEF u
  <2>2. s.fStatus[m] = kInProgress /\ s.fContainer[m] # None
    BY <1>6, <1>8 DEF MsgDoneAccepted
  <2>3. {} \in SUBSET Message /\ {} \cup {m} = {m} /\ m \in {m} /\ {m} \in SUBSET Message
    BY <1>3
  <2>4. Fit(s, {} \cup {m})
    BY <1>3, <1>6, <2>2, <2>3, Opens
  <2>5. Fit(s, {m}) /\ s \in KernelRecord
    BY <2>3, <2>4 DEF Fit
  <2>6. c \in Queue
    BY <1>3, <1>4, <2>2, <2>5, Fields
  <2>7. TakenOut(s, v, {m}, m)
    BY <1>4, <2>3, <2>5, <2>6, TakeOut
  <2>8. Fit(v, {m}) /\ Calm(s, v)
    BY <2>7 DEF TakenOut
  <2>9. CollectedSender \in Collector /\ noErr \in Status \ {kInProgress}
    BY DEF Collector, Status, noErr, kInProgress
  <2>10. /\ Fit(w, {}) /\ Calm(v, w)
         /\ \A b : SaidBut(b, v, m) /\ Due(b, v, m, noErr) => Said(b, w)
    BY <1>3, <1>4, <2>8, <2>9, CompleteMsgFits
  <2>11. Remembers(k, w)
    BY <1>6, <2>8, <2>10, CalmTrans, CalmRemembers, RemembersTrans
  <2>12. Speaks(w)
    <3>1. SUFFICES ASSUME CollectedAtHome, Roles(k) PROVE Said(k, w)
      BY DEF Speaks
    <3>2. InReply(k, m)
      <4>1. k.fStatus[m] = kInProgress /\ k.fContainer[m] # None /\ k.fSignature[m] = x.sig
        BY <1>8 DEF MsgDoneAccepted
      <4>2. /\ x.sig # 0 => Signed(k, x)
            /\ x.sig = 0 => Ended(k, x)
        BY <1>2, <3>1 DEF Fit, Held
      <4>3. x.sig # 0 /\ k.fContainer[m] = f8C(x.rcvr)
        BY <4>1, <4>2 DEF m, Signed, Ended
      <4>4. x.rcvr \in Message
        BY <1>2 DEF Token
      <4>5. QED
        BY <4>3, <4>4 DEF InReply
    <3>3. Moved(s, v)
      BY <1>3, <1>4, <2>5, <2>6, RemoveSays
    <3>4. Said(k, k) /\ \A y : Clear(k, k, y)
      BY <3>1, StillSending DEF Said
    <3>5. Said(k, v)
      BY <1>6, <3>3, <3>4 DEF Moved, Tells
    <3>6. Clear(k, v, m)
      <4>1. \A y \in Message : Sending(k, y) => v.fStatus[y] = kInProgress
        BY <1>6, <3>3 DEF Moved, Voice, Sending
      <4>2. QED
        BY <4>1 DEF Clear, Failed
    <3>7. QED
      BY <2>10, <3>2, <3>5, <3>6, SaidMore DEF Due
  <2>13. QED
    BY <1>1, <2>1, <2>10, <2>11, <2>12, ExitInv
<1>9. QED
  BY <1>7, <1>8
\* The filter of a message is changed; senders that match may wait then.
Refiltered(s, u) ==
  /\ Fit(u, {}) /\ Calm(s, u)
  /\ u.fStatus = s.fStatus /\ u.fContainer = s.fContainer /\ u.queue = s.queue
  /\ Voice(s, u) /\ Tells(s, u)

LEMMA RefilterFits ==
  ASSUME NEW s, Fit(s, {}), "resetFilter" \in Calls, NEW f \in [Message -> SUBSET MatchAll],
         NEW u, u = [s EXCEPT !.fFilter = f]
  PROVE  Refiltered(s, u)
<1>1. s \in KernelRecord /\ Exact(s) /\ Timed(s) /\ Claimed(s, {}) /\ Addressed(s) /\ Held(s)
  BY DEF Fit
<1>2. u \in KernelRecord
  BY Zenon, <1>1, FilterTyped
<1>3. /\ u.queue = s.queue /\ u.fContainer = s.fContainer /\ u.gTimerDeferred = s.gTimerDeferred
      /\ u.fStatus = s.fStatus /\ u.fType = s.fType
      /\ u.fSignature = s.fSignature /\ u.fTimer = s.fTimer
      /\ u.fNotify = s.fNotify /\ u.fSequenceNo = s.fSequenceNo /\ u.sends = s.sends
      /\ u.tokens = s.tokens /\ u.blocked = s.blocked
      /\ u.gWantDeferred = s.gWantDeferred /\ u.ports = s.ports /\ u.msgs = s.msgs
  BY <1>1 DEF KernelRecord
<1>4. Exact(u) /\ Timed(u) /\ Addressed(u) /\ Matched(u)
  BY <1>1, <1>3 DEF Exact, Timed, Addressed, Matched
<1>5. Held(u) /\ Calm(s, u)
  BY <1>1, <1>3 DEF Held, Signed, Ended, Calm
<1>6. Claimed(u, {})
  BY <1>1, <1>3 DEF Claimed, Claims
<1>7. ASSUME NEW x \in Message PROVE Mode(u, x)
  <2>1. Mode(s, x)
    BY DEF Fit
  <2>2. QED
    BY <1>3, <2>1 DEF Mode, Idle, Waits, Active, InReply
<1>8. Voice(s, u) /\ Tells(s, u)
  <2>1. Voice(s, u)
    BY <1>1, <1>3 DEF Voice, KernelRecord
  <2>2. Roles(s) => Roles(u)
    BY <1>3, <2>1 DEF Roles, Voice
  <2>3. QED
    BY <2>1, <2>2, VoiceTold DEF Tells, Said
<1>9. QED
  BY <1>2, <1>3, <1>4, <1>5, <1>6, <1>7, <1>8 DEF Fit, Refiltered

\* resetFilter.
LEMMA ResetFilterInv ==
  ASSUME Inv, NEW r \in Message, NEW p \in Port, NEW filter \in Filters, ResetFilter(r, p, filter)
  PROVE  Inv' /\ Speaks(k')
<1> DEFINE f == [k.fFilter EXCEPT ![r] = filter]
           s == [k EXCEPT !.fFilter[r] = filter]
           q == s.queue[fSenders(p)]
           S == {m \in Message : s.fFilter[m] = MatchAll \/ s.fType[r] \in s.fFilter[m]}
           found == FirstIn[q][S]
           v == RemoveFromQueue(s, fSenders(p), found)
           w == CompleteReceiver(v, r, found)
           u == IF found = None THEN s ELSE w
<1>1. /\ "resetFilter" \in Calls /\ Free(Owner[r]) /\ k.fContainer[r] = fReceivers(p)
      /\ SwiExit(u)
  BY Zenon DEF ResetFilter
<1>2. deferring = "no"
  BY <1>1 DEF Free, Runs
<1>3. Fit(k, {}) /\ k \in KernelRecord /\ Mode(k, r)
  BY InvFacts
<1>4. k.fStatus[r] = kInProgress /\ p \in Reads[r]
  BY <1>1, <1>3, ReceiverIs
<1>5. f \in [Message -> SUBSET MatchAll]
  BY <1>3, Fields, PortsAssumption
<1>6. s = [k EXCEPT !.fFilter = f]
  BY <1>3 DEF KernelRecord
<1>7. q = s.queue[fSenders(p)] /\ S \in SUBSET Message
      /\ found = FirstIn[q][S] /\ v = RemoveFromQueue(s, fSenders(p), found)
      /\ w = CompleteReceiver(v, r, found)
  OBVIOUS
<1> HIDE DEF f, s, q, S, found, v, w
<1>8. Refiltered(k, s)
  BY Zenon, <1>1, <1>3, <1>5, <1>6, RefilterFits
<1>9. /\ Fit(s, {}) /\ Calm(k, s) /\ s.fStatus = k.fStatus /\ s.fContainer = k.fContainer
      /\ Voice(k, s) /\ Tells(k, s)
  BY <1>8 DEF Refiltered
<1>10. s \in KernelRecord /\ Exact(s)
  BY <1>9 DEF Fit
<1>11. CASE found = None
  <2>1. u = s
    BY <1>11
  <2> HIDE DEF u
  <2>2. QED
    BY <1>1, <1>2, <1>9, <2>1, CalmRemembers, SpeaksFirst, SpeaksMore, ExitInv
<1>12. CASE found # None
  <2>1. u = w
    BY <1>12
  <2> HIDE DEF u
  <2>2. fSenders(p) \in Queue /\ s.queue \in [Queue -> Seq(Message)]
    BY <1>10, Fields, QueueNames
  <2>3. fSenders(p) \in Queue /\ q \in Seq(Message)
    BY <1>7, <2>2
  <2>4. found \in ToSet(q) \cap S
    BY <1>7, <1>12, <2>3, FirstInIs
  <2>5. found \in Message /\ s.fContainer[found] = fSenders(p)
    BY <1>7, <1>10, <2>3, <2>4 DEF Exact
  <2>6. r # found
    BY <1>1, <1>9, <2>5, QueueNames
  <2>7. {} \in SUBSET Message /\ {} \cup {r} = {r} /\ s.fStatus[r] = kInProgress
    BY <1>4, <1>9
  <2>8. Fit(s, {} \cup {r})
    BY <1>9, <2>7, Opens
  <2>9. Fit(s, {r}) /\ w = CompleteReceiver(RemoveFromQueue(s, fSenders(p), found), r, found)
    BY <1>7, <2>7, <2>8
  <2>10. /\ Fit(w, {}) /\ Calm(s, w)
        /\ \A b : Said(b, s) /\ Due(b, s, r, noErr) => Said(b, w)
    BY <1>4, <2>5, <2>6, <2>9, FoundFits
  <2>11. Remembers(k, w)
    BY <1>9, <2>10, CalmTrans, CalmRemembers
  <2>12. Speaks(w)
    <3>1. SUFFICES ASSUME Roles(k) PROVE Said(k, w)
      BY DEF Speaks
    <3>2. Said(k, k) /\ Clear(k, k, r)
      BY <3>1, StillSending DEF Said
    <3>3. ~Sending(k, r)
      BY <1>1, <3>1 DEF Roles, Sending
    <3>4. Said(k, s) /\ Clear(k, s, r)
      BY <1>9, <3>2, VoiceTold DEF Tells
    <3>5. QED
      BY <2>10, <3>3, <3>4 DEF Due
  <2>13. QED
    BY <1>1, <1>2, <2>1, <2>10, <2>11, <2>12, ExitInv
<1>13. QED
  BY <1>11, <1>12

\* Who collects nothing may be flushed.
LEMMA ApartIs ==
  ASSUME NEW s \in KernelRecord, NEW p \in Port
  PROVE  /\ Apart(s, fSenders(p)) /\ \A m \in Message : Apart(s, f8C(m))
         /\ p \notin s.ports \/ (\A m \in Message : PortToNotify[m] # p) => Apart(s, fReceivers(p))
<1>1. s.ports \subseteq Port
  BY Fields
<1>2. QED
  BY <1>1, QueueNames DEF Apart

\* reset.
LEMMA ResetInv ==
  ASSUME Inv, NEW t \in Task, NEW p \in Port, Reset(t, p)
  PROVE  Inv' /\ Speaks(k')
<1>1. Free(t) /\ \A m \in Message : PortToNotify[m] # p
  BY DEF Reset
<1>2. deferring = "no"
  BY <1>1 DEF Free, Runs
<1>3. Fit(k, {}) /\ k \in KernelRecord
  BY InvFacts
<1>4. Apart(k, fSenders(p)) /\ Apart(k, fReceivers(p))
  BY <1>1, <1>3, ApartIs
<1>5. fSenders(p) \in Queue /\ fReceivers(p) \in Queue
  BY QueueNames
<1>6. CollectedSender \in Collector /\ CollectedReceiver \in Collector
  BY DEF Collector
<1>7. /\ "kOSErrCallAborted" \in Status \ {kInProgress, noErr}
      /\ "kOSErrMessageTimedOut" \in Status \ {kInProgress, noErr}
  BY DEF Status, kInProgress, noErr
<1>8. ASSUME NEW c \in Queue, Apart(k, c), NEW type \in Collector,
             NEW err \in Status \ {kInProgress, noErr}, NEW u, u = Flush(k, c, type, err), SwiExit(u)
      PROVE  Inv' /\ Speaks(k')
  <2>1. Fit(u, {}) /\ Calm(k, u) /\ Tells(k, u)
    BY <1>3, <1>8, FlushFits
  <2>2. QED
    BY <1>2, <1>8, <2>1, CalmRemembers, SpeaksFirst, SpeaksMore, ExitInv
<1>9. CASE SwiExit(Flush(k, fSenders(p), CollectedSender, "kOSErrCallAborted"))
  BY <1>4, <1>5, <1>6, <1>7, <1>8, <1>9
<1>10. CASE SwiExit(Flush(k, fReceivers(p), CollectedReceiver, "kOSErrMessageTimedOut"))
  BY <1>4, <1>5, <1>6, <1>7, <1>8, <1>10
<1>11. QED
  BY <1>9, <1>10 DEF Reset, FlushSenders, FlushReceivers

\* A port or a message is out of the object table.
LEMMA PortsTyped ==
  ASSUME NEW s \in KernelRecord, NEW P, P \subseteq Port, NEW u, u = [s EXCEPT !.ports = P]
  PROVE  u \in KernelRecord
BY Zenon DEF KernelRecord

LEMMA MsgsTyped ==
  ASSUME NEW s \in KernelRecord, NEW P, P \subseteq Message, NEW u, u = [s EXCEPT !.msgs = P]
  PROVE  u \in KernelRecord
BY Zenon DEF KernelRecord

LEMMA PortGone ==
  ASSUME NEW s, Fit(s, {}), NEW p, NEW P, P = s.ports \ {p}, NEW u, u = [s EXCEPT !.ports = P]
  PROVE  Fit(u, {}) /\ Remembers(s, u) /\ p \notin u.ports /\ Tells(s, u)
<1>1. s \in KernelRecord
  BY DEF Fit
<1>2. P \subseteq Port /\ p \notin P
  BY <1>1, Fields
<1>3. u \in KernelRecord
  BY Zenon, <1>1, <1>2, PortsTyped
<1>4. /\ u.queue = s.queue /\ u.fContainer = s.fContainer /\ u.gTimerDeferred = s.gTimerDeferred
      /\ u.fStatus = s.fStatus /\ u.fType = s.fType /\ u.fFilter = s.fFilter
      /\ u.fSignature = s.fSignature /\ u.fTimer = s.fTimer
      /\ u.fNotify = s.fNotify /\ u.fSequenceNo = s.fSequenceNo /\ u.sends = s.sends
      /\ u.tokens = s.tokens /\ u.blocked = s.blocked
      /\ u.result = s.result /\ u.f0080 = s.f0080 /\ u.fTimeout = s.fTimeout
      /\ u.gWantDeferred = s.gWantDeferred /\ u.ports = P
  BY <1>1 DEF KernelRecord
<1>5. Aside(s, u)
  BY <1>3, <1>4 DEF Aside
<1>6. Fit(u, {})
  BY <1>5, AsideFits
<1>7. QED
  BY <1>2, <1>4, <1>5, <1>6, AsideSays DEF Remembers

LEMMA MessageGone ==
  ASSUME NEW s, Fit(s, {}), NEW P, P \subseteq Message, NEW u, u = [s EXCEPT !.msgs = P]
  PROVE  Fit(u, {}) /\ Remembers(s, u) /\ Tells(s, u)
<1>1. s \in KernelRecord
  BY DEF Fit
<1>2. u \in KernelRecord
  BY Zenon, <1>1, MsgsTyped
<1>3. /\ u.queue = s.queue /\ u.fContainer = s.fContainer /\ u.gTimerDeferred = s.gTimerDeferred
      /\ u.fStatus = s.fStatus /\ u.fType = s.fType /\ u.fFilter = s.fFilter
      /\ u.fSignature = s.fSignature /\ u.fTimer = s.fTimer
      /\ u.fNotify = s.fNotify /\ u.fSequenceNo = s.fSequenceNo /\ u.sends = s.sends
      /\ u.tokens = s.tokens /\ u.blocked = s.blocked
      /\ u.result = s.result /\ u.f0080 = s.f0080 /\ u.fTimeout = s.fTimeout
      /\ u.gWantDeferred = s.gWantDeferred
  BY <1>1 DEF KernelRecord
<1>4. Aside(s, u)
  BY <1>2, <1>3 DEF Aside
<1>5. Fit(u, {})
  BY <1>4, AsideFits
<1>6. QED
  BY <1>3, <1>4, <1>5, AsideSays DEF Remembers

\* The deletion of a port.
LEMMA DestroyPortInv ==
  ASSUME Inv, NEW t \in Task, NEW p \in Port, DestroyPort(t, p)
  PROVE  Inv' /\ Speaks(k')
<1> DEFINE P == k.ports \ {p}
           s == [k EXCEPT !.ports = P]
           gone == "kOSErrPortNoLongerExists"
           v == Flush(s, fSenders(p), CollectedSender, gone)
           u == Flush(v, fReceivers(p), CollectedReceiver, gone)
<1>1. Free(t) /\ SwiExit(u)
  BY DEF DestroyPort, FlushSenders, FlushReceivers
<1>2. deferring = "no"
  BY <1>1 DEF Free, Runs
<1>3. Fit(k, {})
  BY InvFacts
<1>4. s = [k EXCEPT !.ports = P] /\ P = k.ports \ {p}
      /\ v = Flush(s, fSenders(p), CollectedSender, gone)
      /\ u = Flush(v, fReceivers(p), CollectedReceiver, gone)
      /\ gone \in Status \ {kInProgress, noErr}
  BY DEF Status, kInProgress, noErr
<1> HIDE DEF P, s, v, u, gone
<1>5. Fit(s, {}) /\ Remembers(k, s) /\ p \notin s.ports /\ Tells(k, s)
  BY Zenon, <1>3, <1>4, PortGone
<1>6. Apart(s, fSenders(p)) /\ fSenders(p) \in Queue /\ fReceivers(p) \in Queue
  BY <1>5, ApartIs, QueueNames DEF Fit
<1>7. CollectedSender \in Collector /\ CollectedReceiver \in Collector
  BY DEF Collector
<1>8. Fit(v, {}) /\ Calm(s, v) /\ Tells(s, v)
  BY <1>4, <1>5, <1>6, <1>7, FlushFits
<1>9. p \notin v.ports
  BY <1>5, <1>8 DEF Calm
<1>10. Apart(v, fReceivers(p))
  BY <1>8, <1>9, ApartIs DEF Fit
<1>11. Fit(u, {}) /\ Calm(v, u) /\ Tells(v, u)
  BY <1>4, <1>6, <1>7, <1>8, <1>10, FlushFits
<1>12. Remembers(k, u)
  BY <1>5, <1>8, <1>11, CalmTrans, CalmRemembers, RemembersTrans
<1>13. Speaks(u)
  BY <1>5, <1>8, <1>11, SpeaksFirst, SpeaksMore
<1>14. QED
  BY <1>1, <1>2, <1>11, <1>12, <1>13, ExitInv

\* The deletion of a message.
LEMMA DestroyMessageInv ==
  ASSUME Inv, NEW m \in Message, DestroyMessage(m)
  PROVE  Inv' /\ Speaks(k')
<1> DEFINE P == k.msgs \ {m}
           s == [k EXCEPT !.msgs = P]
           lost == "kOSErrReceiverObjectNoLongerExists"
           gone == "kOSErrSharedMemMsgNoLongerExists"
           v == Flush(s, f8C(m), CollectedSender, lost)
           w == RemoveTimer(v, m)
           z == CompleteNested(w, m, gone)
           u == IF Busy(w, m) THEN z ELSE w
<1>1. Free(Owner[m]) /\ SwiExit(u)
  BY DEF DestroyMessage
<1>2. deferring = "no"
  BY <1>1 DEF Free, Runs
<1>3. Fit(k, {}) /\ k \in KernelRecord
  BY InvFacts
<1>4. P \subseteq Message
  BY <1>3, Fields
<1>5. s = [k EXCEPT !.msgs = P] /\ v = Flush(s, f8C(m), CollectedSender, lost)
      /\ w = RemoveTimer(v, m) /\ z = CompleteNested(w, m, gone)
      /\ lost \in Status \ {kInProgress, noErr} /\ gone \in Status \ {kInProgress, noErr}
  BY DEF Status, kInProgress, noErr
<1> HIDE DEF P, s, v, w, z, lost, gone
<1>6. Fit(s, {}) /\ Remembers(k, s) /\ Tells(k, s)
  BY Zenon, <1>3, <1>4, <1>5, MessageGone
<1>7. Apart(s, f8C(m)) /\ f8C(m) \in Queue /\ CollectedSender \in Collector
  <2>1. f8C(m) \in Queue /\ \A p \in Port : f8C(m) # fReceivers(p)
    BY QueueNames
  <2>2. s.ports \subseteq Port
    BY <1>6, Fields DEF Fit
  <2>3. QED
    BY <2>1, <2>2 DEF Apart, Collector
<1>8. Fit(v, {}) /\ Calm(s, v) /\ Tells(s, v)
  BY <1>5, <1>6, <1>7, FlushFits
<1>9. Mode(v, m) /\ {} \in SUBSET Message /\ {} \cup {m} = {m} /\ {m} \in SUBSET Message
      /\ m \in {m} /\ {m} \ {m} = {}
  BY <1>8 DEF Fit
<1>10. Speaks(v) /\ Voice(v, w) /\ Tells(v, w)
  <2>1. Speaks(v)
    BY <1>6, <1>8, SpeaksFirst, SpeaksMore
  <2>2. v \in KernelRecord
    BY <1>8 DEF Fit
  <2>3. QED
    BY <1>5, <2>1, <2>2, TimerSays
<1>11. CASE Busy(v, m)
  <2>1. v.fStatus[m] = kInProgress \/ v.fNotify[m] \notin Task
    BY <1>9, <1>11, Parties DEF Busy, Mode, Idle, Waits, Active
  <2>2. Fit(v, {} \cup {m})
    BY <1>8, <1>9, <2>1, Opens
  <2>3. Fit(v, {m})
    BY <1>9, <2>2
  <2>4. Fit(w, {m}) /\ Calm(v, w) /\ Text(v, w)
    BY <1>5, <1>9, <2>3, TimerFits
  <2>5. u = z
    BY <1>11, <2>4 DEF Busy, Text
  <2> HIDE DEF u
  <2>6. Fit(z, {m} \ {m}) /\ Calm(w, z)
    BY <1>5, <1>9, <2>4, NestedFits
  <2>7. Fit(z, {}) /\ Remembers(k, z)
    BY <1>6, <1>8, <1>9, <2>4, <2>6, CalmTrans, CalmRemembers, RemembersTrans
  <2>8. Speaks(z)
    <3>1. \A b : Due(b, w, m, gone)
      BY <1>5, <1>8, <1>10, <2>1, QueuedDue, VoiceTold
    <3>2. \A b : Said(b, w) /\ Due(b, w, m, gone) => Said(b, z)
      BY <1>5, <1>9, <2>4, NestedSays
    <3>3. Tells(v, z)
      BY <1>10, <3>1, <3>2 DEF Tells
    <3>4. QED
      BY <1>10, <3>3, SpeaksMore
  <2>9. QED
    BY <1>1, <1>2, <2>5, <2>7, <2>8, ExitInv
<1>12. CASE ~Busy(v, m)
  <2>1. v.fTimer[m] = "no"
    BY <1>9, <1>12 DEF Busy, Mode, Idle, Waits, Active
  <2>2. Fit(w, {}) /\ Calm(v, w) /\ Text(v, w)
    BY <1>5, <1>8, <1>9, <2>1, TimerFits
  <2>3. u = w
    BY <1>12, <2>2 DEF Busy, Text
  <2> HIDE DEF u
  <2>4. Remembers(k, w)
    BY <1>6, <1>8, <2>2, CalmTrans, CalmRemembers, RemembersTrans
  <2>5. QED
    BY <1>1, <1>2, <1>10, <2>2, <2>3, <2>4, SpeaksMore, ExitInv
<1>13. QED
  BY <1>11, <1>12

\* Any other SWI.
LEMMA OtherSWIInv ==
  ASSUME Inv, OtherSWI
  PROVE  Inv' /\ Speaks(k')
<1>1. Remembers(k, k) /\ SwiExit(k) /\ deferring = "no"
  BY DEF Remembers, OtherSWI
<1>2. Fit(k, {})
  BY InvFacts
<1>3. QED
  BY <1>1, <1>2, SpeaksFirst, ExitInv
-----------------------------------------------------------------------------
(* The deferrals and the interrupts.                                       *)

\* The status of a message that is in the hand is not spoken of,
LEMMA StatusBut ==
  ASSUME NEW s \in KernelRecord, NEW m \in Message, NEW e \in Status,
         NEW u, u = WithStatus(s, m, e), NEW b
  PROVE  /\ SaidBut(b, s, m) => SaidBut(b, u, m)
         /\ Clear(b, s, m) => Clear(b, u, m)
<1>1. /\ u.result = s.result /\ u.blocked = s.blocked /\ u.fStatus = [s.fStatus EXCEPT ![m] = e]
      /\ u.fNotify = s.fNotify /\ u.f0080 = s.f0080 /\ u.fTimeout = s.fTimeout
      /\ u.fContainer = s.fContainer /\ u.fTimer = s.fTimer /\ u.fType = s.fType
  BY StatusIs
<1>2. \A x \in Message \ {m} : u.fStatus[x] = s.fStatus[x]
  BY <1>1 DEF KernelRecord
<1>3. Roles(s) => Roles(u)
  BY <1>1 DEF Roles
<1>4. \A x \in Message \ {m} : (Failed(s, x) <=> Failed(u, x)) /\ (Sending(s, x) <=> Sending(u, x))
  BY <1>1, <1>2 DEF Failed, Sending
<1>5. QED
  BY <1>1, <1>3, <1>4 DEF SaidBut, Clear

\* and a message that may be told anything may be told an error.
LEMMA ErrorDue ==
  ASSUME NEW s, NEW m, NEW b, Clear(b, s, m), NEW err, err # noErr
  PROVE  Due(b, s, m, err)
BY DEF Due

LEMMA NotifySendFits ==
  ASSUME NEW s, NEW m \in Message, Fit(s, {m}), Begun(s, m), NEW late,
         s.fNotify[m] \in Task => s.fNotify[m] \in s.blocked,
         NEW u, u = NotifySend(s, m, late)
  PROVE  Fit(u, {}) /\ Calm(s, u) /\ (s.fTimeout[m] # Finite => Heeds(s, u, m))
<1> DEFINE p == s.fSendingPort[m]
           sync == FALSE
           v == Send(s, p, m, sync, late)
<1>1. s \in KernelRecord
  BY DEF Fit
<1>2. CollectedSender \in Collector
  BY DEF Collector
<1>3. /\ "kOSErrBadObjectId" \in Status \ {kInProgress} /\ TimedOut \in Status \ {kInProgress}
      /\ TimedOut = "kOSErrMessageTimedOut" /\ "kOSErrBadObjectId" # noErr /\ TimedOut # noErr
  BY DEF Status, kInProgress, TimedOut, noErr
<1>4. CASE p \notin s.ports
  <2>1. u = CompleteMsg(s, m, CollectedSender, "kOSErrBadObjectId")
    BY <1>4 DEF NotifySend, CompleteSender
  <2>2. /\ Fit(u, {}) /\ Calm(s, u)
        /\ \A b : SaidBut(b, s, m) /\ Due(b, s, m, "kOSErrBadObjectId") => Said(b, u)
    BY <1>2, <1>3, <2>1, CompleteMsgFits
  <2>3. Heeds(s, u, m)
    BY <1>3, <2>2, SaidMore, ErrorDue DEF Heeds
  <2>4. QED
    BY <2>2, <2>3
<1>5. CASE p \in s.ports
  <2>1. u = IF TimesOutAtOnce(s, m, late) THEN CompleteMsg(v, m, CollectedSender, TimedOut) ELSE v
    BY <1>3, <1>5 DEF NotifySend, CompleteSender
  <2>2. p \in Port /\ sync \in BOOLEAN /\ v = Send(s, p, m, sync, late)
    BY <1>1, <1>5, Fields
  <2> HIDE DEF p, v, sync
  <2>3. IF TimesOutAtOnce(s, m, late) THEN v = WithStatus(s, m, TimedOut)
        ELSE Fit(v, {}) /\ Calm(s, v) /\ (s.fTimeout[m] # Finite => Heeds(s, v, m))
    BY <2>2, SendFits
  <2>4. CASE TimesOutAtOnce(s, m, late)
    <3>1. v = WithStatus(s, m, TimedOut)
      BY <2>3, <2>4
    <3>2. m \in {m} /\ {m} \in SUBSET Message /\ s.fContainer[m] = None
      BY DEF Begun
    <3>3. Fit(v, {m}) /\ Calm(s, v)
      BY <1>3, <3>1, <3>2, StatusFits
    <3>4. u = CompleteMsg(v, m, CollectedSender, TimedOut)
      BY <2>1, <2>4
    <3>5. /\ Fit(u, {}) /\ Calm(v, u)
          /\ \A b : SaidBut(b, v, m) /\ Due(b, v, m, TimedOut) => Said(b, u)
      BY <1>2, <1>3, <3>3, <3>4, CompleteMsgFits
    <3>6. ASSUME NEW b, Said(b, s), Clear(b, s, m)
          PROVE  Said(b, u)
      <4>1. SaidBut(b, v, m) /\ Clear(b, v, m)
        BY <1>1, <1>3, <3>1, <3>6, StatusBut, SaidMore
      <4>2. QED
        BY <1>3, <3>5, <4>1, ErrorDue
    <3>7. QED
      BY <3>3, <3>5, <3>6, CalmTrans DEF Heeds
  <2>5. CASE ~TimesOutAtOnce(s, m, late)
    BY <2>1, <2>3, <2>5
  <2>6. QED
    BY <2>4, <2>5
<1>6. QED
  BY <1>4, <1>5

\* The first of a queue is in it.
LEMMA HeadIs ==
  ASSUME NEW q \in Seq(Message), q # <<>>
  PROVE  Head(q) \in Message /\ Head(q) \in ToSet(q)
<1>1. 1 \in DOMAIN q /\ Head(q) = q[1] /\ q[1] \in Message
  OBVIOUS
<1>2. QED
  BY <1>1 DEF ToSet

\* A deferred send is put off.
Defer(s, m) == [s EXCEPT !.fTimer[m] = "Delay"]

LEMMA TimerTyped ==
  ASSUME NEW s \in KernelRecord, NEW f \in [Message -> {"no", "Timeout", "Delay"}],
         NEW u, u = [s EXCEPT !.fTimer = f]
  PROVE  u \in KernelRecord
BY Zenon DEF KernelRecord

LEMMA DeferFits ==
  ASSUME NEW s, NEW m \in Message, Fit(s, {m}), Begun(s, m), NEW u, u = Defer(s, m)
  PROVE  Delayed(s, u, m)
<1>1. s \in KernelRecord /\ m \in {m} /\ {m} \in SUBSET Message
  BY DEF Fit
<1> DEFINE f == [s.fTimer EXCEPT ![m] = "Delay"]
<1>2. /\ f \in [Message -> {"no", "Timeout", "Delay"}] /\ f[m] = "Delay"
      /\ \A x \in Message \ {m} : f[x] = s.fTimer[x]
  BY <1>1, Fields
<1>3. u = [s EXCEPT !.fTimer = f]
  BY <1>1 DEF Defer, KernelRecord
<1> HIDE DEF f
<1>4. f \in [Message -> {"no", "Timeout", "Delay"}]
  BY <1>2
<1>5. u \in KernelRecord
  BY Zenon, <1>1, <1>3, <1>4, TimerTyped
<1>6. /\ u.fStatus = s.fStatus /\ u.fContainer = s.fContainer /\ u.fTimer = f
      /\ u.queue = s.queue /\ u.gTimerDeferred = s.gTimerDeferred
      /\ u.fType = s.fType /\ u.fFilter = s.fFilter /\ u.fSignature = s.fSignature
      /\ u.fNotify = s.fNotify /\ u.fSequenceNo = s.fSequenceNo /\ u.sends = s.sends
      /\ u.tokens = s.tokens /\ u.blocked = s.blocked
      /\ u.gWantDeferred = s.gWantDeferred /\ u.ports = s.ports /\ u.msgs = s.msgs
  BY <1>1, <1>3 DEF KernelRecord
<1>7. Turns(s, u, m)
  BY <1>2, <1>5, <1>6 DEF Turns
<1>8. s.fContainer[m] = None
  BY DEF Begun
<1>9. Fit(u, {m}) /\ Calm(s, u)
  BY <1>1, <1>7, <1>8, TurnFits
<1>10. QED
  BY <1>2, <1>6, <1>9 DEF Delayed

\* What a step tells that has only taken a message in the hand.
LEMMA FirstSays ==
  ASSUME NEW s, NEW u, Roles(s), Voice(s, u), Tells(s, u)
  PROVE  Said(s, u) /\ \A m : Clear(s, u, m) /\ (Sending(s, m) => Sending(u, m))
<1>1. \A m : Sending(s, m) => Sending(u, m)
  BY DEF Voice, Sending
<1>2. Said(s, s)
  BY DEF Said, Told
<1>3. QED
  BY <1>1, <1>2, StillSending DEF Tells

\* A step of the deferrals.
LEMMA DeferralInv ==
  ASSUME Inv, Fit(k', {}), Remembers(k, k'), deferring' \in {"no", "sends", "notifies"},
         \/ deferring' = "sends"
         \/ deferring = "notifies" /\ deferring' = "notifies"
         \/ deferring = "sends" /\ deferring' = "notifies" /\ k.queue[gDeferredSends] = <<>>
         \/ deferring = "notifies" /\ deferring' = "no" /\ k.gTimerDeferred = <<>>
  PROVE  Inv'
<1>1. TypeOK'
  BY DEF Fit, TypeOK
<1>2. DeferralsRemembered'
  <2>1. k.queue[gDeferredSends] # <<>> => deferring = "sends" \/ k.gWantDeferred
    BY DEF Inv, DeferralsRemembered
  <2>2. /\ k'.gWantDeferred = k.gWantDeferred
        /\ k.queue[gDeferredSends] = <<>> => k'.queue[gDeferredSends] = <<>>
        /\ k.gTimerDeferred = <<>> => k'.gTimerDeferred = <<>>
    BY DEF Remembers
  <2>3. QED
    BY <2>1, <2>2 DEF DeferralsRemembered
<1>3. QED
  BY <1>1, <1>2 DEF Inv

LEMMA PortDeferredSendNotifyInv ==
  ASSUME Inv, NEW late, PortDeferredSendNotify(late)
  PROVE  Inv' /\ Speaks(k')
<1>1. /\ Fit(k, {}) /\ k \in KernelRecord /\ Exact(k) /\ Claimed(k, {})
      /\ \A m \in Message : Mode(k, m)
  BY InvFacts DEF Fit
<1>2. CASE k.queue[gDeferredSends] = <<>>
  <2>1. k' = k /\ deferring = "sends" /\ deferring' = "notifies"
    BY <1>2 DEF PortDeferredSendNotify
  <2>2. Remembers(k, k') /\ Fit(k', {})
    BY <1>1, <2>1 DEF Remembers
  <2>3. QED
    BY <1>2, <2>1, <2>2, DeferralInv, SpeaksFirst
<1>3. CASE k.queue[gDeferredSends] # <<>>
  <2> DEFINE m == Head(k.queue[gDeferredSends])
             s == RemoveFromQueue(k, gDeferredSends, m)
             v == Defer(s, m)
             w == NotifySend(s, m, late)
             u == IF s.f0020[m] /\ "Delay" \notin late THEN v ELSE w
  <2>1. deferring' = "sends" /\ k' = u
    BY <1>3 DEF PortDeferredSendNotify, Defer
  <2>2. m \in Message /\ m \in ToSet(k.queue[gDeferredSends]) /\ gDeferredSends \in Queue
    <3>1. gDeferredSends \in Queue /\ k.queue[gDeferredSends] \in Seq(Message)
      BY <1>1, QueueNames, Fields
    <3>2. QED
      BY <1>3, <3>1, HeadIs
  <2>3. s = RemoveFromQueue(k, gDeferredSends, m) /\ v = Defer(s, m) /\ w = NotifySend(s, m, late)
    OBVIOUS
  <2> HIDE DEF m, s, v, w
  <2>4. k.fContainer[m] = gDeferredSends
    BY <1>1, <2>2 DEF Exact
  <2>5. Active(k, m)
    <3>1. Mode(k, m)
      BY <1>1, <2>2
    <3>2. \A p \in Port : fSenders(p) # gDeferredSends
      BY QueueNames
    <3>3. gDeferredSends # None
      BY QueueNames
    <3>4. ~Idle(k, m) /\ ~Waits(k, m)
      BY <2>4, <3>2, <3>3 DEF Idle, Waits
    <3>5. QED
      BY <3>1, <3>4 DEF Mode
  <2>6. /\ k.fStatus[m] = kInProgress /\ k.fType[m] \notin Collector /\ k.fTimer[m] = "no"
        /\ k.fSignature[m] = 0
    BY <2>4, <2>5, QueueNames DEF Active, InReply
  <2>7. {} \in SUBSET Message /\ {} \cup {m} = {m} /\ {m} \in SUBSET Message /\ m \in {m}
    BY <2>2
  <2>8. Fit(k, {} \cup {m})
    BY <1>1, <2>2, <2>6, <2>7, Opens
  <2>9. Fit(k, {m})
    BY <2>7, <2>8
  <2>10. TakenOut(k, s, {m}, m)
    BY <2>2, <2>3, <2>4, <2>7, <2>9, TakeOut
  <2>11. Fit(s, {m}) /\ Calm(k, s) /\ Text(k, s) /\ s.fTimer = k.fTimer /\ s.fContainer[m] = None
    BY <2>10 DEF TakenOut
  <2>12. /\ Begun(s, m) /\ s.fNotify = k.fNotify /\ s.blocked = k.blocked
    BY <2>6, <2>11 DEF Begun, Text
  <2>13. s.fNotify[m] \in Task => s.fNotify[m] \in s.blocked
    BY <1>1, <2>2, <2>6, <2>12 DEF Claimed
  <2>14. ASSUME Finite \notin SendTimeouts, CollectedAtHome, Roles(k)
         PROVE  /\ s.fTimeout[m] # Finite /\ Said(k, s) /\ Clear(k, s, m)
                /\ Sending(k, m) => Sending(s, m)
    <3>1. Moved(k, s)
      BY <1>1, <2>2, <2>3, RemoveSays
    <3>2. QED
      BY <2>2, <2>4, <2>14, <3>1, FirstSays DEF Moved, Voice, Roles
  <2>15. Fit(v, {}) /\ Calm(s, v) /\ Speaks(v)
    <3>1. Delayed(s, v, m)
      BY <2>2, <2>3, <2>11, <2>12, DeferFits
    <3>2. /\ Fit(v, {m}) /\ Calm(s, v)
          /\ v.fStatus = s.fStatus /\ v.fType = s.fType /\ v.fContainer = s.fContainer
          /\ v.fSignature = s.fSignature /\ v.fNotify = s.fNotify /\ v.blocked = s.blocked
          /\ v.fTimer[m] = "Delay"
      BY <3>1 DEF Delayed
    <3>3. /\ v.fStatus[m] = kInProgress /\ v.fType[m] \notin Collector /\ v.fContainer[m] = None
          /\ v.fSignature[m] = 0
          /\ v.fNotify[m] \in Task => v.fNotify[m] \in v.blocked
      BY <2>12, <2>13, <3>2 DEF Begun
    <3>4. Fit(v, {})
      BY <2>2, <3>2, <3>3, DelayedFits
    <3>5. s \in KernelRecord /\ v \in {Delay(s, m, {}), [s EXCEPT !.fTimer[m] = "Delay"]}
      BY <2>3, <2>11 DEF Fit, Defer
    <3>6. s.fTimeout[m] # Finite => Tells(s, v)
      BY <2>2, <3>5, DelaySays
    <3>7. Speaks(v)
      BY <2>14, <3>6 DEF Speaks, Tells
    <3>8. QED
      BY <3>2, <3>4, <3>7
  <2>16. Fit(w, {}) /\ Calm(s, w) /\ Speaks(w)
    <3>1. Fit(w, {}) /\ Calm(s, w) /\ (s.fTimeout[m] # Finite => Heeds(s, w, m))
      BY <2>2, <2>3, <2>11, <2>12, <2>13, NotifySendFits
    <3>2. QED
      BY <2>14, <3>1 DEF Speaks, Heeds
  <2>17. k' = v \/ k' = w
    BY <2>1
  <2> HIDE DEF u
  <2>18. Fit(k', {}) /\ Calm(s, k') /\ Speaks(k')
    BY <2>15, <2>16, <2>17
  <2>19. Remembers(k, k')
    BY <2>11, <2>18, CalmTrans, CalmRemembers
  <2>20. QED
    BY <2>1, <2>18, <2>19, DeferralInv
<1>4. QED
  BY <1>2, <1>3

LEMMA DeferredNotifyInv ==
  ASSUME Inv, NEW late, DeferredNotify(late)
  PROVE  Inv' /\ Speaks(k')
<1>1. /\ Fit(k, {}) /\ k \in KernelRecord /\ Timed(k) /\ Claimed(k, {})
      /\ \A m \in Message : Mode(k, m)
  BY InvFacts DEF Fit
<1>2. CASE k.gTimerDeferred = <<>>
  <2>1. k' = k /\ deferring = "notifies" /\ deferring' = "no"
    BY <1>2 DEF DeferredNotify
  <2>2. Remembers(k, k') /\ Fit(k', {})
    BY <1>1, <2>1 DEF Remembers
  <2>3. QED
    BY <1>2, <2>1, <2>2, DeferralInv, SpeaksFirst
<1>3. CASE k.gTimerDeferred # <<>>
  <2> DEFINE m == Head(k.gTimerDeferred)
             s == RemoveTimer(k, m)
             v == NotifyTimeout(s, m)
             w == NotifySend(s, m, late)
             u == IF k.fTimer[m] = "Timeout" THEN v ELSE w
  <2>1. deferring = "notifies" /\ deferring' = "notifies" /\ k' = u
    BY <1>3 DEF DeferredNotify
  <2>2. m \in Message /\ m \in ToSet(k.gTimerDeferred)
    <3>1. k.gTimerDeferred \in Seq(Message)
      BY <1>1, Fields
    <3>2. QED
      BY <1>3, <3>1, HeadIs
  <2>3. s = RemoveTimer(k, m) /\ v = NotifyTimeout(s, m) /\ w = NotifySend(s, m, late)
    OBVIOUS
  <2> HIDE DEF m, s, v, w
  <2>4. k.fTimer[m] # "no" /\ k.fTimer[m] \in {"no", "Timeout", "Delay"}
    BY <1>1, <2>2, Fields DEF Timed
  <2>5. Active(k, m)
    <3>1. Mode(k, m)
      BY <1>1, <2>2
    <3>2. QED
      BY <2>4, <3>1 DEF Mode, Idle, Waits
  <2>6. {} \in SUBSET Message /\ {} \cup {m} = {m} /\ {m} \in SUBSET Message /\ m \in {m}
    BY <2>2
  <2>7. Fit(k, {} \cup {m})
    BY <1>1, <2>2, <2>5, <2>6, Opens DEF Active
  <2>8. Fit(k, {m})
    BY <2>6, <2>7
  <2>9. /\ Fit(s, {m}) /\ Calm(k, s) /\ Text(k, s)
        /\ s.fContainer = k.fContainer /\ s.fTimer[m] = "no"
    BY <2>2, <2>3, <2>6, <2>8, TimerFits
  <2>10. ASSUME Roles(k)
         PROVE  /\ Said(k, s) /\ Clear(k, s, m) /\ ~s.f0080[m] /\ s.fTimeout = k.fTimeout
                /\ Sending(k, m) => Sending(s, m)
    <3>1. Voice(k, s) /\ Tells(k, s)
      BY <1>1, <2>2, <2>3, TimerSays
    <3>2. QED
      BY <2>2, <2>10, <3>1, FirstSays DEF Voice, Roles
  <2>11. ASSUME k.fTimer[m] = "Timeout" PROVE Fit(v, {}) /\ Calm(s, v) /\ Speaks(v)
    <3>1. CollectedSender \in Collector /\ CollectedReceiver \in Collector
      BY DEF Collector
    <3>2. noErr \in Status \ {kInProgress} /\ "kOSErrMessageTimedOut" \in Status \ {kInProgress}
      BY DEF Status, noErr, kInProgress
    <3>3. v = IF s.f0080[m] THEN CompleteMsg(s, m, CollectedSender, noErr)
              ELSE CompleteMsg(s, m, CollectedReceiver, "kOSErrMessageTimedOut")
      BY <2>3 DEF NotifyTimeout, CompleteSender, FailReceiver
    <3>4. Fit(v, {}) /\ Calm(s, v)
      BY <2>2, <2>9, <3>1, <3>2, <3>3, CompleteMsgFits
    <3>5. "kOSErrMessageTimedOut" # noErr
      BY DEF noErr
    <3>6. ASSUME Roles(k) PROVE Said(k, v)
      <4>1. v = CompleteMsg(s, m, CollectedReceiver, "kOSErrMessageTimedOut")
        BY <2>10, <3>3, <3>6
      <4>2. SaidBut(k, s, m) /\ Due(k, s, m, "kOSErrMessageTimedOut")
        BY <2>10, <3>5, <3>6, SaidMore, ErrorDue
      <4>3. QED
        BY <2>2, <2>9, <3>1, <3>2, <4>1, <4>2, CompleteMsgFits
    <3>7. QED
      BY <3>4, <3>6 DEF Speaks
  <2>12. ASSUME k.fTimer[m] # "Timeout" PROVE Fit(w, {}) /\ Calm(s, w) /\ Speaks(w)
    <3>1. k.fContainer[m] = None
      BY <2>4, <2>5, <2>12 DEF Active
    <3>2. k.fSignature[m] = 0
      BY <2>5, <3>1, QueueNames DEF Active, InReply
    <3>3. k.fNotify[m] \in Task => k.fNotify[m] \in k.blocked
      BY <1>1, <2>2, <2>5 DEF Active, Claimed
    <3>4. Begun(s, m)
      BY <2>5, <2>9, <3>1, <3>2 DEF Begun, Active, Text
    <3>5. s.fNotify[m] \in Task => s.fNotify[m] \in s.blocked
      BY <2>9, <3>3 DEF Text
    <3>6. Fit(w, {}) /\ Calm(s, w) /\ (s.fTimeout[m] # Finite => Heeds(s, w, m))
      BY <2>2, <2>3, <2>9, <3>4, <3>5, NotifySendFits
    <3>7. ASSUME Roles(k) PROVE s.fTimeout[m] # Finite
      BY <2>2, <2>4, <2>10, <2>12, <3>7 DEF Roles
    <3>8. QED
      BY <2>10, <3>6, <3>7 DEF Speaks, Heeds
  <2>13. Fit(k', {}) /\ Calm(s, k') /\ Speaks(k')
    <3>1. CASE k.fTimer[m] = "Timeout"
      BY <2>1, <2>11, <3>1
    <3>2. CASE k.fTimer[m] # "Timeout"
      BY <2>1, <2>12, <3>2
    <3>3. QED
      BY <3>1, <3>2
  <2> HIDE DEF u
  <2>14. Remembers(k, k')
    BY <2>9, <2>13, CalmTrans, CalmRemembers
  <2>15. QED
    BY <2>1, <2>13, <2>14, DeferralInv
<1>4. QED
  BY <1>2, <1>3

LEMMA AlarmTyped ==
  ASSUME NEW s \in KernelRecord, NEW q \in Seq(Message), NEW w, w \in BOOLEAN,
         NEW u, u = [s EXCEPT !.gTimerDeferred = q, !.gWantDeferred = w]
  PROVE  u \in KernelRecord
BY Zenon DEF KernelRecord

LEMMA AlarmFiresInv ==
  ASSUME Inv, NEW m \in Message, AlarmFires(m)
  PROVE  Inv' /\ Speaks(k')
<1> DEFINE q == Append(k.gTimerDeferred, m)
           w == TRUE
<1>1. /\ Fit(k, {}) /\ k \in KernelRecord /\ Exact(k) /\ Timed(k) /\ Claimed(k, {})
      /\ Addressed(k) /\ Matched(k) /\ Held(k) /\ \A x \in Message : Mode(k, x)
  BY InvFacts DEF Fit
<1>2. /\ k.fTimer[m] # "no" /\ ~Contains(k.gTimerDeferred, m)
      /\ k' = [k EXCEPT !.gTimerDeferred = q, !.gWantDeferred = w] /\ deferring' = deferring
      /\ w \in BOOLEAN
  BY DEF AlarmFires
<1>3. k.gTimerDeferred \in Seq(Message) /\ Distinct(k.gTimerDeferred)
  BY <1>1, Fields DEF Timed
<1>4. m \notin ToSet(k.gTimerDeferred)
  BY <1>2, <1>3 DEF Contains, ToSet
<1>5. q \in Seq(Message) /\ Distinct(q) /\ ToSet(q) = ToSet(k.gTimerDeferred) \cup {m}
  BY <1>3, <1>4, AppendIs
<1>6. w = TRUE
  OBVIOUS
<1> HIDE DEF q, w
<1>7. k' \in KernelRecord
  BY Zenon, <1>1, <1>2, <1>5, AlarmTyped
<1>8. /\ k'.queue = k.queue /\ k'.fContainer = k.fContainer /\ k'.gTimerDeferred = q
      /\ k'.fStatus = k.fStatus /\ k'.fType = k.fType /\ k'.fFilter = k.fFilter
      /\ k'.fSignature = k.fSignature /\ k'.fTimer = k.fTimer
      /\ k'.fNotify = k.fNotify /\ k'.fSequenceNo = k.fSequenceNo /\ k'.sends = k.sends
      /\ k'.tokens = k.tokens /\ k'.blocked = k.blocked
      /\ k'.ports = k.ports /\ k'.msgs = k.msgs
      /\ k'.result = k.result /\ k'.f0080 = k.f0080 /\ k'.fTimeout = k.fTimeout
  BY <1>1, <1>2 DEF KernelRecord
<1>9. k'.gWantDeferred = w
  BY <1>1, <1>2 DEF KernelRecord
<1>10. Exact(k') /\ Addressed(k') /\ Matched(k')
  BY <1>1, <1>8 DEF Exact, Addressed, Matched, Unmatched
<1>11. Timed(k')
  BY <1>1, <1>2, <1>5, <1>8 DEF Timed
<1>12. Claimed(k', {})
  BY <1>1, <1>8 DEF Claimed, Claims
<1>13. Held(k')
  BY <1>1, <1>8 DEF Held, Signed, Ended
<1>14. ASSUME NEW x \in Message PROVE Mode(k', x)
  <2>1. Same(k, k', x)
    BY <1>8 DEF Same
  <2>2. QED
    BY <1>1, <2>1, SameMode
<1>15. Fit(k', {})
  BY <1>7, <1>10, <1>11, <1>12, <1>13, <1>14 DEF Fit
<1>16. DeferralsRemembered'
  <2>1. k'.gWantDeferred
    BY <1>6, <1>9
  <2>2. QED
    BY <2>1 DEF DeferralsRemembered
<1>17. TypeOK'
  BY <1>2, <1>7 DEF Inv, TypeOK
<1>18. Voice(k, k') /\ (Roles(k) => Roles(k'))
  BY <1>8 DEF Voice, Roles
<1>19. Speaks(k')
  BY <1>18, SpeaksFirst, VoiceTold DEF Speaks, Said
<1>20. QED
  BY <1>15, <1>16, <1>17, <1>19 DEF Inv

\* What SendForInterrupt adds to a call.
Tell(s, m, filter, delay) == [s EXCEPT !.fFilter[m] = filter, !.f0020[m] = delay]

LEMMA TellTyped ==
  ASSUME NEW s \in KernelRecord, NEW f \in [Message -> SUBSET MatchAll],
         NEW g \in [Message -> BOOLEAN], NEW u, u = [s EXCEPT !.fFilter = f, !.f0020 = g]
  PROVE  u \in KernelRecord
BY Zenon DEF KernelRecord

LEMMA TellTurns ==
  ASSUME NEW s \in KernelRecord, NEW m \in Message, NEW filter \in SUBSET MatchAll,
         NEW delay \in BOOLEAN, NEW u, u = Tell(s, m, filter, delay)
  PROVE  /\ Turns(s, u, m) /\ u.fStatus = s.fStatus /\ u.fType = s.fType
         /\ u.fSignature = s.fSignature /\ u.fTimer = s.fTimer
         /\ Voice(s, u) /\ Tells(s, u)
<1> DEFINE f == [s.fFilter EXCEPT ![m] = filter]
           g == [s.f0020 EXCEPT ![m] = delay]
<1>1. f \in [Message -> SUBSET MatchAll] /\ \A x \in Message \ {m} : f[x] = s.fFilter[x]
  BY Fields
<1>2. g \in [Message -> BOOLEAN]
  BY OtherFields
<1>3. u = [s EXCEPT !.fFilter = f, !.f0020 = g]
  BY DEF Tell, KernelRecord
<1> HIDE DEF f, g
<1>4. f \in [Message -> SUBSET MatchAll]
  BY <1>1
<1>5. u \in KernelRecord
  BY Zenon, <1>2, <1>3, <1>4, TellTyped
<1>6. /\ u.fStatus = s.fStatus /\ u.fContainer = s.fContainer /\ u.fTimer = s.fTimer
      /\ u.queue = s.queue /\ u.gTimerDeferred = s.gTimerDeferred
      /\ u.fType = s.fType /\ u.fFilter = f /\ u.fSignature = s.fSignature
      /\ u.fNotify = s.fNotify /\ u.fSequenceNo = s.fSequenceNo /\ u.sends = s.sends
      /\ u.tokens = s.tokens /\ u.blocked = s.blocked
      /\ u.gWantDeferred = s.gWantDeferred /\ u.ports = s.ports /\ u.msgs = s.msgs
  BY <1>3 DEF KernelRecord
<1>7. Voice(s, u)
  BY <1>3, <1>6 DEF KernelRecord, Voice
<1>8. Tells(s, u)
  BY <1>6, <1>7, VoiceTold DEF Tells, Said, Roles, Voice
<1>9. QED
  BY <1>1, <1>5, <1>6, <1>7, <1>8 DEF Turns

\* The request for the deferrals.
Want(s) == [s EXCEPT !.gWantDeferred = TRUE]

LEMMA WantAside ==
  ASSUME NEW s \in KernelRecord, NEW u, u = Want(s)
  PROVE  Aside(s, u) /\ u.gWantDeferred
<1> DEFINE w == TRUE
<1>1. u = [s EXCEPT !.gWantDeferred = w] /\ w \in BOOLEAN
  BY DEF Want
<1>2. u.gWantDeferred
  BY DEF Want, KernelRecord
<1> HIDE DEF w
<1>3. u \in KernelRecord
  BY Zenon, <1>1, WantTyped
<1>4. /\ u.queue = s.queue /\ u.fContainer = s.fContainer /\ u.gTimerDeferred = s.gTimerDeferred
      /\ u.fStatus = s.fStatus /\ u.fType = s.fType /\ u.fFilter = s.fFilter
      /\ u.fSignature = s.fSignature /\ u.fTimer = s.fTimer
      /\ u.fNotify = s.fNotify /\ u.fSequenceNo = s.fSequenceNo /\ u.sends = s.sends
      /\ u.tokens = s.tokens /\ u.blocked = s.blocked
      /\ u.result = s.result /\ u.f0080 = s.f0080 /\ u.fTimeout = s.fTimeout
  BY <1>1 DEF KernelRecord
<1>5. QED
  BY <1>2, <1>3, <1>4 DEF Aside

Requested(s, u, m) ==
  /\ Fit(u, {m}) /\ Text(s, u) /\ u.fTimer = s.fTimer /\ u.fContainer[m] = gDeferredSends

LEMMA RequestFits ==
  ASSUME NEW s, NEW m \in Message, Fit(s, {m}), s.fContainer[m] = None, s.fSignature[m] = 0,
         NEW c \in Queue, c = gDeferredSends, NEW u, u = Add(s, c, m)
  PROVE  Requested(s, u, m)
<1>1. Suits(s, c, m)
  BY QueueNames DEF Suits
<1>2. m \in {m} /\ {m} \in SUBSET Message /\ u \in {Add(s, c, m), AddToFront(s, c, m)}
  OBVIOUS
<1>3. Fit(u, {m}) /\ Text(s, u) /\ u.fTimer = s.fTimer /\ u.fContainer[m] = c
  BY <1>1, <1>2, PutFits
<1>4. QED
  BY <1>3 DEF Requested

LEMMA SendForInterruptInv ==
  ASSUME Inv, NEW m \in Interrupting, NEW p \in Writes[m], NEW type \in Type,
         NEW timeout \in SendTimeouts, NEW urgent \in BOOLEAN, NEW delay \in BOOLEAN,
         SendForInterrupt(m, p, type, timeout, urgent, delay)
  PROVE  Inv' /\ Speaks(k')
<1> DEFINE d == PortToNotify[m]
           s == ToSend(k, m, p, type, d, timeout, urgent)
           z == {}
           v == Tell(s, m, z, delay)
           w == Want(v)
           c == gDeferredSends
<1>1. ~Busy(k, m) /\ deferring' = deferring
  BY DEF SendForInterrupt
<1>2. k' = Add([s EXCEPT !.gWantDeferred = TRUE, !.fFilter[m] = {}, !.f0020[m] = delay],
               gDeferredSends, m)
  BY DEF SendForInterrupt
<1>3. [s EXCEPT !.gWantDeferred = TRUE, !.fFilter[m] = {}, !.f0020[m] = delay] = w
  BY DEF Tell, Want
<1>4. k' = Add(w, c, m)
  BY <1>2, <1>3
<1>5. /\ m \in Message /\ p \in Port /\ timeout \in {kNoTimeout, kTimeOutImmediate, Finite}
      /\ d \in {None, Owner[m], PortToNotify[m]} /\ z \in SUBSET MatchAll
  BY PortsAssumption
<1>6. d \in Port \cup {None} /\ d \notin Task
  BY <1>5, Parties
<1>7. s = ToSend(k, m, p, type, d, timeout, urgent) /\ v = Tell(s, m, z, delay) /\ w = Want(v)
      /\ c \in Queue /\ c = gDeferredSends
  BY QueueNames
<1> HIDE DEF d, s, z, v, w, c
<1>8. k \in KernelRecord /\ Fit(k, {}) /\ k.blocked \subseteq Task /\ k.tokens \subseteq Token
  BY InvFacts
<1>9. NotCollected(k, m)
  <2>1. ASSUME CollectedAtHome, NEW x \in k.tokens, x.sig = 0 PROVE x.msg # m
    <3>1. Ended(k, x)
      BY <1>8, <2>1 DEF Fit, Held
    <3>2. QED
      BY <3>1 DEF Ended
  <2>2. QED
    BY <2>1 DEF NotCollected
<1>10. Called(k, s, m, d) /\ Opened(k, s, m, type, timeout)
  BY <1>5, <1>7, <1>8, ToSendStarts
<1>11. d \notin k.blocked
  BY <1>6, <1>8
<1>12. Ready(s, m, d)
  BY <1>1, <1>5, <1>9, <1>10, <1>11, CalledReady
<1>13. Fit(s, {m}) /\ Begun(s, m) /\ s.fNotify[m] = d /\ s \in KernelRecord
  BY <1>12 DEF Ready, Fit
<1>14. /\ Turns(s, v, m) /\ v.fStatus = s.fStatus /\ v.fType = s.fType
       /\ v.fSignature = s.fSignature /\ v.fTimer = s.fTimer
       /\ Voice(s, v) /\ Tells(s, v)
  BY <1>5, <1>7, <1>13, TellTurns
<1>15. m \in {m} /\ {m} \in SUBSET Message /\ {m} \ {m} = {} /\ s.fContainer[m] = None
  BY <1>5, <1>13 DEF Begun
<1>16. Fit(v, {m}) /\ v \in KernelRecord
  <2>1. Fit(v, {m})
    BY <1>13, <1>14, <1>15, TurnFits
  <2>2. QED
    BY <2>1 DEF Fit
<1>17. Aside(v, w) /\ w.gWantDeferred
  BY <1>7, <1>16, WantAside
<1>18. Fit(w, {m})
  BY <1>15, <1>16, <1>17, AsideFits
<1>19. /\ w.fStatus[m] = kInProgress /\ w.fType[m] \notin Collector /\ w.fContainer[m] = None
       /\ w.fTimer[m] = "no" /\ w.fSignature[m] = 0 /\ w.fNotify[m] = d
  BY <1>13, <1>14, <1>17 DEF Begun, Turns, Aside
<1>20. Requested(w, k', m)
  BY <1>4, <1>5, <1>7, <1>18, <1>19, RequestFits
<1>21. /\ Fit(k', {m}) /\ Text(w, k') /\ k'.fTimer = w.fTimer /\ k'.fContainer[m] = c
  BY <1>7, <1>20 DEF Requested
<1>22. /\ k'.fStatus[m] = kInProgress /\ k'.fType[m] \notin Collector
       /\ k'.fTimer[m] = "no" /\ k'.fSignature[m] = 0 /\ k'.fNotify[m] = d
       /\ k'.gWantDeferred
  BY <1>17, <1>19, <1>21 DEF Text
<1>23. Mode(k', m)
  <2>1. ~InReply(k', m) /\ k'.fContainer[m] # None
        /\ \A q \in Port : k'.fContainer[m] # fReceivers(q)
    BY <1>7, <1>21, QueueNames DEF InReply
  <2>2. QED
    BY <1>22, <2>1 DEF Mode, Active
<1>24. Fit(k', {m} \ {m})
  BY <1>6, <1>15, <1>21, <1>22, <1>23, Closes
<1>25. Fit(k', {})
  BY <1>15, <1>24
<1>26. TypeOK'
  BY <1>1, <1>25 DEF Inv, TypeOK, Fit
<1>27. DeferralsRemembered'
  BY <1>22 DEF DeferralsRemembered
<1>28. Speaks(k')
  <2>1. SUFFICES ASSUME timeout # Finite, Roles(k) PROVE Said(k, k')
    BY DEF Speaks
  <2>2. Started(k, s, m)
    <3>1. Starts(k, s, m, d)
      BY <1>10 DEF Called
    <3>2. QED
      BY <1>1, <1>5, <1>8, <1>10, <2>1, <3>1, StartSays
  <2>3. Voice(v, w) /\ Tells(v, w)
    BY <1>17, AsideSays
  <2>4. w.fTimeout[m] # Finite /\ w \in KernelRecord
    BY <1>10, <1>14, <1>18, <2>1, <2>3 DEF Opened, Voice, Fit
  <2>5. Moved(w, k')
    BY <1>4, <1>5, <1>7, <2>4, QueueNames, AddSays
  <2>6. QED
    BY <1>14, <2>2, <2>3, <2>5 DEF Started, Tells, Moved
<1>29. QED
  BY <1>25, <1>26, <1>27, <1>28 DEF Inv
-----------------------------------------------------------------------------
(* The invariant.                                                          *)

LEMMA InitInv ==
  ASSUME Init
  PROVE  Inv
<1>1. /\ k.fStatus = [m \in Message |-> noErr] /\ k.fType = [m \in Message |-> NoType]
      /\ k.fNotify = [m \in Message |-> None] /\ k.fSignature = [m \in Message |-> 0]
      /\ k.fSequenceNo = [m \in Message |-> 1] /\ k.fTimer = [m \in Message |-> "no"]
      /\ k.fContainer = [m \in Message |-> None] /\ k.queue = [c \in Queue |-> <<>>]
      /\ k.gTimerDeferred = <<>> /\ k.blocked = {} /\ k.tokens = {}
      /\ deferring = "no"
  BY DEF Init
<1>2. k \in KernelRecord
  <2>1. /\ [m \in Message |-> noErr] \in [Message -> Status]
        /\ [m \in Message |-> NoType] \in [Message -> Type \cup Collector \cup {NoType}]
        /\ [m \in Message |-> {}] \in [Message -> SUBSET MatchAll]
        /\ [m \in Message |-> None] \in [Message -> Task \cup Port \cup {None}]
    BY DEF Status
  <2>2. /\ [m \in Message |-> 0] \in [Message -> Nat] /\ [m \in Message |-> 1] \in [Message -> Nat]
        /\ [m \in Message |-> kNoTimeout] \in [Message -> {kNoTimeout, kTimeOutImmediate, Finite}]
        /\ [m \in Message |-> FALSE] \in [Message -> BOOLEAN]
        /\ [m \in Message |-> None] \in [Message -> Port \cup {None}]
    OBVIOUS
  <2>3. /\ [m \in Message |-> "no"] \in [Message -> {"no", "Timeout", "Delay"}]
        /\ [m \in Message |-> None] \in [Message -> Queue \cup {None}]
        /\ [c \in Queue |-> <<>>] \in [Queue -> Seq(Message)] /\ <<>> \in Seq(Message)
        /\ [t \in Task |-> noErr] \in [Task -> Status]
    BY DEF Status
  <2>4. FALSE \in BOOLEAN /\ Port \in SUBSET Port /\ Message \in SUBSET Message
        /\ {} \in SUBSET Task /\ {} \in SUBSET Token
    OBVIOUS
  <2>5. QED
    BY Zenon, <2>1, <2>2, <2>3, <2>4 DEF Init, KernelRecord
<1>3. ASSUME NEW m \in Message
      PROVE  /\ k.fStatus[m] # kInProgress /\ k.fType[m] \notin Collector /\ k.fNotify[m] = None
             /\ k.fContainer[m] = None /\ k.fTimer[m] = "no" /\ k.fSignature[m] = 0
             /\ k.fSequenceNo[m] = 1
  BY <1>1 DEF noErr, kInProgress, NoType, Collector, CollectedSender, CollectedReceiver
<1>4. Exact(k)
  <2>1. ASSUME NEW c \in Queue PROVE k.queue[c] = <<>> /\ ToSet(k.queue[c]) = {} /\ c # None
    BY <1>1, PortsAssumption DEF ToSet
  <2>2. Distinct(<<>>)
    BY DEF Distinct
  <2>3. QED
    BY <1>3, <2>1, <2>2 DEF Exact
<1>5. Timed(k)
  BY <1>1 DEF Timed, Distinct, ToSet
<1>6. \A m \in Message : Mode(k, m)
  BY <1>3 DEF Mode, Idle
<1>7. Addressed(k) /\ Held(k)
  BY <1>1, <1>3 DEF Addressed, Held
<1>8. Claimed(k, {})
  BY <1>1, <1>3 DEF Claimed, Claims
<1>9. Matched(k)
  BY <1>3, QueueNames DEF Matched, Unmatched
<1>10. TypeOK
  BY <1>1, <1>2 DEF TypeOK
<1>11. DeferralsRemembered
  <2>1. k.queue[gDeferredSends] = <<>>
    BY <1>1, QueueNames
  <2>2. QED
    BY <1>1, <2>1 DEF DeferralsRemembered
<1>12. QED
  BY <1>2, <1>4, <1>5, <1>6, <1>7, <1>8, <1>9, <1>10, <1>11 DEF Inv, Fit

LEMMA TaskStepInv ==
  ASSUME Inv, TaskStep
  PROVE  Inv' /\ Speaks(k')
<1>1. Urgency \subseteq BOOLEAN /\ Delays \subseteq BOOLEAN
  BY DEF Urgency, Delays
<1>2. ASSUME NEW m \in Message, NEW p \in Writes[m], NEW type \in Type,
             NEW timeout \in SendTimeouts, NEW urgent \in Urgency, NEW delay \in Delays,
             NEW late \in Late, PortSendSWI(m, p, type, timeout, urgent, delay, late)
      PROVE  Inv' /\ Speaks(k')
  BY <1>1, <1>2, PortSendInv
<1>3. ASSUME NEW r \in Message, NEW p \in Reads[r], NEW filter \in Filters,
             NEW timeout \in ReadTimeouts, NEW urgent \in Urgency, NEW how \in Hows,
             NEW late \in Late, PortReceiveSWI(r, p, filter, timeout, urgent, how, late)
      PROVE  Inv' /\ Speaks(k')
  BY <1>1, <1>3, PortReceiveInv
<1>4. ASSUME NEW t \in Task, NEW m \in Message, BlockTillDone(t, m) \/ Abort(t, m)
      PROVE  Inv' /\ Speaks(k')
  BY <1>4, BlockTillDoneInv, AbortInv
<1>5. ASSUME NEW t \in Task, NEW p \in Port, Reset(t, p) \/ DestroyPort(t, p)
      PROVE  Inv' /\ Speaks(k')
  BY <1>5, ResetInv, DestroyPortInv
<1>6. ASSUME NEW t \in Task, NEW p \in Port, NEW filter \in Filters, IsMsgAvailable(t, p, filter)
      PROVE  Inv' /\ Speaks(k')
  BY <1>6, IsMsgAvailableInv
<1>7. ASSUME NEW r \in Message, NEW p \in Port, NEW filter \in Filters, ResetFilter(r, p, filter)
      PROVE  Inv' /\ Speaks(k')
  BY <1>7, ResetFilterInv
<1>8. ASSUME NEW m \in Message, GetResult(m) \/ DestroyMessage(m)
      PROVE  Inv' /\ Speaks(k')
  BY <1>8, GetResultInv, DestroyMessageInv
<1>9. ASSUME NEW x \in k.tokens, MsgDone(x)
      PROVE  Inv' /\ Speaks(k')
  BY <1>9, MsgDoneInv
<1>10. QED
  BY <1>2, <1>3, <1>4, <1>5, <1>6, <1>7, <1>8, <1>9 DEF TaskStep

LEMMA InterruptInv ==
  ASSUME Inv, Interrupt
  PROVE  Inv' /\ Speaks(k')
<1>1. Urgency \subseteq BOOLEAN /\ Delays \subseteq BOOLEAN
  BY DEF Urgency, Delays
<1>2. ASSUME NEW m \in Interrupting, NEW p \in Writes[m], NEW type \in Type,
             NEW timeout \in SendTimeouts, NEW urgent \in Urgency, NEW delay \in Delays,
             SendForInterrupt(m, p, type, timeout, urgent, delay)
      PROVE  Inv' /\ Speaks(k')
  BY <1>1, <1>2, SendForInterruptInv
<1>3. ASSUME NEW m \in Message, AlarmFires(m)
      PROVE  Inv' /\ Speaks(k')
  BY <1>3, AlarmFiresInv
<1>4. QED
  BY <1>2, <1>3 DEF Interrupt

LEMMA StutterInv ==
  ASSUME Inv, UNCHANGED vars
  PROVE  Inv' /\ Speaks(k')
<1>1. k' = k /\ deferring' = deferring
  BY DEF vars
<1>2. Fit(k', {})
  BY <1>1, InvFacts
<1>3. TypeOK' /\ DeferralsRemembered'
  BY <1>1 DEF Inv, TypeOK, DeferralsRemembered
<1>4. QED
  BY <1>1, <1>2, <1>3, SpeaksFirst DEF Inv

LEMMA NextInv ==
  ASSUME Inv, [Next]_vars
  PROVE  Inv' /\ Speaks(k')
<1>1. CASE DoDeferrals
  BY <1>1, PortDeferredSendNotifyInv, DeferredNotifyInv DEF DoDeferrals
<1>2. QED
  BY <1>1, TaskStepInv, OtherSWIInv, InterruptInv, StutterInv DEF Next

\* The invariant holds always: the queues and the containers agree, every message is
\* idle, waits in its collector port, or is in progress and held, and every stopped task
\* has one message that resumes it, whatever a procedure of the kernel has in its hands
\* in between.
THEOREM PortsInv == Spec => []Inv
<1>1. Init => Inv
  BY InitInv
<1>2. Inv /\ [Next]_vars => Inv'
  BY NextInv
<1>3. QED
  BY <1>1, <1>2, PTL DEF Spec

\* The record of the kernel keeps its types.
THEOREM PortsTypeOK == Spec => []TypeOK
<1>1. Inv => TypeOK
  BY DEF Inv
<1>2. QED
  BY <1>1, PortsInv, PTL

\* How often a message occurs in a sequence that has it at most once.
LEMMA Occurrences ==
  ASSUME NEW q, Distinct(q), NEW m
  PROVE  Cardinality({i \in DOMAIN q : q[i] = m}) = IF m \in ToSet(q) THEN 1 ELSE 0
<1> DEFINE S == {i \in DOMAIN q : q[i] = m}
<1>1. CASE m \in ToSet(q)
  <2>1. PICK i \in DOMAIN q : q[i] = m
    BY <1>1 DEF ToSet
  <2>2. S = {i}
    BY <2>1 DEF Distinct
  <2>3. Cardinality({i}) = 1
    BY FS_Singleton
  <2>4. Cardinality(S) = 1
    BY <2>2, <2>3
  <2>5. QED
    BY <1>1, <2>4
<1>2. CASE m \notin ToSet(q)
  <2>1. S = {}
    BY <1>2 DEF ToSet
  <2>2. Cardinality(S) = 0
    BY <2>1, FS_EmptySet
  <2>3. QED
    BY <1>2, <2>2
<1>3. QED
  BY <1>1, <1>2

\* A message is in the queue that its links say and in no other, and in the timer's
\* queue at most once and only while it has a timer, whatever completed it first.
THEOREM PortsLinksExact == Spec => []LinksExact
<1>1. Inv => LinksExact
  <2> SUFFICES ASSUME Inv PROVE LinksExact
    OBVIOUS
  <2>1. Exact(k) /\ Timed(k)
    BY InvFacts DEF Fit
  <2>2. ASSUME NEW c \in Queue, NEW m \in Message
        PROVE  Cardinality({i \in DOMAIN k.queue[c] : k.queue[c][i] = m})
                 = IF k.fContainer[m] = c THEN 1 ELSE 0
    <3>1. Distinct(k.queue[c]) /\ (m \in ToSet(k.queue[c]) <=> k.fContainer[m] = c)
      BY <2>1 DEF Exact
    <3>2. Cardinality({i \in DOMAIN k.queue[c] : k.queue[c][i] = m})
            = IF m \in ToSet(k.queue[c]) THEN 1 ELSE 0
      BY <3>1, Occurrences
    <3>3. QED
      BY <3>1, <3>2
  <2>3. ASSUME NEW m \in Message
        PROVE  Cardinality({i \in DOMAIN k.gTimerDeferred : k.gTimerDeferred[i] = m})
                 <= IF k.fTimer[m] = "no" THEN 0 ELSE 1
    <3>1. Distinct(k.gTimerDeferred) /\ (m \in ToSet(k.gTimerDeferred) => k.fTimer[m] # "no")
      BY <2>1 DEF Timed
    <3>2. Cardinality({i \in DOMAIN k.gTimerDeferred : k.gTimerDeferred[i] = m})
            = IF m \in ToSet(k.gTimerDeferred) THEN 1 ELSE 0
      BY <3>1, Occurrences
    <3>3. QED
      BY <3>1, <3>2
  <2>4. QED
    BY <2>2, <2>3 DEF LinksExact
<1>2. QED
  BY <1>1, PortsInv, PTL

\* What is in progress or waits to be collected is in a queue or has a timer, and what
\* has ended is in neither.
THEOREM PortsPendingIffHeld == Spec => []PendingIffHeld
<1>1. Inv => PendingIffHeld
  <2> SUFFICES ASSUME Inv PROVE PendingIffHeld
    OBVIOUS
  <2>1. ASSUME NEW m \in Message
        PROVE  Busy(k, m) <=> (k.fContainer[m] # None \/ k.fTimer[m] # "no")
    <3>1. Mode(k, m)
      BY InvFacts
    <3>2. \A p \in Port : fSenders(p) # None
      BY QueueNames
    <3>3. QED
      BY <3>1, <3>2 DEF Busy, Mode, Idle, Waits, Active
  <2>2. QED
    BY <2>1 DEF PendingIffHeld
<1>2. QED
  BY <1>1, PortsInv, PTL

\* A stopped task has a message in progress that resumes it, and no message resumes a
\* task that runs.
THEOREM PortsNoTaskForgotten == Spec => []NoTaskForgotten
<1>1. Inv => NoTaskForgotten
  <2> SUFFICES ASSUME Inv PROVE NoTaskForgotten
    OBVIOUS
  <2>1. Claimed(k, {})
    BY InvFacts DEF Fit
  <2>2. QED
    BY <2>1 DEF Claimed, Claims, NoTaskForgotten
<1>2. QED
  BY <1>1, PortsInv, PTL

\* What interrupts leave for DoDeferrals is done or still requested.
THEOREM PortsDeferralsRemembered == Spec => []DeferralsRemembered
<1>1. Inv => DeferralsRemembered
  BY DEF Inv
<1>2. QED
  BY <1>1, PortsInv, PTL

\* Where nobody resets a filter, no receiver waits in a port that holds a message it
\* would accept.
THEOREM PortsNoMatchWaiting ==
  ASSUME "resetFilter" \notin Calls
  PROVE  Spec => []NoMatchWaiting
<1>1. Inv => NoMatchWaiting
  <2> SUFFICES ASSUME Inv PROVE NoMatchWaiting
    OBVIOUS
  <2>1. Matched(k)
    BY InvFacts DEF Fit
  <2>2. QED
    BY <2>1 DEF Matched, Unmatched, NoMatchWaiting
<1>2. QED
  BY <1>1, PortsInv, PTL

\* Where a task collects its own messages, a receiver's token answers the message that
\* was received with it, and never a later use of the same message.
THEOREM PortsTokenAnswersItsSend ==
  ASSUME CollectedAtHome
  PROVE  Spec => []TokenAnswersItsSend
<1>1. Inv => TokenAnswersItsSend
  <2> SUFFICES ASSUME Inv PROVE TokenAnswersItsSend
    OBVIOUS
  <2>1. ASSUME NEW x \in k.tokens, MsgDoneAccepted(x.msg, x.sig)
        PROVE  x.nth = k.sends[x.msg] /\ k.fContainer[x.msg] = f8C(x.rcvr)
    <3>1. Held(k)
      BY InvFacts DEF Fit
    <3>2. /\ k.fStatus[x.msg] = kInProgress /\ k.fSignature[x.msg] = x.sig
          /\ k.fContainer[x.msg] # None
      BY <2>1 DEF MsgDoneAccepted
    <3>3. x.sig # 0
      BY <3>1, <3>2 DEF Held, Ended
    <3>4. QED
      BY <3>1, <3>2, <3>3 DEF Held, Signed
  <2>2. QED
    BY <2>1 DEF TokenAnswersItsSend
<1>2. QED
  BY <1>1, PortsInv, PTL

LEMMA InitRoles ==
  ASSUME Init
  PROVE  Roles(k)
<1>1. /\ k.f0080 = [m \in Message |-> FALSE] /\ k.fTimer = [m \in Message |-> "no"]
      /\ k.fContainer = [m \in Message |-> None]
  BY DEF Init
<1>2. QED
  BY <1>1, QueueNames DEF Roles

\* Who has failed has not ended with noErr.
LEMMA ToldIs ==
  ASSUME Told(k, k'), NEW m \in Message, EndsWithNoErr(m)
  PROVE  \E r \in Message : k.fContainer[m] = f8C(r)
<1>1. Sending(k, m) /\ ~Sending(k', m)
  BY DEF EndsWithNoErr
<1>2. ~Failed(k', m)
  BY DEF EndsWithNoErr, Failed
<1>3. InReply(k, m)
  BY <1>1, <1>2 DEF Told
<1>4. QED
  BY <1>3 DEF InReply

\* Where no send has a timeout that runs and a task collects its own messages, a send
\* that ends with noErr was with a receiver: whatever else ends it, an abort, a reset, a
\* port that is destroyed or the refusal of a deferred send, tells its task an error.
THEOREM PortsNoErrMeansReceived ==
  ASSUME CollectedAtHome, Finite \notin SendTimeouts
  PROVE  Spec => NoErrMeansReceived
<1> DEFINE IInv == Inv /\ Roles(k)
<1>1. Init => IInv
  BY InitInv, InitRoles
<1>2. ASSUME IInv, [Next]_vars
      PROVE  Said(k, k') /\ Inv'
  BY <1>2, NextInv DEF Speaks
<1>3. IInv /\ [Next]_vars => IInv'
  BY <1>2 DEF Said
<1>4. IInv /\ [Next]_vars
        => [\A m \in Message :
              EndsWithNoErr(m) => \E r \in Message : k.fContainer[m] = f8C(r)]_vars
  BY <1>2, ToldIs DEF Said
<1>5. QED
  BY <1>1, <1>3, <1>4, PTL DEF Spec, NoErrMeansReceived

=============================================================================
