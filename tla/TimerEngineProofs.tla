--------------------------- MODULE TimerEngineProofs ---------------------------
(***************************************************************************)
(* Proofs about the timer engine, for every set of messages and every time *)
(* they may ask for: the two queues thread their messages through the      *)
(* links they share, the alarm is armed for the first that waits, and the  *)
(* engine implements AlarmClock.                                           *)
(*                                                                         *)
(* A queue is described by the sequence of its messages, of which there is *)
(* one at most; the operations of DoubleQ insert into it and delete from   *)
(* it.                                                                     *)
(***************************************************************************)
EXTENDS TimerEngine, Integers, FiniteSetTheorems, WellFoundedInduction, TLAPS

USE TimeAssumption, MessageAssumption

Queues == {"gTimerEngine", "gTimerDeferred"}
Link == Msg \cup {None}

QType ==
  [fHead : [Queues -> Link], fTail : [Queues -> Link],
   fNext : [Msg -> Link], fPrev : [Msg -> Link],
   fContainer : [Msg -> Queues \cup {None}]]

Distinct(s) == \A i, j \in 1 .. Len(s) : s[i] = s[j] => i = j
In(s, x) == \E i \in 1 .. Len(s) : s[i] = x

(* s is what queue c of q holds, from head to tail. *)
Chain(q, c, s) ==
  /\ s \in Seq(Msg) /\ Distinct(s)
  /\ \A x \in Msg : q.fContainer[x] = c <=> In(s, x)
  /\ q.fHead[c] = IF Len(s) = 0 THEN None ELSE s[1]
  /\ q.fTail[c] = IF Len(s) = 0 THEN None ELSE s[Len(s)]
  /\ \A i \in 1 .. Len(s) : q.fNext[s[i]] = IF i = Len(s) THEN None ELSE s[i + 1]
  /\ \A i \in 2 .. Len(s) : q.fPrev[s[i]] = s[i - 1]

Ins(s, p, x) ==
  [j \in 1 .. Len(s) + 1 |-> IF j < p THEN s[j] ELSE IF j = p THEN x ELSE s[j - 1]]
Del(s, p) == [j \in 1 .. Len(s) - 1 |-> IF j < p THEN s[j] ELSE s[j + 1]]

-----------------------------------------------------------------------------
(* Sequences.                                                              *)

\* A place that is not the last is one of those before it.
LEMMA BelowTop ==
  \A n \in Nat : \A j \in 1 .. n + 1 : j # n + 1 => j \in 1 .. n
OBVIOUS

\* What has more than one place has two.
LEMMA TwoPlaces ==
  \A n \in Nat : n # 0 /\ n # 1 => 1 \in 1 .. n /\ 2 \in 1 .. n
OBVIOUS

\* x comes in at place p, and what follows moves up.
LEMMA InsFacts ==
  ASSUME NEW s \in Seq(Msg), NEW p \in 1 .. Len(s) + 1, NEW x \in Msg
  PROVE  /\ Ins(s, p, x) \in Seq(Msg) /\ Len(Ins(s, p, x)) = Len(s) + 1
         /\ Ins(s, p, x)[p] = x
         /\ \A i \in 1 .. Len(s) : i < p => Ins(s, p, x)[i] = s[i]
         /\ \A i \in 1 .. Len(s) : i >= p => Ins(s, p, x)[i + 1] = s[i]
         /\ \A j \in 1 .. Len(s) + 1 :
              \/ j = p
              \/ j < p /\ j \in 1 .. Len(s) /\ Ins(s, p, x)[j] = s[j]
              \/ j > p /\ j - 1 \in 1 .. Len(s) /\ Ins(s, p, x)[j] = s[j - 1]
<1>1. Len(s) \in Nat /\ \A i \in 1 .. Len(s) : s[i] \in Msg
  OBVIOUS
<1>2. \A j \in 1 .. Len(s) + 1 : (j < p => j \in 1 .. Len(s)) /\ (j > p => j - 1 \in 1 .. Len(s))
  BY <1>1
<1> DEFINE r == Ins(s, p, x)
<1>3. \A j \in 1 .. Len(s) + 1 : r[j] = IF j < p THEN s[j] ELSE IF j = p THEN x ELSE s[j - 1]
  BY DEF Ins
<1>4. \A j \in 1 .. Len(s) + 1 : r[j] \in Msg
  BY <1>1, <1>2, <1>3
<1>5. r \in Seq(Msg) /\ Len(r) = Len(s) + 1
  <2>1. r \in [1 .. Len(s) + 1 -> Msg]
    BY <1>4 DEF Ins
  <2>2. QED
    BY <1>1, <2>1
<1> HIDE DEF r
<1>6. r[p] = x
  BY <1>1, <1>3
<1>7. \A i \in 1 .. Len(s) : i < p => r[i] = s[i]
  BY <1>1, <1>3
<1>8. \A i \in 1 .. Len(s) : i >= p => r[i + 1] = s[i]
  <2>1. ASSUME NEW i \in 1 .. Len(s), i >= p
        PROVE  r[i + 1] = s[i]
    <3>1. i + 1 \in 1 .. Len(s) + 1 /\ ~(i + 1 < p) /\ i + 1 # p /\ (i + 1) - 1 = i
      BY <1>1, <2>1
    <3>2. QED
      BY <1>3, <3>1
  <2>2. QED
    BY <2>1
<1>9. \A j \in 1 .. Len(s) + 1 :
        \/ j = p
        \/ j < p /\ j \in 1 .. Len(s) /\ r[j] = s[j]
        \/ j > p /\ j - 1 \in 1 .. Len(s) /\ r[j] = s[j - 1]
  BY <1>1, <1>2, <1>3
<1>10. QED
  BY <1>5, <1>6, <1>7, <1>8, <1>9 DEF r

\* The element at place p goes, and what follows moves down.
LEMMA DelFacts ==
  ASSUME NEW s \in Seq(Msg), NEW p \in 1 .. Len(s)
  PROVE  /\ Del(s, p) \in Seq(Msg) /\ Len(Del(s, p)) = Len(s) - 1
         /\ \A i \in 1 .. Len(s) : i < p => i \in 1 .. Len(s) - 1 /\ Del(s, p)[i] = s[i]
         /\ \A i \in 1 .. Len(s) : i > p => i - 1 \in 1 .. Len(s) - 1 /\ Del(s, p)[i - 1] = s[i]
         /\ \A j \in 1 .. Len(s) - 1 :
              \/ j < p /\ j \in 1 .. Len(s) /\ Del(s, p)[j] = s[j]
              \/ j >= p /\ j + 1 \in 1 .. Len(s) /\ Del(s, p)[j] = s[j + 1]
<1>1. Len(s) \in Nat /\ \A i \in 1 .. Len(s) : s[i] \in Msg
  OBVIOUS
<1> DEFINE r == Del(s, p)
<1>2. \A j \in 1 .. Len(s) - 1 : r[j] = IF j < p THEN s[j] ELSE s[j + 1]
  BY DEF Del
<1>3. \A j \in 1 .. Len(s) - 1 : r[j] \in Msg
  BY <1>1, <1>2
<1>4. r \in Seq(Msg) /\ Len(r) = Len(s) - 1
  <2>1. r \in [1 .. Len(s) - 1 -> Msg]
    BY <1>3 DEF Del
  <2>2. Len(s) - 1 \in Nat
    BY <1>1
  <2>3. QED
    BY <2>1, <2>2
<1> HIDE DEF r
<1>5. \A i \in 1 .. Len(s) : i < p => i \in 1 .. Len(s) - 1 /\ r[i] = s[i]
  BY <1>1, <1>2
<1>6. \A i \in 1 .. Len(s) : i > p => i - 1 \in 1 .. Len(s) - 1 /\ r[i - 1] = s[i]
  <2>1. ASSUME NEW i \in 1 .. Len(s), i > p
        PROVE  i - 1 \in 1 .. Len(s) - 1 /\ r[i - 1] = s[i]
    <3>1. i - 1 \in 1 .. Len(s) - 1 /\ ~(i - 1 < p) /\ (i - 1) + 1 = i
      BY <1>1, <2>1
    <3>2. QED
      BY <1>2, <3>1
  <2>2. QED
    BY <2>1
<1>7. \A j \in 1 .. Len(s) - 1 :
        \/ j < p /\ j \in 1 .. Len(s) /\ r[j] = s[j]
        \/ j >= p /\ j + 1 \in 1 .. Len(s) /\ r[j] = s[j + 1]
  BY <1>1, <1>2
<1>8. QED
  BY <1>4, <1>5, <1>6, <1>7 DEF r

-----------------------------------------------------------------------------
(* Links.                                                                  *)

(* From q to r the message x of no queue but c moves to k, and the links of  *)
(* other queues stay as they are.                                            *)
Touches(q, r, c, x, k) ==
  /\ r \in QType
  /\ r.fContainer = [q.fContainer EXCEPT ![x] = k]
  /\ \A e \in Queues \ {c} : r.fHead[e] = q.fHead[e] /\ r.fTail[e] = q.fTail[e]
  /\ \A y \in Msg \ {x} : q.fContainer[y] # c =>
       r.fNext[y] = q.fNext[y] /\ r.fPrev[y] = q.fPrev[y]

\* The types of the fields.
LEMMA QFields ==
  ASSUME NEW q \in QType
  PROVE  /\ q.fHead \in [Queues -> Link] /\ q.fTail \in [Queues -> Link]
         /\ q.fNext \in [Msg -> Link] /\ q.fPrev \in [Msg -> Link]
         /\ q.fContainer \in [Msg -> Queues \cup {None}]
BY DEF QType

\* The other queue holds what it held.
LEMMA OtherChain ==
  ASSUME NEW q \in QType, NEW r, NEW c \in Queues, NEW x \in Msg, NEW k \in {c, None},
         q.fContainer[x] \in {c, None}, Touches(q, r, c, x, k),
         NEW e \in Queues \ {c}, NEW s, Chain(q, e, s)
  PROVE  Chain(r, e, s)
<1>1. \A y \in Msg : r.fContainer[y] = IF y = x THEN k ELSE q.fContainer[y]
  BY QFields DEF Touches
<1>2. e # k /\ e # q.fContainer[x] /\ c # e
  BY DEF Queues
<1>3. \A y \in Msg : r.fContainer[y] = e <=> q.fContainer[y] = e
  BY <1>1, <1>2
<1>4. \A i \in 1 .. Len(s) : /\ s[i] \in Msg \ {x} /\ q.fContainer[s[i]] # c
  BY <1>2 DEF Chain, In
<1>5. /\ \A i \in 1 .. Len(s) : r.fNext[s[i]] = q.fNext[s[i]]
      /\ \A i \in 1 .. Len(s) : r.fPrev[s[i]] = q.fPrev[s[i]]
  BY <1>4 DEF Touches
<1>6. r.fHead[e] = q.fHead[e] /\ r.fTail[e] = q.fTail[e]
  BY DEF Touches
<1>7. \A i \in 2 .. Len(s) : i \in 1 .. Len(s)
  BY DEF Chain
<1>8. QED
  BY <1>3, <1>5, <1>6, <1>7 DEF Chain

\* x is linked in at place p of queue c.
LEMMA InsertChain ==
  ASSUME NEW q \in QType, NEW r, NEW c \in Queues, NEW x \in Msg, q.fContainer[x] = None,
         Touches(q, r, c, x, c), NEW s, Chain(q, c, s), NEW p \in 1 .. Len(s) + 1,
         r.fHead[c] = IF p = 1 THEN x ELSE q.fHead[c],
         r.fTail[c] = IF p = Len(s) + 1 THEN x ELSE q.fTail[c],
         r.fNext[x] = IF p = Len(s) + 1 THEN None ELSE s[p],
         p > 1 => r.fNext[s[p - 1]] = x /\ r.fPrev[x] = s[p - 1],
         p <= Len(s) => r.fPrev[s[p]] = x,
         \A i \in 1 .. Len(s) : /\ i # p - 1 => r.fNext[s[i]] = q.fNext[s[i]]
                                /\ i # p => r.fPrev[s[i]] = q.fPrev[s[i]]
  PROVE  Chain(r, c, Ins(s, p, x))
<1> DEFINE w == Ins(s, p, x)
           L == Len(s)
<1>1. /\ s \in Seq(Msg) /\ L \in Nat /\ p \in Int /\ Distinct(s)
      /\ \A i \in 1 .. L : s[i] \in Msg
  BY DEF Chain
<1>2. /\ w \in Seq(Msg) /\ Len(w) = L + 1 /\ w[p] = x
      /\ \A i \in 1 .. L : i < p => w[i] = s[i]
      /\ \A i \in 1 .. L : i >= p => w[i + 1] = s[i]
      /\ \A j \in 1 .. L + 1 :
           \/ j = p
           \/ j < p /\ j \in 1 .. L /\ w[j] = s[j]
           \/ j > p /\ j - 1 \in 1 .. L /\ w[j] = s[j - 1]
  BY <1>1, InsFacts
<1> HIDE DEF w
<1>3. \A i \in 1 .. L : s[i] # x
  <2>1. c # None
    BY DEF Queues
  <2>2. QED
    BY <2>1 DEF Chain, In
<1>4. Distinct(w)
  <2> SUFFICES ASSUME NEW i \in 1 .. L + 1, NEW j \in 1 .. L + 1, w[i] = w[j]
               PROVE  i = j
    BY <1>2 DEF Distinct
  <2>1. \A m, n \in 1 .. L : s[m] = s[n] => m = n
    BY <1>1 DEF Distinct
  <2>2. i \in Int /\ j \in Int
    BY <1>1
  <2>3. \A m \in 1 .. L + 1 : m # p => w[m] # x
    BY SMTT(30), <1>2, <1>3
  <2>9. (i = p) <=> (j = p)
    <3>1. CASE i = p
      BY <1>2, <2>3, <3>1
    <3>2. CASE j = p
      <4>1. w[i] = x
        BY <1>2, <3>2
      <4>2. QED
        BY <2>3, <3>2, <4>1
    <3>3. QED
      BY <3>1, <3>2
  <2>4. CASE i < p /\ j < p
    <3>1. i \in 1 .. L /\ j \in 1 .. L /\ s[i] = s[j]
      BY <1>1, <1>2, <2>2, <2>4
    <3>2. QED
      BY <2>1, <3>1
  <2>5. CASE i > p /\ j > p
    <3>1. i - 1 \in 1 .. L /\ j - 1 \in 1 .. L /\ s[i - 1] = s[j - 1]
      BY <1>2, <2>2, <2>5
    <3>2. i - 1 = j - 1
      BY <2>1, <3>1
    <3>3. QED
      BY <2>2, <3>2
  <2>6. CASE i < p /\ j > p
    <3>1. i \in 1 .. L /\ j - 1 \in 1 .. L /\ s[i] = s[j - 1]
      BY <1>2, <2>2, <2>6
    <3>2. i = j - 1
      BY <2>1, <3>1
    <3>3. QED
      BY <1>1, <2>2, <2>6, <3>2
  <2>7. CASE i > p /\ j < p
    <3>1. j \in 1 .. L /\ i - 1 \in 1 .. L /\ s[j] = s[i - 1]
      BY SMTT(30), <1>2, <2>2, <2>7
    <3>2. j = i - 1
      BY <2>1, <3>1
    <3>3. QED
      BY <1>1, <2>2, <2>7, <3>2
  <2>8. QED
    BY <1>1, <2>2, <2>9, <2>4, <2>5, <2>6, <2>7
<1>5. \A y \in Msg : In(w, y) <=> y = x \/ In(s, y)
  <2> TAKE y \in Msg
  <2>1. ASSUME In(w, y) PROVE y = x \/ In(s, y)
    <3>1. PICK j \in 1 .. L + 1 : w[j] = y
      BY <1>2, <2>1 DEF In
    <3>2. QED
      BY <1>2, <3>1 DEF In
  <2>2. ASSUME In(s, y) PROVE In(w, y)
    <3>1. PICK i \in 1 .. L : s[i] = y
      BY <2>2 DEF In
    <3>2. CASE i < p
      <4>1. i \in 1 .. Len(w) /\ w[i] = y
        BY <1>1, <1>2, <3>1, <3>2
      <4>2. QED
        BY <4>1 DEF In
    <3>3. CASE i >= p
      <4>1. i + 1 \in 1 .. Len(w) /\ w[i + 1] = y
        BY <1>1, <1>2, <3>1, <3>3
      <4>2. QED
        BY <4>1 DEF In
    <3>4. QED
      BY <1>1, <3>2, <3>3
  <2>3. In(w, x)
    BY <1>1, <1>2 DEF In
  <2>4. QED
    BY <2>1, <2>2, <2>3
<1>6. \A y \in Msg : r.fContainer[y] = c <=> In(w, y)
  <2>1. \A y \in Msg : r.fContainer[y] = IF y = x THEN c ELSE q.fContainer[y]
    BY QFields DEF Touches
  <2>2. QED
    BY <1>5, <2>1 DEF Chain
<1>7. r.fHead[c] = IF Len(w) = 0 THEN None ELSE w[1]
  <2>1. CASE p = 1
    BY <1>1, <1>2, <2>1
  <2>2. CASE p # 1
    <3>1. 1 \in 1 .. L /\ 1 < p /\ L # 0
      BY <1>1, <2>2
    <3>2. w[1] = s[1] /\ q.fHead[c] = s[1]
      BY <1>2, <3>1 DEF Chain
    <3>3. Len(w) # 0
      BY <1>1, <1>2
    <3>4. QED
      BY <2>2, <3>2, <3>3
  <2>3. QED
    BY <2>1, <2>2
<1>8. r.fTail[c] = IF Len(w) = 0 THEN None ELSE w[Len(w)]
  <2>1. Len(w) # 0 /\ w[Len(w)] = w[L + 1]
    BY <1>1, <1>2
  <2>2. CASE p = L + 1
    BY <1>2, <2>1, <2>2
  <2>3. CASE p # L + 1
    <3>1. L \in 1 .. L /\ L >= p /\ L # 0
      BY <1>1, <2>3
    <3>2. w[L + 1] = s[L] /\ q.fTail[c] = s[L]
      BY <1>2, <3>1 DEF Chain
    <3>3. QED
      BY <2>1, <2>3, <3>2
  <2>4. QED
    BY <2>2, <2>3
<1>9. \A j \in 1 .. Len(w) : r.fNext[w[j]] = IF j = Len(w) THEN None ELSE w[j + 1]
  <2> SUFFICES ASSUME NEW j \in 1 .. L + 1
               PROVE  r.fNext[w[j]] = IF j = L + 1 THEN None ELSE w[j + 1]
    BY <1>2
  <2>1. \A i \in 1 .. L : q.fNext[s[i]] = IF i = L THEN None ELSE s[i + 1]
    BY DEF Chain
  <2>2. CASE j = p
    <3>1. CASE p = L + 1
      BY <1>2, <2>2, <3>1
    <3>2. CASE p # L + 1
      <4>1. p \in 1 .. L /\ p >= p
        BY <1>1, <3>2
      <4>2. w[p + 1] = s[p]
        BY <1>2, <4>1
      <4>3. QED
        BY <1>2, <2>2, <3>2, <4>2
    <3>3. QED
      BY <3>1, <3>2
  <2>3. CASE j < p
    <3>1. j \in 1 .. L /\ w[j] = s[j] /\ j # L + 1
      BY <1>1, <1>2, <2>3
    <3>2. CASE j = p - 1
      <4>1. p > 1 /\ w[j + 1] = x
        BY <1>1, <1>2, <3>1, <3>2
      <4>2. QED
        BY <3>1, <3>2, <4>1
    <3>3. CASE j # p - 1
      <4>1. j + 1 \in 1 .. L /\ j + 1 < p /\ j # L
        BY <1>1, <2>3, <3>1, <3>3
      <4>2. w[j + 1] = s[j + 1]
        BY <1>2, <4>1
      <4>3. r.fNext[s[j]] = s[j + 1]
        BY <2>1, <3>1, <3>3, <4>1
      <4>4. QED
        BY <3>1, <4>2, <4>3
    <3>4. QED
      BY <3>2, <3>3
  <2>4. CASE j > p
    <3>1. j - 1 \in 1 .. L /\ w[j] = s[j - 1] /\ j - 1 >= p /\ j - 1 # p - 1
      BY <1>1, <1>2, <2>4
    <3>2. r.fNext[w[j]] = IF j - 1 = L THEN None ELSE s[(j - 1) + 1]
      BY ZenonT(40), <2>1, <3>1
    <3>3. CASE j = L + 1
      BY <1>1, <3>2, <3>3
    <3>4. CASE j # L + 1
      <4>4. j \in Int
        BY <1>1
      <4>5. j >= p /\ (j - 1) + 1 = j /\ j - 1 # L
        BY <1>1, <2>4, <3>4, <4>4
      <4>1. j \in 1 .. L
        BY <1>1, <3>4, BelowTop
      <4>2. w[j + 1] = s[j]
        BY <1>2, <4>1, <4>5
      <4>3. QED
        BY <3>2, <3>4, <4>5, <4>2
    <3>5. QED
      BY <3>3, <3>4
  <2>5. QED
    BY <1>1, <2>2, <2>3, <2>4
<1>10. \A j \in 2 .. Len(w) : r.fPrev[w[j]] = w[j - 1]
  <2> SUFFICES ASSUME NEW j \in 2 .. L + 1
               PROVE  r.fPrev[w[j]] = w[j - 1]
    BY <1>2
  <2>1. \A i \in 2 .. L : q.fPrev[s[i]] = s[i - 1]
    BY DEF Chain
  <2>2. j \in 1 .. L + 1 /\ j \in Int /\ j >= 2
    BY <1>1
  <2>3. CASE j = p
    <3>1. p > 1 /\ p - 1 \in 1 .. L /\ p - 1 < p
      BY <1>1, <2>2, <2>3
    <3>2. w[p - 1] = s[p - 1]
      BY <1>2, <3>1
    <3>3. QED
      BY <1>2, <2>3, <3>1, <3>2
  <2>4. CASE j < p
    <3>1. j \in 2 .. L /\ j \in 1 .. L /\ j - 1 \in 1 .. L /\ j - 1 < p /\ j # p
      BY <1>1, <2>2, <2>4
    <3>2. w[j] = s[j] /\ w[j - 1] = s[j - 1]
      BY <1>2, <2>4, <3>1
    <3>3. r.fPrev[s[j]] = s[j - 1]
      BY <2>1, <3>1
    <3>4. QED
      BY <3>2, <3>3
  <2>5. CASE j > p
    <3>1. j - 1 \in 1 .. L /\ w[j] = s[j - 1]
      BY <1>2, <2>2, <2>5
    <3>2. CASE j - 1 = p
      <4>1. w[j - 1] = x /\ p <= L
        BY <1>1, <1>2, <3>1, <3>2
      <4>2. QED
        BY <3>1, <3>2, <4>1
    <3>3. CASE j - 1 # p
      <4>1. /\ j - 1 \in 2 .. L /\ j - 2 \in 1 .. L /\ j - 2 >= p /\ (j - 2) + 1 = j - 1
            /\ (j - 1) - 1 = j - 2
        BY <1>1, <2>2, <2>5, <3>1, <3>3
      <4>2. w[j - 1] = s[j - 2]
        <5>1. w[(j - 2) + 1] = s[j - 2]
          BY <1>2, <4>1
        <5>2. QED
          BY <4>1, <5>1
      <4>3. r.fPrev[s[j - 1]] = s[(j - 1) - 1]
        BY <2>1, <3>1, <3>3, <4>1
      <4>4. QED
        BY <3>1, <4>1, <4>2, <4>3
    <3>4. QED
      BY <3>2, <3>3
  <2>6. QED
    BY <1>1, <2>2, <2>3, <2>4, <2>5
<1>11. QED
  BY <1>2, <1>4, <1>6, <1>7, <1>8, <1>9, <1>10 DEF Chain, w

\* The message at place p of queue c is taken out.
LEMMA DeleteChain ==
  ASSUME NEW q \in QType, NEW r, NEW c \in Queues, NEW s, Chain(q, c, s),
         NEW p \in 1 .. Len(s), Touches(q, r, c, s[p], None),
         r.fHead[c] = IF p = 1 THEN IF Len(s) = 1 THEN None ELSE s[2] ELSE q.fHead[c],
         r.fTail[c] = IF p = Len(s) THEN IF p = 1 THEN None ELSE s[p - 1] ELSE q.fTail[c],
         p > 1 => r.fNext[s[p - 1]] = IF p = Len(s) THEN None ELSE s[p + 1],
         p > 1 /\ p < Len(s) => r.fPrev[s[p + 1]] = s[p - 1],
         \A i \in 1 .. Len(s) :
           /\ i # p /\ i # p - 1 => r.fNext[s[i]] = q.fNext[s[i]]
           /\ i # p /\ i # p + 1 => r.fPrev[s[i]] = q.fPrev[s[i]]
  PROVE  Chain(r, c, Del(s, p))
<1> DEFINE w == Del(s, p)
           L == Len(s)
           N == Len(s) - 1
<1>1. /\ s \in Seq(Msg) /\ L \in Nat /\ p \in Int /\ 1 <= p /\ p <= L /\ N \in Nat /\ Distinct(s)
      /\ \A i \in 1 .. L : s[i] \in Msg
  BY DEF Chain
<1>2. /\ w \in Seq(Msg) /\ Len(w) = N
      /\ \A i \in 1 .. L : i < p => i \in 1 .. N /\ w[i] = s[i]
      /\ \A i \in 1 .. L : i > p => i - 1 \in 1 .. N /\ w[i - 1] = s[i]
      /\ \A j \in 1 .. N :
           \/ j < p /\ j \in 1 .. L /\ w[j] = s[j]
           \/ j >= p /\ j + 1 \in 1 .. L /\ w[j] = s[j + 1]
  BY <1>1, DelFacts
<1> HIDE DEF w
<1>3. \A m, n \in 1 .. L : s[m] = s[n] => m = n
  BY <1>1 DEF Distinct
<1>4. Distinct(w)
  <2> SUFFICES ASSUME NEW i \in 1 .. N, NEW j \in 1 .. N, w[i] = w[j]
               PROVE  i = j
    BY <1>2 DEF Distinct
  <2>1. i \in Int /\ j \in Int
    BY <1>1
  <2>2. CASE i < p /\ j < p
    <3>1. i \in 1 .. L /\ j \in 1 .. L /\ s[i] = s[j]
      BY <1>1, <1>2, <2>1, <2>2
    <3>2. QED
      BY <1>3, <3>1
  <2>3. CASE i >= p /\ j >= p
    <3>1. i + 1 \in 1 .. L /\ j + 1 \in 1 .. L /\ s[i + 1] = s[j + 1]
      BY <1>1, <1>2, <2>1, <2>3
    <3>2. i + 1 = j + 1
      BY <1>3, <3>1
    <3>3. QED
      BY <2>1, <3>2
  <2>4. CASE i < p /\ j >= p
    <3>1. i \in 1 .. L /\ j + 1 \in 1 .. L /\ s[i] = s[j + 1]
      BY <1>1, <1>2, <2>1, <2>4
    <3>2. i = j + 1
      BY <1>3, <3>1
    <3>3. QED
      BY <1>1, <2>1, <2>4, <3>2
  <2>5. CASE i >= p /\ j < p
    <3>1. j \in 1 .. L /\ i + 1 \in 1 .. L /\ s[j] = s[i + 1]
      BY <1>1, <1>2, <2>1, <2>5
    <3>2. j = i + 1
      BY <1>3, <3>1
    <3>3. QED
      BY <1>1, <2>1, <2>5, <3>2
  <2>6. QED
    BY <1>1, <2>1, <2>2, <2>3, <2>4, <2>5
<1>5. \A y \in Msg : In(w, y) <=> y # s[p] /\ In(s, y)
  <2> TAKE y \in Msg
  <2>1. ASSUME In(w, y) PROVE y # s[p] /\ In(s, y)
    <3>1. PICK j \in 1 .. N : w[j] = y
      BY <1>2, <2>1 DEF In
    <3>2. PICK i \in 1 .. L : i # p /\ y = s[i]
      <4>1. CASE j < p
        BY <1>1, <1>2, <3>1, <4>1
      <4>2. CASE j >= p
        <5>1. j + 1 \in 1 .. L /\ w[j] = s[j + 1] /\ j + 1 # p
          BY <1>1, <1>2, <3>1, <4>2
        <5>2. QED
          BY <3>1, <5>1
      <4>3. QED
        BY <1>1, <4>1, <4>2
    <3>3. QED
      BY <1>3, <3>2 DEF In
  <2>2. ASSUME y # s[p], In(s, y) PROVE In(w, y)
    <3>1. PICK i \in 1 .. L : s[i] = y
      BY <2>2 DEF In
    <3>2. i # p /\ i \in Int
      BY <1>1, <2>2, <3>1
    <3>3. CASE i < p
      <4>1. i \in 1 .. Len(w) /\ w[i] = y
        BY <1>2, <3>1, <3>3
      <4>2. QED
        BY <4>1 DEF In
    <3>4. CASE i > p
      <4>1. i - 1 \in 1 .. Len(w) /\ w[i - 1] = y
        BY <1>2, <3>1, <3>4
      <4>2. QED
        BY <4>1 DEF In
    <3>5. QED
      BY <1>1, <3>2, <3>3, <3>4
  <2>3. QED
    BY <2>1, <2>2
<1>6. \A y \in Msg : r.fContainer[y] = c <=> In(w, y)
  <2>1. \A y \in Msg : r.fContainer[y] = IF y = s[p] THEN None ELSE q.fContainer[y]
    BY QFields DEF Touches
  <2>2. c # None
    BY DEF Queues
  <2>3. \A y \in Msg : q.fContainer[y] = c <=> In(s, y)
    BY DEF Chain
  <2>4. QED
    BY <1>5, <2>1, <2>2, <2>3
<1>7. r.fHead[c] = IF Len(w) = 0 THEN None ELSE w[1]
  <2>1. CASE p = 1 /\ L = 1
    BY <1>2, <2>1
  <2>2. CASE p = 1 /\ L # 1
    <3>4. L >= 1 /\ L \in Nat /\ L # 1
      BY <1>1, <2>2
    <3>5. \A n \in Nat : n >= 1 /\ n # 1 => n >= 2
      OBVIOUS
    <3>6. L >= 2
      BY <3>4, <3>5
    <3>1. 2 \in 1 .. L /\ 2 > p /\ 2 - 1 = 1 /\ N # 0
      BY <1>1, <2>2, <3>6
    <3>2. w[2 - 1] = s[2]
      BY <1>2, <3>1
    <3>3. QED
      BY <1>2, <2>2, <3>1, <3>2
  <2>3. CASE p # 1
    <3>1. 1 \in 1 .. L /\ 1 < p /\ L # 0 /\ N # 0
      BY <1>1, <2>3
    <3>2. w[1] = s[1] /\ q.fHead[c] = s[1]
      BY <1>2, <3>1 DEF Chain
    <3>3. QED
      BY <1>2, <2>3, <3>1, <3>2
  <2>4. QED
    BY <2>1, <2>2, <2>3
<1>8. r.fTail[c] = IF Len(w) = 0 THEN None ELSE w[Len(w)]
  <2>1. CASE p = L /\ p = 1
    BY <1>2, <2>1
  <2>2. CASE p = L /\ p # 1
    <3>1. p - 1 \in 1 .. L /\ p - 1 < p /\ p - 1 = N /\ N # 0
      BY <1>1, <2>2
    <3>2. w[p - 1] = s[p - 1]
      BY <1>2, <3>1
    <3>3. QED
      BY <1>2, <2>2, <3>1, <3>2
  <2>3. CASE p # L
    <3>1. L \in 1 .. L /\ L > p /\ L # 0 /\ N # 0
      BY <1>1, <2>3
    <3>2. w[L - 1] = s[L] /\ q.fTail[c] = s[L]
      BY <1>2, <3>1 DEF Chain
    <3>3. QED
      BY <1>2, <2>3, <3>1, <3>2
  <2>4. QED
    BY <2>1, <2>2, <2>3
<1>9. \A j \in 1 .. Len(w) : r.fNext[w[j]] = IF j = Len(w) THEN None ELSE w[j + 1]
  <2> SUFFICES ASSUME NEW j \in 1 .. N
               PROVE  r.fNext[w[j]] = IF j = N THEN None ELSE w[j + 1]
    BY <1>2
  <2>1. \A i \in 1 .. L : q.fNext[s[i]] = IF i = L THEN None ELSE s[i + 1]
    BY DEF Chain
  <2>2. j \in Int /\ j <= N /\ j >= 1
    BY <1>1
  <2>3. CASE j = p - 1
    <3>1. j < p /\ p > 1 /\ (j = N <=> p = L)
      BY <1>1, <2>2, <2>3
    <3>2. w[j] = s[p - 1]
      BY <1>2, <2>3, <3>1
    <3>3. CASE p = L
      BY <2>3, <3>1, <3>2, <3>3
    <3>4. CASE p # L
      <4>1. p + 1 \in 1 .. L /\ p + 1 > p /\ (p + 1) - 1 = j + 1
        BY <1>1, <2>3, <3>4
      <4>2. w[j + 1] = s[p + 1]
        BY <1>2, <4>1
      <4>3. QED
        BY <2>3, <3>1, <3>2, <3>4, <4>2
    <3>5. QED
      BY <3>3, <3>4
  <2>4. CASE j < p - 1
    <3>1. j < p /\ j # p /\ j # p - 1 /\ j # N /\ j # L /\ j + 1 < p /\ j + 1 \in 1 .. L
      BY <1>1, <2>2, <2>4
    <3>2. w[j] = s[j] /\ w[j + 1] = s[j + 1] /\ j \in 1 .. L
      BY <1>2, <3>1
    <3>3. r.fNext[s[j]] = s[j + 1]
      BY <2>1, <3>1, <3>2
    <3>4. QED
      BY <3>1, <3>2, <3>3
  <2>5. CASE j >= p
    <3>1. j + 1 # p /\ j + 1 # p - 1 /\ (j + 1 = L <=> j = N)
      BY <1>1, <2>2, <2>5
    <3>2. j + 1 \in 1 .. L /\ w[j] = s[j + 1]
      BY <1>1, <1>2, <2>2, <2>5
    <3>3. r.fNext[s[j + 1]] = IF j + 1 = L THEN None ELSE s[(j + 1) + 1]
      BY <2>1, <3>1, <3>2
    <3>4. CASE j = N
      BY <3>1, <3>2, <3>3, <3>4
    <3>5. CASE j # N
      <4>4. j < N
        BY <1>1, <2>2, <3>5
      <4>5. (j + 1) + 1 <= L /\ (j + 1) + 1 >= 1
        BY <1>1, <2>2, <4>4
      <4>1. (j + 1) + 1 \in 1 .. L /\ (j + 1) + 1 > p /\ ((j + 1) + 1) - 1 = j + 1
        BY <1>1, <2>2, <2>5, <4>5
      <4>2. w[j + 1] = s[(j + 1) + 1]
        BY <1>2, <4>1
      <4>3. QED
        BY <3>1, <3>2, <3>3, <3>5, <4>2
    <3>6. QED
      BY <3>4, <3>5
  <2>6. QED
    BY <1>1, <2>2, <2>3, <2>4, <2>5
<1>10. \A j \in 2 .. Len(w) : r.fPrev[w[j]] = w[j - 1]
  <2> SUFFICES ASSUME NEW j \in 2 .. N
               PROVE  r.fPrev[w[j]] = w[j - 1]
    BY <1>2
  <2>1. \A i \in 2 .. L : q.fPrev[s[i]] = s[i - 1]
    BY DEF Chain
  <2>2. j \in 1 .. N /\ j \in Int /\ j >= 2 /\ j <= N
    BY <1>1
  <2>3. CASE j < p
    <3>1. /\ j \in 1 .. L /\ j \in 2 .. L /\ j # p /\ j # p + 1
          /\ j - 1 \in 1 .. L /\ j - 1 < p
      BY <1>1, <2>2, <2>3
    <3>2. w[j] = s[j] /\ w[j - 1] = s[j - 1]
      BY <1>2, <2>3, <3>1
    <3>3. QED
      BY <2>1, <3>1, <3>2
  <2>4. CASE j = p
    <3>1. /\ p > 1 /\ p < L /\ p + 1 \in 1 .. L /\ p + 1 > p /\ (p + 1) - 1 = j
          /\ p - 1 \in 1 .. L /\ p - 1 < p
      BY <1>1, <2>2, <2>4
    <3>2. w[j] = s[p + 1] /\ w[p - 1] = s[p - 1]
      BY <1>2, <3>1
    <3>3. QED
      BY <2>4, <3>1, <3>2
  <2>5. CASE j > p
    <3>1. /\ j + 1 \in 1 .. L /\ j + 1 \in 2 .. L /\ j + 1 # p /\ j + 1 # p + 1
          /\ j + 1 > p /\ (j + 1) - 1 = j /\ j \in 1 .. L
      BY <1>1, <2>2, <2>5
    <3>2. w[j] = s[j + 1] /\ w[j - 1] = s[j]
      BY <1>2, <2>5, <3>1
    <3>3. q.fPrev[s[j + 1]] = s[(j + 1) - 1]
      BY <2>1, <3>1
    <3>4. r.fPrev[s[j + 1]] = q.fPrev[s[j + 1]]
      BY <3>1
    <3>5. QED
      BY <3>1, <3>2, <3>3, <3>4
  <2>6. QED
    BY <1>1, <2>2, <2>3, <2>4, <2>5
<1>11. QED
  BY <1>2, <1>4, <1>6, <1>7, <1>8, <1>9, <1>10 DEF Chain, w

-----------------------------------------------------------------------------
(* The operations of DoubleQ.                                              *)

\* What Chain says of the ends and of links, where it is needed.
LEMMA ChainFacts ==
  ASSUME NEW q \in QType, NEW c \in Queues, NEW s, Chain(q, c, s)
  PROVE  /\ s \in Seq(Msg) /\ Len(s) \in Nat
         /\ \A i \in 1 .. Len(s) : s[i] \in Msg /\ q.fContainer[s[i]] = c
         /\ q.fHead[c] = None <=> Len(s) = 0
         /\ Len(s) # 0 => /\ 1 \in 1 .. Len(s) /\ Len(s) \in 1 .. Len(s)
                          /\ q.fHead[c] = s[1] /\ q.fTail[c] = s[Len(s)]
                          /\ q.fHead[c] \in Msg /\ q.fTail[c] \in Msg
         /\ \A i, j \in 1 .. Len(s) : s[i] = s[j] => i = j
<1>1. s \in Seq(Msg) /\ Len(s) \in Nat /\ \A i \in 1 .. Len(s) : s[i] \in Msg
  BY DEF Chain
<1>2. \A i \in 1 .. Len(s) : q.fContainer[s[i]] = c
  BY <1>1 DEF Chain, In
<1>3. Len(s) # 0 => 1 \in 1 .. Len(s) /\ Len(s) \in 1 .. Len(s)
  BY <1>1
<1>4. Len(s) # 0 => q.fHead[c] = s[1] /\ q.fTail[c] = s[Len(s)]
  BY DEF Chain
<1>5. q.fHead[c] = None <=> Len(s) = 0
  <2>1. Len(s) = 0 => q.fHead[c] = None
    BY DEF Chain
  <2>2. Len(s) # 0 => q.fHead[c] \in Msg
    BY <1>1, <1>3, <1>4
  <2>3. QED
    BY <2>1, <2>2
<1>6. QED
  BY <1>1, <1>2, <1>3, <1>4, <1>5 DEF Chain, Distinct

\* Add links a message in at the end.
LEMMA AddChain ==
  ASSUME NEW q \in QType, NEW c \in Queues, NEW x \in Msg, q.fContainer[x] = None,
         NEW s, Chain(q, c, s), NEW r, r = Q!Add(q, c, x)
  PROVE  Touches(q, r, c, x, c) /\ Chain(r, c, Ins(s, Len(s) + 1, x))
<1> DEFINE L == Len(s)
           tail == q.fTail[c]
<1>1. /\ q.fHead \in [Queues -> Link] /\ q.fTail \in [Queues -> Link]
      /\ q.fNext \in [Msg -> Link] /\ q.fPrev \in [Msg -> Link]
      /\ q.fContainer \in [Msg -> Queues \cup {None}]
  BY QFields
<1>2. /\ s \in Seq(Msg) /\ L \in Nat
      /\ \A i \in 1 .. L : s[i] \in Msg /\ q.fContainer[s[i]] = c
      /\ q.fHead[c] = None <=> L = 0
      /\ L # 0 => /\ 1 \in 1 .. L /\ L \in 1 .. L
                  /\ q.fHead[c] = s[1] /\ tail = s[L]
                  /\ q.fHead[c] \in Msg /\ tail \in Msg
      /\ \A i, j \in 1 .. L : s[i] = s[j] => i = j
  BY ChainFacts
<1>3. c # None /\ x \in Link
  BY DEF Queues, Link
<1>4. \A i \in 1 .. L : s[i] # x
  BY <1>2, <1>3
<1>5. CASE L = 0
  <2>1. r = [[q EXCEPT !.fNext[x] = None, !.fTail[c] = x, !.fContainer[x] = c]
              EXCEPT !.fHead[c] = x, !.fPrev[x] = None]
    BY <1>2, <1>5 DEF Q!Add
  <2>2. /\ r.fNext = [q.fNext EXCEPT ![x] = None] /\ r.fTail = [q.fTail EXCEPT ![c] = x]
        /\ r.fContainer = [q.fContainer EXCEPT ![x] = c]
        /\ r.fHead = [q.fHead EXCEPT ![c] = x] /\ r.fPrev = [q.fPrev EXCEPT ![x] = None]
    BY <2>1 DEF QType
  <2>3. r \in QType
    <3>1. /\ r.fHead \in [Queues -> Link] /\ r.fTail \in [Queues -> Link]
          /\ r.fNext \in [Msg -> Link] /\ r.fPrev \in [Msg -> Link]
          /\ r.fContainer \in [Msg -> Queues \cup {None}]
      BY <1>1, <1>3, <2>2 DEF Link
    <3>2. QED
      BY <2>1, <3>1 DEF QType
  <2>4. Touches(q, r, c, x, c)
    BY <1>1, <2>2, <2>3 DEF Touches
  <2>5. QED
    <3>1. /\ r.fHead[c] = x /\ r.fTail[c] = x /\ r.fNext[x] = None
      BY <1>1, <2>2
    <3>2. \A i \in 1 .. L : FALSE
      BY <1>2, <1>5
    <3>3. L + 1 \in 1 .. L + 1 /\ L + 1 = 1 /\ ~(L + 1 > 1) /\ ~(L + 1 <= L)
      BY <1>2, <1>5
    <3>4. QED
      BY <2>4, <3>1, <3>2, <3>3, InsertChain
<1>6. CASE L # 0
  <2>1. r = [[q EXCEPT !.fNext[x] = None, !.fTail[c] = x, !.fContainer[x] = c]
              EXCEPT !.fNext[tail] = x, !.fPrev[x] = tail]
    BY <1>2, <1>6 DEF Q!Add
  <2>2. /\ r.fNext = [q.fNext EXCEPT ![x] = None, ![tail] = x]
        /\ r.fTail = [q.fTail EXCEPT ![c] = x]
        /\ r.fContainer = [q.fContainer EXCEPT ![x] = c]
        /\ r.fHead = q.fHead /\ r.fPrev = [q.fPrev EXCEPT ![x] = tail]
    BY <2>1 DEF QType
  <2>3. tail \in Msg /\ tail = s[L] /\ tail # x /\ tail \in Link /\ q.fContainer[tail] = c
    BY <1>2, <1>4, <1>6 DEF Link
  <2>4. r \in QType
    <3>1. /\ r.fHead \in [Queues -> Link] /\ r.fTail \in [Queues -> Link]
          /\ r.fNext \in [Msg -> Link] /\ r.fPrev \in [Msg -> Link]
          /\ r.fContainer \in [Msg -> Queues \cup {None}]
      BY <1>1, <1>3, <2>2, <2>3 DEF Link
    <3>2. QED
      BY <2>1, <3>1 DEF QType
  <2>5. Touches(q, r, c, x, c)
    BY <1>1, <2>2, <2>3, <2>4 DEF Touches
  <2>6. QED
    <3>1. /\ r.fHead[c] = q.fHead[c] /\ r.fTail[c] = x /\ r.fNext[x] = None
          /\ r.fNext[tail] = x /\ r.fPrev[x] = tail
      BY <1>1, <2>2, <2>3
    <3>2. \A i \in 1 .. L : /\ i # L => r.fNext[s[i]] = q.fNext[s[i]]
                            /\ r.fPrev[s[i]] = q.fPrev[s[i]]
      <4>1. \A i \in 1 .. L : i # L => s[i] # tail
        BY <1>2, <1>6, <2>3
      <4>2. QED
        BY <1>1, <1>2, <1>4, <2>2, <4>1
    <3>3. /\ L + 1 \in 1 .. L + 1 /\ L + 1 # 1 /\ ~(L + 1 <= L)
          /\ (L + 1) - 1 = L
      BY <1>2, <1>6
    <3>4. /\ r.fHead[c] = IF L + 1 = 1 THEN x ELSE q.fHead[c]
          /\ r.fTail[c] = IF L + 1 = L + 1 THEN x ELSE q.fTail[c]
          /\ r.fNext[x] = IF L + 1 = L + 1 THEN None ELSE s[L + 1]
          /\ r.fNext[s[(L + 1) - 1]] = x /\ r.fPrev[x] = s[(L + 1) - 1]
      BY <2>3, <3>1, <3>3
    <3>5. \A i \in 1 .. L : /\ i # (L + 1) - 1 => r.fNext[s[i]] = q.fNext[s[i]]
                            /\ i # L + 1 => r.fPrev[s[i]] = q.fPrev[s[i]]
      BY <3>2, <3>3
    <3>6. QED
      BY <2>5, <3>3, <3>4, <3>5, InsertChain
<1>7. QED
  BY <1>5, <1>6

\* AddBefore links a message in before one of the queue.
LEMMA AddBeforeChain ==
  ASSUME NEW q \in QType, NEW c \in Queues, NEW x \in Msg, q.fContainer[x] = None,
         NEW s, Chain(q, c, s), NEW p \in 1 .. Len(s),
         NEW r, r = Q!AddBefore(q, c, s[p], x)
  PROVE  Touches(q, r, c, x, c) /\ Chain(r, c, Ins(s, p, x))
<1> DEFINE L == Len(s)
           before == s[p]
           prev == s[p - 1]
<1>1. /\ q.fHead \in [Queues -> Link] /\ q.fTail \in [Queues -> Link]
      /\ q.fNext \in [Msg -> Link] /\ q.fPrev \in [Msg -> Link]
      /\ q.fContainer \in [Msg -> Queues \cup {None}]
  BY QFields
<1>2. /\ s \in Seq(Msg) /\ L \in Nat
      /\ \A i \in 1 .. L : s[i] \in Msg /\ q.fContainer[s[i]] = c
      /\ q.fHead[c] = None <=> L = 0
      /\ L # 0 => /\ 1 \in 1 .. L /\ L \in 1 .. L
                  /\ q.fHead[c] = s[1] /\ q.fTail[c] = s[L]
                  /\ q.fHead[c] \in Msg /\ q.fTail[c] \in Msg
      /\ \A i, j \in 1 .. L : s[i] = s[j] => i = j
  BY ChainFacts
<1>3. c # None /\ x \in Link
  BY DEF Queues, Link
<1>4. \A i \in 1 .. L : s[i] # x
  BY <1>2, <1>3
<1>5. /\ L # 0 /\ p \in 1 .. L + 1 /\ p # L + 1 /\ p <= L /\ p \in Int /\ before \in Msg
      /\ before # x /\ before # None
  BY <1>2, <1>4
<1>6. CASE p = 1
  <2>1. q.fHead[c] = before /\ q.fHead[c] # None
    BY <1>2, <1>5, <1>6
  <2>2. r = [[q EXCEPT !.fPrev[x] = None, !.fHead[c] = x, !.fContainer[x] = c]
              EXCEPT !.fPrev[before] = x, !.fNext[x] = before]
    BY <2>1 DEF Q!AddBefore, Q!AddToFront
  <2>3. /\ r.fNext = [q.fNext EXCEPT ![x] = before] /\ r.fTail = q.fTail
        /\ r.fContainer = [q.fContainer EXCEPT ![x] = c]
        /\ r.fHead = [q.fHead EXCEPT ![c] = x]
        /\ r.fPrev = [q.fPrev EXCEPT ![x] = None, ![before] = x]
    BY <2>2 DEF QType
  <2>4. r \in QType
    <3>1. /\ r.fHead \in [Queues -> Link] /\ r.fTail \in [Queues -> Link]
          /\ r.fNext \in [Msg -> Link] /\ r.fPrev \in [Msg -> Link]
          /\ r.fContainer \in [Msg -> Queues \cup {None}]
      BY <1>1, <1>3, <1>5, <2>3 DEF Link
    <3>2. QED
      BY <2>2, <3>1 DEF QType
  <2>5. q.fContainer[before] = c
    BY <1>2
  <2>6. Touches(q, r, c, x, c)
    BY <1>1, <1>5, <2>3, <2>4, <2>5 DEF Touches
  <2>7. /\ r.fHead[c] = x /\ r.fTail[c] = q.fTail[c] /\ r.fNext[x] = before
        /\ r.fPrev[before] = x
    BY <1>1, <1>5, <2>3
  <2>8. \A i \in 1 .. L : /\ r.fNext[s[i]] = q.fNext[s[i]]
                          /\ i # p => r.fPrev[s[i]] = q.fPrev[s[i]]
    <3>1. \A i \in 1 .. L : i # p => s[i] # before
      BY <1>2
    <3>2. QED
      BY <1>1, <1>2, <1>4, <2>3, <3>1
  <2>9. ~(p > 1)
    BY <1>6
  <2>10. QED
    BY <1>5, <1>6, <2>6, <2>7, <2>8, <2>9, InsertChain
<1>7. CASE p # 1
  <2>1. 1 \in 1 .. L /\ p - 1 \in 1 .. L /\ p \in 2 .. L /\ p > 1 /\ p - 1 # p
    BY <1>2, <1>5, <1>7
  <2>2. q.fHead[c] # before /\ q.fHead[c] # None
    <3>1. s[1] # s[p]
      BY <1>2, <1>7, <2>1
    <3>2. QED
      BY <1>2, <1>5, <3>1
  <2>3. q.fPrev[before] = prev
    BY <2>1 DEF Chain
  <2>4. prev \in Msg /\ prev # x /\ prev # before /\ q.fContainer[prev] = c /\ q.fContainer[before] = c
    BY <1>2, <1>4, <2>1
  <2>5. r = [q EXCEPT !.fNext[x] = before, !.fPrev[x] = prev,
                      !.fPrev[before] = x, !.fNext[prev] = x,
                      !.fContainer[x] = c]
    BY <2>2, <2>3 DEF Q!AddBefore
  <2>6. /\ r.fNext = [q.fNext EXCEPT ![x] = before, ![prev] = x] /\ r.fTail = q.fTail
        /\ r.fContainer = [q.fContainer EXCEPT ![x] = c] /\ r.fHead = q.fHead
        /\ r.fPrev = [q.fPrev EXCEPT ![x] = prev, ![before] = x]
    BY <2>5 DEF QType
  <2>7. r \in QType
    <3>1. /\ r.fHead \in [Queues -> Link] /\ r.fTail \in [Queues -> Link]
          /\ r.fNext \in [Msg -> Link] /\ r.fPrev \in [Msg -> Link]
          /\ r.fContainer \in [Msg -> Queues \cup {None}]
      BY <1>1, <1>3, <1>5, <2>4, <2>6 DEF Link
    <3>2. QED
      BY <2>5, <3>1 DEF QType
  <2>8. Touches(q, r, c, x, c)
    BY <1>1, <2>4, <2>6, <2>7 DEF Touches
  <2>9. /\ r.fHead[c] = q.fHead[c] /\ r.fTail[c] = q.fTail[c] /\ r.fNext[x] = before
        /\ r.fNext[prev] = x /\ r.fPrev[x] = prev /\ r.fPrev[before] = x
    BY <1>1, <1>5, <2>4, <2>6
  <2>10. \A i \in 1 .. L : /\ i # p - 1 => r.fNext[s[i]] = q.fNext[s[i]]
                           /\ i # p => r.fPrev[s[i]] = q.fPrev[s[i]]
    <3>1. \A i \in 1 .. L : i # p => s[i] # before
      BY <1>2
    <3>2. \A i \in 1 .. L : i # p - 1 => s[i] # prev
      BY <1>2, <2>1
    <3>3. QED
      BY <1>1, <1>2, <1>4, <2>6, <3>1, <3>2
  <2>11. QED
    BY <1>5, <1>7, <2>8, <2>9, <2>10, InsertChain
<1>8. QED
  BY <1>6, <1>7

\* Remove takes the head.
LEMMA RemoveChain ==
  ASSUME NEW q \in QType, NEW c \in Queues, NEW s, Chain(q, c, s), Len(s) # 0,
         NEW r, r = Q!Remove(q, c)
  PROVE  Touches(q, r, c, s[1], None) /\ Chain(r, c, Del(s, 1))
<1> DEFINE L == Len(s)
           x == s[1]
           next == s[2]
<1>1. /\ q.fHead \in [Queues -> Link] /\ q.fTail \in [Queues -> Link]
      /\ q.fNext \in [Msg -> Link] /\ q.fPrev \in [Msg -> Link]
      /\ q.fContainer \in [Msg -> Queues \cup {None}]
  BY QFields
<1>2. /\ s \in Seq(Msg) /\ L \in Nat
      /\ \A i \in 1 .. L : s[i] \in Msg /\ q.fContainer[s[i]] = c
      /\ q.fHead[c] = None <=> L = 0
      /\ L # 0 => /\ 1 \in 1 .. L /\ L \in 1 .. L
                  /\ q.fHead[c] = s[1] /\ q.fTail[c] = s[L]
                  /\ q.fHead[c] \in Msg /\ q.fTail[c] \in Msg
      /\ \A i, j \in 1 .. L : s[i] = s[j] => i = j
  BY ChainFacts
<1>3. x \in Msg /\ x # None /\ q.fHead[c] = x /\ q.fContainer[x] = c /\ None \in Link
  BY <1>2 DEF Link
<1>4. q.fNext[x] = IF 1 = L THEN None ELSE next
  <2>1. 1 \in 1 .. L /\ 1 + 1 = 2
    BY <1>2
  <2>2. q.fNext[s[1]] = IF 1 = L THEN None ELSE s[1 + 1]
    BY <2>1 DEF Chain
  <2>3. QED
    BY <2>1, <2>2
<1>5. CASE L = 1
  <2>1. r = [[[q EXCEPT !.fHead[c] = q.fNext[x]] EXCEPT !.fTail[c] = None]
              EXCEPT !.fNext[x] = None, !.fPrev[x] = None, !.fContainer[x] = None]
    BY <1>3, <1>4, <1>5 DEF Q!Remove, Q!Unlinked
  <2>2. /\ r.fNext = [q.fNext EXCEPT ![x] = None] /\ r.fPrev = [q.fPrev EXCEPT ![x] = None]
        /\ r.fContainer = [q.fContainer EXCEPT ![x] = None]
        /\ r.fHead = [q.fHead EXCEPT ![c] = None] /\ r.fTail = [q.fTail EXCEPT ![c] = None]
    BY <1>4, <1>5, <2>1 DEF QType
  <2>3. r \in QType
    <3>1. /\ r.fHead \in [Queues -> Link] /\ r.fTail \in [Queues -> Link]
          /\ r.fNext \in [Msg -> Link] /\ r.fPrev \in [Msg -> Link]
          /\ r.fContainer \in [Msg -> Queues \cup {None}]
      BY <1>1, <1>3, <2>2 DEF Link
    <3>2. QED
      BY <2>1, <3>1 DEF QType
  <2>4. Touches(q, r, c, x, None)
    BY <1>1, <2>2, <2>3 DEF Touches
  <2>5. /\ 1 \in 1 .. L /\ r.fHead[c] = None /\ r.fTail[c] = None
        /\ \A i \in 1 .. L : i = 1
    BY <1>1, <1>2, <1>5, <2>2
  <2>6. ~(1 > 1) /\ ~(1 > 1 /\ 1 < L)
    OBVIOUS
  <2>7. \A i \in 1 .. L : /\ i # 1 /\ i # 1 - 1 => r.fNext[s[i]] = q.fNext[s[i]]
                          /\ i # 1 /\ i # 1 + 1 => r.fPrev[s[i]] = q.fPrev[s[i]]
    BY <2>5
  <2>8. /\ r.fHead[c] = IF 1 = 1 THEN IF L = 1 THEN None ELSE s[2] ELSE q.fHead[c]
        /\ r.fTail[c] = IF 1 = L THEN IF 1 = 1 THEN None ELSE s[1 - 1] ELSE q.fTail[c]
    BY <1>5, <2>5
  <2>9. QED
    BY <2>4, <2>5, <2>6, <2>7, <2>8, DeleteChain
<1>6. CASE L # 1
  <2>1. 1 \in 1 .. L /\ 2 \in 1 .. L /\ ~(1 > 1) /\ 1 + 1 = 2
    <3>1. L \in Nat /\ L # 0
      BY <1>2
    <3>2. 1 \in 1 .. L /\ 2 \in 1 .. L
      BY <1>6, <3>1, TwoPlaces
    <3>3. ~(1 > 1) /\ 1 + 1 = 2
      OBVIOUS
    <3>4. QED
      BY <3>2, <3>3
  <2>2. next \in Msg /\ next # None /\ next # x /\ q.fContainer[next] = c
    BY <1>2, <2>1
  <2>3. r = [[[q EXCEPT !.fHead[c] = next] EXCEPT !.fPrev[next] = None]
              EXCEPT !.fNext[x] = None, !.fPrev[x] = None, !.fContainer[x] = None]
    BY <1>3, <1>4, <1>6, <2>2 DEF Q!Remove, Q!Unlinked
  <2>4. /\ r.fNext = [q.fNext EXCEPT ![x] = None]
        /\ r.fPrev = [q.fPrev EXCEPT ![next] = None, ![x] = None]
        /\ r.fContainer = [q.fContainer EXCEPT ![x] = None]
        /\ r.fHead = [q.fHead EXCEPT ![c] = next] /\ r.fTail = q.fTail
    BY <2>3 DEF QType
  <2>5. r \in QType
    <3>1. /\ r.fHead \in [Queues -> Link] /\ r.fTail \in [Queues -> Link]
          /\ r.fNext \in [Msg -> Link] /\ r.fPrev \in [Msg -> Link]
          /\ r.fContainer \in [Msg -> Queues \cup {None}]
      BY <1>1, <1>3, <2>2, <2>4 DEF Link
    <3>2. QED
      BY <2>3, <3>1 DEF QType
  <2>6. Touches(q, r, c, x, None)
    BY <1>1, <2>2, <2>4, <2>5 DEF Touches
  <2>7. r.fHead[c] = next /\ r.fTail[c] = q.fTail[c]
    BY <1>1, <2>4
  <2>8. \A i \in 1 .. L : /\ i # 1 => r.fNext[s[i]] = q.fNext[s[i]]
                          /\ i # 1 /\ i # 2 => r.fPrev[s[i]] = q.fPrev[s[i]]
    <3>1. \A i \in 1 .. L : /\ i # 1 => s[i] # x
                            /\ i # 2 => s[i] # next
      BY <1>2, <2>1
    <3>2. QED
      BY <1>1, <1>2, <2>4, <3>1
  <2>9. QED
    BY <1>6, <2>1, <2>6, <2>7, <2>8, DeleteChain
<1>7. QED
  BY <1>5, <1>6

\* RemoveFromQueue takes a message out wherever it is.
LEMMA RemoveFromQueueChain ==
  ASSUME NEW q \in QType, NEW c \in Queues, NEW s, Chain(q, c, s), NEW p \in 1 .. Len(s),
         NEW r, r = Q!RemoveFromQueue(q, c, s[p])
  PROVE  Touches(q, r, c, s[p], None) /\ Chain(r, c, Del(s, p))
<1> DEFINE L == Len(s)
           x == s[p]
           next == q.fNext[x]
           prev == q.fPrev[x]
<1>1. /\ q.fHead \in [Queues -> Link] /\ q.fTail \in [Queues -> Link]
      /\ q.fNext \in [Msg -> Link] /\ q.fPrev \in [Msg -> Link]
      /\ q.fContainer \in [Msg -> Queues \cup {None}]
  BY QFields
<1>2. /\ s \in Seq(Msg) /\ L \in Nat
      /\ \A i \in 1 .. L : s[i] \in Msg /\ q.fContainer[s[i]] = c
      /\ q.fHead[c] = None <=> L = 0
      /\ L # 0 => /\ 1 \in 1 .. L /\ L \in 1 .. L
                  /\ q.fHead[c] = s[1] /\ q.fTail[c] = s[L]
                  /\ q.fHead[c] \in Msg /\ q.fTail[c] \in Msg
      /\ \A i, j \in 1 .. L : s[i] = s[j] => i = j
  BY ChainFacts
<1>3. L # 0 /\ p \in Int /\ p >= 1 /\ p <= L
  BY <1>2
<1>4. x \in Msg /\ q.fContainer[x] = c /\ None \in Link
  BY <1>2 DEF Link
<1>5. q.fHead[c] = s[1] /\ q.fTail[c] = s[L] /\ 1 \in 1 .. L /\ L \in 1 .. L
  BY <1>2, <1>3
<1>6. (x = q.fHead[c] <=> p = 1) /\ (x = q.fTail[c] <=> p = L)
  BY <1>2, <1>5
<1>7. next = IF p = L THEN None ELSE s[p + 1]
  BY DEF Chain
<1>8. p # 1 => prev = s[p - 1] /\ p - 1 \in 1 .. L /\ p - 1 # p
  <2>1. p # 1 => p \in 2 .. L /\ p - 1 \in 1 .. L /\ p - 1 # p
    BY <1>2, <1>3
  <2>2. QED
    BY <2>1 DEF Chain
<1>9. p # L => p + 1 \in 1 .. L /\ p + 1 # p
  BY <1>2, <1>3
<1>10. /\ p # 1 => prev \in Msg /\ prev \in Link /\ q.fContainer[prev] = c /\ prev # x
       /\ p # L => next \in Msg /\ next \in Link /\ q.fContainer[next] = c /\ next # x
  BY <1>2, <1>7, <1>8, <1>9 DEF Link
<1>11. \A i \in 1 .. L : /\ i # p => s[i] # x
                         /\ p # 1 /\ i # p - 1 => s[i] # prev
                         /\ p # L /\ i # p + 1 => s[i] # next
  BY <1>2, <1>7, <1>8, <1>9
<1>12. p > 1 <=> p # 1
  BY <1>3
<1>13. p < L <=> p # L
  BY <1>2, <1>3
<1>14. CASE p = 1 /\ p = L
  <2>1. r = [[q EXCEPT !.fHead[c] = None, !.fTail[c] = None]
              EXCEPT !.fNext[x] = None, !.fPrev[x] = None, !.fContainer[x] = None]
    BY <1>4, <1>6, <1>14 DEF Q!RemoveFromQueue, Q!Unlinked
  <2>2. /\ r.fNext = [q.fNext EXCEPT ![x] = None] /\ r.fPrev = [q.fPrev EXCEPT ![x] = None]
        /\ r.fContainer = [q.fContainer EXCEPT ![x] = None]
        /\ r.fHead = [q.fHead EXCEPT ![c] = None] /\ r.fTail = [q.fTail EXCEPT ![c] = None]
    BY <2>1 DEF QType
  <2>3. next \in Link
    BY <1>7, <1>10 DEF Link
  <2>4. r \in QType
    <3>1. /\ r.fHead \in [Queues -> Link] /\ r.fTail \in [Queues -> Link]
          /\ r.fNext \in [Msg -> Link] /\ r.fPrev \in [Msg -> Link]
          /\ r.fContainer \in [Msg -> Queues \cup {None}]
      BY <1>1, <1>4, <1>10, <1>14, <2>2, <2>3
    <3>2. QED
      BY <2>1, <3>1 DEF QType
  <2>5. Touches(q, r, c, x, None)
    BY <1>1, <1>10, <1>14, <2>2, <2>4 DEF Touches
  <2>6. \A i \in 1 .. L : /\ i # p /\ i # p - 1 => r.fNext[s[i]] = q.fNext[s[i]]
                          /\ i # p /\ i # p + 1 => r.fPrev[s[i]] = q.fPrev[s[i]]
    BY <1>1, <1>2, <1>11, <1>14, <2>2
  <2>7. r.fHead[c] = None /\ r.fTail[c] = None /\ L = 1
    BY <1>1, <1>14, <2>2
  <2>8. r.fHead[c] = IF p = 1 THEN IF L = 1 THEN None ELSE s[2] ELSE q.fHead[c]
    BY <1>14, <2>7
  <2>9. r.fTail[c] = IF p = L THEN IF p = 1 THEN None ELSE s[p - 1] ELSE q.fTail[c]
    BY <1>14, <2>7
  <2>10. p > 1 => r.fNext[s[p - 1]] = IF p = L THEN None ELSE s[p + 1]
    BY <1>12, <1>14, <2>7
  <2>11. p > 1 /\ p < L => r.fPrev[s[p + 1]] = s[p - 1]
    BY <1>12, <1>13, <1>14, <2>7
  <2>12. QED
    BY <2>5, <2>6, <2>8, <2>9, <2>10, <2>11, DeleteChain
<1>15. CASE p = 1 /\ p # L
  <2>1. r = [[q EXCEPT !.fHead[c] = next]
              EXCEPT !.fNext[x] = None, !.fPrev[x] = None, !.fContainer[x] = None]
    BY <1>4, <1>6, <1>15 DEF Q!RemoveFromQueue, Q!Unlinked
  <2>2. /\ r.fNext = [q.fNext EXCEPT ![x] = None] /\ r.fPrev = [q.fPrev EXCEPT ![x] = None]
        /\ r.fContainer = [q.fContainer EXCEPT ![x] = None]
        /\ r.fHead = [q.fHead EXCEPT ![c] = next] /\ r.fTail = q.fTail
    BY <2>1 DEF QType
  <2>3. next \in Link
    BY <1>7, <1>10 DEF Link
  <2>4. r \in QType
    <3>1. /\ r.fHead \in [Queues -> Link] /\ r.fTail \in [Queues -> Link]
          /\ r.fNext \in [Msg -> Link] /\ r.fPrev \in [Msg -> Link]
          /\ r.fContainer \in [Msg -> Queues \cup {None}]
      BY <1>1, <1>4, <1>10, <1>15, <2>2, <2>3
    <3>2. QED
      BY <2>1, <3>1 DEF QType
  <2>5. Touches(q, r, c, x, None)
    BY <1>1, <1>10, <1>15, <2>2, <2>4 DEF Touches
  <2>6. \A i \in 1 .. L : /\ i # p /\ i # p - 1 => r.fNext[s[i]] = q.fNext[s[i]]
                          /\ i # p /\ i # p + 1 => r.fPrev[s[i]] = q.fPrev[s[i]]
    BY <1>1, <1>2, <1>11, <1>15, <2>2
  <2>7. r.fHead[c] = s[2] /\ r.fTail[c] = q.fTail[c] /\ L # 1
    <3>1. p + 1 = 2
      BY <1>15
    <3>2. QED
      BY <1>1, <1>7, <1>15, <2>2, <3>1
  <2>8. r.fHead[c] = IF p = 1 THEN IF L = 1 THEN None ELSE s[2] ELSE q.fHead[c]
    BY <1>15, <2>7
  <2>9. r.fTail[c] = IF p = L THEN IF p = 1 THEN None ELSE s[p - 1] ELSE q.fTail[c]
    BY <1>15, <2>7
  <2>10. p > 1 => r.fNext[s[p - 1]] = IF p = L THEN None ELSE s[p + 1]
    BY <1>12, <1>15, <2>7
  <2>11. p > 1 /\ p < L => r.fPrev[s[p + 1]] = s[p - 1]
    BY <1>12, <1>13, <1>15, <2>7
  <2>12. QED
    BY <2>5, <2>6, <2>8, <2>9, <2>10, <2>11, DeleteChain
<1>16. CASE p # 1 /\ p = L
  <2>1. r = [[q EXCEPT !.fNext[prev] = next, !.fTail[c] = prev]
              EXCEPT !.fNext[x] = None, !.fPrev[x] = None, !.fContainer[x] = None]
    BY <1>4, <1>6, <1>16 DEF Q!RemoveFromQueue, Q!Unlinked
  <2>2. /\ r.fNext = [q.fNext EXCEPT ![prev] = next, ![x] = None] /\ r.fPrev = [q.fPrev EXCEPT ![x] = None]
        /\ r.fContainer = [q.fContainer EXCEPT ![x] = None]
        /\ r.fHead = q.fHead /\ r.fTail = [q.fTail EXCEPT ![c] = prev]
    BY <2>1 DEF QType
  <2>3. next \in Link
    BY <1>7, <1>10 DEF Link
  <2>4. r \in QType
    <3>1. /\ r.fHead \in [Queues -> Link] /\ r.fTail \in [Queues -> Link]
          /\ r.fNext \in [Msg -> Link] /\ r.fPrev \in [Msg -> Link]
          /\ r.fContainer \in [Msg -> Queues \cup {None}]
      BY <1>1, <1>4, <1>10, <1>16, <2>2, <2>3
    <3>2. QED
      BY <2>1, <3>1 DEF QType
  <2>5. Touches(q, r, c, x, None)
    BY <1>1, <1>10, <1>16, <2>2, <2>4 DEF Touches
  <2>6. \A i \in 1 .. L : /\ i # p /\ i # p - 1 => r.fNext[s[i]] = q.fNext[s[i]]
                          /\ i # p /\ i # p + 1 => r.fPrev[s[i]] = q.fPrev[s[i]]
    BY <1>1, <1>2, <1>11, <1>16, <2>2
  <2>7. /\ r.fHead[c] = q.fHead[c] /\ r.fTail[c] = s[p - 1]
        /\ r.fNext[s[p - 1]] = None
    BY <1>1, <1>7, <1>8, <1>10, <1>16, <2>2
  <2>8. r.fHead[c] = IF p = 1 THEN IF L = 1 THEN None ELSE s[2] ELSE q.fHead[c]
    BY <1>16, <2>7
  <2>9. r.fTail[c] = IF p = L THEN IF p = 1 THEN None ELSE s[p - 1] ELSE q.fTail[c]
    BY <1>16, <2>7
  <2>10. p > 1 => r.fNext[s[p - 1]] = IF p = L THEN None ELSE s[p + 1]
    BY <1>12, <1>16, <2>7
  <2>11. p > 1 /\ p < L => r.fPrev[s[p + 1]] = s[p - 1]
    BY <1>12, <1>13, <1>16, <2>7
  <2>12. QED
    BY <2>5, <2>6, <2>8, <2>9, <2>10, <2>11, DeleteChain
<1>17. CASE p # 1 /\ p # L
  <2>1. r = [[q EXCEPT !.fNext[prev] = next, !.fPrev[next] = prev]
              EXCEPT !.fNext[x] = None, !.fPrev[x] = None, !.fContainer[x] = None]
    BY <1>4, <1>6, <1>17 DEF Q!RemoveFromQueue, Q!Unlinked
  <2>2. /\ r.fNext = [q.fNext EXCEPT ![prev] = next, ![x] = None] /\ r.fPrev = [q.fPrev EXCEPT ![next] = prev, ![x] = None]
        /\ r.fContainer = [q.fContainer EXCEPT ![x] = None]
        /\ r.fHead = q.fHead /\ r.fTail = q.fTail
    BY <2>1 DEF QType
  <2>3. next \in Link
    BY <1>7, <1>10 DEF Link
  <2>4. r \in QType
    <3>1. /\ r.fHead \in [Queues -> Link] /\ r.fTail \in [Queues -> Link]
          /\ r.fNext \in [Msg -> Link] /\ r.fPrev \in [Msg -> Link]
          /\ r.fContainer \in [Msg -> Queues \cup {None}]
      BY <1>1, <1>4, <1>10, <1>17, <2>2, <2>3
    <3>2. QED
      BY <2>1, <3>1 DEF QType
  <2>5. Touches(q, r, c, x, None)
    BY <1>1, <1>10, <1>17, <2>2, <2>4 DEF Touches
  <2>6. \A i \in 1 .. L : /\ i # p /\ i # p - 1 => r.fNext[s[i]] = q.fNext[s[i]]
                          /\ i # p /\ i # p + 1 => r.fPrev[s[i]] = q.fPrev[s[i]]
    BY <1>1, <1>2, <1>11, <1>17, <2>2
  <2>7. /\ r.fHead[c] = q.fHead[c] /\ r.fTail[c] = q.fTail[c]
        /\ r.fNext[s[p - 1]] = s[p + 1] /\ r.fPrev[s[p + 1]] = s[p - 1]
    BY <1>1, <1>7, <1>8, <1>10, <1>17, <2>2
  <2>8. r.fHead[c] = IF p = 1 THEN IF L = 1 THEN None ELSE s[2] ELSE q.fHead[c]
    BY <1>17, <2>7
  <2>9. r.fTail[c] = IF p = L THEN IF p = 1 THEN None ELSE s[p - 1] ELSE q.fTail[c]
    BY <1>17, <2>7
  <2>10. p > 1 => r.fNext[s[p - 1]] = IF p = L THEN None ELSE s[p + 1]
    BY <1>12, <1>17, <2>7
  <2>11. p > 1 /\ p < L => r.fPrev[s[p + 1]] = s[p - 1]
    BY <1>12, <1>13, <1>17, <2>7
  <2>12. QED
    BY <2>5, <2>6, <2>8, <2>9, <2>10, <2>11, DeleteChain
<1>18. QED
  BY <1>14, <1>15, <1>16, <1>17

-----------------------------------------------------------------------------
(* The walk from head to tail.                                             *)

\* A set of numbers that is not empty has a least one.
LEMMA LeastNumber ==
  ASSUME NEW T \in SUBSET Nat, T # {}
  PROVE  \E n \in T : \A m \in T : n <= m
<1>1. IsWellFoundedOn(OpToRel(<, Nat), Nat)
  BY NatLessThanWellFounded
<1>2. PICK n \in T : \A m \in T : ~(<<m, n>> \in OpToRel(<, Nat))
  BY <1>1, WFMin
<1>3. \A m \in T : ~(m < n)
  BY <1>2 DEF OpToRel
<1>4. QED
  BY <1>3

\* A queue has as many places as messages, and no more than there are.
LEMMA ChainLength ==
  ASSUME NEW q \in QType, NEW c \in Queues, NEW s, Chain(q, c, s)
  PROVE  /\ Cardinality({x \in Msg : q.fContainer[x] = c}) = Len(s)
         /\ Cardinality(Msg) \in Nat /\ Len(s) <= Cardinality(Msg)
<1> DEFINE S == {x \in Msg : q.fContainer[x] = c}
<1>1. /\ s \in Seq(Msg) /\ Len(s) \in Nat
      /\ \A i \in 1 .. Len(s) : s[i] \in Msg /\ q.fContainer[s[i]] = c
      /\ \A i, j \in 1 .. Len(s) : s[i] = s[j] => i = j
  BY ChainFacts
<1>2. \A x \in S : \E i \in 1 .. Len(s) : s[i] = x
  BY DEF Chain, In
<1>3. s \in [1 .. Len(s) -> S]
  BY <1>1
<1>4. s \in Bijection(1 .. Len(s), S)
  BY <1>1, <1>2, <1>3 DEF Bijection, Injection, Surjection, IsInjective
<1>5. Cardinality(S) = Len(s)
  BY <1>1, <1>4, FS_CountingElements DEF ExistsBijection
<1>6. Cardinality(S) <= Cardinality(Msg) /\ Cardinality(Msg) \in Nat
  BY FS_Subset, FS_CardinalityType
<1>7. QED
  BY <1>5, <1>6

\* The walk finds the messages of a queue in their order, and then nothing.
LEMMA WalkIs ==
  ASSUME NEW q \in QType, NEW c \in Queues, NEW s, Chain(q, c, s),
         NEW n \in Nat, NEW next, NEW at,
         \A x \in Msg \cup {None} : next[x] = Q!getNext(q, c, x),
         \A i \in 1 .. n + 1 : at[i] = IF i = 1 THEN Q!peek(q, c) ELSE next[at[i - 1]]
  PROVE  \A i \in 1 .. n + 1 : at[i] = IF i <= Len(s) THEN s[i] ELSE None
<1> DEFINE P == 1 .. n + 1
           L == Len(s)
           f == [i \in P |-> IF i <= L THEN s[i] ELSE None]
           T == {i \in P : at[i] # f[i]}
<1>1. /\ s \in Seq(Msg) /\ L \in Nat
      /\ \A i \in 1 .. L : s[i] \in Msg /\ q.fContainer[s[i]] = c
      /\ q.fHead[c] = None <=> L = 0
      /\ L # 0 => q.fHead[c] = s[1]
  BY ChainFacts
<1>2. next[None] = None
  BY DEF Q!getNext
<1>3. \A i \in 1 .. L : next[s[i]] = IF i = L THEN None ELSE s[i + 1]
  <2>1. \A i \in 1 .. L : next[s[i]] = q.fNext[s[i]]
    BY <1>1 DEF Q!getNext
  <2>2. QED
    BY <2>1 DEF Chain
<1>4. T = {}
  <2> SUFFICES ASSUME T # {} PROVE FALSE
    OBVIOUS
  <2>1. PICK i \in T : \A j \in T : i <= j
    <3>1. T \in SUBSET Nat
      OBVIOUS
    <3>2. QED
      BY <3>1, LeastNumber
  <2>2. i \in P /\ i \in Nat /\ i >= 1 /\ i <= n + 1
    OBVIOUS
  <2>3. at[i] # f[i]
    OBVIOUS
  <2>4. CASE i = 1
    <3>1. at[1] = q.fHead[c]
      BY <2>2, <2>4 DEF Q!peek
    <3>2. f[1] = IF 1 <= L THEN s[1] ELSE None
      BY <2>2, <2>4
    <3>3. 1 <= L <=> L # 0
      BY <1>1
    <3>4. QED
      BY <1>1, <2>3, <2>4, <3>1, <3>2, <3>3
  <2>5. CASE i # 1
    <3>1. i - 1 \in P /\ ~(i <= i - 1) /\ (i - 1) + 1 = i
      BY <2>2, <2>5
    <3>2. at[i - 1] = f[i - 1]
      BY <2>1, <3>1
    <3>3. at[i] = next[f[i - 1]]
      BY <2>2, <2>5, <3>2
    <3>4. f[i - 1] = (IF i - 1 <= L THEN s[i - 1] ELSE None) /\ f[i] = IF i <= L THEN s[i] ELSE None
      BY <2>2, <3>1
    <3>5. CASE i - 1 <= L
      <4>1. i - 1 \in 1 .. L /\ (i - 1 = L <=> ~(i <= L))
        BY <1>1, <2>2, <3>1, <3>5
      <4>2. next[s[i - 1]] = IF i - 1 = L THEN None ELSE s[(i - 1) + 1]
        BY <1>3, <4>1
      <4>3. QED
        BY <2>3, <3>1, <3>3, <3>4, <3>5, <4>1, <4>2
    <3>6. CASE ~(i - 1 <= L)
      <4>1. ~(i <= L)
        BY <1>1, <2>2, <3>6
      <4>2. QED
        BY <1>2, <2>3, <3>3, <3>4, <3>6, <4>1
    <3>7. QED
      BY <3>5, <3>6
  <2>6. QED
    BY <2>4, <2>5
<1>5. QED
  BY <1>4

\* The two modules count alike.
LEMMA SameCardinality == \A S : Q!Cardinality(S) = Cardinality(S)
BY DEF Q!Cardinality, Cardinality

(* Items, for a walk of n steps at most. *)
Walk(q, c, n) ==
  LET next == [x \in Msg \cup {None} |-> Q!getNext(q, c, x)]
      places == 1 .. n + 1
      at[i \in places] == IF i = 1 THEN Q!peek(q, c) ELSE next[at[i - 1]]
      met == {i \in places : at[i] # None}
  IN  [i \in met |-> at[i]]

\* Items is the sequence that Chain describes, and the queue threads it.
LEMMA ItemsAre ==
  ASSUME NEW q \in QType, NEW c \in Queues, NEW s, Chain(q, c, s)
  PROVE  Q!Items(q, c) = s /\ Q!Threads(q, c)
<1> DEFINE n == Cardinality(Msg)
           P == 1 .. n + 1
           L == Len(s)
           next == [x \in Msg \cup {None} |-> Q!getNext(q, c, x)]
           F(g) == [i \in P |-> IF i = 1 THEN Q!peek(q, c) ELSE next[g[i - 1]]]
           at == CHOOSE g : g = F(g)
           f == [i \in P |-> IF i <= L THEN s[i] ELSE None]
<1>1. /\ s \in Seq(Msg) /\ L \in Nat
      /\ \A i \in 1 .. L : s[i] \in Msg /\ q.fContainer[s[i]] = c
      /\ q.fHead[c] = None <=> L = 0
      /\ L # 0 => q.fHead[c] = s[1]
  BY ChainFacts
<1>2. Cardinality({x \in Msg : q.fContainer[x] = c}) = L /\ n \in Nat /\ L <= n
  BY ChainLength
<1>3. next[None] = None
  BY DEF Q!getNext
<1>4. \A i \in 1 .. L : next[s[i]] = IF i = L THEN None ELSE s[i + 1]
  <2>1. \A i \in 1 .. L : next[s[i]] = q.fNext[s[i]]
    BY <1>1 DEF Q!getNext
  <2>2. QED
    BY <2>1 DEF Chain
<1> HIDE DEF next
<1>5. f = F(f)
  <2> SUFFICES ASSUME NEW i \in P
               PROVE  f[i] = IF i = 1 THEN Q!peek(q, c) ELSE next[f[i - 1]]
    OBVIOUS
  <2>1. i \in Nat /\ i >= 1 /\ f[i] = IF i <= L THEN s[i] ELSE None
    BY <1>2
  <2>2. CASE i = 1
    <3>1. 1 <= L <=> L # 0
      BY <1>1
    <3>2. QED
      BY <1>1, <2>1, <2>2, <3>1 DEF Q!peek
  <2>3. CASE i # 1
    <3>1. i - 1 \in P /\ (i - 1) + 1 = i
      BY <1>2, <2>1, <2>3
    <3>2. f[i - 1] = IF i - 1 <= L THEN s[i - 1] ELSE None
      BY <3>1
    <3>3. CASE i - 1 <= L
      <4>1. i - 1 \in 1 .. L /\ (i - 1 = L <=> ~(i <= L))
        BY <1>1, <2>1, <2>3, <3>3
      <4>2. next[s[i - 1]] = IF i - 1 = L THEN None ELSE s[(i - 1) + 1]
        BY <1>4, <4>1
      <4>3. QED
        BY <2>1, <2>3, <3>1, <3>2, <3>3, <4>1, <4>2
    <3>4. CASE ~(i - 1 <= L)
      <4>1. ~(i <= L)
        BY <1>1, <2>1, <3>4
      <4>2. QED
        BY <1>3, <2>1, <2>3, <3>2, <3>4, <4>1
    <3>5. QED
      BY <3>3, <3>4
  <2>4. QED
    BY <2>2, <2>3
<1>6. at = F(at)
  <2> HIDE DEF F, f
  <2>1. QED
    BY <1>5
<1>7. at = f
  <2>1. \A x \in Msg \cup {None} : next[x] = Q!getNext(q, c, x)
    BY DEF next
  <2>2. n \in Nat
    BY <1>2
  <2> HIDE DEF at, n
  <2>3. at = [i \in P |-> IF i = 1 THEN Q!peek(q, c) ELSE next[at[i - 1]]]
    BY <1>6
  <2>4. \A i \in 1 .. n + 1 : at[i] = IF i = 1 THEN Q!peek(q, c) ELSE next[at[i - 1]]
    BY <2>3
  <2>5. \A i \in 1 .. n + 1 : at[i] = IF i <= Len(s) THEN s[i] ELSE None
    BY <2>1, <2>2, <2>4, WalkIs
  <2>6. at = [i \in P |-> at[i]]
    BY <2>3
  <2>7. QED
    BY <2>5, <2>6
<1>8. Walk(q, c, n) = [i \in {i \in P : at[i] # None} |-> at[i]]
  BY DEF Walk, next
<1>9. {i \in P : f[i] # None} = 1 .. L
  BY <1>1, <1>2
<1>10. Walk(q, c, n) = s
  <2> HIDE DEF at
  <2>1. Walk(q, c, n) = [i \in 1 .. L |-> f[i]]
    BY <1>7, <1>8, <1>9
  <2>2. \A i \in 1 .. L : f[i] = s[i]
    BY <1>1, <1>2
  <2>3. s = [i \in 1 .. L |-> s[i]]
    BY <1>1
  <2> HIDE DEF f
  <2>4. QED
    BY <2>1, <2>2, <2>3
<1>11. Q!Items(q, c) = s
  <2>1. Q!Items(q, c) = Walk(q, c, Q!Cardinality(Msg))
    BY DEF Q!Items, Walk
  <2>2. Q!Cardinality(Msg) = n
    BY SameCardinality
  <2>3. QED
    BY <1>10, <2>1, <2>2
<1>12. Q!Threads(q, c)
  <2>1. {s[i] : i \in DOMAIN s} = {x \in Msg : q.fContainer[x] = c}
    BY <1>1 DEF Chain, In
  <2>2. Len(s) = Q!Cardinality({x \in Msg : q.fContainer[x] = c})
    BY <1>2, SameCardinality
  <2>3. s = <<>> <=> L = 0
    BY <1>1
  <2>4. /\ q.fTail[c] = IF s = <<>> THEN None ELSE s[Len(s)]
        /\ \A i \in 2 .. Len(s) : q.fPrev[s[i]] = s[i - 1]
    BY <2>3 DEF Chain
  <2>5. QED
    BY <1>11, <2>1, <2>2, <2>4 DEF Q!Threads
<1>13. QED
  BY <1>11, <1>12

-----------------------------------------------------------------------------
(* Both queues.                                                            *)

(* h[c] is what queue c of q holds, from head to tail. *)
Holds(q, h) ==
  /\ q \in QType /\ h \in [Queues -> Seq(Msg)]
  /\ \A c \in Queues : Chain(q, c, h[c])

\* An operation on one queue leaves the other as it was.
LEMMA HoldsChange ==
  ASSUME NEW q, NEW h, Holds(q, h), NEW c \in Queues, NEW x \in Msg, NEW k \in {c, None},
         q.fContainer[x] \in {c, None}, NEW r, Touches(q, r, c, x, k), NEW w, Chain(r, c, w)
  PROVE  Holds(r, [h EXCEPT ![c] = w])
<1>1. q \in QType /\ r \in QType /\ h \in [Queues -> Seq(Msg)] /\ w \in Seq(Msg)
  BY DEF Holds, Touches, Chain
<1>2. ASSUME NEW e \in Queues \ {c} PROVE Chain(r, e, h[e])
  <2>1. Chain(q, e, h[e])
    BY DEF Holds
  <2> DEFINE s == h[e]
  <2>2. Chain(q, e, s) /\ q \in QType
    BY <1>1, <2>1
  <2> HIDE DEF s
  <2>3. Chain(r, e, s)
    BY ONLY SMTT(30), <2>2, OtherChain, c \in Queues, x \in Msg, k \in {c, None}, e \in Queues \ {c},
            q.fContainer[x] \in {c, None}, Touches(q, r, c, x, k)
  <2>4. QED
    BY <2>3 DEF s
<1> DEFINE g == [h EXCEPT ![c] = w]
<1>3. g[c] = w /\ g \in [Queues -> Seq(Msg)] /\ \A e \in Queues \ {c} : g[e] = h[e]
  BY <1>1
<1> HIDE DEF g
<1>4. \A e \in Queues : Chain(r, e, g[e])
  BY <1>2, <1>3
<1>5. Holds(r, g)
  BY <1>1, <1>3, <1>4 DEF Holds
<1>6. QED
  BY <1>5 DEF g

\* What the queues hold says where each message is, and is what Items finds.
LEMMA HoldsFacts ==
  ASSUME NEW q, NEW h, Holds(q, h), NEW c \in Queues
  PROVE  /\ h[c] \in Seq(Msg) /\ Len(h[c]) \in Nat
         /\ \A i \in 1 .. Len(h[c]) : h[c][i] \in Msg /\ q.fContainer[h[c][i]] = c
         /\ \A x \in Msg : q.fContainer[x] = c => \E i \in 1 .. Len(h[c]) : h[c][i] = x
         /\ \A i, j \in 1 .. Len(h[c]) : h[c][i] = h[c][j] => i = j
         /\ Q!peek(q, c) = IF Len(h[c]) = 0 THEN None ELSE h[c][1]
         /\ Q!peek(q, c) = None <=> Len(h[c]) = 0
         /\ Q!Items(q, c) = h[c] /\ Q!Threads(q, c)
<1>1. q \in QType /\ Chain(q, c, h[c])
  BY DEF Holds
<1>2. /\ h[c] \in Seq(Msg) /\ Len(h[c]) \in Nat
      /\ \A i \in 1 .. Len(h[c]) : h[c][i] \in Msg /\ q.fContainer[h[c][i]] = c
      /\ \A i, j \in 1 .. Len(h[c]) : h[c][i] = h[c][j] => i = j
      /\ q.fHead[c] = None <=> Len(h[c]) = 0
  BY <1>1, ChainFacts
<1>3. \A x \in Msg : q.fContainer[x] = c => \E i \in 1 .. Len(h[c]) : h[c][i] = x
  BY <1>1 DEF Chain, In
<1>4. Q!peek(q, c) = IF Len(h[c]) = 0 THEN None ELSE h[c][1]
  BY <1>1 DEF Chain, Q!peek
<1>5. Q!Items(q, c) = h[c] /\ Q!Threads(q, c)
  BY <1>1, ItemsAre
<1>6. QED
  BY <1>2, <1>3, <1>4, <1>5 DEF Q!peek

\* Add, on the queues.
LEMMA HoldsAdd ==
  ASSUME NEW q, NEW h, Holds(q, h), NEW c \in Queues, NEW x \in Msg, q.fContainer[x] = None
  PROVE  /\ Holds(Q!Add(q, c, x), [h EXCEPT ![c] = Ins(h[c], Len(h[c]) + 1, x)])
         /\ Q!Add(q, c, x).fContainer = [q.fContainer EXCEPT ![x] = c]
<1> DEFINE r == Q!Add(q, c, x)
<1>1. q \in QType /\ Chain(q, c, h[c])
  BY DEF Holds
<1>2. Touches(q, r, c, x, c) /\ Chain(r, c, Ins(h[c], Len(h[c]) + 1, x))
  BY <1>1, AddChain
<1> HIDE DEF r
<1>3. Holds(r, [h EXCEPT ![c] = Ins(h[c], Len(h[c]) + 1, x)])
  BY <1>2, HoldsChange
<1>4. QED
  BY <1>2, <1>3 DEF r, Touches

\* AddBefore, on the queues.
LEMMA HoldsAddBefore ==
  ASSUME NEW q, NEW h, Holds(q, h), NEW c \in Queues, NEW x \in Msg, q.fContainer[x] = None,
         NEW p \in 1 .. Len(h[c])
  PROVE  /\ Holds(Q!AddBefore(q, c, h[c][p], x), [h EXCEPT ![c] = Ins(h[c], p, x)])
         /\ Q!AddBefore(q, c, h[c][p], x).fContainer = [q.fContainer EXCEPT ![x] = c]
<1> DEFINE r == Q!AddBefore(q, c, h[c][p], x)
<1>1. q \in QType /\ Chain(q, c, h[c])
  BY DEF Holds
<1>2. Touches(q, r, c, x, c) /\ Chain(r, c, Ins(h[c], p, x))
  BY <1>1, AddBeforeChain
<1> HIDE DEF r
<1>3. Holds(r, [h EXCEPT ![c] = Ins(h[c], p, x)])
  BY <1>2, HoldsChange
<1>4. QED
  BY <1>2, <1>3 DEF r, Touches

\* Remove, on the queues.
LEMMA HoldsRemove ==
  ASSUME NEW q, NEW h, Holds(q, h), NEW c \in Queues, Len(h[c]) # 0
  PROVE  /\ Holds(Q!Remove(q, c), [h EXCEPT ![c] = Del(h[c], 1)])
         /\ Q!Remove(q, c).fContainer = [q.fContainer EXCEPT ![h[c][1]] = None]
<1> DEFINE r == Q!Remove(q, c)
<1>1. q \in QType /\ Chain(q, c, h[c])
  BY DEF Holds
<1>2. Touches(q, r, c, h[c][1], None) /\ Chain(r, c, Del(h[c], 1))
  BY <1>1, RemoveChain
<1>3. h[c][1] \in Msg /\ q.fContainer[h[c][1]] = c
  <2>1. 1 \in 1 .. Len(h[c])
    BY HoldsFacts
  <2>2. QED
    BY <2>1, HoldsFacts
<1> HIDE DEF r
<1>4. Holds(r, [h EXCEPT ![c] = Del(h[c], 1)])
  BY <1>2, <1>3, HoldsChange
<1>5. QED
  BY <1>2, <1>4 DEF r, Touches

\* RemoveFromQueue, on the queues.
LEMMA HoldsRemoveFromQueue ==
  ASSUME NEW q, NEW h, Holds(q, h), NEW c \in Queues, NEW p \in 1 .. Len(h[c])
  PROVE  /\ Holds(Q!RemoveFromQueue(q, c, h[c][p]), [h EXCEPT ![c] = Del(h[c], p)])
         /\ Q!RemoveFromQueue(q, c, h[c][p]).fContainer = [q.fContainer EXCEPT ![h[c][p]] = None]
<1> DEFINE r == Q!RemoveFromQueue(q, c, h[c][p])
<1>1. q \in QType /\ Chain(q, c, h[c])
  BY DEF Holds
<1>2. Touches(q, r, c, h[c][p], None) /\ Chain(r, c, Del(h[c], p))
  BY <1>1, RemoveFromQueueChain
<1>3. h[c][p] \in Msg /\ q.fContainer[h[c][p]] = c
  BY HoldsFacts
<1> HIDE DEF r
<1>4. Holds(r, [h EXCEPT ![c] = Del(h[c], p)])
  BY <1>2, <1>3, HoldsChange
<1>5. QED
  BY <1>2, <1>4 DEF r, Touches

-----------------------------------------------------------------------------
(* The order of the queue.                                                 *)

Sorted(f, s) == \A i, j \in 1 .. Len(s) : i <= j => f[s[i]] <= f[s[j]]

\* A message that comes in between the earlier and the later keeps the order.
LEMMA SortedIns ==
  ASSUME NEW f \in [Msg -> Nat], NEW s \in Seq(Msg), Sorted(f, s),
         NEW x \in Msg, NEW p \in 1 .. Len(s) + 1,
         \A i \in 1 .. Len(s) : i < p => f[s[i]] <= f[x],
         \A i \in 1 .. Len(s) : i >= p => f[x] <= f[s[i]]
  PROVE  Sorted(f, Ins(s, p, x))
<1> DEFINE w == Ins(s, p, x)
           L == Len(s)
<1>1. L \in Nat /\ p \in Int /\ \A i \in 1 .. L : s[i] \in Msg
  OBVIOUS
<1>2. /\ Len(w) = L + 1 /\ w[p] = x
      /\ \A j \in 1 .. L + 1 :
           \/ j = p
           \/ j < p /\ j \in 1 .. L /\ w[j] = s[j]
           \/ j > p /\ j - 1 \in 1 .. L /\ w[j] = s[j - 1]
  BY InsFacts
<1> HIDE DEF w
<1>3. \A m, n \in 1 .. L : m <= n => f[s[m]] <= f[s[n]]
  BY DEF Sorted
<1> SUFFICES ASSUME NEW i \in 1 .. L + 1, NEW j \in 1 .. L + 1, i <= j
             PROVE  f[w[i]] <= f[w[j]]
  BY <1>2 DEF Sorted, w
<1>4. i \in Int /\ j \in Int
  BY <1>1
<1>5. CASE i = p /\ j = p
  BY <1>2, <1>5
<1>6. CASE i = p /\ j > p
  <2>1. j - 1 \in 1 .. L /\ w[j] = s[j - 1] /\ j - 1 >= p
    BY <1>1, <1>2, <1>4, <1>6
  <2>2. QED
    BY <1>2, <1>6, <2>1
<1>7. CASE i < p /\ j = p
  BY <1>2, <1>4, <1>7
<1>8. CASE i < p /\ j < p
  BY SMTT(30), <1>1, <1>2, <1>3, <1>4, <1>8
<1>9. CASE i < p /\ j > p
  <2>1. /\ i \in 1 .. L /\ w[i] = s[i]
        /\ j - 1 \in 1 .. L /\ w[j] = s[j - 1]
    BY <1>2, <1>4, <1>9
  <2>2. i <= j - 1
    BY <1>1, <1>4, <1>9
  <2>3. QED
    BY <1>3, <2>1, <2>2
<1>10. CASE i > p
  <2>1. j > p
    BY <1>1, <1>4, <1>10
  <2>2. /\ i - 1 \in 1 .. L /\ w[i] = s[i - 1]
        /\ j - 1 \in 1 .. L /\ w[j] = s[j - 1] /\ i - 1 <= j - 1
    BY <1>1, <1>2, <1>4, <1>10, <2>1
  <2>3. QED
    BY <1>3, <2>2
<1>11. QED
  BY <1>1, <1>4, <1>5, <1>6, <1>7, <1>8, <1>9, <1>10

\* A message that goes leaves the others in order.
LEMMA SortedDel ==
  ASSUME NEW f \in [Msg -> Nat], NEW s \in Seq(Msg), Sorted(f, s), NEW p \in 1 .. Len(s)
  PROVE  Sorted(f, Del(s, p))
<1> DEFINE w == Del(s, p)
           L == Len(s)
<1>1. L \in Nat /\ p \in Int
  OBVIOUS
<1>2. /\ Len(w) = L - 1
      /\ \A j \in 1 .. L - 1 :
           \/ j < p /\ j \in 1 .. L /\ w[j] = s[j]
           \/ j >= p /\ j + 1 \in 1 .. L /\ w[j] = s[j + 1]
  BY DelFacts
<1> HIDE DEF w
<1>3. \A m, n \in 1 .. L : m <= n => f[s[m]] <= f[s[n]]
  BY DEF Sorted
<1> SUFFICES ASSUME NEW i \in 1 .. L - 1, NEW j \in 1 .. L - 1, i <= j
             PROVE  f[w[i]] <= f[w[j]]
  BY <1>2 DEF Sorted, w
<1>4. i \in Int /\ j \in Int
  BY <1>1
<1>5. CASE i < p /\ j < p
  BY SMTT(30), <1>2, <1>3, <1>4, <1>5
<1>6. CASE i < p /\ j >= p
  <2>1. i \in 1 .. L /\ w[i] = s[i] /\ j + 1 \in 1 .. L /\ w[j] = s[j + 1] /\ i <= j + 1
    BY <1>1, <1>2, <1>4, <1>6
  <2>2. QED
    BY <1>3, <2>1
<1>7. CASE i >= p
  <2>1. /\ i + 1 \in 1 .. L /\ w[i] = s[i + 1] /\ j + 1 \in 1 .. L /\ w[j] = s[j + 1]
        /\ i + 1 <= j + 1
    BY SMTT(30), <1>1, <1>2, <1>4, <1>7
  <2>2. QED
    BY <1>3, <2>1
<1>8. QED
  BY <1>1, <1>4, <1>5, <1>6, <1>7

-----------------------------------------------------------------------------
(* The invariant.                                                          *)

TypeOK ==
  /\ clock \in Nat /\ fExpiryTime \in [Msg -> Nat]
  /\ hw \in [alarmAt : Nat \cup {None}, raised : BOOLEAN]
  /\ alarming \in BOOLEAN /\ swi \in Msg \cup {"none", "leaves"}

(* What the queues hold, earliest first in that of the engine. *)
InOrder(h) == Holds(d, h) /\ Sorted(fExpiryTime, h["gTimerEngine"])

(* The message a SWI is about to queue is in no queue, and the loop of       *)
(* alarm() has a message.                                                    *)
Inv ==
  /\ TypeOK /\ \E h : InOrder(h)
  /\ swi \in Msg => d.fContainer[swi] = None
  /\ alarming => First(d) # None

(* The alarm is armed for the first message. *)
Armed ==
  First(d) # None =>
    hw.raised \/ alarming \/ (hw.alarmAt # None /\ hw.alarmAt <= fExpiryTime[First(d)])

\* Everything holds at first.
LEMMA InitInv == Init => Inv /\ Armed
<1> SUFFICES ASSUME Init PROVE Inv /\ Armed
  OBVIOUS
<1> DEFINE h == [c \in Queues |-> <<>>]
<1>1. TypeOK /\ swi = "none" /\ ~alarming
  BY DEF Init, TypeOK
<1>2. swi \notin Msg
  BY <1>1
<1>3. d = Q!Empty
  BY DEF Init
<1>4. /\ d.fHead = [c \in Queues |-> None] /\ d.fTail = [c \in Queues |-> None]
      /\ d.fNext = [x \in Msg |-> None] /\ d.fPrev = [x \in Msg |-> None]
      /\ d.fContainer = [x \in Msg |-> None]
  BY <1>3 DEF Q!Empty, Queues
<1>5. d \in QType
  <2>1. /\ d.fHead \in [Queues -> Link] /\ d.fTail \in [Queues -> Link]
        /\ d.fNext \in [Msg -> Link] /\ d.fPrev \in [Msg -> Link]
        /\ d.fContainer \in [Msg -> Queues \cup {None}]
    BY <1>4 DEF Link
  <2>2. QED
    BY <1>3, <2>1 DEF QType, Q!Empty
<1>6. h \in [Queues -> Seq(Msg)] /\ \A c \in Queues : h[c] = <<>>
  OBVIOUS
<1> HIDE DEF h
<1>7. ASSUME NEW c \in Queues PROVE Chain(d, c, h[c])
  <2>1. h[c] \in Seq(Msg) /\ Len(h[c]) = 0 /\ \A i \in 1 .. Len(h[c]) : FALSE
    BY <1>6
  <2>2. \A i \in 2 .. Len(h[c]) : FALSE
    BY <1>6
  <2>3. \A x \in Msg : d.fContainer[x] # c
    BY <1>4 DEF Queues
  <2>4. QED
    BY <1>4, <2>1, <2>2, <2>3 DEF Chain, Distinct, In
<1>8. Holds(d, h)
  BY <1>5, <1>6, <1>7 DEF Holds
<1>9. InOrder(h)
  BY <1>6, <1>8 DEF InOrder, Sorted, Queues
<1>10. First(d) = None
  BY <1>4 DEF First, Q!peek, Queues
<1>11. QED
  BY <1>1, <1>2, <1>9, <1>10 DEF Inv, Armed

-----------------------------------------------------------------------------
(* What the steps do to the queues.                                        *)

\* The queue of the engine, by what it holds.
LEMMA EngineFacts ==
  ASSUME TypeOK, NEW h, InOrder(h)
  PROVE  /\ Holds(d, h) /\ Sorted(fExpiryTime, h["gTimerEngine"])
         /\ h["gTimerEngine"] \in Seq(Msg) /\ Len(h["gTimerEngine"]) \in Nat
         /\ \A i \in 1 .. Len(h["gTimerEngine"]) : h["gTimerEngine"][i] \in Msg
         /\ Waiting = h["gTimerEngine"]
         /\ First(d) = IF Len(h["gTimerEngine"]) = 0 THEN None ELSE h["gTimerEngine"][1]
         /\ First(d) = None <=> Len(h["gTimerEngine"]) = 0
         /\ First(d) # None => First(d) \in Msg /\ d.fContainer[First(d)] = "gTimerEngine"
         /\ First(d) # None => \A m \in Msg : d.fContainer[m] = "gTimerEngine" =>
              fExpiryTime[First(d)] <= fExpiryTime[m]
<1> DEFINE s == h["gTimerEngine"]
<1>1. Holds(d, h) /\ "gTimerEngine" \in Queues /\ Sorted(fExpiryTime, s)
  BY DEF InOrder, Queues
<1>2. /\ s \in Seq(Msg) /\ Len(s) \in Nat
      /\ \A i \in 1 .. Len(s) : s[i] \in Msg /\ d.fContainer[s[i]] = "gTimerEngine"
      /\ \A x \in Msg : d.fContainer[x] = "gTimerEngine" => \E i \in 1 .. Len(s) : s[i] = x
      /\ Q!peek(d, "gTimerEngine") = IF Len(s) = 0 THEN None ELSE s[1]
      /\ Q!peek(d, "gTimerEngine") = None <=> Len(s) = 0
      /\ Q!Items(d, "gTimerEngine") = s
  BY <1>1, HoldsFacts
<1>3. Len(s) # 0 => 1 \in 1 .. Len(s) /\ \A i \in 1 .. Len(s) : 1 <= i
  BY <1>2
<1> HIDE DEF s
<1>4. First(d) # None => First(d) \in Msg /\ d.fContainer[First(d)] = "gTimerEngine"
  BY <1>2, <1>3 DEF First
<1>5. First(d) # None => \A m \in Msg : d.fContainer[m] = "gTimerEngine" =>
        fExpiryTime[First(d)] <= fExpiryTime[m]
  <2>1. Len(s) # 0 => \A i \in 1 .. Len(s) : fExpiryTime[s[1]] <= fExpiryTime[s[i]]
    BY <1>1, <1>3 DEF Sorted
  <2>2. QED
    BY <1>2, <2>1 DEF First
<1>6. QED
  BY <1>1, <1>2, <1>4, <1>5 DEF First, Waiting, s

\* queue finds the place of a message: before those that expire later.
LEMMA QueuePlace ==
  ASSUME TypeOK, NEW h, InOrder(h), NEW m \in Msg, d.fContainer[m] = None,
         NEW later, later \in SUBSET DOMAIN Waiting,
         \A i \in DOMAIN Waiting : i \in later <=> fExpiryTime[m] < fExpiryTime[Waiting[i]],
         NEW r, later = {} => r = Q!Add(d, "gTimerEngine", m),
         later # {} => r = Q!AddBefore(d, "gTimerEngine", Waiting[Min(later)], m)
  PROVE  \E p \in 1 .. Len(h["gTimerEngine"]) + 1 : \E g :
           /\ Holds(r, g) /\ g["gTimerDeferred"] = h["gTimerDeferred"]
           /\ g["gTimerEngine"] = Ins(h["gTimerEngine"], p, m)
           /\ Sorted(fExpiryTime, g["gTimerEngine"])
           /\ \A x \in Msg : r.fContainer[x] = IF x = m THEN "gTimerEngine" ELSE d.fContainer[x]
           /\ p = 1 <=> Waiting = <<>> \/ 1 \in later
<1> DEFINE s == h["gTimerEngine"]
           L == Len(s)
           f == fExpiryTime
<1>1. /\ Holds(d, h) /\ Sorted(f, s) /\ s \in Seq(Msg) /\ L \in Nat
      /\ \A i \in 1 .. L : s[i] \in Msg
      /\ Waiting = s
  BY EngineFacts
<1>2. "gTimerEngine" \in Queues /\ f \in [Msg -> Nat]
  BY DEF Queues, TypeOK
<1>3. /\ later \in SUBSET (1 .. L)
      /\ \A i \in 1 .. L : i \in later <=> f[m] < f[s[i]]
  BY <1>1
<1>4. Waiting = <<>> <=> L = 0
  BY <1>1
<1>5. \A i, j \in 1 .. L : i <= j => f[s[i]] <= f[s[j]]
  BY <1>1 DEF Sorted
<1>6. \A i \in 1 .. L : f[s[i]] \in Nat /\ f[m] \in Nat
  BY <1>1, <1>2
<1> HIDE DEF s, f
<1>10. \A w : LET g == [h EXCEPT !["gTimerEngine"] = w]
              IN  g["gTimerEngine"] = w /\ g["gTimerDeferred"] = h["gTimerDeferred"]
  BY <1>1, <1>2 DEF Holds, Queues
<1>11. d.fContainer \in [Msg -> Queues \cup {None}]
  BY <1>1, QFields DEF Holds
<1>7. CASE later = {}
  <2>7. r = Q!Add(d, "gTimerEngine", m)
    BY <1>7
  <2>1. /\ Holds(r, [h EXCEPT !["gTimerEngine"] = Ins(s, L + 1, m)])
        /\ r.fContainer = [d.fContainer EXCEPT ![m] = "gTimerEngine"]
    BY <1>1, <1>2, <2>7, HoldsAdd DEF s
  <2>2. L + 1 \in 1 .. L + 1 /\ \A i \in 1 .. L : ~(i >= L + 1)
    BY <1>1
  <2>3. \A i \in 1 .. L : f[s[i]] <= f[m]
    BY <1>3, <1>6, <1>7
  <2>4. Sorted(f, Ins(s, L + 1, m))
    BY <1>1, <1>2, <2>2, <2>3, SortedIns
  <2>5. L + 1 = 1 <=> Waiting = <<>> \/ 1 \in later
    BY <1>1, <1>4, <1>7
  <2>6. QED
    BY ZenonT(40), <1>10, <1>11, <2>1, <2>2, <2>4, <2>5 DEF s, f
<1>8. CASE later # {}
  <2> DEFINE p == Min(later)
  <2>1. p \in later /\ \A i \in later : p <= i
    <3>1. later \in SUBSET Nat
      BY <1>1, <1>3
    <3>2. \E i \in later : \A j \in later : i <= j
      BY <1>8, <3>1, LeastNumber
    <3>3. QED
      BY <3>2 DEF Min
  <2> HIDE DEF p
  <2>2. p \in 1 .. L /\ p \in 1 .. L + 1 /\ p \in Int
    BY <1>1, <1>3, <2>1
  <2>3. r = Q!AddBefore(d, "gTimerEngine", s[p], m)
    BY <1>1, <1>8 DEF p, s
  <2>4. /\ Holds(r, [h EXCEPT !["gTimerEngine"] = Ins(s, p, m)])
        /\ r.fContainer = [d.fContainer EXCEPT ![m] = "gTimerEngine"]
    <3>1. p \in 1 .. Len(h["gTimerEngine"]) /\ r = Q!AddBefore(d, "gTimerEngine", h["gTimerEngine"][p], m)
      BY <2>2, <2>3 DEF s
    <3>2. /\ Holds(r, [h EXCEPT !["gTimerEngine"] = Ins(h["gTimerEngine"], p, m)])
          /\ r.fContainer = [d.fContainer EXCEPT ![m] = "gTimerEngine"]
      <4> DEFINE c == "gTimerEngine"
                 a == Q!AddBefore(d, c, h[c][p], m)
      <4>1. Holds(d, h) /\ c \in Queues /\ d.fContainer[m] = None /\ p \in 1 .. Len(h[c])
        BY <1>1, <1>2, <3>1
      <4>2. a = r
        BY <3>1
      <4> HIDE DEF c, p
      <4>3. Holds(a, [h EXCEPT ![c] = Ins(h[c], p, m)]) /\ a.fContainer = [d.fContainer EXCEPT ![m] = c]
        BY ONLY <4>1, m \in Msg, HoldsAddBefore
      <4> HIDE DEF a
      <4>4. QED
        BY <4>2, <4>3 DEF c
    <3>3. QED
      BY <3>2 DEF s
  <2>5. \A i \in 1 .. L : i < p => f[s[i]] <= f[m]
    <3> SUFFICES ASSUME NEW i \in 1 .. L, i < p PROVE f[s[i]] <= f[m]
      OBVIOUS
    <3>1. i \notin later
      BY <2>1, <2>2
    <3>2. QED
      BY <1>3, <1>6, <3>1
  <2>6. \A i \in 1 .. L : i >= p => f[m] <= f[s[i]]
    <3> SUFFICES ASSUME NEW i \in 1 .. L, i >= p PROVE f[m] <= f[s[i]]
      OBVIOUS
    <3>1. f[m] < f[s[p]]
      BY <1>3, <2>1, <2>2
    <3>2. p <= i
      BY <2>2
    <3>3. f[s[p]] <= f[s[i]]
      BY <1>5, <2>2, <3>2
    <3>4. QED
      BY <1>6, <2>2, <3>1, <3>3
  <2>7. Sorted(f, Ins(s, p, m))
    BY <1>1, <1>2, <2>2, <2>5, <2>6, SortedIns
  <2>8. p = 1 <=> Waiting = <<>> \/ 1 \in later
    <3>1. L # 0
      BY <1>1, <2>2
    <3>2. 1 \in later => p = 1
      BY <2>1, <2>2
    <3>3. QED
      BY <1>4, <2>1, <3>1, <3>2
  <2>9. QED
    BY ZenonT(40), <1>10, <1>11, <2>2, <2>4, <2>7, <2>8 DEF s, f
<1>9. QED
  BY <1>7, <1>8

-----------------------------------------------------------------------------
(* Each step keeps the invariant, keeps the alarm armed on hardware that    *)
(* keeps its interrupts, and is a step of AlarmClock or none of its          *)
(* concern.                                                                  *)

Due == [m \in Msg |-> IF d.fContainer[m] = "gTimerEngine" THEN fExpiryTime[m] ELSE None]
Ended == Q!Items(d, "gTimerDeferred")

ClockStep == Clock!Next \/ UNCHANGED <<clock, Due, Ended>>

Kept == Inv' /\ (~OnHost /\ Armed => Armed') /\ ClockStep

\* The messages that have ended are those the deferred queue holds.
LEMMA DeferredFacts ==
  ASSUME NEW h, InOrder(h)
  PROVE  /\ Holds(d, h) /\ Ended = h["gTimerDeferred"]
         /\ Ended \in Seq(Msg) /\ Len(Ended) \in Nat
         /\ \A i \in 1 .. Len(Ended) : Ended[i] \in Msg /\ d.fContainer[Ended[i]] = "gTimerDeferred"
         /\ \A x \in Msg : d.fContainer[x] = "gTimerDeferred" => \E i \in 1 .. Len(Ended) : Ended[i] = x
         /\ Q!peek(d, "gTimerDeferred") = IF Len(Ended) = 0 THEN None ELSE Ended[1]
         /\ Q!peek(d, "gTimerDeferred") = None <=> Len(Ended) = 0
BY HoldsFacts DEF InOrder, Queues, Ended

\* Where the engine's queue, its times and the clock stay, so does AlarmClock.
LEMMA QueuesStay ==
  ASSUME Inv, d' = d, fExpiryTime' = fExpiryTime
  PROVE  /\ (\E h : InOrder(h))' /\ First(d') = First(d)
         /\ Due' = Due /\ Ended' = Ended
<1>1. PICK h : InOrder(h)
  BY DEF Inv
<1>2. InOrder(h)'
  BY <1>1 DEF InOrder
<1>3. QED
  BY <1>2 DEF Due, Ended

\* Tick moves the clocks together.
LEMMA TickStep == ASSUME Inv, Tick PROVE Kept
<1>1. /\ clock' = clock + 1
      /\ d' = d /\ fExpiryTime' = fExpiryTime /\ hw' = hw /\ alarming' = alarming /\ swi' = swi
  BY DEF Tick
<1>2. (\E h : InOrder(h))' /\ First(d') = First(d) /\ Due' = Due /\ Ended' = Ended
  BY <1>1, QueuesStay
<1>3. TypeOK'
  BY <1>1 DEF Inv, TypeOK
<1>4. Inv'
  BY <1>1, <1>2, <1>3 DEF Inv
<1>5. Armed => Armed'
  BY <1>1, <1>2 DEF Armed
<1>6. ClockStep
  BY <1>1, <1>2 DEF ClockStep, Clock!Next, Clock!Tick, Due, Ended
<1>7. QED
  BY <1>4, <1>5, <1>6 DEF Kept

\* The end of a SWI serves what the host has kept.
LEMMA EndSWIStep == ASSUME Inv, EndSWI PROVE Kept
<1>1. /\ swi' = "none" /\ clock' = clock /\ d' = d /\ fExpiryTime' = fExpiryTime /\ ~alarming
      /\ hw' = IF OnHost THEN [hw EXCEPT !.raised = FALSE] ELSE hw
      /\ alarming' \in IF OnHost /\ hw.raised /\ First(d) # None THEN BOOLEAN ELSE {FALSE}
  BY DEF EndSWI
<1>2. (\E h : InOrder(h))' /\ First(d') = First(d) /\ Due' = Due /\ Ended' = Ended
  BY <1>1, QueuesStay
<1>3. alarming' \in BOOLEAN /\ (alarming' => First(d) # None)
  BY <1>1
<1>4. TypeOK'
  BY <1>1, <1>3 DEF Inv, TypeOK
<1>5. Inv'
  BY <1>1, <1>2, <1>3, <1>4 DEF Inv
<1>6. ~OnHost /\ Armed => Armed'
  BY <1>1, <1>2 DEF Armed
<1>7. ClockStep
  BY <1>1, <1>2 DEF ClockStep
<1>8. QED
  BY <1>5, <1>6, <1>7 DEF Kept

\* The alarm goes off: its interrupt is pending, or served at once.
LEMMA AlarmGoesOffStep == ASSUME Inv, AlarmGoesOff PROVE Kept
<1>1. /\ clock' = clock /\ d' = d /\ fExpiryTime' = fExpiryTime /\ swi' = swi
      /\ \/ OnHost /\ hw' = [hw EXCEPT !.alarmAt = None] /\ alarming' = (First(d) # None)
         \/ hw' = [alarmAt |-> None, raised |-> TRUE] /\ alarming' = alarming
  BY DEF AlarmGoesOff
<1>2. (\E h : InOrder(h))' /\ First(d') = First(d) /\ Due' = Due /\ Ended' = Ended
  BY <1>1, QueuesStay
<1>3. alarming' \in BOOLEAN /\ (alarming' => First(d) # None)
  BY <1>1 DEF Inv, TypeOK
<1>4. TypeOK'
  <2>1. hw' \in [alarmAt : Nat \cup {None}, raised : BOOLEAN]
    <3>1. hw \in [alarmAt : Nat \cup {None}, raised : BOOLEAN]
      BY DEF Inv, TypeOK
    <3>2. CASE hw' = [hw EXCEPT !.alarmAt = None]
      BY <3>1, <3>2
    <3>3. CASE hw' = [alarmAt |-> None, raised |-> TRUE]
      BY <3>3
    <3>4. QED
      BY <1>1, <3>2, <3>3
  <2>2. QED
    BY <1>1, <1>3, <2>1 DEF Inv, TypeOK
<1>5. Inv'
  BY <1>1, <1>2, <1>3, <1>4 DEF Inv
<1>6. ~OnHost /\ Armed => Armed'
  BY <1>1 DEF Armed
<1>7. ClockStep
  BY <1>1, <1>2 DEF ClockStep
<1>8. QED
  BY <1>5, <1>6, <1>7 DEF Kept

\* The interrupt of the alarm is served.
LEMMA TimerInterruptHandlerStep == ASSUME Inv, TimerInterruptHandler PROVE Kept
<1>1. /\ clock' = clock /\ d' = d /\ fExpiryTime' = fExpiryTime /\ swi' = swi
      /\ alarming' = (First(d) # None)
      /\ hw' = [alarmAt |-> IF First(d) = None THEN None ELSE hw.alarmAt, raised |-> FALSE]
  BY DEF TimerInterruptHandler
<1>2. (\E h : InOrder(h))' /\ First(d') = First(d) /\ Due' = Due /\ Ended' = Ended
  BY <1>1, QueuesStay
<1>3. TypeOK'
  BY <1>1 DEF Inv, TypeOK
<1>4. Inv'
  BY <1>1, <1>2, <1>3 DEF Inv
<1>5. ~OnHost /\ Armed => Armed'
  BY <1>1, <1>2 DEF Armed
<1>6. ClockStep
  BY <1>1, <1>2 DEF ClockStep
<1>7. QED
  BY <1>4, <1>5, <1>6 DEF Kept

\* The queues after a step.
LEMMA AfterFacts ==
  ASSUME NEW g, Holds(d', g)
  PROVE  /\ Ended' = g["gTimerDeferred"]
         /\ First(d') = IF Len(g["gTimerEngine"]) = 0 THEN None ELSE g["gTimerEngine"][1]
         /\ First(d') = None <=> Len(g["gTimerEngine"]) = 0
<1>1. "gTimerEngine" \in Queues /\ "gTimerDeferred" \in Queues
  BY DEF Queues
<1>2. /\ Q!Items(d', "gTimerDeferred") = g["gTimerDeferred"]
      /\ Q!peek(d', "gTimerEngine") = IF Len(g["gTimerEngine"]) = 0 THEN None ELSE g["gTimerEngine"][1]
      /\ Q!peek(d', "gTimerEngine") = None <=> Len(g["gTimerEngine"]) = 0
  BY <1>1, HoldsFacts
<1>3. QED
  BY <1>2 DEF Ended, First

\* A SWI computes the time of a message.
LEMMA StartStep ==
  ASSUME Inv, NEW m \in Msg, NEW time \in 1 .. MaxTime, Start(m, time)
  PROVE  Kept
<1>1. /\ clock' = clock /\ d' = d /\ hw' = hw /\ alarming' = alarming /\ swi' = m
      /\ fExpiryTime' = [fExpiryTime EXCEPT ![m] = time] /\ d.fContainer[m] = None /\ ~alarming
  BY DEF Start
<1>2. PICK h : InOrder(h)
  BY DEF Inv
<1>3. TypeOK
  BY DEF Inv
<1>4. fExpiryTime \in [Msg -> Nat] /\ time \in Nat
  BY <1>3 DEF TypeOK
<1>5. TypeOK'
  BY <1>1, <1>3, <1>4 DEF TypeOK
<1>6. \A x \in Msg : d.fContainer[x] = "gTimerEngine" => fExpiryTime'[x] = fExpiryTime[x]
  BY <1>1, <1>4
<1>7. InOrder(h)'
  <2> DEFINE s == h["gTimerEngine"]
  <2>1. \A i \in 1 .. Len(s) : s[i] \in Msg /\ d.fContainer[s[i]] = "gTimerEngine"
    BY <1>2, HoldsFacts DEF InOrder, Queues
  <2>2. \A i \in 1 .. Len(s) : fExpiryTime'[s[i]] = fExpiryTime[s[i]]
    BY <1>6, <2>1
  <2>3. Sorted(fExpiryTime', s)
    BY <1>2, <2>2 DEF InOrder, Sorted
  <2>4. QED
    BY <1>1, <1>2, <2>3 DEF InOrder
<1>8. Inv'
  BY <1>1, <1>5, <1>7 DEF Inv
<1>9. Armed => Armed'
  <2>1. First(d) # None => First(d) \in Msg /\ d.fContainer[First(d)] = "gTimerEngine"
    BY <1>2, <1>3, EngineFacts
  <2>2. First(d') = First(d)
    BY <1>1
  <2>3. First(d) # None => fExpiryTime'[First(d)] = fExpiryTime[First(d)]
    BY <1>6, <2>1
  <2>4. QED
    BY <1>1, <2>2, <2>3 DEF Armed
<1>10. Due' = Due
  BY <1>1, <1>6 DEF Due
<1>11. Ended' = Ended
  BY <1>1 DEF Ended
<1>12. QED
  BY <1>1, <1>8, <1>9, <1>10, <1>11 DEF Kept, ClockStep

\* Setting and clearing the alarm.
LEMMA AlarmTypes ==
  ASSUME TypeOK, NEW t \in Nat, SetAlarm(t) \/ ClearAlarm \/ hw' = hw
  PROVE  /\ hw' \in [alarmAt : Nat \cup {None}, raised : BOOLEAN]
         /\ SetAlarm(t) => hw'.alarmAt = t
<1>1. hw \in [alarmAt : Nat \cup {None}, raised : BOOLEAN]
  BY DEF TypeOK
<1>2. CASE SetAlarm(t)
  BY <1>1, <1>2 DEF SetAlarm
<1>3. CASE ClearAlarm
  <2>1. hw' \in [alarmAt : Nat \cup {None}, raised : BOOLEAN]
    BY <1>1, <1>3 DEF ClearAlarm
  <2>2. QED
    BY <1>1, <2>1 DEF SetAlarm
<1>4. CASE hw' = hw
  BY <1>1, <1>4 DEF SetAlarm
<1>5. QED
  BY <1>2, <1>3, <1>4

\* The message is queued, or the alarm is served in its place.
LEMMA FinishStartStep == ASSUME Inv, FinishStart PROVE Kept
<1> DEFINE later == {i \in DOMAIN Waiting : fExpiryTime[swi] < fExpiryTime[Waiting[i]]}
           isFirst == Waiting = <<>> \/ 1 \in later
<1>1. /\ swi \in Msg /\ swi' = "leaves" /\ clock' = clock /\ fExpiryTime' = fExpiryTime
      /\ Queue(swi)
  BY DEF FinishStart
<1>2. TypeOK /\ d.fContainer[swi] = None /\ swi' \notin Msg
  BY <1>1 DEF Inv
<1>3. fExpiryTime \in [Msg -> Nat] /\ fExpiryTime[swi] \in Nat
  BY <1>1, <1>2 DEF TypeOK
<1>4. CASE isFirst /\ ~InFuture(fExpiryTime[swi])
  <2>1. Alarm(d)
    BY <1>1, <1>4 DEF Queue
  <2>2. /\ d' = d /\ alarming' = (First(d) # None)
        /\ IF First(d) = None THEN ClearAlarm ELSE hw' = hw
    BY <2>1 DEF Alarm
  <2>3. (\E h : InOrder(h))' /\ First(d') = First(d) /\ Due' = Due /\ Ended' = Ended
    BY <1>1, <2>2, QueuesStay
  <2>4. hw' \in [alarmAt : Nat \cup {None}, raised : BOOLEAN]
    BY <1>2, <1>3, <2>2, AlarmTypes
  <2>5. TypeOK'
    BY <1>1, <1>2, <2>2, <2>4 DEF TypeOK
  <2>6. Inv'
    BY <1>2, <2>2, <2>3, <2>5 DEF Inv
  <2>7. Armed'
    BY <2>2, <2>3 DEF Armed
  <2>8. QED
    BY <1>1, <2>3, <2>6, <2>7 DEF Kept, ClockStep
<1>5. CASE ~(isFirst /\ ~InFuture(fExpiryTime[swi]))
  <2>1. /\ d' = IF later = {} THEN Q!Add(d, "gTimerEngine", swi)
                ELSE Q!AddBefore(d, "gTimerEngine", Waiting[Min(later)], swi)
        /\ IF isFirst THEN SetAlarm(fExpiryTime[swi]) ELSE hw' = hw
        /\ alarming' = alarming
    BY <1>1, <1>5 DEF Queue
  <2>2. PICK h : InOrder(h)
    BY DEF Inv
  <2> DEFINE s == h["gTimerEngine"]
  <2> HIDE DEF s
  <2>3. \E p \in 1 .. Len(h["gTimerEngine"]) + 1 : \E g :
          /\ Holds(d', g) /\ g["gTimerDeferred"] = h["gTimerDeferred"]
          /\ g["gTimerEngine"] = Ins(h["gTimerEngine"], p, swi)
          /\ Sorted(fExpiryTime, g["gTimerEngine"])
          /\ \A x \in Msg : d'.fContainer[x] = IF x = swi THEN "gTimerEngine" ELSE d.fContainer[x]
          /\ p = 1 <=> Waiting = <<>> \/ 1 \in later
    <3>1. /\ later \in SUBSET DOMAIN Waiting
          /\ \A i \in DOMAIN Waiting : i \in later <=> fExpiryTime[swi] < fExpiryTime[Waiting[i]]
      OBVIOUS
    <3> HIDE DEF later, isFirst
    <3>2. /\ later = {} => d' = Q!Add(d, "gTimerEngine", swi)
          /\ later # {} => d' = Q!AddBefore(d, "gTimerEngine", Waiting[Min(later)], swi)
      BY <2>1
    <3>3. QED
      BY <1>1, <1>2, <2>2, <3>1, <3>2, QueuePlace
  <2> HIDE DEF later
  <2>16. PICK p \in 1 .. Len(s) + 1 : \E g :
          /\ Holds(d', g) /\ g["gTimerDeferred"] = h["gTimerDeferred"]
          /\ g["gTimerEngine"] = Ins(s, p, swi)
          /\ Sorted(fExpiryTime, g["gTimerEngine"])
          /\ \A x \in Msg : d'.fContainer[x] = IF x = swi THEN "gTimerEngine" ELSE d.fContainer[x]
          /\ p = 1 <=> isFirst
    BY <2>3 DEF s
  <2>5. PICK g :
          /\ Holds(d', g) /\ g["gTimerDeferred"] = h["gTimerDeferred"]
          /\ g["gTimerEngine"] = Ins(s, p, swi)
          /\ Sorted(fExpiryTime, g["gTimerEngine"])
          /\ \A x \in Msg : d'.fContainer[x] = IF x = swi THEN "gTimerEngine" ELSE d.fContainer[x]
          /\ p = 1 <=> isFirst
    BY <2>16
  <2>4. /\ Holds(d, h) /\ s \in Seq(Msg) /\ Len(s) \in Nat
        /\ First(d) = IF Len(s) = 0 THEN None ELSE s[1]
        /\ First(d) = None <=> Len(s) = 0
    BY <1>2, <2>2, EngineFacts DEF s
  <2>6. InOrder(g)'
    <3>1. Sorted(fExpiryTime', g["gTimerEngine"])
      BY <1>1, <2>5
    <3>2. QED
      BY <2>5, <3>1 DEF InOrder
  <2>7. /\ Len(Ins(s, p, swi)) = Len(s) + 1 /\ Ins(s, p, swi)[p] = swi
        /\ \A i \in 1 .. Len(s) : i < p => Ins(s, p, swi)[i] = s[i]
    BY <1>1, <2>4, InsFacts
  <2>8. First(d') # None /\ First(d') = Ins(s, p, swi)[1] /\ Ended' = h["gTimerDeferred"]
    <3>1. Len(Ins(s, p, swi)) # 0
      BY <2>4, <2>7
    <3>2. QED
      BY <2>5, <3>1, AfterFacts
  <2>9. hw' \in [alarmAt : Nat \cup {None}, raised : BOOLEAN]
    BY <1>2, <1>3, <2>1, AlarmTypes
  <2>10. TypeOK'
    BY <1>1, <1>2, <2>1, <2>9 DEF TypeOK
  <2>11. Inv'
    BY <1>2, <2>6, <2>8, <2>10 DEF Inv
  <2>12. Armed => Armed'
    <3>1. CASE p = 1
      <4>1. First(d') = swi /\ hw'.alarmAt = fExpiryTime[swi]
        BY <1>2, <1>3, <2>1, <2>5, <2>7, <2>8, <3>1, AlarmTypes
      <4>2. QED
        BY <1>1, <1>3, <4>1 DEF Armed
    <3>2. CASE p # 1
      <4>1. Len(s) # 0 /\ 1 \in 1 .. Len(s) /\ 1 < p
        BY <2>4, <3>2
      <4>2. First(d') = First(d) /\ First(d) # None /\ hw' = hw
        BY <2>1, <2>5, <2>4, <2>7, <2>8, <3>2, <4>1
      <4>3. QED
        BY <1>1, <2>1, <4>2 DEF Armed
    <3>3. QED
      BY <3>1, <3>2
  <2>13. ClockStep
    <3>1. /\ Ended = h["gTimerDeferred"]
          /\ \A i \in DOMAIN Ended : Ended[i] # swi
      <4>1. /\ Ended = h["gTimerDeferred"] /\ Ended \in Seq(Msg)
            /\ \A i \in 1 .. Len(Ended) : Ended[i] \in Msg /\ d.fContainer[Ended[i]] = "gTimerDeferred"
        BY <2>2, DeferredFacts
      <4>2. QED
        BY <1>2, <4>1
    <3>3. Due[swi] = None /\ Due'[swi] = fExpiryTime[swi]
      BY <1>1, <1>2, <2>5 DEF Due
    <3>4. Due' = [Due EXCEPT ![swi] = Due'[swi]]
      BY <1>1, <2>5 DEF Due
    <3>5. Due'[swi] # None
      BY <1>3, <3>3
    <3>6. Ended' = Ended
      BY <2>8, <3>1
    <3>7. Clock!Next
      BY <1>1, <3>1, <3>3, <3>4, <3>5, <3>6 DEF Clock!Next, Clock!Ask, Due, Ended
    <3>8. QED
      BY <3>7 DEF ClockStep
  <2>14. QED
    BY <2>11, <2>12, <2>13 DEF Kept
<1>6. QED
  BY <1>4, <1>5

\* Insertion at the end is Append, deletion of the first is Tail.
LEMMA InsDelEnds ==
  ASSUME NEW s \in Seq(Msg)
  PROVE  /\ \A x \in Msg : Ins(s, Len(s) + 1, x) = Append(s, x)
         /\ Len(s) # 0 => Del(s, 1) = Tail(s)
<1>1. Len(s) \in Nat
  OBVIOUS
<1>2. ASSUME NEW x \in Msg PROVE Ins(s, Len(s) + 1, x) = Append(s, x)
  <2>1. /\ Append(s, x) \in Seq(Msg) /\ Len(Append(s, x)) = Len(s) + 1
        /\ \A i \in 1 .. Len(s) : Append(s, x)[i] = s[i]
        /\ Append(s, x)[Len(s) + 1] = x
    OBVIOUS
  <2>2. Len(s) + 1 \in 1 .. Len(s) + 1 /\ \A i \in 1 .. Len(s) : i < Len(s) + 1
    BY <1>1
  <2>3. /\ Ins(s, Len(s) + 1, x) \in Seq(Msg) /\ Len(Ins(s, Len(s) + 1, x)) = Len(s) + 1
        /\ \A i \in 1 .. Len(s) : Ins(s, Len(s) + 1, x)[i] = s[i]
        /\ Ins(s, Len(s) + 1, x)[Len(s) + 1] = x
    <3> DEFINE p == Len(s) + 1
    <3>1. p \in 1 .. Len(s) + 1 /\ \A i \in 1 .. Len(s) : i < p
      BY <2>2
    <3> HIDE DEF p
    <3>2. /\ Ins(s, p, x) \in Seq(Msg) /\ Len(Ins(s, p, x)) = Len(s) + 1
          /\ \A i \in 1 .. Len(s) : i < p => Ins(s, p, x)[i] = s[i]
          /\ Ins(s, p, x)[p] = x
      BY <3>1, InsFacts
    <3>3. QED
      BY <3>1, <3>2 DEF p
  <2> DEFINE w == Ins(s, Len(s) + 1, x)
             a == Append(s, x)
  <2> HIDE DEF w, a
  <2>4. \A i \in 1 .. Len(s) + 1 : w[i] = a[i]
    BY <1>1, <2>1, <2>3, BelowTop DEF w, a
  <2>5. w = a
    BY <1>1, <2>1, <2>3, <2>4 DEF w, a
  <2>6. QED
    BY <2>5 DEF w, a
<1>3. ASSUME Len(s) # 0 PROVE Del(s, 1) = Tail(s)
  <2>1. 1 \in 1 .. Len(s)
    BY <1>1, <1>3
  <2>2. Tail(s) \in Seq(Msg) /\ Len(Tail(s)) = Len(s) - 1
        /\ \A i \in 1 .. Len(s) - 1 : Tail(s)[i] = s[i + 1]
    BY <1>3
  <2>3. Del(s, 1) \in Seq(Msg) /\ Len(Del(s, 1)) = Len(s) - 1
    BY <2>1, DelFacts
  <2>4. \A i \in 1 .. Len(s) - 1 : Del(s, 1)[i] = s[i + 1]
    BY <1>1 DEF Del
  <2>5. QED
    BY <2>2, <2>3, <2>4
<1>4. QED
  BY <1>2, <1>3

\* A deferred message is dealt with.
LEMMA NotifyStep == ASSUME Inv, Notify PROVE Kept
<1>1. /\ clock' = clock /\ fExpiryTime' = fExpiryTime /\ hw' = hw /\ alarming' = alarming
      /\ swi' = swi /\ swi = "none"
      /\ Q!peek(d, "gTimerDeferred") # None /\ d' = Q!Remove(d, "gTimerDeferred")
  BY DEF Notify
<1>2. PICK h : InOrder(h)
  BY DEF Inv
<1>3. TypeOK /\ swi' \notin Msg
  BY <1>1 DEF Inv
<1> DEFINE e == h["gTimerDeferred"]
           m == e[1]
<1>4. /\ Holds(d, h) /\ Ended = e /\ e \in Seq(Msg) /\ Len(e) # 0
      /\ \A i \in 1 .. Len(e) : e[i] \in Msg /\ d.fContainer[e[i]] = "gTimerDeferred"
  BY <1>1, <1>2, DeferredFacts
<1>5. m \in Msg /\ d.fContainer[m] = "gTimerDeferred"
  <2>1. 1 \in 1 .. Len(e)
    BY <1>4
  <2>2. QED
    BY <1>4, <2>1
<1>6. /\ Holds(d', [h EXCEPT !["gTimerDeferred"] = Del(e, 1)])
      /\ d'.fContainer = [d.fContainer EXCEPT ![m] = None]
  BY <1>1, <1>4, HoldsRemove DEF Queues
<1>7. PICK g : /\ Holds(d', g) /\ g["gTimerEngine"] = h["gTimerEngine"]
               /\ g["gTimerDeferred"] = Del(e, 1)
  <2> DEFINE g == [h EXCEPT !["gTimerDeferred"] = Del(e, 1)]
  <2>1. Holds(d', g) /\ g["gTimerEngine"] = h["gTimerEngine"] /\ g["gTimerDeferred"] = Del(e, 1)
    BY <1>4, <1>6 DEF Holds, Queues
  <2> HIDE DEF g
  <2>2. QED
    BY <2>1
<1>8. d.fContainer \in [Msg -> Queues \cup {None}]
  BY <1>4, QFields DEF Holds
<1>9. \A x \in Msg : d'.fContainer[x] = "gTimerEngine" <=> d.fContainer[x] = "gTimerEngine"
  BY <1>5, <1>6, <1>8
<1>10. InOrder(g)'
  BY <1>1, <1>2, <1>7 DEF InOrder
<1>11. First(d') = First(d) /\ Ended' = Del(e, 1)
  BY <1>2, <1>3, <1>7, AfterFacts, EngineFacts
<1>12. TypeOK'
  BY <1>1, <1>3 DEF TypeOK
<1>13. Inv'
  BY <1>1, <1>3, <1>10, <1>11, <1>12 DEF Inv
<1>14. Armed => Armed'
  BY <1>1, <1>11 DEF Armed
<1>15. ClockStep
  <2>1. Due' = Due
    BY <1>1, <1>9 DEF Due
  <2>2. Ended # <<>> /\ Ended' = Tail(Ended)
    <3> HIDE DEF e
    <3>1. Del(e, 1) = Tail(e)
      BY <1>4, InsDelEnds
    <3>2. e # <<>>
      BY <1>4
    <3>3. QED
      BY <1>4, <1>11, <3>1, <3>2
  <2>3. Clock!Next
    BY <1>1, <2>1, <2>2 DEF Clock!Next, Clock!Take, Due, Ended
  <2>4. QED
    BY <2>3 DEF ClockStep
<1>16. QED
  BY <1>13, <1>14, <1>15 DEF Kept

\* The loop of alarm() fires one message, sets the alarm, or finds no more.
LEMMA AlarmLoopStep == ASSUME Inv, AlarmLoop PROVE Kept
<1> DEFINE m == First(d)
           next == First(d')
           isSet == next # None /\ InFuture(fExpiryTime[next])
<1>1. /\ clock' = clock /\ fExpiryTime' = fExpiryTime /\ swi' = swi /\ alarming
      /\ d' = IF fExpiryTime[m] <= clock THEN Fired(d, m) ELSE d
      /\ IF isSet THEN SetAlarm(fExpiryTime[next]) ELSE hw' = hw
      /\ alarming' = (next # None /\ ~isSet)
  BY DEF AlarmLoop
<1>2. PICK h : InOrder(h)
  BY DEF Inv
<1>3. TypeOK /\ m # None
  BY <1>1 DEF Inv
<1>4. fExpiryTime \in [Msg -> Nat]
  BY <1>3 DEF TypeOK
<1> DEFINE s == h["gTimerEngine"]
           e == h["gTimerDeferred"]
<1>5. /\ Holds(d, h) /\ Sorted(fExpiryTime, s) /\ s \in Seq(Msg) /\ Len(s) # 0
      /\ m = s[1] /\ m \in Msg /\ d.fContainer[m] = "gTimerEngine"
      /\ \A x \in Msg : d.fContainer[x] = "gTimerEngine" => fExpiryTime[m] <= fExpiryTime[x]
  BY <1>2, <1>3, EngineFacts
<1>6. d.fContainer \in [Msg -> Queues \cup {None}]
  BY <1>5, QFields DEF Holds
<1> HIDE DEF m
<1> DEFINE Others == \A x \in Msg : x # m => d'.fContainer[x] = d.fContainer[x]
<1>7. ASSUME fExpiryTime[m] <= clock PROVE ClockStep /\ Others /\ \E g : InOrder(g)'
  <2> DEFINE r == Q!Remove(d, "gTimerEngine")
             k == [h EXCEPT !["gTimerEngine"] = Del(s, 1)]
  <2>1. Holds(r, k) /\ r.fContainer = [d.fContainer EXCEPT ![m] = None]
    BY <1>5, HoldsRemove DEF Queues
  <2>2. d' = Q!Add(r, "gTimerDeferred", m)
    BY <1>1, <1>7 DEF Fired
  <2>3. k["gTimerEngine"] = Del(s, 1) /\ k["gTimerDeferred"] = e
    BY <1>5 DEF Holds, Queues
  <2>4. r.fContainer[m] = None
    BY <1>5, <1>6, <2>1
  <2> HIDE DEF r, k
  <2>5. /\ Holds(d', [k EXCEPT !["gTimerDeferred"] = Ins(e, Len(e) + 1, m)])
        /\ d'.fContainer = [r.fContainer EXCEPT ![m] = "gTimerDeferred"]
    BY <1>5, <2>1, <2>2, <2>3, <2>4, HoldsAdd DEF Queues
  <2>6. PICK g : /\ Holds(d', g) /\ g["gTimerEngine"] = Del(s, 1)
                 /\ g["gTimerDeferred"] = Ins(e, Len(e) + 1, m)
    <3> DEFINE g == [k EXCEPT !["gTimerDeferred"] = Ins(e, Len(e) + 1, m)]
    <3>1. /\ Holds(d', g) /\ g["gTimerEngine"] = Del(s, 1)
          /\ g["gTimerDeferred"] = Ins(e, Len(e) + 1, m)
      BY <2>1, <2>3, <2>5 DEF Holds, Queues
    <3> HIDE DEF g
    <3>2. QED
      BY <3>1
  <2>7. \A x \in Msg : d'.fContainer[x] = IF x = m THEN "gTimerDeferred" ELSE d.fContainer[x]
    BY <1>6, <2>1, <2>5
  <2>8. InOrder(g)'
    <3>1. 1 \in 1 .. Len(s)
      BY <1>5
    <3>2. Sorted(fExpiryTime, Del(s, 1))
      BY <1>4, <1>5, <3>1, SortedDel
    <3>3. QED
      BY <1>1, <2>6, <3>2 DEF InOrder
  <2>9. Ended' = Ins(e, Len(e) + 1, m)
    BY <2>6, AfterFacts
  <2>10. ClockStep
    <3>1. Ended = e /\ e \in Seq(Msg)
      BY <1>2, DeferredFacts
    <3>2. Ended' = Append(Ended, m)
      BY <1>5, <2>9, <3>1, InsDelEnds
    <3>3. Due[m] = fExpiryTime[m] /\ fExpiryTime[m] # None
      BY <1>4, <1>5 DEF Due
    <3>4. Due' = [Due EXCEPT ![m] = None]
      BY <1>1, <2>7 DEF Due
    <3>5. \A x \in Msg : Due[x] # None => Due[m] <= Due[x]
      BY <1>5, <3>3 DEF Due
    <3>6. Clock!Next
      BY <1>1, <1>5, <1>7, <3>2, <3>3, <3>4, <3>5 DEF Clock!Next, Clock!Expire, Due, Ended
    <3>7. QED
      BY <3>6 DEF ClockStep
  <2>11. QED
    BY <2>7, <2>8, <2>10
<1>8. ASSUME ~(fExpiryTime[m] <= clock) PROVE ClockStep /\ Others /\ \E g : InOrder(g)'
  <2>1. d' = d
    BY <1>1, <1>8
  <2>2. Due' = Due /\ Ended' = Ended /\ InOrder(h)'
    BY <1>1, <1>2, <2>1 DEF Due, Ended, InOrder
  <2>3. QED
    BY <1>1, <2>1, <2>2 DEF ClockStep
<1>9. PICK g : InOrder(g)'
  BY <1>7, <1>8
<1>10. /\ next # None => next \in Msg
  <2>1. /\ Holds(d', g) /\ "gTimerEngine" \in Queues
    BY <1>9 DEF InOrder, Queues
  <2>2. /\ Len(g["gTimerEngine"]) \in Nat
        /\ \A i \in 1 .. Len(g["gTimerEngine"]) : g["gTimerEngine"][i] \in Msg
    BY <2>1, HoldsFacts
  <2>3. Len(g["gTimerEngine"]) # 0 => 1 \in 1 .. Len(g["gTimerEngine"])
    BY <2>2
  <2>4. QED
    BY <2>1, <2>2, <2>3, AfterFacts
<1> HIDE DEF next
<1>11. /\ hw' \in [alarmAt : Nat \cup {None}, raised : BOOLEAN]
       /\ isSet => hw'.alarmAt = fExpiryTime[next] /\ fExpiryTime[next] \in Nat
  <2>1. CASE isSet
    <3>1. fExpiryTime[next] \in Nat /\ SetAlarm(fExpiryTime[next])
      BY <1>1, <1>4, <1>10, <2>1
    <3>2. QED
      BY <1>3, <3>1, AlarmTypes
  <2>2. CASE ~isSet
    BY <1>1, <1>3, <2>2 DEF TypeOK
  <2>3. QED
    BY <2>1, <2>2
<1>12. TypeOK'
  BY <1>1, <1>3, <1>11 DEF TypeOK
<1>13. swi' \in Msg => d'.fContainer[swi'] = None
  <2>1. swi \in Msg => d.fContainer[swi] = None /\ swi # m
    BY <1>5 DEF Inv
  <2>2. \A x \in Msg : x # m => d'.fContainer[x] = d.fContainer[x]
    BY <1>7, <1>8
  <2>3. QED
    BY <1>1, <2>1, <2>2
<1>14. Inv'
  BY <1>1, <1>9, <1>12, <1>13 DEF Inv, next
<1>15. Armed'
  <2>1. CASE isSet
    <3>1. hw'.alarmAt = fExpiryTime'[First(d')] /\ hw'.alarmAt \in Nat
      BY <1>1, <1>11, <2>1 DEF next
    <3>2. hw'.alarmAt # None /\ hw'.alarmAt <= fExpiryTime'[First(d')]
      BY <3>1
    <3>3. QED
      BY <3>2 DEF Armed
  <2>2. CASE ~isSet
    BY <1>1, <2>2 DEF Armed, next
  <2>3. QED
    BY <2>1, <2>2
<1>16. QED
  BY <1>7, <1>8, <1>14, <1>15 DEF Kept

\* remove takes a message that has ended back.
LEMMA RemoveEnded ==
  ASSUME Inv, NEW m \in Msg, Remove(m), d.fContainer[m] = "gTimerDeferred"
  PROVE  Kept
<1>1. /\ clock' = clock /\ fExpiryTime' = fExpiryTime /\ swi' = "leaves"
      /\ d' = Q!RemoveFromQueue(d, "gTimerDeferred", m) /\ hw' = hw /\ alarming' = alarming
  BY DEF Remove
<1>2. PICK h : InOrder(h)
  BY DEF Inv
<1>3. TypeOK /\ swi' \notin Msg
  BY <1>1 DEF Inv
<1> DEFINE e == h["gTimerDeferred"]
<1>4. /\ Holds(d, h) /\ Ended = e /\ e \in Seq(Msg)
      /\ \E i \in 1 .. Len(e) : e[i] = m
  BY <1>2, DeferredFacts
<1>5. PICK p \in 1 .. Len(e) : e[p] = m
  BY <1>4
<1>6. /\ Holds(d', [h EXCEPT !["gTimerDeferred"] = Del(e, p)])
      /\ d'.fContainer = [d.fContainer EXCEPT ![m] = None]
  <2> DEFINE c == "gTimerDeferred"
             r == Q!RemoveFromQueue(d, c, h[c][p])
  <2>1. c \in Queues /\ d' = r
    BY <1>1, <1>5 DEF Queues
  <2>2. p \in 1 .. Len(h[c])
    OBVIOUS
  <2> HIDE DEF c
  <2>3. Holds(r, [h EXCEPT ![c] = Del(h[c], p)]) /\ r.fContainer = [d.fContainer EXCEPT ![h[c][p]] = None]
    <3>1. Holds(d, h)
      BY <1>4
    <3>2. QED
      BY ONLY <2>1, <2>2, <3>1, HoldsRemoveFromQueue
  <2> HIDE DEF r
  <2>4. QED
    BY <1>5, <2>1, <2>3 DEF c
<1>7. PICK g : /\ Holds(d', g) /\ g["gTimerEngine"] = h["gTimerEngine"]
               /\ g["gTimerDeferred"] = Del(e, p)
  <2> DEFINE g == [h EXCEPT !["gTimerDeferred"] = Del(e, p)]
  <2>1. Holds(d', g) /\ g["gTimerEngine"] = h["gTimerEngine"] /\ g["gTimerDeferred"] = Del(e, p)
    BY <1>4, <1>6 DEF Holds, Queues
  <2> HIDE DEF g
  <2>2. QED
    BY <2>1
<1>8. d.fContainer \in [Msg -> Queues \cup {None}]
  BY <1>4, QFields DEF Holds
<1>9. \A x \in Msg : d'.fContainer[x] = "gTimerEngine" <=> d.fContainer[x] = "gTimerEngine"
  BY <1>6, <1>8
<1>10. InOrder(g)'
  BY <1>1, <1>2, <1>7 DEF InOrder
<1>11. First(d') = First(d) /\ Ended' = Del(e, p)
  BY <1>2, <1>3, <1>7, AfterFacts, EngineFacts
<1>12. TypeOK'
  BY <1>1, <1>3 DEF TypeOK
<1>13. Inv'
  <2>1. alarming' => First(d') # None
    BY <1>1, <1>11 DEF Inv
  <2>2. QED
    BY <1>3, <1>10, <1>12, <2>1 DEF Inv
<1>14. Armed => Armed'
  BY <1>1, <1>11 DEF Armed
<1>15. ClockStep
  <2>1. Due' = Due /\ Due = [Due EXCEPT ![m] = None]
    BY <1>1, <1>9 DEF Due
  <2>2. \E i \in DOMAIN Ended : Ended[i] = m /\ Ended' = Clock!Drop(Ended, i)
    BY <1>4, <1>5, <1>11 DEF Clock!Drop, Del
  <2>3. Clock!Next
    BY <1>1, <2>1, <2>2 DEF Clock!Next, Clock!Cancel, Due, Ended
  <2>4. QED
    BY <2>3 DEF ClockStep
<1>16. QED
  BY <1>13, <1>14, <1>15 DEF Kept

\* remove takes a message that waits back: the next one, which alarm() sees
\* to, or any other.
LEMMA RemoveWaiting ==
  ASSUME Inv, NEW m \in Msg, Remove(m), d.fContainer[m] = "gTimerEngine"
  PROVE  Kept
<1>1. /\ clock' = clock /\ fExpiryTime' = fExpiryTime /\ swi' = "leaves"
      /\ IF First(d) = m THEN Alarm(Q!Remove(d, "gTimerEngine"))
         ELSE d' = Q!RemoveFromQueue(d, "gTimerEngine", m) /\ hw' = hw /\ alarming' = alarming
  BY DEF Remove
<1>2. PICK h : InOrder(h)
  BY DEF Inv
<1>3. TypeOK /\ swi' \notin Msg
  BY <1>1 DEF Inv
<1> DEFINE s == h["gTimerEngine"]
<1>4. /\ Holds(d, h) /\ Sorted(fExpiryTime, s) /\ s \in Seq(Msg) /\ Len(s) \in Nat
      /\ First(d) = IF Len(s) = 0 THEN None ELSE s[1]
  BY <1>2, <1>3, EngineFacts
<1>5. PICK p \in 1 .. Len(s) : s[p] = m
  BY <1>4, HoldsFacts DEF Queues
<1>6. /\ First(d) = s[1] /\ 1 \in 1 .. Len(s) /\ Len(s) # 0
      /\ First(d) = m <=> p = 1
  <2>1. First(d) = s[1] /\ 1 \in 1 .. Len(s) /\ Len(s) # 0
    BY <1>4, <1>5
  <2>2. s[1] = s[p] => p = 1
    BY <1>4, <2>1, HoldsFacts DEF Queues
  <2>3. QED
    BY <1>5, <2>1, <2>2
<1>7. /\ Holds(d', [h EXCEPT !["gTimerEngine"] = Del(s, p)])
      /\ d'.fContainer = [d.fContainer EXCEPT ![m] = None]
  <2>1. CASE p = 1
    <3>1. d' = Q!Remove(d, "gTimerEngine")
      BY <1>1, <1>6, <2>1 DEF Alarm
    <3>2. /\ Holds(d', [h EXCEPT !["gTimerEngine"] = Del(s, 1)])
          /\ d'.fContainer = [d.fContainer EXCEPT ![s[1]] = None]
      BY <1>4, <1>6, <3>1, HoldsRemove DEF Queues
    <3>3. QED
      BY <1>5, <2>1, <3>2
  <2>2. CASE p # 1
    <3>1. d' = Q!RemoveFromQueue(d, "gTimerEngine", s[p])
      BY <1>1, <1>5, <1>6, <2>2
    <3>2. /\ Holds(d', [h EXCEPT !["gTimerEngine"] = Del(s, p)])
          /\ d'.fContainer = [d.fContainer EXCEPT ![s[p]] = None]
      <4> DEFINE c == "gTimerEngine"
                 r == Q!RemoveFromQueue(d, c, h[c][p])
      <4>1. c \in Queues /\ d' = r
        BY <3>1 DEF Queues
      <4>2. p \in 1 .. Len(h[c])
        OBVIOUS
      <4> HIDE DEF c
      <4>3. /\ Holds(r, [h EXCEPT ![c] = Del(h[c], p)])
            /\ r.fContainer = [d.fContainer EXCEPT ![h[c][p]] = None]
        BY SMTT(30), <1>4, <4>1, <4>2, HoldsRemoveFromQueue
      <4> HIDE DEF r
      <4>4. QED
        BY <4>1, <4>3 DEF c
    <3>3. QED
      BY <1>5, <3>2
  <2>3. QED
    BY <2>1, <2>2
<1>8. PICK g : /\ Holds(d', g) /\ g["gTimerEngine"] = Del(s, p)
               /\ g["gTimerDeferred"] = h["gTimerDeferred"]
  <2> DEFINE g == [h EXCEPT !["gTimerEngine"] = Del(s, p)]
  <2>1. Holds(d', g) /\ g["gTimerEngine"] = Del(s, p) /\ g["gTimerDeferred"] = h["gTimerDeferred"]
    BY <1>4, <1>7 DEF Holds, Queues
  <2> HIDE DEF g
  <2>2. QED
    BY <2>1
<1>9. d.fContainer \in [Msg -> Queues \cup {None}]
  BY <1>4, QFields DEF Holds
<1>10. InOrder(g)'
  <2>1. fExpiryTime \in [Msg -> Nat]
    BY <1>3 DEF TypeOK
  <2>2. Sorted(fExpiryTime, Del(s, p))
    BY <1>4, <2>1, SortedDel
  <2>3. QED
    BY <1>1, <1>8, <2>2 DEF InOrder
<1>11. /\ Ended' = h["gTimerDeferred"]
       /\ First(d') = IF Len(Del(s, p)) = 0 THEN None ELSE Del(s, p)[1]
  BY <1>8, AfterFacts
<1>12. ClockStep
  <2>1. Ended = h["gTimerDeferred"] /\ \A i \in DOMAIN Ended : Ended[i] # m
    <3>1. /\ Ended = h["gTimerDeferred"] /\ Ended \in Seq(Msg)
          /\ \A i \in 1 .. Len(Ended) : Ended[i] \in Msg /\ d.fContainer[Ended[i]] = "gTimerDeferred"
      BY <1>2, DeferredFacts
    <3>2. QED
      BY <3>1
  <2>2. Due' = [Due EXCEPT ![m] = None]
    BY <1>1, <1>7, <1>9 DEF Due
  <2>3. Ended' = Ended
    BY <1>11, <2>1
  <2>4. Clock!Next
    BY <1>1, <2>1, <2>2, <2>3 DEF Clock!Next, Clock!Cancel, Due, Ended
  <2>5. QED
    BY <2>4 DEF ClockStep
<1>13. CASE p = 1
  <2>1. /\ alarming' = (First(d') # None)
        /\ ClearAlarm \/ hw' = hw
    BY <1>1, <1>6, <1>13 DEF Alarm
  <2>2. hw' \in [alarmAt : Nat \cup {None}, raised : BOOLEAN]
    <3>1. 0 \in Nat
      OBVIOUS
    <3>2. QED
      BY <1>3, <2>1, <3>1, AlarmTypes
  <2>3. TypeOK'
    BY <1>1, <1>3, <2>1, <2>2 DEF TypeOK
  <2>4. Inv' /\ Armed'
    BY <1>3, <1>10, <2>1, <2>3 DEF Inv, Armed
  <2>5. QED
    BY <1>12, <2>4 DEF Kept
<1>14. CASE p # 1
  <2>1. hw' = hw /\ alarming' = alarming
    BY <1>1, <1>6, <1>14
  <2>2. First(d') = First(d)
    <3> HIDE DEF s
    <3>1. 1 < p /\ p <= Len(s) /\ p \in Int /\ Len(s) \in Int
      BY <1>4, <1>14
    <3>2. /\ Len(Del(s, p)) = Len(s) - 1
          /\ \A i \in 1 .. Len(s) : i < p => Del(s, p)[i] = s[i]
      BY <1>4, DelFacts
    <3>4. Len(Del(s, p)) # 0
      BY <3>1, <3>2
    <3>5. Del(s, p)[1] = s[1]
      BY <1>6, <3>1, <3>2
    <3>3. QED
      BY <1>6, <1>11, <3>4, <3>5
  <2>3. TypeOK'
    BY <1>1, <1>3, <2>1 DEF TypeOK
  <2>4. Inv'
    <3>1. alarming' => First(d') # None
      BY <2>1, <2>2 DEF Inv
    <3>2. QED
      BY <1>3, <1>10, <2>3, <3>1 DEF Inv
  <2>5. Armed => Armed'
    BY <1>1, <2>1, <2>2 DEF Armed
  <2>6. QED
    BY <1>12, <2>4, <2>5 DEF Kept
<1>15. QED
  BY <1>13, <1>14

\* remove of a message that no queue holds does nothing.
LEMMA RemoveNothing ==
  ASSUME Inv, NEW m \in Msg, Remove(m), d.fContainer[m] = None
  PROVE  Kept
<1>1. PICK h : InOrder(h)
  BY DEF Inv
<1>2. TypeOK
  BY DEF Inv
<1>3. First(d) # m
  BY <1>1, <1>2, EngineFacts
<1>4. /\ clock' = clock /\ fExpiryTime' = fExpiryTime /\ swi' = "leaves"
      /\ d' = Q!RemoveFromQueue(d, "gTimerEngine", m) /\ hw' = hw /\ alarming' = alarming
  BY <1>3 DEF Remove
<1>5. d' = d /\ swi' \notin Msg
  BY <1>4 DEF Q!RemoveFromQueue
<1>6. (\E g : InOrder(g))' /\ First(d') = First(d) /\ Due' = Due /\ Ended' = Ended
  BY <1>4, <1>5, QueuesStay
<1>7. TypeOK'
  BY <1>2, <1>4, <1>5 DEF TypeOK
<1>8. Inv'
  <2>1. alarming' => First(d') # None
    BY <1>4, <1>6 DEF Inv
  <2>2. QED
    BY <1>5, <1>6, <1>7, <2>1 DEF Inv
<1>9. Armed => Armed'
  BY <1>4, <1>6 DEF Armed
<1>10. ClockStep
  BY <1>4, <1>6 DEF ClockStep
<1>11. QED
  BY <1>8, <1>9, <1>10 DEF Kept

\* Every step is one of these.
LEMMA NextStep == Inv /\ [Next]_vars => Kept
<1> SUFFICES ASSUME Inv, [Next]_vars PROVE Kept
  OBVIOUS
<1>1. ASSUME NEW m \in Msg, Remove(m) PROVE Kept
  <2>1. d.fContainer[m] \in {"gTimerEngine", "gTimerDeferred", None}
    <3>1. PICK h : InOrder(h)
      BY DEF Inv
    <3>2. QED
      BY <3>1, QFields DEF InOrder, Holds, Queues
  <2>2. QED
    BY <1>1, <2>1, RemoveEnded, RemoveWaiting, RemoveNothing
<1>2. ASSUME NEW m \in Msg, NEW time \in 1 .. MaxTime, Start(m, time) PROVE Kept
  BY <1>2, StartStep
<1>3. CASE UNCHANGED vars
  <2>1. /\ clock' = clock /\ d' = d /\ fExpiryTime' = fExpiryTime /\ hw' = hw
        /\ alarming' = alarming /\ swi' = swi
    BY <1>3 DEF vars
  <2>2. (\E g : InOrder(g))' /\ First(d') = First(d) /\ Due' = Due /\ Ended' = Ended
    BY <2>1, QueuesStay
  <2>3. Inv'
    BY <2>1, <2>2 DEF Inv, TypeOK
  <2>4. Armed => Armed'
    BY <2>1, <2>2 DEF Armed
  <2>5. QED
    BY <2>1, <2>2, <2>3, <2>4 DEF Kept, ClockStep
<1>4. QED
  BY <1>1, <1>2, <1>3, FinishStartStep, EndSWIStep, AlarmLoopStep, NotifyStep, AlarmGoesOffStep,
     TimerInterruptHandlerStep, TickStep DEF Next

-----------------------------------------------------------------------------
(* The theorems.                                                           *)

\* The two queues thread their own messages, whatever SWIs, interrupts and
\* deferrals do to the links that they share (queue, remove, alarm,
\* DeferredNotify; CDoubleQContainer).
THEOREM TimerThreaded == Spec => []Threaded
<1>1. Init => Inv
  BY InitInv
<1>2. Inv /\ [Next]_vars => Inv'
  BY NextStep DEF Kept
<1>3. Inv => Threaded
  <2> SUFFICES ASSUME Inv PROVE Threaded
    OBVIOUS
  <2>1. PICK h : InOrder(h)
    BY DEF Inv
  <2>2. \A c \in Queues : Q!Threads(d, c)
    BY <2>1, HoldsFacts DEF InOrder
  <2>3. QED
    BY <2>2 DEF Threaded, Queues
<1>4. QED
  BY <1>1, <1>2, <1>3, PTL DEF Spec

\* On hardware that keeps its interrupts the one alarm serves every message
\* that waits (queue, alarm, remove, TimerInterruptHandler).
THEOREM TimerAlarmArmed ==
  ASSUME ~OnHost
  PROVE  Spec => []AlarmArmed
<1>1. Init => Inv /\ Armed
  BY InitInv
<1>2. Inv /\ Armed /\ [Next]_vars => (Inv /\ Armed)'
  BY NextStep DEF Kept
<1>3. Inv /\ Armed => AlarmArmed
  <2> SUFFICES ASSUME Inv, Armed, NEW m \in Msg, d.fContainer[m] = "gTimerEngine"
               PROVE  hw.raised \/ alarming \/ (hw.alarmAt # None /\ hw.alarmAt <= fExpiryTime[m])
    BY DEF AlarmArmed
  <2>1. PICK h : InOrder(h)
    BY DEF Inv
  <2>2. TypeOK
    BY DEF Inv
  <2>3. First(d) # None
    <3>1. /\ First(d) = None <=> Len(h["gTimerEngine"]) = 0
      BY <2>1, <2>2, EngineFacts
    <3>2. \E i \in 1 .. Len(h["gTimerEngine"]) : h["gTimerEngine"][i] = m
      BY <2>1, HoldsFacts DEF InOrder, Queues
    <3>3. Len(h["gTimerEngine"]) # 0
      BY <3>2
    <3>4. QED
      BY <3>1, <3>3
  <2>4. First(d) \in Msg /\ fExpiryTime[First(d)] <= fExpiryTime[m]
    BY <2>1, <2>2, <2>3, EngineFacts
  <2>5. /\ fExpiryTime[First(d)] \in Nat /\ fExpiryTime[m] \in Nat
        /\ hw.alarmAt \in Nat \cup {None}
    BY <2>2, <2>4 DEF TypeOK
  <2>6. QED
    BY <2>3, <2>4, <2>5 DEF Armed
<1>4. QED
  BY <1>1, <1>2, <1>3, PTL DEF Spec

\* The engine is an alarm clock: a message ends after its time has come, after
\* all that asked for an earlier one, and once (alarm, queue and remove).
THEOREM TimerIsAlarmClock == Spec => IsAlarmClock
<1>1. Init => Inv
  BY InitInv
<1>2. Inv /\ [Next]_vars => Inv' /\ ClockStep
  BY NextStep DEF Kept
<1>3. Init => Clock!Init
  <2> SUFFICES ASSUME Init PROVE Clock!Init
    OBVIOUS
  <2>1. clock = 0 /\ d = Q!Empty
    BY DEF Init
  <2>2. \A m \in Msg : d.fContainer[m] = None
    BY <2>1 DEF Q!Empty
  <2>3. Due = [m \in Msg |-> None]
    BY <2>2 DEF Due
  <2>4. Ended = <<>>
    <3>1. PICK h : InOrder(h)
      BY InitInv DEF Inv
    <3>2. Ended \in Seq(Msg) /\ \A i \in 1 .. Len(Ended) :
            Ended[i] \in Msg /\ d.fContainer[Ended[i]] = "gTimerDeferred"
      BY <3>1, DeferredFacts
    <3>3. Len(Ended) = 0
      <4>1. Len(Ended) \in Nat /\ \A i \in 1 .. Len(Ended) : FALSE
        BY <2>2, <3>2
      <4>2. QED
        BY <4>1
    <3>4. QED
      BY <3>2, <3>3
  <2>5. QED
    BY <2>1, <2>3, <2>4 DEF Clock!Init, Due, Ended
<1>4. ClockStep => [Clock!Next]_<<clock, Due, Ended>>
  BY DEF ClockStep
<1>5. QED
  BY <1>1, <1>2, <1>3, <1>4, PTL DEF Spec, IsAlarmClock, Clock!Spec, Due, Ended
=============================================================================
