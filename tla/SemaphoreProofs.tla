--------------------------- MODULE SemaphoreProofs ---------------------------
(***************************************************************************)
(* Proofs about KernelSemaphore, for every set of tasks, every group of    *)
(* semaphores and every client program, and about the exclusion of         *)
(* CURdWrSemaphore, for every finite set of tasks, whatever programs share *)
(* the group, and on machines of either byte order.                        *)
(*                                                                         *)
(* SemInv is inductive.  It says what OnePlace says with one family of     *)
(* wait queues, Line, in place of the two arrays, and adds why a task that *)
(* waits for an increase cannot go on.                                     *)
(*                                                                         *)
(* The lock keeps its holders in two semaphores.  A step of the group      *)
(* either leaves all values or performs one list, and the semaphores count *)
(* at least the tasks whose labels say that they hold the lock.            *)
(***************************************************************************)
EXTENDS RdWrSemaphore, CSchedulerLemmas, FiniteSetTheorems

USE SchedulerAssumption, ProgramAssumption

-----------------------------------------------------------------------------
(* Numbers.                                                                *)

\* A set of numbers has a least one.
LEMMA LeastNumber ==
  ASSUME NEW T \in SUBSET Nat, T # {}
  PROVE  \E n \in T : \A m \in T : n <= m
<1>1. IsWellFoundedOn(OpToRel(<, Nat), Nat)
  BY NatLessThanWellFounded
<1>2. PICK n \in T : \A m \in T : ~(<<m, n>> \in OpToRel(<, Nat))
  BY <1>1, WFMin
<1>3. \A m \in T : ~(m < n)
  BY <1>2 DEF OpToRel
<1>4. QED
  BY <1>3

\* So what holds at 0 and is passed on holds up to any n.
LEMMA UpTo ==
  ASSUME NEW n \in Nat, NEW T \in SUBSET (0..n), 0 \in T,
         \A i \in 1..n : i - 1 \in T => i \in T
  PROVE  T = 0..n
<1>1. SUFFICES ASSUME T # 0..n PROVE FALSE
  OBVIOUS
<1> DEFINE U == (0..n) \ T
<1>2. U # {} /\ U \in SUBSET Nat
  <2>1. \E i \in 0..n : i \notin T
    BY <1>1, Zenon
  <2>2. \A i \in 0..n : i \in Nat
    OBVIOUS
  <2>3. QED
    BY <2>1, <2>2
<1>3. PICK i \in U : \A m \in U : i <= m
  BY <1>2, LeastNumber
<1>4. i \in 1..n /\ i - 1 \in 0..n /\ ~(i <= i - 1)
  BY <1>3
<1>5. i - 1 \in T
  BY <1>3, <1>4
<1>6. QED
  BY <1>3, <1>4, <1>5

\* The greatest of the first numbers.
LEMMA MaxUpTo ==
  ASSUME NEW n \in Nat, NEW T \in SUBSET (1..n), T # {}
  PROVE  /\ Max(T) \in T
         /\ \A y \in T : Max(T) >= y
<1> DEFINE U == {n - i : i \in T}
<1>1. U \in SUBSET Nat /\ U # {}
  <2>1. \A i \in T : n - i \in Nat
    OBVIOUS
  <2>2. PICK i \in T : TRUE
    OBVIOUS
  <2>3. n - i \in U
    BY <2>2
  <2>4. QED
    BY <2>1, <2>3
<1>2. PICK k \in U : \A m \in U : k <= m
  BY <1>1, LeastNumber
<1>3. PICK x \in T : k = n - x
  BY <1>2
<1>4. \A y \in T : n - y \in U
  OBVIOUS
<1>5. ASSUME NEW y \in T PROVE x >= y
  <2>1. k <= n - y
    BY <1>2, <1>4
  <2>2. n \in Int /\ x \in Int /\ y \in Int
    OBVIOUS
  <2>3. QED
    BY <1>3, <2>1, <2>2
<1>6. \E z \in T : \A y \in T : z >= y
  BY <1>5
<1>7. QED
  BY <1>6 DEF Max

\* What a sequence holds.
LEMMA SeqElements ==
  ASSUME NEW S, NEW q \in Seq(S)
  PROVE  Len(q) \in Nat /\ DOMAIN q = 1..Len(q) /\ \A i \in 1..Len(q) : q[i] \in S
OBVIOUS

-----------------------------------------------------------------------------
(* The recursive definitions of the model have the values their equations  *)
(* say.                                                                    *)

\* The sum of the operations on n, operation by operation.
LEMMA AddedStep ==
  ASSUME NEW list \in Seq([num : Nat, op : Int]), NEW n
  PROVE  /\ Added(list, 1, n) = 0
         /\ \A i \in 1..Len(list) :
              Added(list, i + 1, n)
                = Added(list, i, n) + (IF list[i].num = n THEN list[i].op ELSE 0)
         /\ \A i \in 1..(Len(list) + 1) : Added(list, i, n) \in Int
<1> DEFINE L == Len(list)
           val(j) == IF list[j].num = n THEN list[j].op ELSE 0
           IsSum(f, k) == f = [j \in 0..k |-> IF j = 0 THEN 0 ELSE f[j - 1] + val(j)]
           T == {k \in 0..L : \E f : IsSum(f, k)}
<1>1. L \in Nat /\ \A j \in 1..L : val(j) \in Int
  <2>1. L \in Nat /\ \A j \in 1..L : list[j] \in [num : Nat, op : Int]
    BY SeqElements
  <2>2. QED
    BY <2>1
<1>2. 0 \in T
  <2>1. IsSum([j \in 0..0 |-> 0], 0)
    OBVIOUS
  <2> HIDE DEF IsSum
  <2>2. QED
    BY <1>1, <2>1
<1> HIDE DEF val
<1>3. ASSUME NEW k \in 1..L, k - 1 \in T PROVE k \in T
  <2>1. PICK f : IsSum(f, k - 1)
    BY <1>3
  <2> DEFINE g == [j \in 0..k |-> IF j = k THEN f[k - 1] + val(k) ELSE f[j]]
  <2>2. \A j \in 0..(k - 1) : f[j] = IF j = 0 THEN 0 ELSE f[j - 1] + val(j)
    BY <2>1
  <2>3. \A j \in 0..k : g[j] = IF j = 0 THEN 0 ELSE g[j - 1] + val(j)
    <3>1. ASSUME NEW j \in 0..k PROVE g[j] = IF j = 0 THEN 0 ELSE g[j - 1] + val(j)
      <4>1. CASE j = k
        BY <1>1, <4>1
      <4>2. CASE j # k
        <5>1. j \in 0..(k - 1) /\ (j # 0 => j - 1 \in 0..(k - 1))
          BY <1>1, <4>2
        <5>2. QED
          BY <2>2, <4>2, <5>1
      <4>3. QED
        BY <4>1, <4>2
    <3>2. QED
      BY <3>1
  <2> HIDE DEF g
  <2>4. g = [j \in 0..k |-> g[j]]
    BY DEF g
  <2>5. IsSum(g, k)
    BY <2>3, <2>4
  <2> HIDE DEF IsSum
  <2>6. QED
    BY <1>1, <2>5
<1> HIDE DEF T
<1>4. T = 0..L
  <2>1. T \in SUBSET (0..L)
    BY DEF T
  <2>2. QED
    BY <1>1, <1>2, <1>3, <2>1, UpTo
<1>5. \E f : IsSum(f, L)
  <2> HIDE DEF IsSum
  <2>1. L \in T
    BY <1>1, <1>4
  <2>2. QED
    BY <2>1 DEF T
<1> DEFINE sum == CHOOSE f : IsSum(f, L)
<1>6. IsSum(sum, L)
  BY <1>5
<1>7. \A i : Added(list, i, n) = sum[i - 1]
  BY DEF Added, val
<1> HIDE DEF sum
<1>8. \A j \in 0..L : sum[j] = IF j = 0 THEN 0 ELSE sum[j - 1] + val(j)
  BY <1>6
<1> DEFINE V == {j \in 0..L : sum[j] \in Int}
<1>9. 0 \in V
  BY <1>1, <1>8
<1>10. ASSUME NEW i \in 1..L, i - 1 \in V PROVE i \in V
  BY <1>1, <1>8, <1>10
<1> HIDE DEF V
<1>11. V = 0..L
  <2>1. V \in SUBSET (0..L)
    BY DEF V
  <2>2. QED
    BY <1>1, <1>9, <1>10, <2>1, UpTo
<1>12. \A i \in 1..(L + 1) : Added(list, i, n) \in Int
  <2>1. \A i \in 1..(L + 1) : i - 1 \in 0..L
    BY <1>1
  <2>2. QED
    BY SMTT(30), <1>7, <1>11, <2>1 DEF V
<1>13. Added(list, 1, n) = 0
  BY <1>1, <1>7, <1>8
<1>14. ASSUME NEW i \in 1..L PROVE Added(list, i + 1, n) = Added(list, i, n) + val(i)
  <2>1. i \in 0..L /\ i # 0 /\ (i + 1) - 1 = i
    BY <1>1
  <2>2. QED
    BY <1>7, <1>8, <2>1
<1>15. QED
  BY <1>12, <1>13, <1>14 DEF val
\* The sum along a list of operations that do not add to n.
LEMMA AddedAtMostZero ==
  ASSUME NEW list \in Seq([num : Nat, op : Int]), NEW n,
         \A i \in 1..Len(list) : list[i].num = n => list[i].op <= 0
  PROVE  Added(list, Len(list) + 1, n) <= 0
<1> DEFINE L == Len(list)
           V == {j \in 0..L : Added(list, j + 1, n) <= 0}
<1>1. L \in Nat /\ \A i \in 1..L : list[i].op \in Int
  <2>1. L \in Nat /\ \A j \in 1..L : list[j] \in [num : Nat, op : Int]
    BY SeqElements
  <2>2. QED
    BY <2>1
<1>2. 0 \in V
  BY <1>1, AddedStep
<1>3. ASSUME NEW i \in 1..L, i - 1 \in V PROVE i \in V
  <2>1. /\ Added(list, (i - 1) + 1, n) <= 0
        /\ (i - 1) + 1 = i
        /\ i \in 1..(L + 1)
        /\ i \in 0..L
    BY <1>1, <1>3
  <2>2. /\ Added(list, i, n) \in Int
        /\ Added(list, i + 1, n)
             = Added(list, i, n) + (IF list[i].num = n THEN list[i].op ELSE 0)
    BY <2>1, AddedStep
  <2>3. Added(list, i + 1, n) <= 0
    BY SMTT(30), <1>1, <2>1, <2>2
  <2>4. QED
    BY <2>1, <2>3
<1>4. V = 0..L
  <2>1. V \in SUBSET (0..L)
    OBVIOUS
  <2> HIDE DEF V
  <2>2. QED
    BY <1>1, <1>2, <1>3, <2>1, UpTo
<1>5. L \in V
  <2> HIDE DEF V
  <2>1. QED
    BY <1>1, <1>4
<1>6. QED
  BY <1>5

\* The sum along a list that does not name n.
LEMMA AddedNothing ==
  ASSUME NEW list \in Seq([num : Nat, op : Int]), NEW n,
         \A i \in 1..Len(list) : list[i].num # n
  PROVE  Added(list, Len(list) + 1, n) = 0
<1> DEFINE L == Len(list)
           V == {j \in 0..L : Added(list, j + 1, n) = 0}
<1>1. L \in Nat
  BY SeqElements
<1>2. 0 \in V
  BY <1>1, AddedStep
<1>3. ASSUME NEW i \in 1..L, i - 1 \in V PROVE i \in V
  <2>1. /\ Added(list, (i - 1) + 1, n) = 0
        /\ (i - 1) + 1 = i
        /\ i \in 0..L
    BY <1>1, <1>3
  <2>2. Added(list, i + 1, n)
          = Added(list, i, n) + (IF list[i].num = n THEN list[i].op ELSE 0)
    BY AddedStep
  <2>3. Added(list, i + 1, n) = 0
    BY <2>1, <2>2
  <2>4. QED
    BY <2>1, <2>3
<1>4. V = 0..L
  <2>1. V \in SUBSET (0..L)
    OBVIOUS
  <2> HIDE DEF V
  <2>2. QED
    BY <1>1, <1>2, <1>3, <2>1, UpTo
<1>5. L \in V
  <2> HIDE DEF V
  <2>1. QED
    BY <1>1, <1>4
<1>6. QED
  BY <1>5

\* A list that is not stopped leaves no value below zero.
LEMMA DoneNotNegative ==
  ASSUME NEW list \in Seq([num : Nat, op : Int]),
         NEW v \in [Sem -> Nat], Blocking(v, list) = {}, NEW n \in Sem
  PROVE  Applied(v, list, Len(list) + 1)[n] \in Nat
<1> DEFINE L == Len(list)
           V == {j \in 0..L : v[n] + Added(list, j + 1, n) >= 0}
<1>1. L \in Nat /\ DOMAIN list = 1..L /\ \A i \in 1..L : list[i].op \in Int
  <2>1. L \in Nat /\ DOMAIN list = 1..L /\ \A j \in 1..L : list[j] \in [num : Nat, op : Int]
    BY SeqElements
  <2>2. QED
    BY <2>1
<1>2. v[n] \in Nat /\ n \in Nat /\ n < fCount
  BY SMTT(30) DEF Sem
<1>3. 0 \in V
  BY <1>1, <1>2, AddedStep
<1>4. ASSUME NEW i \in 1..L, i - 1 \in V PROVE i \in V
  <2>1. /\ v[n] + Added(list, (i - 1) + 1, n) >= 0
        /\ (i - 1) + 1 = i
        /\ i \in 1..(L + 1)
        /\ i \in 0..L
    BY <1>1, <1>4
  <2>2. /\ Added(list, i, n) \in Int
        /\ Added(list, i + 1, n)
             = Added(list, i, n) + (IF list[i].num = n THEN list[i].op ELSE 0)
    BY <2>1, AddedStep
  <2>3. CASE list[i].num = n
    <3>1. i \in InGroup(list)
      BY <1>1, <1>2, <2>3 DEF InGroup
    <3>2. ~WouldCauseBlock(v, list, i)
      BY <3>1 DEF Blocking
    <3>3. Applied(v, list, i)[n] = v[n] + Added(list, i, n)
      BY DEF Applied
    <3>4. list[i].op < 0 => ~(v[n] + Added(list, i, n) < -list[i].op)
      BY <2>3, <3>2, <3>3 DEF WouldCauseBlock
    <3> DEFINE x == list[i].op
               y == Added(list, i, n)
    <3>5. v[n] + (y + x) >= 0
      <4>1. x \in Int /\ y \in Int /\ v[n] \in Int /\ v[n] + y >= 0
        BY <1>1, <1>2, <2>1, <2>2
      <4>2. x < 0 => ~(v[n] + y < -x)
        BY <3>4
      <4> HIDE DEF x, y
      <4>3. QED
        BY <4>1, <4>2
    <3>6. QED
      BY <2>1, <2>2, <2>3, <3>5
  <2>4. CASE list[i].num # n
    BY <1>2, <2>1, <2>2, <2>4
  <2>5. QED
    BY <2>3, <2>4
<1>5. V = 0..L
  <2>1. V \in SUBSET (0..L)
    OBVIOUS
  <2> HIDE DEF V
  <2>2. QED
    BY <1>1, <1>3, <1>4, <2>1, UpTo
<1>6. L \in V
  <2> HIDE DEF V
  <2>1. QED
    BY <1>1, <1>5
<1>7. Added(list, L + 1, n) \in Int
  <2>1. L + 1 \in 1..(L + 1)
    BY <1>1
  <2>2. QED
    BY <2>1, AddedStep
<1>8. Applied(v, list, L + 1)[n] = v[n] + Added(list, L + 1, n)
  BY DEF Applied
<1>9. QED
  BY <1>2, <1>6, <1>7, <1>8

\* FlattenSeq puts sequences behind one another.
LEMMA FlattenStep ==
  ASSUME NEW ss \in Seq(Seq(Task)), ss # <<>>
  PROVE  \E f : /\ f[1] = ss[1]
                /\ \A i \in 2..Len(ss) : f[i] = f[i - 1] \o ss[i]
                /\ FlattenSeq(ss) = f[Len(ss)]
<1> DEFINE L == Len(ss)
           IsFlat(f, k) == f = [j \in 1..k |-> IF j = 1 THEN ss[j] ELSE f[j - 1] \o ss[j]]
           T == {k \in 0..L : \E f : IsFlat(f, k)}
<1>1. L \in Nat /\ L # 0
  OBVIOUS
<1>2. 0 \in T
  <2>1. IsFlat([j \in 1..0 |-> 0], 0)
    OBVIOUS
  <2> HIDE DEF IsFlat
  <2>2. QED
    BY <1>1, <2>1
<1>3. ASSUME NEW k \in 1..L, k - 1 \in T PROVE k \in T
  <2>1. PICK f : IsFlat(f, k - 1)
    BY <1>3
  <2> DEFINE g == [j \in 1..k |-> IF j = k THEN (IF j = 1 THEN ss[j] ELSE f[j - 1] \o ss[j])
                                  ELSE f[j]]
  <2>2. \A j \in 1..(k - 1) : f[j] = IF j = 1 THEN ss[j] ELSE f[j - 1] \o ss[j]
    BY <2>1
  <2>3. ASSUME NEW j \in 1..k PROVE g[j] = IF j = 1 THEN ss[j] ELSE g[j - 1] \o ss[j]
    <3>1. CASE j = 1
      <4>1. CASE k = 1
        BY <3>1, <4>1
      <4>2. CASE k # 1
        <5>1. j \in 1..(k - 1) /\ j # k
          BY <1>1, <3>1, <4>2
        <5>2. QED
          BY <2>2, <3>1, <5>1
      <4>3. QED
        BY <4>1, <4>2
    <3>2. CASE j # 1
      <4>1. j - 1 \in 1..k /\ j - 1 # k
        BY <1>1, <3>2
      <4>2. g[j - 1] = f[j - 1]
        BY <4>1
      <4>3. CASE j = k
        BY <3>2, <4>2, <4>3
      <4>4. CASE j # k
        <5>1. j \in 1..(k - 1)
          BY <1>1, <4>4
        <5>2. g[j] = f[j]
          BY <4>4
        <5>3. QED
          BY <2>2, <3>2, <4>2, <5>1, <5>2
      <4>5. QED
        BY <4>3, <4>4
    <3>3. QED
      BY <3>1, <3>2
  <2> HIDE DEF g
  <2>4. g = [j \in 1..k |-> g[j]]
    BY DEF g
  <2>5. IsFlat(g, k)
    BY <2>3, <2>4
  <2> HIDE DEF IsFlat
  <2>6. QED
    BY <1>1, <2>5
<1> HIDE DEF T
<1>4. T = 0..L
  <2>1. T \in SUBSET (0..L)
    BY DEF T
  <2>2. QED
    BY <1>1, <1>2, <1>3, <2>1, UpTo
<1>5. \E f : IsFlat(f, L)
  <2> HIDE DEF IsFlat
  <2>1. L \in T
    BY <1>1, <1>4
  <2>2. QED
    BY <2>1 DEF T
<1> DEFINE flat == CHOOSE f : IsFlat(f, L)
<1>6. IsFlat(flat, L)
  BY <1>5
<1>7. FlattenSeq(ss) = flat[L]
  BY <1>1 DEF FlattenSeq
<1> HIDE DEF flat
<1>8. \A j \in 1..L : flat[j] = IF j = 1 THEN ss[j] ELSE flat[j - 1] \o ss[j]
  BY <1>6
<1>9. flat[1] = ss[1]
  BY <1>1, <1>8
<1>10. \A i \in 2..L : flat[i] = flat[i - 1] \o ss[i]
  <2>1. \A i \in 2..L : i \in 1..L /\ i # 1
    BY <1>1
  <2>2. QED
    BY <1>8, <2>1
<1>11. QED
  BY <1>7, <1>9, <1>10
-----------------------------------------------------------------------------
(* Queues behind one another.                                              *)

\* Nobody is in the empty queue.
LEMMA EmptyHoldsNobody == \A t : ~Holds(<<>>, t)
<1>1. \A j : j \notin 1..Len(<<>>)
  OBVIOUS
<1>2. QED
  BY <1>1 DEF Holds

\* no task is in both
Apart(p, q) == \A t \in Task : ~(Holds(p, t) /\ Holds(q, t))

\* Two queues without a common task make a queue.
LEMMA ConcatHolds ==
  ASSUME NEW p \in Seq(Task), NEW q \in Seq(Task),
         Distinct(p), Distinct(q), Apart(p, q)
  PROVE  /\ p \o q \in Seq(Task)
         /\ Distinct(p \o q)
         /\ \A t \in Task : Holds(p \o q, t) <=> Holds(p, t) \/ Holds(q, t)
<1> DEFINE r == p \o q
           P == Len(p)
           Q == Len(q)
<1>1. /\ P \in Nat /\ Q \in Nat
      /\ \A i \in 1..P : p[i] \in Task
      /\ \A i \in 1..Q : q[i] \in Task
  BY SeqElements
<1>2. /\ r \in Seq(Task)
      /\ Len(r) = P + Q
      /\ \A i \in 1..(P + Q) : r[i] = IF i <= P THEN p[i] ELSE q[i - P]
  OBVIOUS
<1> HIDE DEF r
<1>3. \A i \in 1..(P + Q) : IF i <= P THEN i \in 1..P ELSE i - P \in 1..Q
  BY <1>1
<1>4. ASSUME NEW t \in Task, Holds(r, t) PROVE Holds(p, t) \/ Holds(q, t)
  <2>1. PICK i \in 1..(P + Q) : r[i] = t
    BY <1>2, <1>4 DEF Holds
  <2>2. QED
    BY <1>2, <1>3, <2>1 DEF Holds
<1>5. ASSUME NEW t \in Task, Holds(p, t) PROVE Holds(r, t)
  <2>1. PICK i \in 1..P : p[i] = t
    BY <1>5 DEF Holds
  <2>2. i \in 1..(P + Q) /\ i <= P
    BY <1>1
  <2>3. QED
    BY <1>2, <2>1, <2>2 DEF Holds
<1>6. ASSUME NEW t \in Task, Holds(q, t) PROVE Holds(r, t)
  <2>1. PICK i \in 1..Q : q[i] = t
    BY <1>6 DEF Holds
  <2>2. i + P \in 1..(P + Q) /\ ~(i + P <= P) /\ (i + P) - P = i
    BY <1>1
  <2>3. r[i + P] = t
    BY <1>2, <2>1, <2>2
  <2>4. QED
    BY <1>2, <2>2, <2>3 DEF Holds
<1>7. ASSUME NEW i \in 1..(P + Q), NEW j \in 1..(P + Q), r[i] = r[j]
      PROVE  i = j
  <2>1. /\ r[i] = IF i <= P THEN p[i] ELSE q[i - P]
        /\ r[j] = IF j <= P THEN p[j] ELSE q[j - P]
    BY <1>2
  <2>2. CASE i <= P /\ j <= P
    <3>1. i \in 1..P /\ j \in 1..P /\ p[i] = p[j]
      BY <1>3, <1>7, <2>1, <2>2
    <3>2. QED
      BY <3>1 DEF Distinct
  <2>3. CASE ~(i <= P) /\ ~(j <= P)
    <3>1. i - P \in 1..Q /\ j - P \in 1..Q /\ q[i - P] = q[j - P]
      BY <1>3, <1>7, <2>1, <2>3
    <3>2. i - P = j - P
      BY <3>1 DEF Distinct
    <3>3. QED
      BY <1>1, <3>2
  <2>4. CASE i <= P /\ ~(j <= P)
    <3>1. i \in 1..P /\ j - P \in 1..Q /\ p[i] = q[j - P]
      BY <1>3, <1>7, <2>1, <2>4
    <3>2. Holds(p, p[i]) /\ Holds(q, p[i]) /\ p[i] \in Task
      BY <1>1, <3>1 DEF Holds
    <3>3. QED
      BY <3>2 DEF Apart
  <2>5. CASE ~(i <= P) /\ j <= P
    <3>1. j \in 1..P /\ i - P \in 1..Q /\ p[j] = q[i - P]
      BY <1>3, <1>7, <2>1, <2>5
    <3>2. Holds(p, p[j]) /\ Holds(q, p[j]) /\ p[j] \in Task
      BY <1>1, <3>1 DEF Holds
    <3>3. QED
      BY <3>2 DEF Apart
  <2>6. QED
    BY <2>2, <2>3, <2>4, <2>5
<1>8. Distinct(r)
  BY <1>2, <1>7 DEF Distinct
<1>9. \A t \in Task : Holds(r, t) <=> Holds(p, t) \/ Holds(q, t)
  BY <1>4, <1>5, <1>6
<1>10. QED
  BY <1>2, <1>8, <1>9 DEF r

\* Queues without a common task make a queue, however many they are.
LEMMA FlattenHolds ==
  ASSUME NEW ss \in Seq(Seq(Task)),
         \A i \in 1..Len(ss) : Distinct(ss[i]),
         \A i, j \in 1..Len(ss) : i # j => Apart(ss[i], ss[j])
  PROVE  /\ FlattenSeq(ss) \in Seq(Task)
         /\ Distinct(FlattenSeq(ss))
         /\ \A t \in Task :
              Holds(FlattenSeq(ss), t) <=> \E i \in 1..Len(ss) : Holds(ss[i], t)
<1> DEFINE L == Len(ss)
<1>1. L \in Nat /\ \A i \in 1..L : ss[i] \in Seq(Task)
  BY SeqElements
<1>2. CASE ss = <<>>
  <2>1. FlattenSeq(ss) = <<>> /\ L = 0
    BY <1>2 DEF FlattenSeq
  <2>2. QED
    BY <2>1 DEF Distinct, Holds
<1>3. CASE ss # <<>>
  <2>1. L # 0
    BY <1>3
  <2>2. PICK f : /\ f[1] = ss[1]
                 /\ \A i \in 2..L : f[i] = f[i - 1] \o ss[i]
                 /\ FlattenSeq(ss) = f[L]
    BY <1>3, FlattenStep
  <2> DEFINE Good(j) == /\ f[j] \in Seq(Task)
                        /\ Distinct(f[j])
                        /\ \A t \in Task : Holds(f[j], t) <=> \E i \in 1..j : Holds(ss[i], t)
             V == {j \in 0..L : j = 0 \/ Good(j)}
  <2>3. ASSUME NEW j \in 1..L, j - 1 \in V PROVE j \in V
    <3>1. CASE j = 1
      <4>1. Good(1)
        BY <1>1, <2>2, <3>1
      <4>2. QED
        BY <3>1, <4>1
    <3>2. CASE j # 1
      <4>1. Good(j - 1) /\ j \in 2..L /\ j - 1 \in 1..L
        BY <1>1, <2>3, <3>2
      <4>2. f[j] = f[j - 1] \o ss[j]
        BY <2>2, <4>1
      <4>3. Apart(f[j - 1], ss[j])
        <5>1. \A i \in 1..(j - 1) : i \in 1..L /\ i # j
          BY <1>1
        <5>2. \A i \in 1..(j - 1) : Apart(ss[i], ss[j])
          BY <5>1
        <5>3. QED
          BY <4>1, <5>2 DEF Apart
      <4>4. /\ f[j] \in Seq(Task)
            /\ Distinct(f[j])
            /\ \A t \in Task : Holds(f[j], t) <=> Holds(f[j - 1], t) \/ Holds(ss[j], t)
        <5>1. Distinct(ss[j]) /\ ss[j] \in Seq(Task)
          BY <1>1
        <5>2. QED
          BY <4>1, <4>2, <4>3, <5>1, ConcatHolds
      <4>5. \A t \in Task : Holds(f[j], t) <=> \E i \in 1..j : Holds(ss[i], t)
        <5>1. \A i : i \in 1..j <=> i \in 1..(j - 1) \/ i = j
          BY <1>1
        <5>2. QED
          BY <4>1, <4>4, <5>1, Zenon
      <4>6. Good(j)
        BY <4>4, <4>5
      <4>7. QED
        BY <1>1, <4>6
    <3>3. QED
      BY <3>1, <3>2
  <2>4. V \in SUBSET (0..L) /\ 0 \in V
    BY <1>1
  <2>5. V = 0..L
    <3> HIDE DEF V
    <3>1. QED
      BY <1>1, <2>3, <2>4, UpTo
  <2>6. L \in V
    <3> HIDE DEF V
    <3>1. QED
      BY <1>1, <2>5
  <2>7. Good(L)
    BY <2>1, <2>6
  <2>8. QED
    BY <2>2, <2>7
<1>4. QED
  BY <1>2, <1>3

-----------------------------------------------------------------------------
(* The wake loops.                                                         *)

\* Scheduling the tasks of q one after the other.
LEMMA FoldSteps ==
  ASSUME NEW s, NEW q \in Seq(Task)
  PROVE  \E f : /\ f[0] = s
                /\ \A i \in 1..Len(q) : f[i] = ScheduleTask(f[i - 1], q[i])
                /\ FoldLeft(ScheduleTask, s, q) = f[Len(q)]
<1> DEFINE L == Len(q)
           IsIter(g, k) ==
             g = [S \in SUBSET (1..k) |->
                    IF S = {} THEN s ELSE ScheduleTask(g[S \ {Max(S)}], q[Max(S)])]
           T == {k \in 0..L : \E g : IsIter(g, k)}
<1>1. L \in Nat /\ DOMAIN q = 1..L
  BY SeqElements
<1>2. 0 \in T
  <2>1. IsIter([S \in SUBSET (1..0) |-> s], 0)
    <3>1. \A S \in SUBSET (1..0) : S = {}
      OBVIOUS
    <3>2. QED
      BY <3>1
  <2> HIDE DEF IsIter
  <2>2. QED
    BY <1>1, <2>1
<1>3. ASSUME NEW k \in 1..L, k - 1 \in T PROVE k \in T
  <2>1. PICK f : IsIter(f, k - 1)
    BY <1>3
  <2> DEFINE g == [S \in SUBSET (1..k) |->
                     IF k \in S THEN ScheduleTask(f[S \ {k}], q[k]) ELSE f[S]]
  <2>2. \A S \in SUBSET (1..(k - 1)) :
          f[S] = IF S = {} THEN s ELSE ScheduleTask(f[S \ {Max(S)}], q[Max(S)])
    BY <2>1
  <2>3. ASSUME NEW S \in SUBSET (1..k)
        PROVE  g[S] = IF S = {} THEN s ELSE ScheduleTask(g[S \ {Max(S)}], q[Max(S)])
    <3>1. k \in Nat /\ 1..(k - 1) = (1..k) \ {k}
      BY <1>1
    <3>2. CASE k \in S
      <4>1. Max(S) \in S /\ Max(S) >= k
        BY <3>1, <3>2, MaxUpTo
      <4>2. Max(S) = k
        <5>1. Max(S) \in 1..k
          BY <4>1
        <5>2. QED
          BY <3>1, <4>1, <5>1
      <4>3. g[S \ {k}] = f[S \ {k}]
        OBVIOUS
      <4>4. g[S] = ScheduleTask(f[S \ {k}], q[k])
        BY <3>2
      <4> HIDE DEF g
      <4>5. QED
        BY <3>2, <4>2, <4>3, <4>4
    <3>3. CASE k \notin S
      <4>1. S \in SUBSET (1..(k - 1))
        BY <3>1, <3>3
      <4>2. g[S] = f[S] /\ g[S \ {Max(S)}] = f[S \ {Max(S)}]
        BY <3>3
      <4> HIDE DEF g
      <4>3. QED
        BY <2>2, <4>1, <4>2
    <3>4. QED
      BY <3>2, <3>3
  <2> HIDE DEF g
  <2>4. g = [S \in SUBSET (1..k) |-> g[S]]
    BY DEF g
  <2>5. IsIter(g, k)
    BY <2>3, <2>4
  <2> HIDE DEF IsIter
  <2>6. QED
    BY <1>1, <2>5
<1> HIDE DEF T
<1>4. T = 0..L
  <2>1. T \in SUBSET (0..L)
    BY DEF T
  <2>2. QED
    BY <1>1, <1>2, <1>3, <2>1, UpTo
<1>5. \E g : IsIter(g, L)
  <2> HIDE DEF IsIter
  <2>1. L \in T
    BY <1>1, <1>4
  <2>2. QED
    BY <2>1 DEF T
<1> DEFINE iter == CHOOSE g : IsIter(g, L)
<1>6. IsIter(iter, L)
  BY <1>5
<1>7. FoldLeft(ScheduleTask, s, q) = iter[1..L]
  BY <1>1 DEF FoldLeft, MapThenFoldSet
<1> HIDE DEF iter
<1>8. \A S \in SUBSET (1..L) :
        iter[S] = IF S = {} THEN s ELSE ScheduleTask(iter[S \ {Max(S)}], q[Max(S)])
  BY <1>6
<1> DEFINE f == [i \in 0..L |-> iter[1..i]]
<1>9. f[0] = s
  <2>1. 1..0 = {} /\ 0 \in 0..L
    BY <1>1
  <2>2. iter[{}] = s
    BY <1>8
  <2>3. f[0] = iter[1..0]
    BY <2>1
  <2>4. QED
    BY <2>1, <2>2, <2>3
<1>10. ASSUME NEW i \in 1..L PROVE f[i] = ScheduleTask(f[i - 1], q[i])
  <2>1. /\ i \in Nat /\ i \in 1..i /\ 1..i # {}
        /\ 1..i \in SUBSET (1..L)
        /\ i \in 0..L /\ i - 1 \in 0..L
        /\ (1..i) \ {i} = 1..(i - 1)
    BY <1>1
  <2>2. Max(1..i) \in 1..i /\ Max(1..i) >= i
    BY <2>1, MaxUpTo
  <2>3. Max(1..i) = i
    BY <2>1, <2>2
  <2>4. iter[1..i] = ScheduleTask(iter[1..(i - 1)], q[i])
    BY <1>8, <2>1, <2>3
  <2>5. QED
    BY <2>1, <2>4
<1>11. f[L] = iter[1..L]
  BY <1>1
<1>12. QED
  BY <1>7, <1>9, <1>10, <1>11
\* A wake loop lets the tasks of a queue run that did not.
LEMMA FoldSettles ==
  ASSUME NEW s, Settled(s), NEW q \in Seq(Task), Distinct(q),
         \A t \in Task : Holds(q, t) => t \notin Ready(s)
  PROVE  LET r == FoldLeft(ScheduleTask, s, q) IN
         /\ Settled(r)
         /\ Ready(r) = Ready(s) \cup {t \in Task : Holds(q, t)}
         /\ r.gCurrentTask = s.gCurrentTask
<1> DEFINE L == Len(q)
           First(i) == {q[j] : j \in 1..i}
           Good(u, i) == /\ Settled(u)
                         /\ Ready(u) = Ready(s) \cup First(i)
                         /\ u.gCurrentTask = s.gCurrentTask
<1>1. L \in Nat /\ \A i \in 1..L : q[i] \in Task
  BY SeqElements
<1>2. PICK f : /\ f[0] = s
               /\ \A i \in 1..L : f[i] = ScheduleTask(f[i - 1], q[i])
               /\ FoldLeft(ScheduleTask, s, q) = f[L]
  BY FoldSteps
<1> DEFINE V == {i \in 0..L : Good(f[i], i)}
<1>3. 0 \in V
  <2>1. First(0) = {}
    OBVIOUS
  <2>2. QED
    BY <1>1, <1>2, <2>1
<1>4. ASSUME NEW i \in 1..L, i - 1 \in V PROVE i \in V
  <2>1. Good(f[i - 1], i - 1) /\ f[i] = ScheduleTask(f[i - 1], q[i]) /\ q[i] \in Task
    BY <1>1, <1>2, <1>4
  <2>2. First(i) = First(i - 1) \cup {q[i]}
    <3>1. \A j : j \in 1..i <=> j \in 1..(i - 1) \/ j = i
      BY <1>1
    <3>2. QED
      BY <3>1
  <2>3. q[i] \notin First(i - 1)
    <3>1. \A j \in 1..(i - 1) : j \in 1..L /\ j # i
      BY <1>1
    <3>2. QED
      BY <3>1 DEF Distinct
  <2>4. q[i] \notin Ready(s)
    BY <2>1 DEF Holds
  <2>5. q[i] \notin Ready(f[i - 1])
    BY <2>1, <2>3, <2>4
  <2> HIDE DEF First
  <2>6. /\ Settled(f[i])
        /\ Ready(f[i]) = Ready(f[i - 1]) \cup {q[i]}
        /\ f[i].gCurrentTask = f[i - 1].gCurrentTask
    BY <2>1, <2>5, ScheduleTaskSettles
  <2>7. Good(f[i], i)
    BY <2>1, <2>2, <2>6
  <2> HIDE DEF Good
  <2>8. QED
    BY <1>1, <2>7
<1>5. L \in V
  <2>1. V \in SUBSET (0..L)
    OBVIOUS
  <2> HIDE DEF V
  <2>2. V = 0..L
    BY <1>1, <1>3, <1>4, <2>1, UpTo
  <2>3. QED
    BY <1>1, <2>2
<1>6. First(L) = {t \in Task : Holds(q, t)}
  BY <1>1 DEF Holds
<1>7. QED
  BY <1>2, <1>5, <1>6
-----------------------------------------------------------------------------
(* The inductive invariant.                                                *)

\* the wait queues of the group as one family
Lines == Sem \X {"zero", "inc"}
Line(z, i) == [x \in Lines |-> IF x[2] = "zero" THEN z[x[1]] ELSE i[x[1]]]

\* A started task may run or waits in one of the queues w, where it has made the
\* call it is at.
Placed(s, w, p) ==
  /\ Settled(s) /\ s.gCurrentTask # NoTask
  /\ \A x \in Lines : Distinct(w[x])
  /\ \A x, y \in Lines : x # y => Apart(w[x], w[y])
  /\ \A x \in Lines, t \in Task :
       Holds(w[x], t) => t \notin Ready(s) /\ p[t] \in DOMAIN Program
  /\ \A t \in Task :
       p[t] # NoTask <=> t \in Ready(s) \/ \E x \in Lines : Holds(w[x], t)

\* The list that t is at has an operation that takes more from n than there is,
\* and as long as n does not increase it is stopped, there or before.
Stuck(v, p, n, t) ==
  LET list == Program[p[t]].list
  IN  \E i \in InGroup(list) : /\ list[i].num = n
                               /\ list[i].op < 0
                               /\ v[n] + Added(list, i, n) < -list[i].op

IncreaseWaited(v, inc, p) == \A n \in Sem, t \in Task : Holds(inc[n], t) => Stuck(v, p, n, t)

SemInv ==
  /\ TypeOK
  /\ Placed(sched, Line(fZeroTasks, fIncTasks), pc)
  /\ ~exists => \A x \in Lines : Line(fZeroTasks, fIncTasks)[x] = <<>>
  /\ IncreaseWaited(fVal, fIncTasks, pc)

\* The two arrays and the family.
LEMMA LineIs ==
  ASSUME NEW z \in [Sem -> Seq(Task)], NEW i \in [Sem -> Seq(Task)]
  PROVE  /\ Line(z, i) \in [Lines -> Seq(Task)]
         /\ \A n \in Sem : /\ <<n, "zero">> \in Lines /\ Line(z, i)[<<n, "zero">>] = z[n]
                           /\ <<n, "inc">> \in Lines /\ Line(z, i)[<<n, "inc">>] = i[n]
         /\ \A x \in Lines : \E n \in Sem : x = <<n, "zero">> \/ x = <<n, "inc">>
<1>1. \A x \in Lines : x[1] \in Sem /\ x[2] \in {"zero", "inc"} /\ x = <<x[1], x[2]>>
  BY DEF Lines
<1>2. \A n \in Sem : <<n, "zero">> \in Lines /\ <<n, "inc">> \in Lines
  BY DEF Lines
<1>3. Line(z, i) \in [Lines -> Seq(Task)]
  BY <1>1 DEF Line
<1>4. \A n \in Sem : Line(z, i)[<<n, "zero">>] = z[n] /\ Line(z, i)[<<n, "inc">>] = i[n]
  <2>1. ASSUME NEW n \in Sem
        PROVE  Line(z, i)[<<n, "zero">>] = z[n] /\ Line(z, i)[<<n, "inc">>] = i[n]
    <3>1. /\ <<n, "zero">>[1] = n /\ <<n, "zero">>[2] = "zero"
          /\ <<n, "inc">>[1] = n /\ <<n, "inc">>[2] # "zero"
      OBVIOUS
    <3>2. \A x \in Lines : Line(z, i)[x] = IF x[2] = "zero" THEN z[x[1]] ELSE i[x[1]]
      BY DEF Line
    <3>3. QED
      BY <1>2, <3>1, <3>2
  <2>2. QED
    BY <2>1
<1>5. \A x \in Lines : \E n \in Sem : x = <<n, "zero">> \/ x = <<n, "inc">>
  BY <1>1
<1>6. QED
  BY <1>2, <1>3, <1>4, <1>5

\* the tasks in the queues X, and the family without them
WaitingIn(w, X) == {t \in Task : \E x \in X : Holds(w[x], t)}
Emptied(w, X) == [x \in Lines |-> IF x \in X THEN <<>> ELSE w[x]]

\* The tasks of the queues X run again, and a task that may run goes on.
LEMMA PlacedWake ==
  ASSUME NEW s, NEW w, NEW p, Placed(s, w, p),
         NEW s1, NEW p1, NEW X \in SUBSET Lines,
         Settled(s1), s1.gCurrentTask # NoTask,
         Ready(s1) = Ready(s) \cup WaitingIn(w, X),
         \A t \in Task : p1[t] = p[t] \/ (t \in Ready(s1) /\ p1[t] # NoTask)
  PROVE  Placed(s1, Emptied(w, X), p1)
<1> DEFINE w1 == Emptied(w, X)
<1> USE DEF Emptied, WaitingIn
<1>1. \A t : ~Holds(<<>>, t)
  BY EmptyHoldsNobody, Zenon
<1>2. ASSUME NEW x \in Lines, NEW t \in Task
      PROVE  Holds(w1[x], t) <=> x \notin X /\ Holds(w[x], t)
  <2>1. w1[x] = IF x \in X THEN <<>> ELSE w[x]
    OBVIOUS
  <2>2. QED
    BY <1>1, <2>1, Zenon
<1>3. \A x \in Lines : Distinct(w1[x])
  BY DEF Placed, Distinct
<1>4. ASSUME NEW x \in Lines, NEW y \in Lines, x # y PROVE Apart(w1[x], w1[y])
  <2>1. Apart(w[x], w[y])
    BY <1>4 DEF Placed
  <2>2. QED
    BY <1>2, <2>1, Zenon DEF Apart
<1>5. ASSUME NEW x \in Lines, NEW t \in Task, Holds(w1[x], t)
      PROVE  t \notin Ready(s1) /\ p1[t] \in DOMAIN Program
  <2>1. x \notin X /\ Holds(w[x], t)
    BY <1>2, <1>5
  <2>2. t \notin Ready(s) /\ p[t] \in DOMAIN Program
    BY <2>1 DEF Placed
  <2>3. \A y \in X : ~Holds(w[y], t)
    BY <2>1 DEF Placed, Apart
  <2>4. t \notin Ready(s1)
    BY <2>2, <2>3
  <2>5. QED
    BY <2>2, <2>4
<1>6. ASSUME NEW t \in Task
      PROVE  p1[t] # NoTask <=> t \in Ready(s1) \/ \E x \in Lines : Holds(w1[x], t)
  <2>1. p[t] # NoTask <=> t \in Ready(s) \/ \E x \in Lines : Holds(w[x], t)
    BY DEF Placed
  <2>2. (t \in Ready(s1) \/ \E x \in Lines : Holds(w1[x], t))
          <=> (t \in Ready(s) \/ \E x \in Lines : Holds(w[x], t))
    BY <1>2
  <2>3. QED
    BY <2>1, <2>2
<1>7. QED
  BY <1>3, <1>4, <1>5, <1>6 DEF Placed

\* The task t that may run waits in the queue x.
LEMMA PlacedWait ==
  ASSUME NEW s, NEW w, NEW p, Placed(s, w, p), w \in [Lines -> Seq(Task)],
         NEW s1, NEW w1, NEW x \in Lines, NEW t \in Task,
         Settled(s1), s1.gCurrentTask # NoTask,
         t \in Ready(s), p[t] \in DOMAIN Program, p[t] # NoTask,
         w1 = [w EXCEPT ![x] = Append(@, t)],
         Ready(s1) = Ready(s) \ {t}
  PROVE  Placed(s1, w1, p)
<1>1. w[x] \in Seq(Task) /\ Distinct(w[x]) /\ \A y \in Lines : ~Holds(w[y], t)
  BY DEF Placed
<1> DEFINE q == Append(w[x], t)
<1>2. Distinct(q) /\ \A u \in Task : Holds(q, u) <=> Holds(w[x], u) \/ u = t
  BY <1>1, AppendHolds
<1>3. \A y \in Lines : w1[y] = IF y = x THEN q ELSE w[y]
  OBVIOUS
<1> HIDE DEF q
<1>4. \A y \in Lines, u \in Task :
        Holds(w1[y], u) <=> Holds(w[y], u) \/ (u = t /\ y = x)
  BY <1>2, <1>3, Zenon
<1>5. \A y \in Lines : Distinct(w1[y])
  BY <1>2, <1>3 DEF Placed
<1>6. \A y, z \in Lines : y # z => Apart(w1[y], w1[z])
  BY <1>1, <1>4 DEF Placed, Apart
<1>7. \A y \in Lines, u \in Task :
        Holds(w1[y], u) => u \notin Ready(s1) /\ p[u] \in DOMAIN Program
  BY <1>4 DEF Placed
<1>8. \A u \in Task : p[u] # NoTask <=> u \in Ready(s1) \/ \E y \in Lines : Holds(w1[y], u)
  BY <1>4 DEF Placed
<1>9. QED
  BY <1>5, <1>6, <1>7, <1>8 DEF Placed

\* The task that may run goes on, and nobody else is concerned.
LEMMA PlacedGoes ==
  ASSUME NEW s, NEW w, NEW p, Placed(s, w, p),
         NEW s1, NEW p1, Settled(s1), s1.gCurrentTask # NoTask, Ready(s1) = Ready(s),
         \A t \in Task : p1[t] = p[t] \/ (t \in Ready(s) /\ p1[t] # NoTask)
  PROVE  Placed(s1, w, p1)
<1>1. \A x \in Lines, t \in Task :
        Holds(w[x], t) => t \notin Ready(s1) /\ p1[t] \in DOMAIN Program
  <2>1. ASSUME NEW x \in Lines, NEW t \in Task, Holds(w[x], t)
        PROVE  t \notin Ready(s1) /\ p1[t] \in DOMAIN Program
    <3>1. t \notin Ready(s) /\ p[t] \in DOMAIN Program
      BY <2>1 DEF Placed
    <3>2. p1[t] = p[t]
      BY <3>1
    <3>3. QED
      BY <3>1, <3>2
  <2>2. QED
    BY <2>1
<1>2. \A t \in Task : p1[t] # NoTask <=> p[t] # NoTask
  <2>1. \A t \in Task : t \in Ready(s) => p[t] # NoTask
    BY DEF Placed
  <2>2. QED
    BY <2>1, Zenon
<1>3. QED
  BY <1>1, <1>2 DEF Placed

\* A task is started.
LEMMA PlacedStart ==
  ASSUME NEW s, NEW w, NEW p, Placed(s, w, p),
         p \in [Task -> Label \cup {NoTask}], NEW s1, NEW t \in Task, NEW l,
         Settled(s1), s1.gCurrentTask # NoTask, p[t] = NoTask,
         Ready(s1) = Ready(s) \cup {t}, l # NoTask
  PROVE  Placed(s1, w, [p EXCEPT ![t] = l])
<1> DEFINE p1 == [p EXCEPT ![t] = l]
<1>1. t \notin Ready(s) /\ \A x \in Lines : ~Holds(w[x], t)
  BY DEF Placed
<1>2. \A x \in Lines, u \in Task :
        Holds(w[x], u) => u \notin Ready(s1) /\ p1[u] \in DOMAIN Program
  BY <1>1 DEF Placed
<1>3. ASSUME NEW u \in Task
      PROVE  p1[u] # NoTask <=> u \in Ready(s1) \/ \E x \in Lines : Holds(w[x], u)
  <2>1. p[u] # NoTask <=> u \in Ready(s) \/ \E x \in Lines : Holds(w[x], u)
    BY DEF Placed
  <2>2. CASE u = t
    BY <2>2
  <2>3. CASE u # t
    BY <2>1, <2>3
  <2>4. QED
    BY <2>2, <2>3
<1>4. QED
  BY <1>2, <1>3 DEF Placed
-----------------------------------------------------------------------------
(* The order of the wake loops.                                            *)

\* the queues that a performed list empties
WokenLines(list, v) ==
  {<<n, "inc">> : n \in Increased(list)} \cup {<<n, "zero">> : n \in FoundZero(list, v)}

\* the queue an operation looks at
LineOf(o) == <<o.num, IF o.op > 0 THEN "inc" ELSE "zero">>

\* an operation wakes
Wakes(list, v, i) ==
  i \in InGroup(list) /\ (list[i].op > 0 \/ (list[i].op = 0 /\ v[list[i].num] = 0))

\* The queues are those of the operations that wake.
LEMMA WokenLinesAre ==
  ASSUME NEW list \in Seq([num : Nat, op : Int]), NEW v
  PROVE  /\ \A i \in DOMAIN list : Wakes(list, v, i) =>
              LineOf(list[i]) \in WokenLines(list, v) /\ LineOf(list[i]) \in Lines
         /\ \A x \in WokenLines(list, v) :
              \E i \in DOMAIN list : Wakes(list, v, i) /\ LineOf(list[i]) = x
         /\ WokenLines(list, v) \in SUBSET Lines
<1>1. \A i \in DOMAIN list : list[i].num \in Nat /\ list[i].op \in Int
  <2>1. DOMAIN list = 1..Len(list) /\ \A i \in 1..Len(list) : list[i] \in [num : Nat, op : Int]
    BY SeqElements
  <2>2. QED
    BY <2>1
<1>2. ASSUME NEW i \in DOMAIN list, Wakes(list, v, i)
      PROVE  LineOf(list[i]) \in WokenLines(list, v) /\ LineOf(list[i]) \in Lines
  <2>1. list[i].num \in Sem
    BY <1>1, <1>2 DEF Wakes, InGroup, Sem
  <2>2. CASE list[i].op > 0
    <3>1. LineOf(list[i]) = <<list[i].num, "inc">> /\ list[i].num \in Increased(list)
      BY <1>2, <2>2 DEF LineOf, Increased, Wakes
    <3>2. QED
      BY <2>1, <3>1 DEF WokenLines, Lines
  <2>3. CASE list[i].op = 0 /\ v[list[i].num] = 0
    <3>1. LineOf(list[i]) = <<list[i].num, "zero">> /\ list[i].num \in FoundZero(list, v)
      BY <1>2, <2>3 DEF LineOf, FoundZero, Wakes
    <3>2. QED
      BY <2>1, <3>1 DEF WokenLines, Lines
  <2>4. QED
    BY <1>2, <2>2, <2>3 DEF Wakes
<1>3. ASSUME NEW x \in WokenLines(list, v)
      PROVE  \E i \in DOMAIN list : Wakes(list, v, i) /\ LineOf(list[i]) = x
  <2>1. CASE \E n \in Increased(list) : x = <<n, "inc">>
    <3>1. PICK n \in Increased(list) : x = <<n, "inc">>
      BY <2>1
    <3>2. PICK i \in InGroup(list) : list[i].op > 0 /\ n = list[i].num
      BY DEF Increased
    <3>3. QED
      BY <3>1, <3>2 DEF LineOf, Wakes, InGroup
  <2>2. CASE \E n \in FoundZero(list, v) : x = <<n, "zero">>
    <3>1. PICK n \in FoundZero(list, v) : x = <<n, "zero">>
      BY <2>2
    <3>2. PICK i \in InGroup(list) : list[i].op = 0 /\ n = list[i].num /\ v[n] = 0
      BY DEF FoundZero
    <3>3. QED
      BY <3>1, <3>2 DEF LineOf, Wakes, InGroup
  <2>3. QED
    BY <2>1, <2>2 DEF WokenLines
<1>4. WokenLines(list, v) \in SUBSET Lines
  BY <1>2, <1>3
<1>5. QED
  BY <1>2, <1>3, <1>4

\* A performed list wakes exactly the tasks in these queues, each once, although
\* the loop of semOp empties a queue only once.
LEMMA WokenHolds ==
  ASSUME fZeroTasks \in [Sem -> Seq(Task)], fIncTasks \in [Sem -> Seq(Task)],
         NEW list \in Seq([num : Nat, op : Int]), NEW v,
         NEW w, w = Line(fZeroTasks, fIncTasks),
         \A x \in Lines : Distinct(w[x]),
         \A x, y \in Lines : x # y => Apart(w[x], w[y])
  PROVE  /\ Woken(list, v) \in Seq(Task)
         /\ Distinct(Woken(list, v))
         /\ \A t \in Task :
              Holds(Woken(list, v), t) <=> \E x \in WokenLines(list, v) : Holds(w[x], t)
<1> DEFINE L == Len(list)
           Same(i, j) == /\ list[j].num = list[i].num
                         /\ (list[j].op > 0) = (list[i].op > 0)
                         /\ (list[j].op = 0) = (list[i].op = 0)
           First(i) == \A j \in 1..(i - 1) : ~Same(i, j)
           WokenAt(i) == IF i \notin InGroup(list) \/ ~First(i) THEN <<>>
                         ELSE IF list[i].op > 0 THEN fIncTasks[list[i].num]
                         ELSE IF list[i].op = 0 /\ v[list[i].num] = 0
                              THEN fZeroTasks[list[i].num] ELSE <<>>
           ss == [i \in DOMAIN list |-> WokenAt(i)]
<1>1. Woken(list, v) = FlattenSeq(ss)
  BY DEF Woken
<1>2. L \in Nat /\ DOMAIN list = 1..L /\ \A i \in 1..L : list[i].num \in Nat /\ list[i].op \in Int
  <2>1. L \in Nat /\ DOMAIN list = 1..L /\ \A i \in 1..L : list[i] \in [num : Nat, op : Int]
    BY SeqElements
  <2>2. QED
    BY <2>1
<1>3. /\ w \in [Lines -> Seq(Task)]
      /\ \A n \in Sem : w[<<n, "zero">>] = fZeroTasks[n] /\ w[<<n, "inc">>] = fIncTasks[n]
  <2>1. /\ Line(fZeroTasks, fIncTasks) \in [Lines -> Seq(Task)]
        /\ \A n \in Sem : /\ Line(fZeroTasks, fIncTasks)[<<n, "zero">>] = fZeroTasks[n]
                          /\ Line(fZeroTasks, fIncTasks)[<<n, "inc">>] = fIncTasks[n]
    BY ONLY SMTT(30), LineIs, fZeroTasks \in [Sem -> Seq(Task)], fIncTasks \in [Sem -> Seq(Task)]
  <2>2. QED
    BY <2>1
<1>4. \A t : ~Holds(<<>>, t)
  BY EmptyHoldsNobody
<1>5. \A i \in 1..L : ss[i] = IF Wakes(list, v, i) /\ First(i) THEN w[LineOf(list[i])] ELSE <<>>
  <2>1. ASSUME NEW i \in 1..L
        PROVE  ss[i] = IF Wakes(list, v, i) /\ First(i) THEN w[LineOf(list[i])] ELSE <<>>
    <3> HIDE DEF First
    <3>1. ss[i] = WokenAt(i)
      BY <1>2
    <3>2. CASE i \notin InGroup(list) \/ ~First(i)
      BY <3>1, <3>2 DEF Wakes
    <3>3. CASE i \in InGroup(list) /\ First(i)
      <4>1. list[i].num \in Sem
        BY <1>2, <3>3 DEF InGroup, Sem
      <4>2. CASE list[i].op > 0
        <5>1. LineOf(list[i]) = <<list[i].num, "inc">>
          BY <4>2 DEF LineOf
        <5>2. QED
          BY <1>3, <3>1, <3>3, <4>1, <4>2, <5>1 DEF Wakes
      <4>3. CASE ~(list[i].op > 0)
        <5>1. LineOf(list[i]) = <<list[i].num, "zero">>
          BY <4>3 DEF LineOf
        <5>2. QED
          BY <1>3, <3>1, <3>3, <4>1, <4>3, <5>1 DEF Wakes
      <4>4. QED
        BY <4>2, <4>3
    <3>4. QED
      BY <3>2, <3>3
  <2>2. QED
    BY <2>1
<1>6. Len(ss) = L /\ DOMAIN ss = 1..L
  BY <1>2
<1> HIDE DEF ss, WokenAt
<1>7. \A i \in 1..L : Wakes(list, v, i) =>
         LineOf(list[i]) \in WokenLines(list, v) /\ LineOf(list[i]) \in Lines
  BY <1>2, WokenLinesAre
<1>8. ASSUME NEW i \in 1..L, NEW j \in 1..L, Wakes(list, v, i), Wakes(list, v, j)
      PROVE  LineOf(list[i]) = LineOf(list[j]) <=> Same(i, j)
  <2>1. list[i].op \in Int /\ list[j].op \in Int
    BY <1>2
  <2>2. list[i].op >= 0 /\ list[j].op >= 0
    BY SMTT(30), <1>8, <2>1 DEF Wakes
  <2>3. QED
    BY <2>1, <2>2 DEF LineOf
<1>9. \A i \in 1..L : ss[i] \in Seq(Task) /\ Distinct(ss[i])
  <2>1. <<>> \in Seq(Task) /\ Distinct(<<>>)
    BY DEF Distinct
  <2>2. QED
    BY <1>3, <1>5, <1>7, <2>1
<1>10. ASSUME NEW i \in 1..L, NEW j \in 1..L, i # j PROVE Apart(ss[i], ss[j])
  <2>1. SUFFICES ASSUME NEW t \in Task, Holds(ss[i], t), Holds(ss[j], t) PROVE FALSE
    BY Zenon DEF Apart
  <2> HIDE DEF First
  <2>2. /\ Wakes(list, v, i) /\ First(i) /\ Holds(w[LineOf(list[i])], t)
        /\ Wakes(list, v, j) /\ First(j) /\ Holds(w[LineOf(list[j])], t)
    BY <1>4, <1>5, <2>1
  <2>3. LineOf(list[i]) = LineOf(list[j])
    BY <1>7, <2>2 DEF Apart
  <2> HIDE DEF Same
  <2>4. Same(i, j) /\ Same(j, i)
    BY <1>8, <2>2, <2>3
  <2>5. i \in 1..(j - 1) \/ j \in 1..(i - 1)
    BY <1>2, <1>10
  <2>6. QED
    BY <2>2, <2>4, <2>5 DEF First
<1>11. ASSUME NEW t \in Task, NEW x \in WokenLines(list, v), Holds(w[x], t)
       PROVE  \E i \in 1..L : Holds(ss[i], t)
  <2> DEFINE I == {i \in 1..L : Wakes(list, v, i) /\ LineOf(list[i]) = x}
  <2>1. I # {} /\ I \in SUBSET Nat
    <3>1. \A y \in WokenLines(list, v) :
            \E i \in DOMAIN list : Wakes(list, v, i) /\ LineOf(list[i]) = y
      BY WokenLinesAre
    <3>2. PICK i \in 1..L : Wakes(list, v, i) /\ LineOf(list[i]) = x
      BY <1>2, <3>1
    <3>3. i \in I
      BY <3>2
    <3>4. I # {}
      BY <3>3
    <3>5. I \in SUBSET Nat
      BY <1>2
    <3>6. QED
      BY <3>4, <3>5
  <2>2. PICK i \in I : \A j \in I : i <= j
    BY <2>1, LeastNumber
  <2>3. First(i)
    <3>1. SUFFICES ASSUME NEW j \in 1..(i - 1), Same(i, j) PROVE FALSE
      OBVIOUS
    <3>2. j \in 1..L /\ ~(i <= j)
      BY <1>2
    <3>3. Wakes(list, v, j)
      <4>1. i \in InGroup(list) /\ (list[i].op > 0 \/ (list[i].op = 0 /\ v[list[i].num] = 0))
        BY DEF Wakes
      <4>2. j \in InGroup(list)
        BY <1>2, <3>1, <3>2, <4>1 DEF InGroup
      <4>3. QED
        BY <3>1, <4>1, <4>2 DEF Wakes
    <3>4. LineOf(list[i]) = LineOf(list[j])
      BY <1>8, <3>1, <3>2, <3>3
    <3>5. j \in I
      BY <3>2, <3>3, <3>4
    <3>6. QED
      BY <2>2, <3>2, <3>5
  <2> HIDE DEF First
  <2>4. ss[i] = w[x]
    BY <1>5, <2>3
  <2>5. QED
    BY <1>11, <2>4
<1>12. ASSUME NEW t \in Task, NEW i \in 1..L, Holds(ss[i], t)
       PROVE  \E x \in WokenLines(list, v) : Holds(w[x], t)
  BY <1>4, <1>5, <1>7, <1>12
<1>13. ss \in Seq(Seq(Task))
  <2>1. ss = [i \in 1..L |-> ss[i]]
    BY <1>2 DEF ss
  <2>2. QED
    BY <1>2, <1>9, <2>1
<1>14. /\ FlattenSeq(ss) \in Seq(Task)
       /\ Distinct(FlattenSeq(ss))
       /\ \A t \in Task : Holds(FlattenSeq(ss), t) <=> \E i \in 1..Len(ss) : Holds(ss[i], t)
  BY <1>6, <1>9, <1>10, <1>13, FlattenHolds
<1>15. QED
  BY <1>1, <1>6, <1>11, <1>12, <1>14
\* The destructors wake every waiter, each once.
LEMMA WaitersHold ==
  ASSUME fZeroTasks \in [Sem -> Seq(Task)], fIncTasks \in [Sem -> Seq(Task)],
         NEW w, w = Line(fZeroTasks, fIncTasks),
         \A x \in Lines : Distinct(w[x]),
         \A x, y \in Lines : x # y => Apart(w[x], w[y])
  PROVE  /\ Waiters \in Seq(Task)
         /\ Distinct(Waiters)
         /\ \A t \in Task : Holds(Waiters, t) <=> \E x \in Lines : Holds(w[x], t)
<1> DEFINE ss == [i \in 1..fCount |-> fZeroTasks[fCount - i] \o fIncTasks[fCount - i]]
<1>1. Waiters = FlattenSeq(ss)
  BY DEF Waiters
<1>2. fCount \in Nat /\ \A i \in 1..fCount : fCount - i \in Sem
  BY DEF Sem
<1>3. /\ \A n \in Sem : /\ <<n, "zero">> \in Lines /\ w[<<n, "zero">>] = fZeroTasks[n]
                        /\ <<n, "inc">> \in Lines /\ w[<<n, "inc">>] = fIncTasks[n]
      /\ \A x \in Lines : \E n \in Sem : x = <<n, "zero">> \/ x = <<n, "inc">>
  <2> DEFINE l == Line(fZeroTasks, fIncTasks)
  <2>1. /\ \A n \in Sem : /\ <<n, "zero">> \in Lines /\ l[<<n, "zero">>] = fZeroTasks[n]
                          /\ <<n, "inc">> \in Lines /\ l[<<n, "inc">>] = fIncTasks[n]
        /\ \A x \in Lines : \E n \in Sem : x = <<n, "zero">> \/ x = <<n, "inc">>
    BY ONLY LineIs, fZeroTasks \in [Sem -> Seq(Task)], fIncTasks \in [Sem -> Seq(Task)]
  <2>2. QED
    BY <2>1
<1>4. ASSUME NEW i \in 1..fCount
      PROVE  /\ ss[i] \in Seq(Task)
             /\ Distinct(ss[i])
             /\ \A t \in Task : Holds(ss[i], t) <=> \/ Holds(w[<<fCount - i, "zero">>], t)
                                                    \/ Holds(w[<<fCount - i, "inc">>], t)
  <2> DEFINE n == fCount - i
             p == fZeroTasks[n]
             q == fIncTasks[n]
  <2>1. n \in Sem /\ ss[i] = p \o q
    BY <1>2
  <2>2. /\ <<n, "zero">> \in Lines /\ w[<<n, "zero">>] = p
        /\ <<n, "inc">> \in Lines /\ w[<<n, "inc">>] = q
        /\ <<n, "zero">> # <<n, "inc">>
    BY <1>3, <2>1
  <2>3. p \in Seq(Task) /\ q \in Seq(Task) /\ Distinct(p) /\ Distinct(q) /\ Apart(p, q)
    BY <2>1, <2>2
  <2> HIDE DEF n, p, q, ss
  <2>4. /\ p \o q \in Seq(Task)
        /\ Distinct(p \o q)
        /\ \A t \in Task : Holds(p \o q, t) <=> Holds(p, t) \/ Holds(q, t)
    BY <2>3, ConcatHolds
  <2>5. QED
    BY <2>1, <2>2, <2>4 DEF n
<1>5. Len(ss) = fCount /\ ss \in Seq(Seq(Task))
  <2>1. \A i \in 1..fCount : fZeroTasks[fCount - i] \o fIncTasks[fCount - i] \in Seq(Task)
    BY <1>2
  <2>2. QED
    BY <1>2, <2>1
<1> HIDE DEF ss
<1>6. ASSUME NEW i \in 1..fCount, NEW j \in 1..fCount, i # j PROVE Apart(ss[i], ss[j])
  <2>1. SUFFICES ASSUME NEW t \in Task, Holds(ss[i], t), Holds(ss[j], t) PROVE FALSE
    BY Zenon DEF Apart
  <2>2. fCount - i \in Sem /\ fCount - j \in Sem /\ fCount - i # fCount - j
    BY <1>2, <1>6
  <2>3. PICK a \in {"zero", "inc"} : Holds(w[<<fCount - i, a>>], t)
    BY <1>4, <2>1
  <2>4. PICK b \in {"zero", "inc"} : Holds(w[<<fCount - j, b>>], t)
    BY <1>4, <2>1
  <2>5. /\ <<fCount - i, a>> \in Lines /\ <<fCount - j, b>> \in Lines
        /\ <<fCount - i, a>> # <<fCount - j, b>>
    BY <2>2 DEF Lines
  <2>6. QED
    BY <2>3, <2>4, <2>5, Zenon DEF Apart
<1>7. /\ FlattenSeq(ss) \in Seq(Task)
      /\ Distinct(FlattenSeq(ss))
      /\ \A t \in Task : Holds(FlattenSeq(ss), t) <=> \E i \in 1..Len(ss) : Holds(ss[i], t)
  BY <1>4, <1>5, <1>6, FlattenHolds
<1>8. ASSUME NEW t \in Task, NEW x \in Lines, Holds(w[x], t)
      PROVE  \E i \in 1..fCount : Holds(ss[i], t)
  <2>1. PICK n \in Sem : x = <<n, "zero">> \/ x = <<n, "inc">>
    BY <1>3
  <2>2. fCount - n \in 1..fCount /\ fCount - (fCount - n) = n
    BY <1>2 DEF Sem
  <2>3. Holds(ss[fCount - n], t)
    BY <1>4, <1>8, <2>1, <2>2
  <2>4. QED
    BY <2>2, <2>3
<1>9. ASSUME NEW t \in Task, NEW i \in 1..fCount, Holds(ss[i], t)
      PROVE  \E x \in Lines : Holds(w[x], t)
  BY <1>2, <1>3, <1>4, <1>9
<1>10. QED
  BY <1>1, <1>5, <1>7, <1>8, <1>9

-----------------------------------------------------------------------------
(* The steps preserve the invariant.                                       *)

\* Initially no task is started.
LEMMA InitSemInv == Init => SemInv
<1> SUFFICES ASSUME Init PROVE SemInv
  OBVIOUS
<1> USE DEF Init
<1>1. 0 \in Priority
  BY DEF Priority
<1>2. sched \in SchedulerRecord
  BY <1>1 DEF BootRecord, SchedulerRecord
<1>3. TypeOK
  BY <1>2 DEF TypeOK
<1>4. QueuesOK(sched) /\ BucketsOK(sched)
  BY <1>1 DEF BootRecord, QueuesOK, BucketsOK, Distinct, Holds
<1>5. Settled(sched) /\ sched.gCurrentTask # NoTask /\ Ready(sched) = {}
  BY <1>2, <1>4 DEF BootRecord, Settled, Ready, SliceOK, PriorityOf
<1>6. \A t : ~Holds(<<>>, t)
  BY EmptyHoldsNobody
<1>7. \A n \in Sem : fZeroTasks[n] = <<>> /\ fIncTasks[n] = <<>>
  OBVIOUS
<1>8. \A x \in Lines : Line(fZeroTasks, fIncTasks)[x] = <<>>
  BY <1>7 DEF Line, Lines
<1>9. Distinct(<<>>)
  BY DEF Distinct
<1>10. Placed(sched, Line(fZeroTasks, fIncTasks), pc)
  BY <1>5, <1>6, <1>8, <1>9 DEF Placed, Apart
<1>11. IncreaseWaited(fVal, fIncTasks, pc)
  BY <1>6, <1>7 DEF IncreaseWaited
<1>12. QED
  BY <1>3, <1>10, <1>11 DEF SemInv

\* What the invariant says of the task that makes a step.
LEMMA CurrentFacts ==
  ASSUME SemInv, NEW t \in Task, Current(t)
  PROVE  /\ t \in Ready(sched) /\ pc[t] # NoTask /\ pc[t] \in Label
         /\ pc[t] \in DOMAIN Program =>
              /\ Program[pc[t]].list \in Seq([num : Nat, op : Int])
              /\ Program[pc[t]].inBlocking \in {kWaitOnBlock, kNoWaitOnBlock}
              /\ Program[pc[t]].ok \in Label \ {NoTask}
              /\ Program[pc[t]].fail \in Label \ {NoTask}
<1>1. t \in Ready(sched)
  BY DEF Current, Ready
<1>2. pc[t] # NoTask
  BY <1>1 DEF SemInv, Placed
<1>3. pc[t] \in Label
  BY <1>2 DEF SemInv, TypeOK
<1>4. QED
  BY <1>1, <1>2, <1>3

\* The facts about the state that every step starts from.
LEMMA SemInvFacts ==
  ASSUME SemInv, NEW w, w = Line(fZeroTasks, fIncTasks)
  PROVE  /\ Settled(sched) /\ sched.gCurrentTask # NoTask
         /\ fZeroTasks \in [Sem -> Seq(Task)] /\ fIncTasks \in [Sem -> Seq(Task)]
         /\ w \in [Lines -> Seq(Task)]
         /\ Placed(sched, w, pc)
         /\ pc \in [Task -> Label \cup {NoTask}]
         /\ fVal \in [Sem -> Nat]
         /\ exists \in BOOLEAN
         /\ \A x \in Lines : Distinct(w[x])
         /\ \A x, y \in Lines : x # y => Apart(w[x], w[y])
<1>1. TypeOK /\ Placed(sched, w, pc)
  BY DEF SemInv
<1>2. fZeroTasks \in [Sem -> Seq(Task)] /\ fIncTasks \in [Sem -> Seq(Task)]
  BY <1>1 DEF TypeOK
<1>3. Line(fZeroTasks, fIncTasks) \in [Lines -> Seq(Task)]
  BY ONLY LineIs, <1>2
<1>4. QED
  BY <1>1, <1>2, <1>3 DEF TypeOK, Placed

\* Who waits for an increase may not run, and is at its call.
LEMMA WaiterFacts ==
  ASSUME SemInv, NEW n \in Sem, NEW t \in Task, Holds(fIncTasks[n], t)
  PROVE  t \notin Ready(sched) /\ pc[t] \in DOMAIN Program
<1> DEFINE w == Line(fZeroTasks, fIncTasks)
<1>1. fZeroTasks \in [Sem -> Seq(Task)] /\ fIncTasks \in [Sem -> Seq(Task)] /\ Placed(sched, w, pc)
  BY SemInvFacts
<1>2. <<n, "inc">> \in Lines /\ w[<<n, "inc">>] = fIncTasks[n]
  BY ONLY LineIs, <1>1, n \in Sem
<1> HIDE DEF w
<1>3. QED
  BY <1>1, <1>2 DEF Placed

\* The invariant after a step is TypeOK, and the rest for the new family.
LEMMA SemInvNext ==
  ASSUME NEW w1,
         sched' \in SchedulerRecord, fVal' \in [Sem -> Nat],
         fZeroTasks' \in [Sem -> Seq(Task)], fIncTasks' \in [Sem -> Seq(Task)],
         exists' \in BOOLEAN, pc' \in [Task -> Label \cup {NoTask}],
         w1 = Line(fZeroTasks', fIncTasks'),
         Placed(sched', w1, pc'),
         ~exists' => \A x \in Lines : w1[x] = <<>>,
         IncreaseWaited(fVal', fIncTasks', pc')
  PROVE  SemInv'
<1>1. TypeOK'
  BY DEF TypeOK
<1>2. QED
  BY <1>1 DEF SemInv, Placed, IncreaseWaited, Line, Stuck

\* The waiters for an increase are as stuck as before when no value has grown and
\* they are where they were.
LEMMA StillWaited ==
  ASSUME IncreaseWaited(fVal, fIncTasks, pc), fVal \in [Sem -> Nat],
         NEW v \in [Sem -> Nat], NEW inc, NEW p,
         \A l \in DOMAIN Program : Program[l].list \in Seq([num : Nat, op : Int]),
         \A n \in Sem, t \in Task : Holds(inc[n], t) =>
           \/ v[n] <= fVal[n] /\ Holds(fIncTasks[n], t) /\ p[t] = pc[t] /\ pc[t] \in DOMAIN Program
           \/ Stuck(v, p, n, t)
  PROVE  IncreaseWaited(v, inc, p)
<1>1. SUFFICES ASSUME NEW n \in Sem, NEW t \in Task, Holds(inc[n], t),
                      v[n] <= fVal[n], Holds(fIncTasks[n], t), p[t] = pc[t],
                      pc[t] \in DOMAIN Program
               PROVE  Stuck(v, p, n, t)
  BY DEF IncreaseWaited
<1> DEFINE list == Program[pc[t]].list
<1>2. list \in Seq([num : Nat, op : Int])
  BY <1>1
<1>3. PICK i \in InGroup(list) : /\ list[i].num = n
                                 /\ list[i].op < 0
                                 /\ fVal[n] + Added(list, i, n) < -list[i].op
  BY <1>1 DEF IncreaseWaited, Stuck
<1>4. i \in 1..Len(list) /\ Len(list) \in Nat /\ list[i].op \in Int
  <2>1. DOMAIN list = 1..Len(list) /\ \A j \in 1..Len(list) : list[j] \in [num : Nat, op : Int]
    BY <1>2, SeqElements
  <2>2. i \in DOMAIN list
    BY DEF InGroup
  <2>3. QED
    BY <1>2, <2>1, <2>2, SeqElements
<1>5. Added(list, i, n) \in Int
  <2>1. i \in 1..(Len(list) + 1)
    BY <1>4
  <2>2. QED
    BY <1>2, <2>1, AddedStep
<1>6. v[n] + Added(list, i, n) < -list[i].op
  <2>1. v[n] \in Int /\ fVal[n] \in Int
    OBVIOUS
  <2>2. QED
    <3> DEFINE b == Added(list, i, n)
               o == list[i].op
    <3>1. b \in Int /\ o \in Int /\ fVal[n] + b < -o
      BY <1>3, <1>4, <1>5
    <3> HIDE DEF b, o
    <3>2. v[n] + b < -o
      BY <1>1, <2>1, <3>1
    <3>3. QED
      BY <3>2 DEF b, o
<1>7. QED
  BY <1>1, <1>3, <1>6 DEF Stuck

\* A queue grows by the task that joins it.
LEMMA JoinHolds ==
  ASSUME NEW f \in [Sem -> Seq(Task)], NEW n \in Sem, NEW t \in Task
  PROVE  LET g == [f EXCEPT ![n] = Append(@, t)] IN
         /\ g \in [Sem -> Seq(Task)]
         /\ \A m \in Sem : g[m] = IF m = n THEN Append(f[m], t) ELSE f[m]
         /\ \A m \in Sem, a \in Task : Holds(g[m], a) => Holds(f[m], a) \/ (m = n /\ a = t)
<1> DEFINE g == [f EXCEPT ![n] = Append(@, t)]
<1>1. f[n] \in Seq(Task) /\ Append(f[n], t) \in Seq(Task)
  OBVIOUS
<1>2. g \in [Sem -> Seq(Task)]
  BY <1>1
<1>3. \A m \in Sem : g[m] = IF m = n THEN Append(f[m], t) ELSE f[m]
  OBVIOUS
<1> HIDE DEF g
<1>4. ASSUME NEW m \in Sem, NEW a \in Task, Holds(g[m], a), ~Holds(f[m], a)
      PROVE  m = n /\ a = t
  <2>1. m = n
    BY <1>3, <1>4, Zenon
  <2> DEFINE q == f[n]
  <2>2. q \in Seq(Task)
    BY <1>1
  <2>3. Holds(Append(q, t), a) /\ ~Holds(q, a)
    BY <1>3, <1>4, <2>1
  <2> HIDE DEF q
  <2>4. PICK k \in 1..(Len(q) + 1) : Append(q, t)[k] = a
    BY <2>2, <2>3 DEF Holds
  <2>5. k \notin 1..Len(q)
    BY <2>2, <2>3, <2>4 DEF Holds
  <2>6. QED
    BY <2>1, <2>2, <2>4, <2>5
<1>5. QED
  BY <1>2, <1>3, <1>4 DEF g

\* A task goes on to l, and nothing else changes.
LEMMA GoesOnKeeps ==
  ASSUME SemInv, NEW t \in Task, t \in Ready(sched), NEW l \in Label \ {NoTask},
         sched' = SwapTask(sched) \/ sched' = sched, pc' = [pc EXCEPT ![t] = l],
         fVal' = fVal, exists' = exists, fZeroTasks' = fZeroTasks, fIncTasks' = fIncTasks
  PROVE  SemInv'
<1> DEFINE w == Line(fZeroTasks, fIncTasks)
<1>1. /\ Settled(sched) /\ sched.gCurrentTask # NoTask
      /\ fZeroTasks \in [Sem -> Seq(Task)] /\ fIncTasks \in [Sem -> Seq(Task)]
      /\ Placed(sched, w, pc)
      /\ pc \in [Task -> Label \cup {NoTask}]
      /\ fVal \in [Sem -> Nat]
      /\ exists \in BOOLEAN
      /\ ~exists => \A x \in Lines : w[x] = <<>>
  BY SemInvFacts DEF SemInv
<1>2. w = Line(fZeroTasks', fIncTasks')
  OBVIOUS
<1> HIDE DEF w
<1>3. Settled(sched') /\ Ready(sched') = Ready(sched) /\ sched'.gCurrentTask # NoTask
  <2>1. CASE sched' = sched
    BY <1>1, <2>1
  <2>2. CASE sched' = SwapTask(sched)
    BY <1>1, <2>2, SwapTaskSettles
  <2>3. QED
    BY <2>1, <2>2
<1>4. /\ pc' \in [Task -> Label \cup {NoTask}]
      /\ \A a \in Task : pc'[a] = pc[a] \/ (a \in Ready(sched) /\ pc'[a] # NoTask)
  BY <1>1
<1>5. Placed(sched', w, pc')
  BY <1>1, <1>3, <1>4, PlacedGoes
<1>6. IncreaseWaited(fVal', fIncTasks', pc')
  <2>1. ASSUME NEW m \in Sem, NEW a \in Task, Holds(fIncTasks[m], a)
        PROVE  Stuck(fVal, pc', m, a)
    <3>1. a \notin Ready(sched)
      BY <2>1, WaiterFacts
    <3>2. pc'[a] = pc[a]
      BY <1>1, <3>1
    <3>3. Stuck(fVal, pc, m, a)
      BY <2>1 DEF SemInv, IncreaseWaited
    <3>4. QED
      BY <3>2, <3>3 DEF Stuck
  <2>2. QED
    BY <2>1 DEF IncreaseWaited
<1>7. sched' \in SchedulerRecord
  BY <1>3 DEF Settled
<1>8. QED
  BY <1>1, <1>2, <1>4, <1>5, <1>6, <1>7, SemInvNext

\* What a list did before the operation that stopped it is undone.
LEMMA BlockedUnwinds ==
  ASSUME NEW list \in Seq([num : Nat, op : Int]), NEW v \in [Sem -> Nat],
         Blocking(v, list) # {}
  PROVE  /\ BlockedAt(v, list) \in Blocking(v, list)
         /\ UnwindOp(Applied(v, list, BlockedAt(v, list)), list, BlockedAt(v, list)) = v
<1> DEFINE i == BlockedAt(v, list)
<1>1. Len(list) \in Nat /\ DOMAIN list = 1..Len(list)
  BY SeqElements
<1>2. i \in Blocking(v, list)
  <2>1. Blocking(v, list) \in SUBSET Nat
    BY <1>1 DEF Blocking, InGroup
  <2>2. \E j \in Blocking(v, list) : \A m \in Blocking(v, list) : j <= m
    BY <2>1, LeastNumber
  <2>3. QED
    BY <2>2 DEF BlockedAt
<1> HIDE DEF i
<1>3. i \in 1..(Len(list) + 1)
  BY <1>1, <1>2 DEF Blocking, InGroup
<1>4. ASSUME NEW n \in Sem PROVE (v[n] + Added(list, i, n)) - Added(list, i, n) = v[n]
  <2> DEFINE b == Added(list, i, n)
  <2>1. b \in Int
    BY ONLY <1>3, list \in Seq([num : Nat, op : Int]), AddedStep
  <2> HIDE DEF b
  <2>2. (v[n] + b) - b = v[n]
    <3>1. v[n] \in Int
      OBVIOUS
    <3>2. QED
      BY <2>1, <3>1
  <2>3. QED
    BY <2>2 DEF b
<1>5. UnwindOp(Applied(v, list, i), list, i) = [n \in Sem |-> v[n]]
  BY <1>4 DEF UnwindOp, Applied
<1>6. QED
  BY <1>2, <1>5 DEF i

\* A list that cannot be performed is undone, and its task waits or goes on.
LEMMA SemOpBlocksKeeps ==
  ASSUME SemInv, NEW t \in Task, Current(t), pc[t] \in DOMAIN Program, exists,
         SemOpBlocks(t, Program[pc[t]])
  PROVE  SemInv'
<1> DEFINE call == Program[pc[t]]
           list == call.list
           i == BlockedAt(fVal, list)
           w == Line(fZeroTasks, fIncTasks)
<1>1. /\ Settled(sched) /\ sched.gCurrentTask # NoTask
      /\ fZeroTasks \in [Sem -> Seq(Task)] /\ fIncTasks \in [Sem -> Seq(Task)]
      /\ w \in [Lines -> Seq(Task)]
      /\ Placed(sched, w, pc)
      /\ pc \in [Task -> Label \cup {NoTask}]
      /\ fVal \in [Sem -> Nat]
  BY SemInvFacts
<1>2. /\ t \in Ready(sched) /\ pc[t] # NoTask
      /\ list \in Seq([num : Nat, op : Int])
      /\ call.inBlocking \in {kWaitOnBlock, kNoWaitOnBlock}
      /\ call.fail \in Label \ {NoTask}
  BY CurrentFacts
<1>3. /\ Len(list) \in Nat /\ DOMAIN list = 1..Len(list)
      /\ \A j \in 1..Len(list) : list[j].num \in Nat /\ list[j].op \in Int
  <2>1. /\ Len(list) \in Nat /\ DOMAIN list = 1..Len(list)
        /\ \A j \in 1..Len(list) : list[j] \in [num : Nat, op : Int]
    BY <1>2, SeqElements
  <2>2. QED
    BY <2>1
<1>4. /\ Blocking(fVal, list) # {}
      /\ fVal' = UnwindOp(Applied(fVal, list, i), list, i)
      /\ exists' = exists
      /\ IF call.inBlocking = kNoWaitOnBlock
         THEN Waits(t, list[i].num, list[i].op)
         ELSE /\ sched' = SwapTask(sched)
              /\ Goto(t, call.fail)
              /\ UNCHANGED <<fZeroTasks, fIncTasks>>
  BY DEF SemOpBlocks
<1>5. /\ i \in Blocking(fVal, list)
      /\ UnwindOp(Applied(fVal, list, i), list, i) = fVal
  BY <1>1, <1>2, <1>4, BlockedUnwinds
<1>6. i \in InGroup(list) /\ i \in 1..Len(list) /\ WouldCauseBlock(fVal, list, i)
  BY <1>3, <1>5 DEF Blocking, InGroup
<1> HIDE DEF i, w
<1>7. list[i].num \in Sem /\ list[i].op \in Int
  BY SMTT(30), <1>3, <1>6 DEF InGroup, Sem
<1>8. fVal' = fVal
  BY <1>4, <1>5
<1>9. exists' /\ exists' \in BOOLEAN /\ fVal' \in [Sem -> Nat]
  BY <1>1, <1>4, <1>8
<1>10. CASE call.inBlocking = kNoWaitOnBlock
  <2> DEFINE n == list[i].num
             o == list[i].op
             u == UnScheduleTask(sched, t)
  <2>1. /\ sched' = SwapTask(u)
        /\ IF o = 0
           THEN /\ fZeroTasks' = [fZeroTasks EXCEPT ![n] = Append(@, t)]
                /\ fIncTasks' = fIncTasks
           ELSE /\ fIncTasks' = [fIncTasks EXCEPT ![n] = Append(@, t)]
                /\ fZeroTasks' = fZeroTasks
        /\ pc' = pc
    <3>1. Waits(t, n, o)
      BY <1>4, <1>10
    <3> HIDE DEF n, o
    <3>2. QED
      BY <3>1 DEF Waits
  <2>2. /\ Settled(u)
        /\ Ready(u) = Ready(sched) \ {t}
        /\ u.gDoSchedule
    BY <1>1, UnScheduleSettles DEF Current
  <2> HIDE DEF u
  <2>3. /\ Settled(sched')
        /\ Ready(sched') = Ready(sched) \ {t}
        /\ sched'.gCurrentTask # NoTask
    BY <2>1, <2>2, SwapTaskSettles
  <2>4. o # 0 => Stuck(fVal, pc, n, t)
    <3>1. Applied(fVal, list, i)[n] = fVal[n] + Added(list, i, n)
      BY <1>7 DEF Applied
    <3>2. QED
      BY <1>6, <3>1 DEF WouldCauseBlock, Stuck
  <2>5. n \in Sem
    BY <1>7
  <2> HIDE DEF n, o
  <2> DEFINE w1 == Line(fZeroTasks', fIncTasks')
             k == IF o = 0 THEN "zero" ELSE "inc"
             x == <<n, k>>
  <2>6. /\ x \in Lines
        /\ \A y \in Lines : w1[y] = IF y = x THEN Append(w[y], t) ELSE w[y]
    <3>1. k \in {"zero", "inc"} /\ (k = "zero" <=> o = 0)
      OBVIOUS
    <3> HIDE DEF k
    <3>2. \A m \in Sem : fZeroTasks'[m] = IF m = n /\ k = "zero" THEN Append(fZeroTasks[m], t)
                                          ELSE fZeroTasks[m]
      BY <1>1, <2>1, <3>1
    <3>3. \A m \in Sem : fIncTasks'[m] = IF m = n /\ k # "zero" THEN Append(fIncTasks[m], t)
                                         ELSE fIncTasks[m]
      BY <1>1, <2>1, <3>1
    <3>4. ASSUME NEW y \in Lines PROVE w1[y] = IF y = x THEN Append(w[y], t) ELSE w[y]
      <4>1. y[1] \in Sem /\ y = <<y[1], y[2]>> /\ y[2] \in {"zero", "inc"} /\ "zero" # "inc"
        BY DEF Lines
      <4>2. y = x <=> y[1] = n /\ y[2] = k
        BY <4>1
      <4>3. /\ w1[y] = IF y[2] = "zero" THEN fZeroTasks'[y[1]] ELSE fIncTasks'[y[1]]
            /\ w[y] = IF y[2] = "zero" THEN fZeroTasks[y[1]] ELSE fIncTasks[y[1]]
        BY DEF Line, w
      <4> HIDE DEF w1, x
      <4>4. QED
        BY <3>1, <3>2, <3>3, <4>1, <4>2, <4>3
    <3>5. QED
      BY <2>5, <3>1, <3>4 DEF Lines
  <2>7. fZeroTasks' \in [Sem -> Seq(Task)] /\ fIncTasks' \in [Sem -> Seq(Task)]
    <3>1. /\ [fZeroTasks EXCEPT ![n] = Append(@, t)] \in [Sem -> Seq(Task)]
          /\ [fIncTasks EXCEPT ![n] = Append(@, t)] \in [Sem -> Seq(Task)]
      BY ONLY <1>1, <2>5, t \in Task, JoinHolds
    <3>2. QED
      BY <1>1, <2>1, <3>1
  <2>8. Placed(sched', w1, pc)
    <3> DEFINE w2 == [w EXCEPT ![x] = Append(@, t)]
    <3>1. w1 \in [Lines -> Seq(Task)]
      BY ONLY <2>7, LineIs
    <3> HIDE DEF x, w1
    <3>2. Placed(sched', w2, pc)
      BY <1>1, <1>2, <2>3, <2>6, PlacedWait
    <3>3. w1 = w2
      BY <1>1, <2>6, <3>1
    <3>4. QED
      BY <3>2, <3>3
  <2>9. ASSUME NEW m \in Sem, NEW a \in Task, Holds(fIncTasks'[m], a)
        PROVE  Stuck(fVal, pc, m, a)
    <3>1. Holds(fIncTasks[m], a) \/ (m = n /\ a = t /\ o # 0)
      <4>1. CASE o = 0
        BY <2>1, <2>9, <4>1
      <4>2. CASE o # 0
        <5>1. fIncTasks' = [fIncTasks EXCEPT ![n] = Append(@, t)]
          BY <2>1, <4>2
        <5>2. fIncTasks \in [Sem -> Seq(Task)]
          BY <1>1
        <5>3. QED
          BY <2>5, <2>9, <4>2, <5>1, <5>2, JoinHolds
      <4>3. QED
        BY <4>1, <4>2
    <3>2. Holds(fIncTasks[m], a) => Stuck(fVal, pc, m, a)
      BY DEF SemInv, IncreaseWaited
    <3>3. QED
      BY <2>4, <3>1, <3>2
  <2>10. IncreaseWaited(fVal', fIncTasks', pc')
    BY <1>8, <2>1, <2>9 DEF IncreaseWaited
  <2>11. sched' \in SchedulerRecord
    BY <2>3 DEF Settled
  <2>12. pc' \in [Task -> Label \cup {NoTask}] /\ Placed(sched', Line(fZeroTasks', fIncTasks'), pc')
    BY <1>1, <2>1, <2>8
  <2>13. QED
    BY <1>9, <2>7, <2>10, <2>11, <2>12, SemInvNext
<1>11. CASE call.inBlocking # kNoWaitOnBlock
  <2>1. /\ sched' = SwapTask(sched)
        /\ pc' = [pc EXCEPT ![t] = call.fail]
        /\ fZeroTasks' = fZeroTasks /\ fIncTasks' = fIncTasks
    BY <1>4, <1>11 DEF Goto
  <2>2. fVal' = fVal /\ exists' = exists
    BY <1>4, <1>8
  <2>3. QED
    BY <1>2, <2>1, <2>2, GoesOnKeeps
<1>12. QED
  BY <1>10, <1>11

\* What an emptied family of queues is made of.
LEMMA WokenLineIs ==
  ASSUME NEW list, NEW v, NEW x \in Lines
  PROVE  /\ x[1] \in Sem
         /\ x \in WokenLines(list, v) <=>
              IF x[2] = "zero" THEN x[1] \in FoundZero(list, v) ELSE x[1] \in Increased(list)
<1>1. x[1] \in Sem /\ x[2] \in {"zero", "inc"} /\ x = <<x[1], x[2]>> /\ "zero" # "inc"
  BY DEF Lines
<1>2. \A n : x = <<n, "zero">> <=> x[1] = n /\ x[2] = "zero"
  BY <1>1
<1>3. \A n : x = <<n, "inc">> <=> x[1] = n /\ x[2] = "inc"
  BY <1>1
<1>4. x \in WokenLines(list, v) <=> \/ \E n \in Increased(list) : x = <<n, "inc">>
                                    \/ \E n \in FoundZero(list, v) : x = <<n, "zero">>
  BY DEF WokenLines
<1>5. QED
  BY <1>1, <1>2, <1>3, <1>4

\* A list is performed: it wakes every task of the queues it empties.
LEMMA SemOpDoneKeeps ==
  ASSUME SemInv, NEW t \in Task, Current(t), pc[t] \in DOMAIN Program, exists,
         SemOpDone(t, Program[pc[t]])
  PROVE  SemInv'
<1> DEFINE call == Program[pc[t]]
           list == call.list
           v == Applied(fVal, list, Len(list) + 1)
           w == Line(fZeroTasks, fIncTasks)
           w1 == Line(fZeroTasks', fIncTasks')
           X == WokenLines(list, v)
           q == Woken(list, v)
           s1 == FoldLeft(ScheduleTask, sched, q)
           s2 == Wake(list, v)
<1>1. /\ Settled(sched) /\ sched.gCurrentTask # NoTask
      /\ fZeroTasks \in [Sem -> Seq(Task)] /\ fIncTasks \in [Sem -> Seq(Task)]
      /\ w \in [Lines -> Seq(Task)]
      /\ Placed(sched, w, pc)
      /\ pc \in [Task -> Label \cup {NoTask}]
      /\ fVal \in [Sem -> Nat]
      /\ \A x \in Lines : Distinct(w[x])
      /\ \A x, y \in Lines : x # y => Apart(w[x], w[y])
  BY SemInvFacts
<1>2. /\ t \in Ready(sched)
      /\ list \in Seq([num : Nat, op : Int])
      /\ call.ok \in Label \ {NoTask}
  BY CurrentFacts
<1>3. /\ Blocking(fVal, list) = {}
      /\ fVal' = v
      /\ sched' = SwapTask(s2)
      /\ fIncTasks' = [n \in Sem |-> IF n \in Increased(list) THEN <<>> ELSE fIncTasks[n]]
      /\ fZeroTasks' = [n \in Sem |-> IF n \in FoundZero(list, v) THEN <<>> ELSE fZeroTasks[n]]
      /\ pc' = [pc EXCEPT ![t] = call.ok]
      /\ exists' = exists
  BY DEF SemOpDone, Goto
<1>4. v \in [Sem -> Nat]
  <2>1. \A n \in Sem : v[n] \in Nat
    BY <1>1, <1>2, <1>3, DoneNotNegative
  <2>2. v = [n \in Sem |-> v[n]]
    BY DEF Applied
  <2> HIDE DEF v
  <2>3. QED
    BY <2>1, <2>2
<1>5. /\ q \in Seq(Task)
      /\ Distinct(q)
      /\ \A a \in Task : Holds(q, a) <=> \E x \in X : Holds(w[x], a)
      /\ X \in SUBSET Lines
  <2> HIDE DEF v, list, w
  <2>1. w = Line(fZeroTasks, fIncTasks)
    BY DEF w
  <2>2. QED
    BY <1>1, <1>2, <2>1, WokenHolds, WokenLinesAre
<1>6. \A a \in Task : Holds(q, a) => a \notin Ready(sched)
  BY <1>1, <1>5 DEF Placed
<1> HIDE DEF call, list, v, w, X, q
<1>7. /\ Settled(s1)
      /\ Ready(s1) = Ready(sched) \cup {a \in Task : Holds(q, a)}
      /\ s1.gCurrentTask = sched.gCurrentTask
  BY <1>1, <1>5, <1>6, FoldSettles
<1>8. /\ Settled(s2)
      /\ Ready(s2) = Ready(s1)
      /\ s2.gCurrentTask = sched.gCurrentTask
  <2>1. s2 = s1 \/ s2 = WantSchedule(s1)
    BY DEF Wake, q
  <2> HIDE DEF s1, s2
  <2>2. QED
    BY <1>7, <2>1, WantScheduleSettles
<1> HIDE DEF s1, s2
<1>9. /\ Settled(sched')
      /\ Ready(sched') = Ready(s2)
      /\ sched'.gCurrentTask # NoTask
  BY <1>1, <1>3, <1>8, SwapTaskSettles
<1>10. Ready(sched') = Ready(sched) \cup WaitingIn(w, X)
  BY <1>5, <1>7, <1>8, <1>9 DEF WaitingIn
<1>11. fZeroTasks' \in [Sem -> Seq(Task)] /\ fIncTasks' \in [Sem -> Seq(Task)]
  BY <1>1, <1>3
<1>12. w1 = Emptied(w, X)
  <2>1. ASSUME NEW x \in Lines PROVE w1[x] = IF x \in X THEN <<>> ELSE w[x]
    <3>1. x[1] \in Sem /\ (x \in X <=> IF x[2] = "zero" THEN x[1] \in FoundZero(list, v)
                                       ELSE x[1] \in Increased(list))
      BY WokenLineIs DEF X
    <3>2. /\ w1[x] = IF x[2] = "zero" THEN fZeroTasks'[x[1]] ELSE fIncTasks'[x[1]]
          /\ w[x] = IF x[2] = "zero" THEN fZeroTasks[x[1]] ELSE fIncTasks[x[1]]
      BY DEF Line, w
    <3>3. /\ fZeroTasks'[x[1]] = IF x[1] \in FoundZero(list, v) THEN <<>> ELSE fZeroTasks[x[1]]
          /\ fIncTasks'[x[1]] = IF x[1] \in Increased(list) THEN <<>> ELSE fIncTasks[x[1]]
      BY <1>3, <3>1
    <3> HIDE DEF w1
    <3>4. QED
      BY <3>1, <3>2, <3>3
  <2>2. w1 \in [Lines -> Seq(Task)]
    BY ONLY <1>11, LineIs
  <2> HIDE DEF w1
  <2>3. QED
    BY <2>1, <2>2 DEF Emptied
<1>13. /\ pc' \in [Task -> Label \cup {NoTask}]
       /\ \A a \in Task : pc'[a] = pc[a] \/ (a \in Ready(sched') /\ pc'[a] # NoTask)
  BY <1>1, <1>2, <1>3, <1>10
<1>14. Placed(sched', w1, pc')
  <2>1. Placed(sched', Emptied(w, X), pc')
    BY ONLY <1>1, <1>5, <1>9, <1>10, <1>13, PlacedWake
  <2>2. QED
    BY <1>12, <2>1
<1>15. IncreaseWaited(v, fIncTasks', pc')
  <2>1. ASSUME NEW n \in Sem, NEW a \in Task, Holds(fIncTasks'[n], a)
        PROVE  /\ v[n] <= fVal[n] /\ Holds(fIncTasks[n], a)
               /\ pc'[a] = pc[a] /\ pc[a] \in DOMAIN Program
    <3>1. n \notin Increased(list) /\ Holds(fIncTasks[n], a)
      <4>1. fIncTasks'[n] = IF n \in Increased(list) THEN <<>> ELSE fIncTasks[n]
        BY <1>3
      <4>2. ~Holds(<<>>, a)
        BY EmptyHoldsNobody
      <4>3. QED
        BY <2>1, <4>1, <4>2, Zenon
    <3>2. a \notin Ready(sched) /\ pc[a] \in DOMAIN Program
      BY <3>1, WaiterFacts
    <3>3. pc'[a] = pc[a]
      BY <1>1, <1>2, <1>3, <3>2
    <3>4. v[n] <= fVal[n]
      <4>1. ASSUME NEW i \in 1..Len(list), list[i].num = n PROVE list[i].op <= 0
        <5>1. DOMAIN list = 1..Len(list) /\ list[i] \in [num : Nat, op : Int]
          BY <1>2, SeqElements
        <5>2. i \in InGroup(list)
          BY <4>1, <5>1 DEF InGroup, Sem
        <5>3. ~(list[i].op > 0)
          BY <3>1, <4>1, <5>2 DEF Increased
        <5>4. QED
          BY <5>1, <5>3
      <4> DEFINE b == Added(list, Len(list) + 1, n)
      <4>2. b <= 0
        BY <1>2, <4>1, AddedAtMostZero
      <4>3. b \in Int
        <5>1. Len(list) + 1 \in 1..(Len(list) + 1)
          BY <1>2
        <5>2. QED
          BY <1>2, <5>1, AddedStep
      <4>4. v[n] = fVal[n] + b /\ fVal[n] \in Int
        BY <1>1 DEF v, Applied
      <4> HIDE DEF b
      <4>5. QED
        BY <4>2, <4>3, <4>4
    <3>5. QED
      BY <3>1, <3>2, <3>3, <3>4
  <2>2. IncreaseWaited(fVal, fIncTasks, pc)
    BY DEF SemInv
  <2>3. QED
    BY <1>1, <1>4, <2>1, <2>2, StillWaited
<1>16. sched' \in SchedulerRecord
  BY <1>9 DEF Settled
<1>17. exists' /\ exists' \in BOOLEAN /\ fVal' \in [Sem -> Nat] /\ IncreaseWaited(fVal', fIncTasks', pc')
  BY <1>3, <1>4, <1>15
<1>18. QED
  BY <1>11, <1>13, <1>14, <1>16, <1>17, SemInvNext

\* The id of a group that is gone.
LEMMA BadGroupKeeps ==
  ASSUME SemInv, NEW t \in Task, Current(t), pc[t] \in DOMAIN Program,
         BadGroup(t, Program[pc[t]])
  PROVE  SemInv'
<1>1. t \in Ready(sched) /\ Program[pc[t]].fail \in Label \ {NoTask}
  BY CurrentFacts
<1>2. /\ sched' = SwapTask(sched) /\ pc' = [pc EXCEPT ![t] = Program[pc[t]].fail]
      /\ fVal' = fVal /\ exists' = exists
      /\ fZeroTasks' = fZeroTasks /\ fIncTasks' = fIncTasks
  BY DEF BadGroup, Goto
<1>3. QED
  BY <1>1, <1>2, GoesOnKeeps

\* User code goes to another label.
LEMMA UserCodeKeeps ==
  ASSUME SemInv, NEW t \in Task, UserCode(t)
  PROVE  SemInv'
<1>1. /\ Current(t) /\ pc[t] \notin DOMAIN Program
      /\ sched' = sched /\ fVal' = fVal /\ exists' = exists
      /\ fZeroTasks' = fZeroTasks /\ fIncTasks' = fIncTasks
  BY DEF UserCode
<1>2. PICK l \in Branch[pc[t]] : pc' = [pc EXCEPT ![t] = l]
  BY DEF UserCode, Goto
<1>3. t \in Ready(sched) /\ pc[t] \in Label
  BY <1>1, CurrentFacts
<1>4. l \in Label \ {NoTask}
  BY <1>1, <1>2, <1>3
<1>5. QED
  BY <1>1, <1>2, <1>3, <1>4, GoesOnKeeps

\* A task is started.
LEMMA StartKeeps ==
  ASSUME SemInv, NEW t \in Task, Start(t)
  PROVE  SemInv'
<1> DEFINE w == Line(fZeroTasks, fIncTasks)
           s1 == ScheduleTask(sched, t)
<1>1. /\ Settled(sched) /\ sched.gCurrentTask # NoTask
      /\ fZeroTasks \in [Sem -> Seq(Task)] /\ fIncTasks \in [Sem -> Seq(Task)]
      /\ Placed(sched, w, pc)
      /\ pc \in [Task -> Label \cup {NoTask}]
      /\ fVal \in [Sem -> Nat]
      /\ exists \in BOOLEAN
      /\ ~exists => \A x \in Lines : w[x] = <<>>
  BY SemInvFacts DEF SemInv
<1>2. /\ pc[t] = NoTask /\ sched' = SwapTask(s1)
      /\ fVal' = fVal /\ exists' = exists
      /\ fZeroTasks' = fZeroTasks /\ fIncTasks' = fIncTasks
  BY DEF Start
<1>3. PICK l \in Entry[t] : pc' = [pc EXCEPT ![t] = l]
  BY DEF Start, Goto
<1>4. l \in Label /\ l # NoTask
  BY <1>3
<1>5. t \notin Ready(sched)
  BY <1>1, <1>2 DEF Placed
<1>6. /\ Settled(s1) /\ Ready(s1) = Ready(sched) \cup {t}
      /\ s1.gCurrentTask = sched.gCurrentTask
  BY <1>1, <1>5, ScheduleTaskSettles
<1>7. w = Line(fZeroTasks', fIncTasks')
  BY <1>2
<1> HIDE DEF s1, w
<1>8. Settled(sched') /\ Ready(sched') = Ready(sched) \cup {t} /\ sched'.gCurrentTask # NoTask
  BY <1>1, <1>2, <1>6, SwapTaskSettles
<1>9. /\ pc' \in [Task -> Label \cup {NoTask}]
      /\ pc'[t] # NoTask
      /\ \A a \in Task : a # t => pc'[a] = pc[a]
  BY <1>1, <1>3, <1>4
<1>10. Placed(sched', w, pc')
  <2>1. Placed(sched', w, [pc EXCEPT ![t] = l])
    BY <1>1, <1>2, <1>4, <1>8, PlacedStart
  <2>2. QED
    BY <1>3, <2>1
<1>11. IncreaseWaited(fVal', fIncTasks', pc')
  <2>1. ASSUME NEW m \in Sem, NEW a \in Task, Holds(fIncTasks[m], a)
        PROVE  Stuck(fVal, pc', m, a)
    <3>1. pc[a] \in DOMAIN Program
      BY <2>1, WaiterFacts
    <3>2. a # t
      BY <1>2, <3>1
    <3>3. pc'[a] = pc[a]
      BY <1>9, <3>2
    <3>4. Stuck(fVal, pc, m, a)
      BY <2>1 DEF SemInv, IncreaseWaited
    <3>5. QED
      BY <3>3, <3>4 DEF Stuck
  <2>2. QED
    BY <1>2, <2>1 DEF IncreaseWaited
<1>12. sched' \in SchedulerRecord
  BY <1>8 DEF Settled
<1>13. QED
  BY <1>1, <1>2, <1>7, <1>9, <1>10, <1>11, <1>12, SemInvNext

\* The timer interrupt makes the scheduler choose again.
LEMMA TimerInterruptKeeps ==
  ASSUME SemInv, TimerInterrupt
  PROVE  SemInv'
<1> DEFINE w == Line(fZeroTasks, fIncTasks)
           s1 == WantSchedule(sched)
           s2 == SetCurrentTask(s1, NoTask)
<1>1. /\ Settled(sched) /\ sched.gCurrentTask # NoTask
      /\ fZeroTasks \in [Sem -> Seq(Task)] /\ fIncTasks \in [Sem -> Seq(Task)]
      /\ Placed(sched, w, pc)
      /\ pc \in [Task -> Label \cup {NoTask}]
      /\ fVal \in [Sem -> Nat]
      /\ exists \in BOOLEAN
      /\ ~exists => \A x \in Lines : w[x] = <<>>
  BY SemInvFacts DEF SemInv
<1>2. /\ sched' = SwapTask(s2) /\ fVal' = fVal /\ exists' = exists /\ pc' = pc
      /\ fZeroTasks' = fZeroTasks /\ fIncTasks' = fIncTasks
  BY DEF TimerInterrupt
<1>3. w = Line(fZeroTasks', fIncTasks')
  BY <1>2
<1>4. Settled(s1) /\ Ready(s1) = Ready(sched) /\ s1.gCurrentTask = sched.gCurrentTask
  BY <1>1, WantScheduleSettles
<1> HIDE DEF s1, w
<1>5. Settled(s2) /\ Ready(s2) = Ready(sched) /\ s2.gCurrentTask = sched.gCurrentTask
  BY <1>4, SetCurrentTaskSettles
<1> HIDE DEF s2
<1>6. Settled(sched') /\ Ready(sched') = Ready(sched) /\ sched'.gCurrentTask # NoTask
  BY <1>1, <1>2, <1>5, SwapTaskSettles
<1>7. Placed(sched', w, pc')
  BY <1>1, <1>2, <1>6, PlacedGoes
<1>8. IncreaseWaited(fVal', fIncTasks', pc')
  BY <1>2 DEF SemInv
<1>9. sched' \in SchedulerRecord
  BY <1>6 DEF Settled
<1>10. QED
  BY <1>1, <1>2, <1>3, <1>7, <1>8, <1>9, SemInvNext

\* The destructor of the group leaves nobody waiting.
LEMMA DestroyGroupKeeps ==
  ASSUME SemInv, DestroyGroup
  PROVE  SemInv'
<1> DEFINE w == Line(fZeroTasks, fIncTasks)
           w1 == Line(fZeroTasks', fIncTasks')
           q == Waiters
           s1 == FoldLeft(ScheduleTask, sched, q)
<1>1. /\ Settled(sched) /\ sched.gCurrentTask # NoTask
      /\ fZeroTasks \in [Sem -> Seq(Task)] /\ fIncTasks \in [Sem -> Seq(Task)]
      /\ w \in [Lines -> Seq(Task)]
      /\ Placed(sched, w, pc)
      /\ pc \in [Task -> Label \cup {NoTask}]
      /\ fVal \in [Sem -> Nat]
      /\ \A x \in Lines : Distinct(w[x])
      /\ \A x, y \in Lines : x # y => Apart(w[x], w[y])
  BY SemInvFacts
<1>2. /\ exists' = FALSE
      /\ sched' = SwapTask(s1)
      /\ fZeroTasks' = [n \in Sem |-> <<>>]
      /\ fIncTasks' = [n \in Sem |-> <<>>]
      /\ pc' = [a \in Task |-> IF Contains(q, a) THEN Program[pc[a]].fail ELSE pc[a]]
      /\ fVal' = fVal
  BY DEF DestroyGroup
<1>3. /\ q \in Seq(Task)
      /\ Distinct(q)
      /\ \A a \in Task : Holds(q, a) <=> \E x \in Lines : Holds(w[x], a)
  BY <1>1, WaitersHold
<1>4. \A a \in Task : Contains(q, a) <=> Holds(q, a)
  BY DEF Contains, Holds
<1>5. \A a \in Task : Holds(q, a) => a \notin Ready(sched) /\ pc[a] \in DOMAIN Program
  BY <1>1, <1>3 DEF Placed
<1> HIDE DEF w, q
<1>6. /\ Settled(s1)
      /\ Ready(s1) = Ready(sched) \cup {a \in Task : Holds(q, a)}
      /\ s1.gCurrentTask = sched.gCurrentTask
  BY <1>1, <1>3, <1>5, FoldSettles
<1> HIDE DEF s1
<1>7. /\ Settled(sched')
      /\ Ready(sched') = Ready(sched) \cup WaitingIn(w, Lines)
      /\ sched'.gCurrentTask # NoTask
  <2>1. WaitingIn(w, Lines) = {a \in Task : Holds(q, a)}
    BY <1>3 DEF WaitingIn
  <2>2. QED
    BY <1>1, <1>2, <1>6, <2>1, SwapTaskSettles
<1>8. /\ fZeroTasks' \in [Sem -> Seq(Task)] /\ fIncTasks' \in [Sem -> Seq(Task)]
      /\ \A n \in Sem : fZeroTasks'[n] = <<>> /\ fIncTasks'[n] = <<>>
  BY <1>2
<1>9. \A x \in Lines : w1[x] = <<>>
  <2>1. ASSUME NEW x \in Lines PROVE w1[x] = <<>>
    <3>1. w1[x] = IF x[2] = "zero" THEN fZeroTasks'[x[1]] ELSE fIncTasks'[x[1]]
      BY DEF Line
    <3>2. x[1] \in Sem
      BY DEF Lines
    <3> HIDE DEF w1
    <3>3. QED
      BY <1>8, <3>1, <3>2
  <2>2. QED
    BY <2>1
<1>10. w1 = Emptied(w, Lines)
  <2>1. w1 \in [Lines -> Seq(Task)]
    BY ONLY <1>8, LineIs
  <2> HIDE DEF w1
  <2>2. QED
    BY <1>9, <2>1 DEF Emptied
<1>11. /\ pc' \in [Task -> Label \cup {NoTask}]
       /\ \A a \in Task : pc'[a] = pc[a] \/ (a \in Ready(sched') /\ pc'[a] # NoTask)
  <2>1. ASSUME NEW a \in Task
        PROVE  /\ pc'[a] \in Label \cup {NoTask}
               /\ pc'[a] = pc[a] \/ (a \in Ready(sched') /\ pc'[a] # NoTask)
    <3>1. CASE Holds(q, a)
      <4>1. pc'[a] = Program[pc[a]].fail
        BY <1>2, <1>4, <3>1
      <4>2. Program[pc[a]].fail \in Label /\ Program[pc[a]].fail # NoTask
        BY <1>5, <3>1
      <4>3. a \in Ready(sched')
        BY <1>3, <1>7, <3>1 DEF WaitingIn
      <4>4. QED
        BY <4>1, <4>2, <4>3
    <3>2. CASE ~Holds(q, a)
      <4>1. pc'[a] = pc[a]
        BY <1>2, <1>4, <3>2
      <4>2. QED
        BY <1>1, <4>1
    <3>3. QED
      BY <3>1, <3>2
  <2>2. pc' = [a \in Task |-> pc'[a]]
    BY <1>2
  <2>3. QED
    BY <2>1, <2>2
<1>12. Placed(sched', w1, pc')
  <2>1. Lines \in SUBSET Lines
    OBVIOUS
  <2>2. Placed(sched', Emptied(w, Lines), pc')
    BY ONLY <1>1, <1>7, <1>11, <2>1, PlacedWake
  <2>3. QED
    BY <1>10, <2>2
<1>13. IncreaseWaited(fVal', fIncTasks', pc')
  BY <1>8, EmptyHoldsNobody DEF IncreaseWaited
<1>14. sched' \in SchedulerRecord
  BY <1>7 DEF Settled
<1>15. exists' \in BOOLEAN /\ fVal' \in [Sem -> Nat]
  BY <1>1, <1>2
<1>16. QED
  BY <1>8, <1>9, <1>11, <1>12, <1>13, <1>14, <1>15, SemInvNext

\* Every step preserves the invariant.
LEMMA NextSemInv == SemInv /\ [Next]_vars => SemInv'
<1> SUFFICES ASSUME SemInv, [Next]_vars PROVE SemInv'
  OBVIOUS
<1>1. ASSUME NEW t \in Task, DoSemaphoreOp(t) PROVE SemInv'
  <2>1. Current(t) /\ pc[t] \in DOMAIN Program
    BY <1>1 DEF DoSemaphoreOp
  <2>2. CASE exists
    <3>1. SemOpBlocks(t, Program[pc[t]]) \/ SemOpDone(t, Program[pc[t]])
      BY <1>1, <2>2 DEF DoSemaphoreOp
    <3>2. QED
      BY <2>1, <2>2, <3>1, SemOpBlocksKeeps, SemOpDoneKeeps
  <2>3. CASE ~exists
    <3>1. BadGroup(t, Program[pc[t]])
      BY <1>1, <2>3 DEF DoSemaphoreOp
    <3>2. QED
      BY <2>1, <3>1, BadGroupKeeps
  <2>4. QED
    BY <2>2, <2>3
<1>2. ASSUME NEW t \in Task, UserCode(t) PROVE SemInv'
  BY <1>2, UserCodeKeeps
<1>3. ASSUME NEW t \in Task, Start(t) PROVE SemInv'
  BY <1>3, StartKeeps
<1>4. CASE TimerInterrupt
  BY <1>4, TimerInterruptKeeps
<1>5. CASE DestroyGroup
  BY <1>5, DestroyGroupKeeps
<1>6. CASE UNCHANGED vars
  BY <1>6 DEF vars, SemInv, TypeOK, Placed, IncreaseWaited, Stuck, Line
<1>7. QED
  BY <1>1, <1>2, <1>3, <1>4, <1>5, <1>6 DEF Next

-----------------------------------------------------------------------------
(* What follows from the invariant.                                        *)

\* the places of t in the queues q
PlacesIn(q, t) ==
  UNION {{<<n, i>> : i \in {j \in DOMAIN q[n] : q[n][j] = t}} : n \in Sem}

\* A task has at most one place in queues that share no task.
LEMMA PlacesCount ==
  ASSUME NEW q \in [Sem -> Seq(Task)], NEW t \in Task,
         \A n \in Sem : Distinct(q[n]),
         \A m, n \in Sem : m # n => Apart(q[m], q[n])
  PROVE  Cardinality(PlacesIn(q, t)) = IF \E n \in Sem : Holds(q[n], t) THEN 1 ELSE 0
<1>1. \A n \in Sem : DOMAIN q[n] = 1..Len(q[n])
  OBVIOUS
<1>2. \A x : x \in PlacesIn(q, t) <=>
               \E n \in Sem : \E i \in 1..Len(q[n]) : q[n][i] = t /\ x = <<n, i>>
  BY <1>1 DEF PlacesIn
<1>3. CASE \E n \in Sem : Holds(q[n], t)
  <2>1. PICK n \in Sem : Holds(q[n], t)
    BY <1>3
  <2>2. PICK i \in 1..Len(q[n]) : q[n][i] = t
    BY <2>1 DEF Holds
  <2>3. \A m \in Sem : Holds(q[m], t) => m = n
    BY <2>1 DEF Apart
  <2>4. \A j \in 1..Len(q[n]) : q[n][j] = t => j = i
    BY <2>2 DEF Distinct
  <2>5. \A m \in Sem : \A j \in 1..Len(q[m]) : q[m][j] = t => m = n /\ j = i
    <3>1. ASSUME NEW m \in Sem, NEW j \in 1..Len(q[m]), q[m][j] = t
          PROVE  m = n /\ j = i
      <4>1. Holds(q[m], t)
        BY <3>1 DEF Holds
      <4>2. m = n
        BY <2>3, <4>1
      <4>3. QED
        BY <2>4, <3>1, <4>2
    <3>2. QED
      BY <3>1
  <2>6. PlacesIn(q, t) = {<<n, i>>}
    <3>1. <<n, i>> \in PlacesIn(q, t)
      BY <1>2, <2>2
    <3>2. \A x \in PlacesIn(q, t) : x = <<n, i>>
      BY <1>2, <2>5
    <3>3. QED
      BY <3>1, <3>2
  <2>7. QED
    BY <1>3, <2>6, FS_Singleton
<1>4. CASE ~\E n \in Sem : Holds(q[n], t)
  <2>1. PlacesIn(q, t) = {}
    BY <1>2, <1>4 DEF Holds
  <2>2. QED
    BY <1>4, <2>1, FS_EmptySet
<1>5. QED
  BY <1>3, <1>4

\* The invariant says that every task is in one place.
LEMMA SemInvOnePlace == SemInv => OnePlace
<1> SUFFICES ASSUME SemInv PROVE OnePlace
  OBVIOUS
<1> DEFINE w == Line(fZeroTasks, fIncTasks)
<1>1. /\ Settled(sched)
      /\ fZeroTasks \in [Sem -> Seq(Task)] /\ fIncTasks \in [Sem -> Seq(Task)]
      /\ Placed(sched, w, pc)
      /\ \A x \in Lines : Distinct(w[x])
      /\ \A x, y \in Lines : x # y => Apart(w[x], w[y])
  BY SemInvFacts
<1>2. /\ \A n \in Sem : /\ <<n, "zero">> \in Lines /\ w[<<n, "zero">>] = fZeroTasks[n]
                        /\ <<n, "inc">> \in Lines /\ w[<<n, "inc">>] = fIncTasks[n]
      /\ \A x \in Lines : \E n \in Sem : x = <<n, "zero">> \/ x = <<n, "inc">>
  BY ONLY LineIs, <1>1
<1>3. \A m, n \in Sem :
        /\ <<m, "zero">> # <<n, "inc">>
        /\ m # n => <<m, "zero">> # <<n, "zero">>
        /\ m # n => <<m, "inc">> # <<n, "inc">>
  OBVIOUS
<1> HIDE DEF w
<1>4. /\ \A n \in Sem : Distinct(fZeroTasks[n]) /\ Distinct(fIncTasks[n])
      /\ \A m, n \in Sem : m # n => /\ Apart(fZeroTasks[m], fZeroTasks[n])
                                    /\ Apart(fIncTasks[m], fIncTasks[n])
      /\ \A m, n \in Sem : Apart(fZeroTasks[m], fIncTasks[n])
  <2>1. ASSUME NEW m \in Sem, NEW n \in Sem
        PROVE  /\ Distinct(fZeroTasks[n]) /\ Distinct(fIncTasks[n])
               /\ Apart(fZeroTasks[m], fIncTasks[n])
               /\ m # n => /\ Apart(fZeroTasks[m], fZeroTasks[n])
                           /\ Apart(fIncTasks[m], fIncTasks[n])
    <3> DEFINE zm == <<m, "zero">>
               zn == <<n, "zero">>
               im == <<m, "inc">>
               in == <<n, "inc">>
    <3>1. zm # in /\ (m # n => zm # zn /\ im # in)
      BY <1>3
    <3>2. /\ {zm, zn, im, in} \subseteq Lines
          /\ w[zm] = fZeroTasks[m] /\ w[zn] = fZeroTasks[n]
          /\ w[im] = fIncTasks[m] /\ w[in] = fIncTasks[n]
      BY <1>2
    <3> HIDE DEF zm, zn, im, in
    <3>3. /\ Distinct(w[zn]) /\ Distinct(w[in]) /\ Apart(w[zm], w[in])
          /\ m # n => Apart(w[zm], w[zn]) /\ Apart(w[im], w[in])
      BY <1>1, <3>1, <3>2
    <3>4. QED
      BY <3>2, <3>3
  <2>2. QED
    BY <2>1
<1>5. ASSUME NEW t \in Task
      PROVE  Cardinality(PlacesIn(fZeroTasks, t)) + Cardinality(PlacesIn(fIncTasks, t))
               + (IF Current(t) THEN 1 ELSE 0) + (IF t \in sched.queued THEN 1 ELSE 0)
             = IF pc[t] = NoTask THEN 0 ELSE 1
  <2> DEFINE Zero == \E n \in Sem : Holds(fZeroTasks[n], t)
             Inc == \E n \in Sem : Holds(fIncTasks[n], t)
  <2>1. /\ Cardinality(PlacesIn(fZeroTasks, t)) = IF Zero THEN 1 ELSE 0
        /\ Cardinality(PlacesIn(fIncTasks, t)) = IF Inc THEN 1 ELSE 0
    BY <1>1, <1>4, PlacesCount
  <2>2. ~(Zero /\ Inc)
    BY <1>4 DEF Apart
  <2>3. (\E x \in Lines : Holds(w[x], t)) <=> Zero \/ Inc
    <3>1. ASSUME NEW x \in Lines, Holds(w[x], t) PROVE Zero \/ Inc
      <4>1. PICK n \in Sem : x = <<n, "zero">> \/ x = <<n, "inc">>
        BY <1>2
      <4>2. Holds(fZeroTasks[n], t) \/ Holds(fIncTasks[n], t)
        BY <1>2, <3>1, <4>1
      <4>3. QED
        BY <4>2
    <3>2. ASSUME NEW n \in Sem, Holds(fZeroTasks[n], t) \/ Holds(fIncTasks[n], t)
          PROVE  \E x \in Lines : Holds(w[x], t)
      BY <1>2, <3>2
    <3>3. QED
      BY <3>1, <3>2
  <2> HIDE DEF Zero, Inc
  <2>4. t \in Ready(sched) <=> Current(t) \/ t \in sched.queued
    BY DEF Ready, Current
  <2>5. ~(Current(t) /\ t \in sched.queued)
    BY <1>1 DEF Settled, Current
  <2>6. pc[t] # NoTask <=> t \in Ready(sched) \/ Zero \/ Inc
    BY <1>1, <2>3, Zenon DEF Placed
  <2>7. ~(t \in Ready(sched) /\ (Zero \/ Inc))
    BY <1>1, <2>3, Zenon DEF Placed
  <2>8. QED
    BY <2>1, <2>2, <2>4, <2>5, <2>6, <2>7
<1>6. QED
  BY <1>1, <1>5 DEF OnePlace, PlacesIn, Settled

\* The invariant says that nobody who waits for an increase could go on.
LEMMA SemInvNoLostIncrease == SemInv => NoLostIncrease
<1> SUFFICES ASSUME SemInv, NEW n \in Sem, NEW t \in Task, Holds(fIncTasks[n], t)
             PROVE  Blocking(fVal, Program[pc[t]].list) # {}
  BY DEF NoLostIncrease
<1> DEFINE list == Program[pc[t]].list
<1>1. Stuck(fVal, pc, n, t)
  BY DEF SemInv, IncreaseWaited
<1>2. PICK i \in InGroup(list) : /\ list[i].num = n /\ list[i].op < 0
                                 /\ fVal[n] + Added(list, i, n) < -list[i].op
  BY <1>1 DEF Stuck
<1>3. Applied(fVal, list, i)[n] = fVal[n] + Added(list, i, n)
  BY DEF Applied
<1>4. WouldCauseBlock(fVal, list, i)
  BY <1>2, <1>3 DEF WouldCauseBlock
<1>5. QED
  BY <1>2, <1>4 DEF Blocking

-----------------------------------------------------------------------------

\* The invariant always holds.
LEMMA SemaphoreInvariant == Spec => []SemInv
BY InitSemInv, NextSemInv, PTL DEF Spec

\* TypeOK: no value of a semaphore ever falls below zero, although unwindOp
\* subtracts without a test and semOp tests each operation against what the
\* operations before it left.
THEOREM SemaphoreTypeOK == Spec => []TypeOK
<1>1. SemInv => TypeOK
  BY DEF SemInv
<1>2. QED
  BY <1>1, SemaphoreInvariant, PTL

\* OnePlace: whatever the client programs are, the wake loops of semOp and of the
\* destructors never put a task into two queues, lose it, or schedule it twice.
THEOREM SemaphoreOnePlace == Spec => []OnePlace
BY SemInvOnePlace, SemaphoreInvariant, PTL

\* NoLostIncrease: no client program can leave a task waiting for an increase of a
\* semaphore when it could perform its list.
THEOREM SemaphoreNoLostIncrease == Spec => []NoLostIncrease
BY SemInvNoLostIncrease, SemaphoreInvariant, PTL

-----------------------------------------------------------------------------
(* The clients: what a step does to the values and the labels.             *)

HIDE SchedulerAssumption

\* a task's list is performed
Performs(t) ==
  LET call == Program[pc[t]]
  IN  /\ pc[t] \in DOMAIN Program
      /\ Blocking(fVal, call.list) = {}
      /\ fVal' = Applied(fVal, call.list, Len(call.list) + 1)
      /\ pc' = [pc EXCEPT ![t] = call.ok]

\* a task's list is refused, and the task told so
Refused(t) ==
  LET call == Program[pc[t]]
  IN  /\ pc[t] \in DOMAIN Program
      /\ call.inBlocking # kNoWaitOnBlock
      /\ Blocking(fVal, call.list) # {}
      /\ fVal' = fVal
      /\ pc' = [pc EXCEPT ![t] = call.fail]

\* a task goes on by itself
Chooses(t) ==
  /\ pc[t] \notin DOMAIN Program
  /\ fVal' = fVal
  /\ \E l : /\ pc' = [pc EXCEPT ![t] = l]
            /\ l \in Entry[t] \/ (pc[t] \in DOMAIN Branch /\ l \in Branch[pc[t]])

\* While the group exists every step is one of these or leaves both alone.
LEMMA NextCases ==
  ASSUME SemInv, [Next]_vars, exists'
  PROVE  /\ exists
         /\ \/ fVal' = fVal /\ pc' = pc
            \/ \E t \in Task : Performs(t) \/ Refused(t) \/ Chooses(t)
<1> DEFINE Goal == /\ exists
                   /\ \/ fVal' = fVal /\ pc' = pc
                      \/ \E t \in Task : Performs(t) \/ Refused(t) \/ Chooses(t)
<1>1. ASSUME NEW t \in Task, DoSemaphoreOp(t) PROVE Goal
  <2>1. Current(t) /\ pc[t] \in DOMAIN Program
    BY <1>1 DEF DoSemaphoreOp
  <2>2. CASE exists /\ SemOpBlocks(t, Program[pc[t]])
    <3> DEFINE call == Program[pc[t]]
               i == BlockedAt(fVal, call.list)
    <3>1. SemOpBlocks(t, call) /\ call.list \in Seq([num : Nat, op : Int])
      BY <2>1, <2>2, CurrentFacts
    <3> HIDE DEF call
    <3>2. /\ Blocking(fVal, call.list) # {}
          /\ fVal' = UnwindOp(Applied(fVal, call.list, i), call.list, i)
          /\ IF call.inBlocking = kNoWaitOnBlock
             THEN Waits(t, call.list[i].num, call.list[i].op)
             ELSE Goto(t, call.fail)
      BY <3>1 DEF SemOpBlocks
    <3>3. IF call.inBlocking = kNoWaitOnBlock THEN pc' = pc
                                              ELSE pc' = [pc EXCEPT ![t] = call.fail]
      BY <3>2 DEF Waits, Goto
    <3>4. fVal \in [Sem -> Nat]
      BY SemInvFacts
    <3>5. fVal' = fVal
      BY <3>1, <3>2, <3>4, BlockedUnwinds
    <3>6. call.inBlocking = kNoWaitOnBlock \/ Refused(t)
      BY <2>1, <3>2, <3>3, <3>5 DEF Refused, call
    <3>7. QED
      BY <2>2, <3>3, <3>5, <3>6
  <2>3. CASE exists /\ SemOpDone(t, Program[pc[t]])
    BY <2>1, <2>3 DEF SemOpDone, Performs, Goto
  <2>4. CASE ~exists
    BY <1>1, <2>4 DEF DoSemaphoreOp, BadGroup
  <2>5. QED
    BY <1>1, <2>2, <2>3, <2>4 DEF DoSemaphoreOp
<1>2. ASSUME NEW t \in Task, UserCode(t) PROVE Goal
  <2>1. Current(t) /\ pc[t] \notin DOMAIN Program /\ fVal' = fVal /\ exists' = exists
    BY <1>2 DEF UserCode
  <2>2. PICK l \in Branch[pc[t]] : pc' = [pc EXCEPT ![t] = l]
    BY <1>2 DEF UserCode, Goto
  <2>3. pc[t] \in Label
    BY <2>1, CurrentFacts
  <2>4. pc[t] \in DOMAIN Branch
    BY <2>1, <2>3
  <2>5. Chooses(t)
    BY <2>1, <2>2, <2>4 DEF Chooses
  <2>6. QED
    BY <2>1, <2>5
<1>3. ASSUME NEW t \in Task, Start(t) PROVE Goal
  <2>1. pc[t] = NoTask /\ fVal' = fVal /\ exists' = exists
    BY <1>3 DEF Start
  <2>2. PICK l \in Entry[t] : pc' = [pc EXCEPT ![t] = l]
    BY <1>3 DEF Start, Goto
  <2>3. NoTask \notin DOMAIN Program
    OBVIOUS
  <2>4. Chooses(t)
    BY <2>1, <2>2, <2>3 DEF Chooses
  <2>5. QED
    BY <2>1, <2>4
<1>4. CASE TimerInterrupt
  BY <1>4 DEF TimerInterrupt
<1>5. CASE DestroyGroup
  BY <1>5 DEF DestroyGroup
<1>6. CASE UNCHANGED vars
  BY <1>6 DEF vars
<1>7. QED
  BY <1>1, <1>2, <1>3, <1>4, <1>5, <1>6 DEF Next

\* Each operation of a performed list could be performed.
LEMMA PerformedOps ==
  ASSUME NEW list \in Seq([num : Nat, op : Int]), NEW v, Blocking(v, list) = {},
         NEW i \in 1..Len(list), list[i].num \in Sem
  PROVE  LET val == v[list[i].num] + Added(list, i, list[i].num) IN
         /\ list[i].op = 0 => val = 0
         /\ list[i].op < 0 => ~(val < -list[i].op)
<1>1. i \in InGroup(list)
  <2>1. DOMAIN list = 1..Len(list)
    BY SeqElements
  <2>2. QED
    BY <2>1 DEF InGroup, Sem
<1>2. ~WouldCauseBlock(v, list, i)
  BY <1>1 DEF Blocking
<1>3. QED
  BY <1>2 DEF WouldCauseBlock, Applied

-----------------------------------------------------------------------------
(* Counting tasks by their labels.                                         *)

HowMany(p, L) == Cardinality({t \in Task : p[t] \in L})

\* It is a number.
LEMMA CountIsNat == ASSUME IsFiniteSet(Task), NEW p, NEW L PROVE HowMany(p, L) \in Nat
BY FS_Subset, FS_CardinalityType DEF HowMany

\* It is zero when nobody is there.
LEMMA NobodyCounts ==
  ASSUME NEW p, NEW L, \A t \in Task : p[t] \notin L
  PROVE  HowMany(p, L) = 0
<1>1. {t \in Task : p[t] \in L} = {}
  OBVIOUS
<1>2. QED
  BY <1>1, FS_EmptySet DEF HowMany

\* One task goes from a label to another.
LEMMA MoveCount ==
  ASSUME IsFiniteSet(Task), NEW p \in [Task -> Label \cup {NoTask}],
         NEW t \in Task, NEW l, NEW L
  PROVE  HowMany([p EXCEPT ![t] = l], L)
           = HowMany(p, L) - (IF p[t] \in L THEN 1 ELSE 0) + (IF l \in L THEN 1 ELSE 0)
<1> DEFINE S == {a \in Task : p[a] \in L}
           q == [p EXCEPT ![t] = l]
           S1 == {a \in Task : q[a] \in L}
           R == S \ {t}
<1>1. IsFiniteSet(S) /\ Cardinality(S) \in Nat
  <2>1. IsFiniteSet(S)
    BY FS_Subset
  <2>2. QED
    BY ONLY <2>1, FS_CardinalityType
<1>2. /\ IsFiniteSet(R)
      /\ Cardinality(R) = IF t \in S THEN Cardinality(S) - 1 ELSE Cardinality(S)
  BY <1>1, FS_RemoveElement
<1>3. Cardinality(R \cup {t}) = Cardinality(R) + 1
  <2>1. t \notin R
    OBVIOUS
  <2>2. QED
    BY <1>2, <2>1, FS_AddElement
<1>4. S1 = IF l \in L THEN R \cup {t} ELSE R
  OBVIOUS
<1>5. t \in S <=> p[t] \in L
  OBVIOUS
<1> HIDE DEF S, S1, R
<1>6. Cardinality(S1) = Cardinality(S) - (IF p[t] \in L THEN 1 ELSE 0)
                                       + (IF l \in L THEN 1 ELSE 0)
  BY <1>1, <1>2, <1>3, <1>4, <1>5
<1>7. QED
  BY <1>1, <1>6 DEF HowMany, S, S1

-----------------------------------------------------------------------------
(* What the short lists of the clients add.                                *)

\* an operation as CUSemaphoreOpList::init stores it
Op(n, o) == [num |-> n, op |-> o]

LEMMA FirstOps ==
  ASSUME NEW list \in Seq([num : Nat, op : Int]), NEW n
  PROVE  LET val(i) == IF list[i].num = n THEN list[i].op ELSE 0 IN
         /\ Added(list, 1, n) = 0
         /\ Len(list) >= 1 => Added(list, 2, n) = val(1)
         /\ Len(list) >= 2 => Added(list, 3, n) = val(1) + val(2)
         /\ Len(list) >= 3 => Added(list, 4, n) = val(1) + val(2) + val(3)
<1> DEFINE val(i) == IF list[i].num = n THEN list[i].op ELSE 0
<1>1. /\ Added(list, 1, n) = 0
      /\ \A i \in 1..Len(list) : Added(list, i + 1, n) = Added(list, i, n) + val(i)
  BY ONLY list \in Seq([num : Nat, op : Int]), AddedStep
<1>2. Len(list) \in Nat /\ \A i \in 1..Len(list) : val(i) \in Int
  <2>1. Len(list) \in Nat /\ \A i \in 1..Len(list) : list[i] \in [num : Nat, op : Int]
    BY SeqElements
  <2>2. QED
    BY <2>1
<1> HIDE DEF val
<1>3. Len(list) >= 1 => Added(list, 2, n) = val(1)
  BY <1>1, <1>2
<1>4. Len(list) >= 2 => Added(list, 3, n) = val(1) + val(2)
  BY <1>1, <1>2, <1>3
<1>5. Len(list) >= 3 => Added(list, 4, n) = val(1) + val(2) + val(3)
  BY <1>1, <1>2, <1>4
<1>6. QED
  BY <1>1, <1>3, <1>4, <1>5 DEF val

-----------------------------------------------------------------------------
(* Readers and writers.                                                    *)

\* The semaphores count at least the holders, and a writer is alone.
RdWrHeld(v, p) ==
  LET w == HowMany(p, {"writing"})
      r == HowMany(p, {"reading"})
  IN  /\ w <= v[Writers] /\ r <= v[Readers]
      /\ w = 0 \/ (w = 1 /\ r = 0)

\* where the lists of the lock make sense: on a little-endian machine only in a
\* group of their own
LockPlaced == BigEndian \/ RdWrBase = 0

\* The lists as CUSemaphoreOpList::init stores them.
LEMMA RdWrLists ==
  ASSUME LockPlaced
  PROVE  /\ fAcquireRdOp = <<Op(Writers, 0), Op(Readers, 1)>>
         /\ fAcquireWrOp = IF BigEndian
                           THEN <<Op(Writers, 0), Op(Writers, 1), Op(Readers, 0)>>
                           ELSE <<Op(Writers, 0), Op(Readers, 0), Op(Writers, 1)>>
         /\ fReleaseRdOp = IF BigEndian THEN <<Op(Readers, -1)>> ELSE <<Op(65535, 1)>>
         /\ fReleaseWrOp = IF BigEndian THEN <<Op(Writers, -1)>> ELSE <<Op(65535, 0)>>
<1>1. CASE BigEndian
  BY <1>1 DEF fAcquireRdOp, fAcquireWrOp, fReleaseRdOp, fReleaseWrOp, SemListItem, Op
<1>2. CASE ~BigEndian
  <2>1. Writers = 0 /\ Readers = 1
    BY <1>2 DEF LockPlaced, Writers, Readers
  <2>2. /\ \A n : SemListItem(n, 0) = Op(0, n) /\ SemListItem(n, 1) = Op(1, n)
        /\ \A n, x : x \in Int /\ x + 1 = 0 => SemListItem(n, x) = Op(65535, n)
    <3>1. 0 % 65536 = 0 /\ 1 % 65536 = 1
      OBVIOUS
    <3>2. \A x \in Int : x + 1 = 0 => x % 65536 = 65535
      OBVIOUS
    <3>3. QED
      BY <1>2, <3>1, <3>2 DEF SemListItem, Op
  <2>3. \A n : SemListItem(n, -1) = Op(65535, n)
    BY <2>2
  <2>4. QED
    BY <1>2, <2>1, <2>2, <2>3 DEF fAcquireRdOp, fAcquireWrOp, fReleaseRdOp, fReleaseWrOp
<1>3. QED
  BY <1>1, <1>2

\* What a performed list does to the two semaphores, by the label of its task.
LEMMA RdWrPerforms ==
  ASSUME LockPlaced, NEW v \in [Sem -> Nat], NEW l \in DOMAIN Program,
         Blocking(v, Program[l].list) = {}
  PROVE  LET list == Program[l].list
             v1 == Applied(v, list, Len(list) + 1)
         IN  /\ l = "acquireRd" => /\ v[Writers] = 0
                                   /\ v1[Writers] = 0 /\ v1[Readers] = v[Readers] + 1
                                   /\ Program[l].ok = "reading"
             /\ l = "acquireWr" => /\ v[Writers] = 0 /\ v[Readers] = 0
                                   /\ v1[Writers] = 1 /\ v1[Readers] = 0
                                   /\ Program[l].ok = "writing"
             /\ l = "reading" => /\ v1[Writers] = v[Writers]
                                 /\ v1[Readers] \in {v[Readers] - 1, v[Readers]}
                                 /\ Program[l].ok = "unlocked"
             /\ l = "writing" => /\ v1[Writers] \in {v[Writers] - 1, v[Writers]}
                                 /\ v1[Readers] = v[Readers]
                                 /\ Program[l].ok = "unlocked"
             /\ l \notin DOMAIN RdWrProgram =>
                  /\ v1[Writers] = v[Writers] /\ v1[Readers] = v[Readers]
                  /\ Program[l].ok \notin {"reading", "writing"}
<1> USE RdWrAssumption
<1> DEFINE list == Program[l].list
           v1 == Applied(v, list, Len(list) + 1)
           W == Writers
           R == Readers
<1>0. DOMAIN RdWrProgram = {"acquireRd", "acquireWr", "reading", "writing"}
  BY DEF RdWrProgram, RdWrLabels
<1>1. /\ W \in Nat /\ R \in Nat /\ W \in Sem /\ R \in Sem /\ W # R
      /\ v[W] \in Nat /\ v[R] \in Nat
      /\ BigEndian \/ (W # 65535 /\ R # 65535)
  BY DEF Writers, Readers, LockPlaced
<1>2. \A n, o : Op(n, o).num = n /\ Op(n, o).op = o
  BY DEF Op
<1>3. list \in Seq([num : Nat, op : Int])
  OBVIOUS
<1>4. \A n \in Sem : v1[n] = v[n] + Added(list, Len(list) + 1, n)
  BY DEF Applied
<1>5. \A i \in 1..Len(list) : list[i].num \in Sem =>
        LET val == v[list[i].num] + Added(list, i, list[i].num) IN
        /\ list[i].op = 0 => val = 0
        /\ list[i].op < 0 => ~(val < -list[i].op)
  BY <1>3, PerformedOps
<1>6. \A n : LET val(i) == IF list[i].num = n THEN list[i].op ELSE 0 IN
         /\ Added(list, 1, n) = 0
         /\ Len(list) >= 1 => Added(list, 2, n) = val(1)
         /\ Len(list) >= 2 => Added(list, 3, n) = val(1) + val(2)
         /\ Len(list) >= 3 => Added(list, 4, n) = val(1) + val(2) + val(3)
  BY ONLY <1>3, FirstOps
<1>7. CASE l = "acquireRd"
  <2>1. Program[l] = acquireRd
    BY <1>7 DEF RdWrProgram, RdWrLabels
  <2>2. list = <<Op(W, 0), Op(R, 1)>> /\ Program[l].ok = "reading"
    BY <2>1, RdWrLists DEF acquireRd, Call
  <2> HIDE DEF list, W, R, v1
  <2>3. /\ Len(list) = 2 /\ list[1] = Op(W, 0) /\ list[2] = Op(R, 1)
        /\ \A n : Added(list, 1, n) = 0
        /\ Added(list, 3, W) = 0 /\ Added(list, 3, R) = 1
    <3>1. Len(list) = 2 /\ list[1] = Op(W, 0) /\ list[2] = Op(R, 1)
      BY <2>2
    <3>2. \A n : /\ Added(list, 1, n) = 0
                /\ Added(list, 3, n) = (IF n = W THEN 0 ELSE 0) + (IF n = R THEN 1 ELSE 0)
      BY ONLY <1>2, <1>6, <3>1
    <3>3. Added(list, 3, W) = 0 /\ Added(list, 3, R) = 1
      BY ONLY <1>1, <3>2
    <3>4. QED
      BY ONLY <3>1, <3>2, <3>3
  <2>4. v[W] + 0 = 0
    BY <1>1, <1>2, <1>5, <2>3
  <2>5. v[W] = 0 /\ v1[W] = v[W] /\ v1[R] = v[R] + 1
    BY <1>1, <1>4, <2>3, <2>4
  <2>6. QED
    BY <1>0, <1>7, <2>2, <2>5 DEF list, v1, W, R
<1>8. CASE l = "acquireWr"
  <2>1. Program[l] = acquireWr
    BY <1>8 DEF RdWrProgram, RdWrLabels
  <2>2. /\ \/ list = <<Op(W, 0), Op(W, 1), Op(R, 0)>>
           \/ list = <<Op(W, 0), Op(R, 0), Op(W, 1)>>
        /\ Program[l].ok = "writing"
    BY <2>1, RdWrLists DEF acquireWr, Call
  <2> HIDE DEF list, W, R, v1
  <2>3. /\ Len(list) = 3 /\ list[1] = Op(W, 0)
        /\ \/ list[2] = Op(W, 1) /\ list[3] = Op(R, 0)
           \/ list[2] = Op(R, 0) /\ list[3] = Op(W, 1)
    BY <2>2
  <2>4. /\ \A n : Added(list, 1, n) = 0
        /\ Added(list, 2, R) = 0 /\ Added(list, 3, R) = 0
        /\ Added(list, 4, W) = 1 /\ Added(list, 4, R) = 0
    <3> DEFINE val(i, n) == IF list[i].num = n THEN list[i].op ELSE 0
    <3>1. \A n : /\ Added(list, 1, n) = 0
                /\ Added(list, 2, n) = val(1, n)
                /\ Added(list, 3, n) = val(1, n) + val(2, n)
                /\ Added(list, 4, n) = val(1, n) + val(2, n) + val(3, n)
      BY <1>6, <2>3
    <3>2. /\ val(1, R) = 0 /\ val(1, W) = 0 /\ val(2, R) = 0 /\ val(3, R) = 0
          /\ \/ val(2, W) = 1 /\ val(3, W) = 0
             \/ val(2, W) = 0 /\ val(3, W) = 1
      <4>1. CASE list[2] = Op(W, 1) /\ list[3] = Op(R, 0)
        BY <1>1, <1>2, <2>3, <4>1
      <4>2. CASE list[2] = Op(R, 0) /\ list[3] = Op(W, 1)
        BY <1>1, <1>2, <2>3, <4>2
      <4>3. QED
        BY <2>3, <4>1, <4>2
    <3> HIDE DEF val
    <3>3. QED
      BY <3>1, <3>2
  <2>5. v[W] + 0 = 0
    BY <1>1, <1>2, <1>5, <2>3, <2>4
  <2>6. v[R] + 0 = 0
    BY <1>1, <1>2, <1>5, <2>3, <2>4
  <2>7. v[W] = 0 /\ v[R] = 0 /\ v1[W] = 1 /\ v1[R] = 0
    BY <1>1, <1>4, <2>3, <2>4, <2>5, <2>6
  <2>8. QED
    BY <1>0, <1>8, <2>2, <2>7 DEF list, v1, W, R
<1>9. CASE l = "reading"
  <2>1. Program[l] = releaseRd
    BY <1>9 DEF RdWrProgram, RdWrLabels
  <2>2. list = (IF BigEndian THEN <<Op(R, -1)>> ELSE <<Op(65535, 1)>>)
        /\ Program[l].ok = "unlocked"
    BY <2>1, RdWrLists DEF releaseRd, Call
  <2> HIDE DEF list, W, R, v1
  <2>3. Added(list, Len(list) + 1, W) = 0 /\ Added(list, Len(list) + 1, R) \in {-1, 0}
    <3>1. CASE BigEndian
      <4>1. Len(list) = 1 /\ list[1] = Op(R, -1)
        BY <2>2, <3>1
      <4>2. QED
        BY <1>1, <1>2, <1>6, <4>1
    <3>2. CASE ~BigEndian
      <4>1. Len(list) = 1 /\ list[1] = Op(65535, 1)
        BY <2>2, <3>2
      <4>2. QED
        BY <1>1, <1>2, <1>6, <3>2, <4>1
    <3>3. QED
      BY <3>1, <3>2
  <2>4. v1[W] = v[W] /\ v1[R] \in {v[R] - 1, v[R]}
    BY <1>1, <1>4, <2>3
  <2>5. QED
    BY <1>0, <1>9, <2>2, <2>4 DEF list, v1, W, R
<1>10. CASE l = "writing"
  <2>1. Program[l] = releaseWr
    BY <1>10 DEF RdWrProgram, RdWrLabels
  <2>2. list = (IF BigEndian THEN <<Op(W, -1)>> ELSE <<Op(65535, 0)>>)
        /\ Program[l].ok = "unlocked"
    BY <2>1, RdWrLists DEF releaseWr, Call
  <2> HIDE DEF list, W, R, v1
  <2>3. Added(list, Len(list) + 1, W) \in {-1, 0} /\ Added(list, Len(list) + 1, R) = 0
    <3>1. CASE BigEndian
      <4>1. Len(list) = 1 /\ list[1] = Op(W, -1)
        BY <2>2, <3>1
      <4>2. QED
        BY <1>1, <1>2, <1>6, <4>1
    <3>2. CASE ~BigEndian
      <4>1. Len(list) = 1 /\ list[1] = Op(65535, 0)
        BY <2>2, <3>2
      <4>2. QED
        BY <1>1, <1>2, <1>6, <3>2, <4>1
    <3>3. QED
      BY <3>1, <3>2
  <2>4. v1[W] \in {v[W] - 1, v[W]} /\ v1[R] = v[R]
    BY <1>1, <1>4, <2>3
  <2>5. QED
    BY <1>0, <1>10, <2>2, <2>4 DEF list, v1, W, R
<1>11. CASE l \notin DOMAIN RdWrProgram
  <2>1. /\ Program[l].ok \notin {"reading", "writing"}
        /\ \A i \in DOMAIN list : list[i].num # W /\ list[i].num # R
    BY <1>11
  <2>2. DOMAIN list = 1..Len(list)
    BY <1>3, SeqElements
  <2> HIDE DEF list, W, R, v1
  <2>3. Added(list, Len(list) + 1, W) = 0 /\ Added(list, Len(list) + 1, R) = 0
    BY <1>3, <2>1, <2>2, AddedNothing
  <2>4. v1[W] = v[W] /\ v1[R] = v[R]
    BY <1>1, <1>4, <2>3
  <2>5. l \notin {"acquireRd", "acquireWr", "reading", "writing"}
    BY <1>11 DEF RdWrProgram, RdWrLabels
  <2>6. QED
    BY <2>1, <2>4, <2>5 DEF list, v1, W, R
<1>12. QED
  BY <1>0, <1>7, <1>8, <1>9, <1>10, <1>11, Zenon

\* While the group exists, its steps keep the lock.
LEMMA RdWrStep ==
  ASSUME IsFiniteSet(Task), LockPlaced, inBlocking = kNoWaitOnBlock,
         SemInv, [Next]_vars, exists', RdWrHeld(fVal, pc)
  PROVE  RdWrHeld(fVal', pc')
<1> USE RdWrAssumption
<1> DEFINE W == fVal[Writers]
           R == fVal[Readers]
           w == HowMany(pc, {"writing"})
           r == HowMany(pc, {"reading"})
           w1 == HowMany(pc', {"writing"})
           r1 == HowMany(pc', {"reading"})
<1>1. /\ fVal \in [Sem -> Nat] /\ pc \in [Task -> Label \cup {NoTask}]
      /\ Writers \in Sem /\ Readers \in Sem /\ W \in Nat /\ R \in Nat
  BY SemInvFacts DEF Writers, Readers
<1>2. w \in Nat /\ r \in Nat /\ w1 \in Nat /\ r1 \in Nat
  BY CountIsNat, Zenon
<1>3. w <= W /\ r <= R /\ (w = 0 \/ (w = 1 /\ r = 0))
  BY DEF RdWrHeld
<1>4. \A t \in Task : \A l, L :
        HowMany([pc EXCEPT ![t] = l], L)
          = HowMany(pc, L) - (IF pc[t] \in L THEN 1 ELSE 0) + (IF l \in L THEN 1 ELSE 0)
  BY <1>1, MoveCount, Zenon
<1>5. ASSUME NEW t \in Task, NEW l, pc' = [pc EXCEPT ![t] = l]
      PROVE  /\ w1 = w - (IF pc[t] = "writing" THEN 1 ELSE 0)
                       + (IF l = "writing" THEN 1 ELSE 0)
             /\ r1 = r - (IF pc[t] = "reading" THEN 1 ELSE 0)
                       + (IF l = "reading" THEN 1 ELSE 0)
  <2>1. \A L : HowMany([pc EXCEPT ![t] = l], L)
                 = HowMany(pc, L) - (IF pc[t] \in L THEN 1 ELSE 0)
                                  + (IF l \in L THEN 1 ELSE 0)
    BY <1>4
  <2>2. \A L : HowMany(pc', L)
                 = HowMany(pc, L) - (IF pc[t] \in L THEN 1 ELSE 0)
                                  + (IF l \in L THEN 1 ELSE 0)
    BY <1>5, <2>1
  <2>3. QED
    BY <2>2
<1>6. DOMAIN RdWrProgram = {"acquireRd", "acquireWr", "reading", "writing"}
  BY DEF RdWrProgram, RdWrLabels
<1>7. ASSUME NEW t \in Task, Performs(t) PROVE RdWrHeld(fVal', pc')
  <2> DEFINE l == pc[t]
             ok == Program[l].ok
             W1 == fVal'[Writers]
             R1 == fVal'[Readers]
  <2>1. l \in DOMAIN Program /\ pc' = [pc EXCEPT ![t] = ok]
    BY <1>7 DEF Performs
  <2>2. /\ l = "acquireRd" => W = 0 /\ W1 = 0 /\ R1 = R + 1 /\ ok = "reading"
        /\ l = "acquireWr" => W = 0 /\ R = 0 /\ W1 = 1 /\ R1 = 0 /\ ok = "writing"
        /\ l = "reading" => W1 = W /\ R1 \in {R - 1, R} /\ ok = "unlocked"
        /\ l = "writing" => W1 \in {W - 1, W} /\ R1 = R /\ ok = "unlocked"
        /\ l \notin DOMAIN RdWrProgram => W1 = W /\ R1 = R /\ ok \notin {"reading", "writing"}
    <3> DEFINE list == Program[l].list
               v1 == Applied(fVal, list, Len(list) + 1)
    <3>1. /\ l \in DOMAIN Program /\ Blocking(fVal, Program[l].list) = {}
          /\ fVal' = v1
      BY <1>7 DEF Performs
    <3>2. /\ l = "acquireRd" => W = 0 /\ v1[Writers] = 0 /\ v1[Readers] = R + 1
                                 /\ ok = "reading"
          /\ l = "acquireWr" => W = 0 /\ R = 0 /\ v1[Writers] = 1 /\ v1[Readers] = 0
                                 /\ ok = "writing"
          /\ l = "reading" => v1[Writers] = W /\ v1[Readers] \in {R - 1, R}
                               /\ ok = "unlocked"
          /\ l = "writing" => v1[Writers] \in {W - 1, W} /\ v1[Readers] = R
                               /\ ok = "unlocked"
          /\ l \notin DOMAIN RdWrProgram =>
               v1[Writers] = W /\ v1[Readers] = R /\ ok \notin {"reading", "writing"}
      <4> HIDE RdWrAssumption
      <4>1. QED
        BY ONLY LockPlaced, <1>1, <3>1, RdWrPerforms
    <3> HIDE DEF list, v1, l
    <3>3. QED
      BY <3>1, <3>2
  <2>3. /\ w1 = w - (IF l = "writing" THEN 1 ELSE 0) + (IF ok = "writing" THEN 1 ELSE 0)
        /\ r1 = r - (IF l = "reading" THEN 1 ELSE 0) + (IF ok = "reading" THEN 1 ELSE 0)
    BY <1>5, <2>1
  <2>4. \/ l = "acquireRd" \/ l = "acquireWr" \/ l = "reading" \/ l = "writing"
        \/ l \notin DOMAIN RdWrProgram /\ l \notin {"reading", "writing"}
    BY <1>6
  <2> HIDE DEF l, ok, W, R, W1, R1, w, r, w1, r1
  <2>5. w1 <= W1 /\ r1 <= R1 /\ (w1 = 0 \/ (w1 = 1 /\ r1 = 0))
    <3>1. CASE l = "acquireRd" \/ l = "acquireWr"
      BY ONLY <1>1, <1>2, <1>3, <2>2, <2>3, <3>1
    <3>2. CASE l = "reading" \/ l = "writing"
      BY ONLY <1>1, <1>2, <1>3, <2>2, <2>3, <3>2
    <3>3. CASE l \notin DOMAIN RdWrProgram /\ l \notin {"reading", "writing"}
      BY ONLY <1>1, <1>2, <1>3, <2>2, <2>3, <3>3
    <3>4. QED
      BY <2>4, <3>1, <3>2, <3>3
  <2>6. QED
    BY <2>5 DEF RdWrHeld, W1, R1, w1, r1
<1>8. ASSUME NEW t \in Task, NEW l, pc' = [pc EXCEPT ![t] = l], fVal' = fVal,
             l \notin {"reading", "writing"}
      PROVE  RdWrHeld(fVal', pc')
  <2>1. w1 <= w /\ r1 <= r
    <3>1. /\ w1 = w - (IF pc[t] = "writing" THEN 1 ELSE 0) + (IF l = "writing" THEN 1 ELSE 0)
          /\ r1 = r - (IF pc[t] = "reading" THEN 1 ELSE 0) + (IF l = "reading" THEN 1 ELSE 0)
      BY <1>5, <1>8
    <3> HIDE DEF w, r, w1, r1
    <3>2. QED
      BY <1>2, <1>8, <3>1
  <2> HIDE DEF w, r, w1, r1
  <2>2. w1 <= W /\ r1 <= R /\ (w1 = 0 \/ (w1 = 1 /\ r1 = 0))
    BY <1>1, <1>2, <1>3, <2>1
  <2>3. QED
    BY <1>8, <2>2 DEF RdWrHeld, w1, r1
<1>9. ASSUME NEW t \in Task, Refused(t) PROVE RdWrHeld(fVal', pc')
  <2> DEFINE l == pc[t]
  <2>1. /\ l \in DOMAIN Program
        /\ Program[l].inBlocking # kNoWaitOnBlock
        /\ fVal' = fVal
        /\ pc' = [pc EXCEPT ![t] = Program[l].fail]
    BY <1>9 DEF Refused
  <2>2. CASE l \in {"acquireRd", "acquireWr"}
    <3>1. Program[l] \in {acquireRd, acquireWr}
      BY <2>2 DEF RdWrProgram, RdWrLabels
    <3>2. Program[l].inBlocking = kNoWaitOnBlock
      BY <3>1 DEF acquireRd, acquireWr, Call
    <3>3. QED
      BY <2>1, <3>2
  <2>3. CASE l \in {"reading", "writing"}
    <3>1. Program[l] \in {releaseRd, releaseWr}
      BY <2>3 DEF RdWrProgram, RdWrLabels
    <3>2. Program[l].fail = "unlocked"
      BY <3>1 DEF releaseRd, releaseWr, Call
    <3>3. QED
      BY <1>8, <2>1, <3>2
  <2>4. CASE l \notin DOMAIN RdWrProgram
    <3>1. Program[l].fail \notin {"reading", "writing"}
      BY <2>1, <2>4
    <3>2. QED
      BY <1>8, <2>1, <3>1
  <2>5. QED
    BY <1>6, <2>2, <2>3, <2>4
<1>10. ASSUME NEW t \in Task, Chooses(t) PROVE RdWrHeld(fVal', pc')
  <2>1. PICK l : /\ pc' = [pc EXCEPT ![t] = l]
                 /\ l \in Entry[t] \/ (pc[t] \in DOMAIN Branch /\ l \in Branch[pc[t]])
    BY <1>10 DEF Chooses
  <2>2. fVal' = fVal
    BY <1>10 DEF Chooses
  <2>3. l \notin {"reading", "writing"}
    BY <2>1
  <2>4. QED
    BY <1>8, <2>1, <2>2, <2>3
<1>11. CASE fVal' = fVal /\ pc' = pc
  BY <1>11
<1>12. QED
  BY <1>7, <1>9, <1>10, <1>11, NextCases

RdWrInv == exists => RdWrHeld(fVal, pc)

\* It holds at first, with nobody anywhere.
LEMMA InitRdWr == Init => RdWrInv
<1> SUFFICES ASSUME Init PROVE RdWrInv
  OBVIOUS
<1> USE RdWrAssumption
<1>1. fVal[Writers] = 0 /\ fVal[Readers] = 0
  BY DEF Init
<1>2. \A t \in Task : pc[t] = NoTask
  BY DEF Init
<1>3. NoTask \notin {"writing"} /\ NoTask \notin {"reading"}
  BY DEF RdWrLabels
<1>4. HowMany(pc, {"writing"}) = 0 /\ HowMany(pc, {"reading"}) = 0
  BY <1>2, <1>3, NobodyCounts
<1>5. QED
  BY <1>1, <1>4 DEF RdWrInv, RdWrHeld

LEMMA RdWrInvariant ==
  ASSUME IsFiniteSet(Task), LockPlaced, inBlocking = kNoWaitOnBlock
  PROVE  Spec => [](SemInv /\ RdWrInv)
<1>1. SemInv /\ RdWrInv /\ [Next]_vars => RdWrInv'
  <2> SUFFICES ASSUME SemInv, RdWrInv, [Next]_vars, exists' PROVE RdWrHeld(fVal', pc')
    BY DEF RdWrInv
  <2>1. exists
    BY NextCases
  <2>2. QED
    BY <2>1, RdWrStep DEF RdWrInv
<1>2. QED
  BY <1>1, InitSemInv, NextSemInv, InitRdWr, PTL DEF Spec

\* WriterExcludes: whatever the other tasks of the group do, a task that writes
\* under CURdWrSemaphore is alone, on a machine of either byte order: on a
\* little-endian one the group must be the lock's own, as CURdWrSemaphore::init
\* makes it.  All must pass the flag that makes them wait: the acquire functions
\* do not return the error that the other flag gives.
THEOREM RdWrWriterExcludes ==
  ASSUME IsFiniteSet(Task), BigEndian \/ RdWrBase = 0, inBlocking = kNoWaitOnBlock
  PROVE  Spec => []WriterExcludes
<1>1. SemInv /\ RdWrInv => WriterExcludes
  <2> SUFFICES ASSUME SemInv, RdWrInv, exists, At({"writing"}) # {}
               PROVE  Cardinality(At({"writing", "reading"})) = 1
    BY DEF WriterExcludes
  <2> DEFINE A == At({"writing"})
             B == At({"reading"})
  <2>1. IsFiniteSet(A) /\ IsFiniteSet(B)
    BY FS_Subset DEF At
  <2>2. Cardinality(A) = 0 \/ (Cardinality(A) = 1 /\ Cardinality(B) = 0)
    BY DEF RdWrInv, RdWrHeld, HowMany, At
  <2>3. At({"writing", "reading"}) = A \cup B
    BY DEF At
  <2>4. A # {}
    OBVIOUS
  <2> HIDE DEF A, B
  <2>5. Cardinality(A) = 1 /\ Cardinality(B) = 0
    BY <2>1, <2>2, <2>4, FS_EmptySet
  <2>6. B = {}
    BY <2>1, <2>5, FS_EmptySet
  <2>7. QED
    BY <2>3, <2>5, <2>6
<1>2. LockPlaced
  BY DEF LockPlaced
<1>3. QED
  BY <1>1, <1>2, RdWrInvariant, PTL

=============================================================================
