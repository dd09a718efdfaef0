-------------------------- MODULE ObjectTableProofs --------------------------
(***************************************************************************)
(* Proofs about ObjectTable, for every finite set of objects of any kinds  *)
(* and parts, and every number of entries.                                 *)
(*                                                                         *)
(* The chain of an entry is linked through fNext.  The proofs name it as a *)
(* sequence, show what the removal and the addition of an object do to it, *)
(* and then speak of the objects that are alive and of those ahead of the  *)
(* walk only.                                                              *)
(***************************************************************************)
EXTENDS ObjectTable, FiniteSetTheorems, WellFoundedInduction, NaturalsInduction, TLAPS


-----------------------------------------------------------------------------
(* Numbers.                                                                *)

\* A set of numbers has a least one.
LEMMA LeastNumber ==
  ASSUME NEW T \in SUBSET Nat, T # {}
  PROVE  \E n \in T : \A m \in T : n <= m
<1>1. IsWellFoundedOn(OpToRel(<, Nat), Nat)
  BY NatLessThanWellFounded
<1>2. PICK n \in T : \A m \in T : ~(<<m, n>> \in OpToRel(<, Nat))
  BY <1>1, WFMin
<1>3. \A m \in T : ~(m < n)
  BY <1>2 DEF OpToRel
<1>4. QED
  BY <1>3

\* So what holds at 0 and is passed on holds up to any n.
LEMMA UpTo ==
  ASSUME NEW n \in Nat, NEW T \in SUBSET (0..n), 0 \in T,
         \A i \in 1..n : i - 1 \in T => i \in T
  PROVE  T = 0..n
<1>1. SUFFICES ASSUME T # 0..n PROVE FALSE
  OBVIOUS
<1> DEFINE U == (0..n) \ T
<1>2. U # {} /\ U \in SUBSET Nat
  <2>1. \E i \in 0..n : i \notin T
    BY <1>1, Zenon
  <2>2. \A i \in 0..n : i \in Nat
    OBVIOUS
  <2>3. QED
    BY <2>1, <2>2
<1>3. PICK i \in U : \A m \in U : i <= m
  BY <1>2, LeastNumber
<1>4. i \in 1..n /\ i - 1 \in 0..n /\ ~(i <= i - 1)
  BY <1>3
<1>5. i - 1 \in T
  BY <1>3, <1>4
<1>6. QED
  BY <1>3, <1>4, <1>5

\* The greatest of the first numbers.
LEMMA MaxUpTo ==
  ASSUME NEW n \in Nat, NEW T \in SUBSET (1..n), T # {}
  PROVE  /\ Max(T) \in T
         /\ \A y \in T : Max(T) >= y
<1> DEFINE U == {n - i : i \in T}
<1>1. U \in SUBSET Nat /\ U # {}
  <2>1. \A i \in T : n - i \in Nat
    OBVIOUS
  <2>2. PICK i \in T : TRUE
    OBVIOUS
  <2>3. n - i \in U
    BY <2>2
  <2>4. QED
    BY <2>1, <2>3
<1>2. PICK k \in U : \A m \in U : k <= m
  BY <1>1, LeastNumber
<1>3. PICK x \in T : k = n - x
  BY <1>2
<1>4. \A y \in T : n - y \in U
  OBVIOUS
<1>5. ASSUME NEW y \in T PROVE x >= y
  <2>1. k <= n - y
    BY <1>2, <1>4
  <2>2. n \in Int /\ x \in Int /\ y \in Int
    OBVIOUS
  <2>3. QED
    BY <1>3, <2>1, <2>2
<1>6. \E z \in T : \A y \in T : z >= y
  BY <1>5
<1>7. QED
  BY <1>6 DEF Max

\* What a sequence holds.
LEMMA SeqElements ==
  ASSUME NEW S, NEW q \in Seq(S)
  PROVE  Len(q) \in Nat /\ DOMAIN q = 1..Len(q) /\ \A i \in 1..Len(q) : q[i] \in S
OBVIOUS

-----------------------------------------------------------------------------
(* Chains.                                                                 *)

Entries == 0 .. TableSize - 1

\* what the constants are
LEMMA Constants ==
  /\ IsFiniteSet(Obj) /\ None \notin Obj
  /\ TableSize \in Nat \ {0} /\ Hash \in [Obj -> Entries]
  /\ Kind \in [Obj -> {"task", "monitor", "leaf", "kept"}]
  /\ Parts \in [Obj -> Seq(Obj)]
  /\ System \subseteq Obj
BY TableAssumption DEF Entries

\* the place i of a chain c, and what lies behind its end
Nth(c, i) == IF i \in 1 .. Len(c) THEN c[i] ELSE None
Rest(c, k) == {c[i] : i \in k .. Len(c)}

TableRecord ==
  [fObject : [Entries -> Obj \cup {None}],
   fNext : [Obj \cup {None} -> Obj \cup {None}],
   fOwnerId : [Obj -> Obj \cup {None}],
   fAssignedOwnerId : [Obj -> Obj \cup {None}],
   fBequeathId : [Obj -> Obj \cup {None}],
   fInheritedId : [Obj -> Obj \cup {None}],
   fThisObj : Obj \cup {None}, fPrevObj : Obj \cup {None},
   fDeferredId : Obj \cup {None},
   destroyed : BOOLEAN]

NoRepeats(c) == \A i, j \in 1 .. Len(c) : c[i] = c[j] => i = j

\* c is linked by next from its first object to its last
Link(next, c) ==
  /\ c \in Seq(Obj)
  /\ \A i, j \in 1 .. Len(c) : c[i] = c[j] => i = j
  /\ \A i \in 1 .. Len(c) : next[c[i]] = Nth(c, i + 1)

\* A chain is no longer than there are objects.
LEMMA ChainLength ==
  ASSUME NEW next, NEW c, Link(next, c)
  PROVE  Cardinality(Obj) \in Nat /\ Len(c) \in Nat /\ Len(c) <= Cardinality(Obj)
<1> DEFINE S == {c[i] : i \in 1 .. Len(c)}
<1>1. /\ c \in Seq(Obj) /\ Len(c) \in Nat
      /\ \A i \in 1 .. Len(c) : c[i] \in Obj
      /\ \A i, j \in 1 .. Len(c) : c[i] = c[j] => i = j
  BY DEF Link
<1>2. c \in [1 .. Len(c) -> S]
  BY <1>1
<1>3. c \in Bijection(1 .. Len(c), S)
  BY <1>1, <1>2 DEF Bijection, Injection, Surjection, IsInjective
<1>4. Cardinality(S) = Len(c)
  BY <1>1, <1>3, FS_CountingElements DEF ExistsBijection
<1>5. S \subseteq Obj /\ IsFiniteSet(Obj)
  BY <1>1, Constants
<1>6. Cardinality(S) <= Cardinality(Obj) /\ Cardinality(Obj) \in Nat
  BY <1>5, FS_Subset, FS_CardinalityType
<1>7. QED
  BY <1>1, <1>4, <1>6

\* From finds the rest of the chain.
LEMMA FromIs ==
  ASSUME NEW s, NEW c, Link(s.fNext, c), s.fNext[None] = None,
         NEW k \in 1 .. Len(c) + 1
  PROVE  From(s, Nth(c, k)) = Rest(c, k)
<1> DEFINE N == Cardinality(Obj)
           L == Len(c)
           next == s.fNext
           first == Nth(c, k)
           step(r, n) == IF n = 0 THEN {first} ELSE UNION {{o, next[o]} : o \in r[n - 1]}
           g == [n \in 0 .. N |-> {Nth(c, i) : i \in k .. k + n}]
           reach == CHOOSE r : r = [n \in 0 .. N |-> step(r, n)]
<1>1. /\ N \in Nat /\ L \in Nat /\ L <= N /\ k \in Nat /\ k >= 1 /\ k <= L + 1
      /\ \A i \in 1 .. L : c[i] \in Obj
      /\ None \notin Obj
  <2>1. N \in Nat /\ L \in Nat /\ L <= N
    BY ChainLength, Zenon
  <2>2. c \in Seq(Obj) /\ None \notin Obj
    BY Constants DEF Link
  <2>3. \A i \in 1 .. L : c[i] \in Obj
    BY <2>2
  <2>4. QED
    BY <2>1, <2>2, <2>3
<1>2. \A i \in Nat \ {0} : next[Nth(c, i)] = Nth(c, i + 1)
  BY <1>1 DEF Nth, Link
<1>3. g = [n \in 0 .. N |-> step(g, n)]
  <2>1. ASSUME NEW n \in 0 .. N PROVE g[n] = step(g, n)
    <3>1. CASE n = 0
      <4>1. \A i : i \in k .. k + 0 <=> i = k
        BY <1>1
      <4>2. QED
        BY <1>1, <3>1, <4>1
    <3>2. CASE n # 0
      <4>1. n - 1 \in 0 .. N /\ g[n - 1] = {Nth(c, i) : i \in k .. k + (n - 1)}
        BY <1>1, <3>2
      <4>2. g[n] = {Nth(c, i) : i \in k .. k + n}
        OBVIOUS
      <4>3. \A i : i \in k .. k + n <=> \E j \in k .. k + (n - 1) : i = j \/ i = j + 1
        <5>1. ASSUME NEW i \in k .. k + n
              PROVE  \E j \in k .. k + (n - 1) : i = j \/ i = j + 1
          <6>1. IF i = k THEN k \in k .. k + (n - 1)
                         ELSE i - 1 \in k .. k + (n - 1) /\ i = (i - 1) + 1
            BY <1>1, <3>2
          <6>2. QED
            BY <6>1
        <5>2. \A j \in k .. k + (n - 1) : j \in k .. k + n /\ j + 1 \in k .. k + n
          BY <1>1
        <5>3. QED
          BY <5>1, <5>2
      <4>4. \A j \in k .. k + (n - 1) : next[Nth(c, j)] = Nth(c, j + 1)
        <5>1. \A j \in k .. k + (n - 1) : j \in Nat \ {0}
          BY <1>1
        <5>2. QED
          BY <1>2, <5>1
      <4> HIDE DEF g, next
      <4>5. UNION {{o, next[o]} : o \in g[n - 1]} = {Nth(c, i) : i \in k .. k + n}
        <5> DEFINE K == k .. k + (n - 1)
                   M == k .. k + n
        <5>1. \A x : x \in UNION {{o, next[o]} : o \in g[n - 1]}
                      <=> \E j \in K : x = Nth(c, j) \/ x = Nth(c, j + 1)
          <6>1. /\ g[n - 1] = {Nth(c, i) : i \in K}
                /\ \A j \in K : next[Nth(c, j)] = Nth(c, j + 1)
            BY <4>1, <4>4
          <6> HIDE DEF K
          <6>2. \A o : o \in g[n - 1] <=> \E j \in K : o = Nth(c, j)
            BY <6>1
          <6>3. \A x : x \in UNION {{o, next[o]} : o \in g[n - 1]}
                        <=> \E o \in g[n - 1] : x = o \/ x = next[o]
            OBVIOUS
          <6>4. QED
            BY ONLY <6>1, <6>2, <6>3
        <5>2. \A i : i \in M <=> \E j \in K : i = j \/ i = j + 1
          BY <4>3
        <5> HIDE DEF K, M
        <5>3. \A x : x \in UNION {{o, next[o]} : o \in g[n - 1]}
                      <=> \E i \in M : x = Nth(c, i)
          BY <5>1, <5>2
        <5>4. \A x : x \in {Nth(c, i) : i \in M} <=> \E i \in M : x = Nth(c, i)
          OBVIOUS
        <5>5. QED
          BY <5>3, <5>4 DEF M
      <4>6. QED
        BY <3>2, <4>2, <4>5
    <3>3. QED
      BY <3>1, <3>2
  <2> DEFINE h == [n \in 0 .. N |-> step(g, n)]
  <2>2. h = [n \in 0 .. N |-> h[n]] /\ g = [n \in 0 .. N |-> g[n]]
    OBVIOUS
  <2>3. \A n \in 0 .. N : h[n] = step(g, n)
    OBVIOUS
  <2> HIDE DEF g, h, step
  <2>4. \A n \in 0 .. N : h[n] = g[n]
    BY <2>1, <2>3
  <2>5. h = g
    BY <2>2, <2>4
  <2>6. QED
    BY <2>5 DEF h
<1>4. reach = [n \in 0 .. N |-> step(reach, n)]
  <2> HIDE DEF g, step
  <2>1. \E r : r = [n \in 0 .. N |-> step(r, n)]
    BY <1>3
  <2>2. QED
    BY <2>1
<1>5. From(s, first) = reach[N] \ {None}
  BY DEF From
<1> HIDE DEF reach
<1>6. reach[N] = g[N]
  <2> DEFINE T == {n \in 0 .. N : reach[n] = g[n]}
  <2>1. \A n \in 0 .. N : reach[n] = step(reach, n) /\ g[n] = step(g, n)
    <3> HIDE DEF g, step
    <3>1. QED
      BY <1>3, <1>4
  <2>2. 0 \in T
    <3>1. 0 \in 0 .. N
      BY <1>1
    <3> HIDE DEF g
    <3>2. QED
      BY <2>1, <3>1
  <2>3. ASSUME NEW n \in 1 .. N, n - 1 \in T PROVE n \in T
    <3>1. n \in 0 .. N /\ n # 0 /\ reach[n - 1] = g[n - 1]
      BY <1>1, <2>3
    <3> HIDE DEF g
    <3>2. QED
      BY <2>1, <3>1
  <2>4. T \in SUBSET (0 .. N)
    OBVIOUS
  <2> HIDE DEF T
  <2>5. T = 0 .. N
    BY <1>1, <2>2, <2>3, <2>4, UpTo
  <2>6. N \in T
    BY <1>1, <2>5
  <2>7. QED
    BY <2>6 DEF T
<1>7. g[N] \ {None} = Rest(c, k)
  <2>1. g[N] = {Nth(c, i) : i \in k .. k + N}
    BY <1>1
  <2>2. \A i \in k .. k + N : Nth(c, i) # None <=> i \in k .. L
    BY <1>1 DEF Nth
  <2>3. \A i \in k .. L : i \in k .. k + N /\ Nth(c, i) = c[i]
    BY <1>1 DEF Nth
  <2> HIDE DEF g
  <2>4. QED
    BY <2>1, <2>2, <2>3 DEF Rest
<1>8. QED
  BY <1>5, <1>6, <1>7
-----------------------------------------------------------------------------
(* A chain from which the object at place k is taken.                      *)

Without(c, k) == [i \in 1 .. Len(c) - 1 |-> IF i < k THEN c[i] ELSE c[i + 1]]

\* d is c without its place k.
Taken(c, k, d) ==
  /\ d \in Seq(Obj) /\ Len(c) \in Nat /\ Len(d) = Len(c) - 1
  /\ \A i \in Nat : Nth(d, i) = Nth(c, IF i < k THEN i ELSE i + 1)
  /\ \A i, j \in 1 .. Len(d) : d[i] = d[j] => i = j
  /\ \A i \in 1 .. Len(d) : d[i] = Nth(d, i)
  /\ \A j \in 1 .. k : Rest(d, j) = Rest(c, j) \ {c[k]}
  /\ \A j \in k + 1 .. Len(c) + 1 :
       Rest(d, j - 1) = Rest(c, j) /\ c[k] \notin Rest(c, j)

LEMMA WithoutIs ==
  ASSUME NEW c \in Seq(Obj), NEW k \in 1 .. Len(c), NoRepeats(c)
  PROVE  Taken(c, k, Without(c, k))
<1> DEFINE d == Without(c, k)
           L == Len(c)
           at(i) == IF i < k THEN i ELSE i + 1
<1>1. /\ L \in Nat /\ k \in Nat /\ k >= 1 /\ k <= L
      /\ \A i \in 1 .. L : c[i] \in Obj
      /\ \A i, j \in 1 .. L : c[i] = c[j] => i = j
  BY DEF NoRepeats
<1>2. \A i \in 1 .. L - 1 : at(i) \in 1 .. L /\ at(i) # k
  BY <1>1
<1>3. d \in Seq(Obj) /\ Len(d) = L - 1 /\ \A i \in 1 .. L - 1 : d[i] = c[at(i)]
  <2>1. d = [i \in 1 .. L - 1 |-> IF i < k THEN c[i] ELSE c[i + 1]]
    BY DEF Without
  <2>2. \A i \in 1 .. L - 1 : (IF i < k THEN c[i] ELSE c[i + 1]) = c[at(i)]
    OBVIOUS
  <2>3. L - 1 \in Nat
    BY <1>1
  <2>4. d \in [1 .. L - 1 -> Obj]
    BY <1>1, <1>2, <2>1, <2>2
  <2>5. QED
    BY <2>1, <2>2, <2>3, <2>4
<1> HIDE DEF d
<1>4. ASSUME NEW i \in Nat PROVE Nth(d, i) = Nth(c, at(i))
  <2>1. i \in 1 .. L - 1 => at(i) \in 1 .. L
    BY <1>2
  <2>2. i \notin 1 .. L - 1 => at(i) \notin 1 .. L
    BY <1>1
  <2>3. QED
    BY <1>3, <2>1, <2>2 DEF Nth
<1>5. ASSUME NEW i \in 1 .. Len(d), NEW j \in 1 .. Len(d), d[i] = d[j] PROVE i = j
  <2>1. at(i) = at(j)
    <3>1. i \in 1 .. L - 1 /\ j \in 1 .. L - 1
      BY <1>3
    <3>2. /\ at(i) \in 1 .. L /\ at(j) \in 1 .. L
          /\ d[i] = c[at(i)] /\ d[j] = c[at(j)]
      BY <1>2, <1>3, <3>1
    <3> HIDE DEF at
    <3>3. QED
      BY <1>1, <1>5, <3>2
  <2>2. QED
    BY <1>1, <1>3, <2>1
<1>6. \A i \in 1 .. L, j \in 1 .. L : i < j => c[i] # c[j]
  BY <1>1
<1>7. ASSUME NEW j \in 1 .. k PROVE Rest(d, j) = Rest(c, j) \ {c[k]}
  <2>1. ASSUME NEW x \in Rest(d, j) PROVE x \in Rest(c, j) \ {c[k]}
    <3>1. PICK i \in j .. L - 1 : x = d[i]
      BY <1>3 DEF Rest
    <3>2. i \in 1 .. L - 1 /\ at(i) \in j .. L
      BY <1>1
    <3>3. x = c[at(i)] /\ at(i) # k /\ at(i) \in 1 .. L
      BY <1>2, <1>3, <3>1, <3>2
    <3>4. QED
      BY <1>1, <3>2, <3>3 DEF Rest
  <2>2. ASSUME NEW x \in Rest(c, j), x # c[k] PROVE x \in Rest(d, j)
    <3>1. PICK i \in j .. L : x = c[i]
      BY DEF Rest
    <3>2. i # k
      BY <2>2, <3>1
    <3>3. CASE i < k
      <4>1. i \in 1 .. L - 1 /\ i \in j .. L - 1 /\ at(i) = i
        BY <1>1, <3>3
      <4>2. d[i] = x
        BY <1>3, <3>1, <4>1
      <4>3. QED
        BY <1>3, <4>1, <4>2 DEF Rest
    <3>4. CASE i > k
      <4>1. i - 1 \in 1 .. L - 1 /\ i - 1 \in j .. L - 1 /\ at(i - 1) = i
        BY <1>1, <3>4
      <4>2. d[i - 1] = x
        BY <1>3, <3>1, <4>1
      <4>3. QED
        BY <1>3, <4>1, <4>2 DEF Rest
    <3>5. QED
      BY <1>1, <3>2, <3>3, <3>4
  <2>3. QED
    BY <2>1, <2>2
<1>8. ASSUME NEW j \in k + 1 .. L + 1
      PROVE  Rest(d, j - 1) = Rest(c, j) /\ c[k] \notin Rest(c, j)
  <2>1. ASSUME NEW x \in Rest(d, j - 1) PROVE x \in Rest(c, j)
    <3>1. PICK i \in j - 1 .. L - 1 : x = d[i]
      BY <1>3 DEF Rest
    <3>2. i \in 1 .. L - 1 /\ at(i) = i + 1 /\ i + 1 \in j .. L
      BY <1>1
    <3>3. QED
      BY <1>3, <3>1, <3>2 DEF Rest
  <2>2. ASSUME NEW x \in Rest(c, j) PROVE x \in Rest(d, j - 1)
    <3>1. PICK i \in j .. L : x = c[i]
      BY DEF Rest
    <3>2. i - 1 \in 1 .. L - 1 /\ i - 1 \in j - 1 .. L - 1 /\ at(i - 1) = i
      BY <1>1
    <3>3. d[i - 1] = x
      BY <1>3, <3>1, <3>2
    <3>4. QED
      BY <1>3, <3>2, <3>3 DEF Rest
  <2>3. \A i \in j .. L : i \in 1 .. L /\ k < i
    BY <1>1
  <2>4. c[k] \notin Rest(c, j)
    BY <1>6, <2>3 DEF Rest
  <2>5. QED
    BY <2>1, <2>2, <2>4
<1>9. \A i \in 1 .. Len(d) : d[i] = Nth(d, i)
  BY DEF Nth
<1>10. QED
  BY <1>1, <1>3, <1>4, <1>5, <1>7, <1>8, <1>9 DEF Taken, d
-----------------------------------------------------------------------------
(* The chains of a table and the place of the walk.                        *)

\* cs[e] is the chain of entry e, and behind the last entry there is an empty one;
\* the walk is in the chain of entry e, between the places j - 1 and j.
Threads(s, cs, e, j) ==
  /\ s \in TableRecord /\ s.fNext[None] = None
  /\ cs \in [0 .. TableSize -> Seq(Obj)] /\ cs[TableSize] = <<>>
  /\ \A b \in Entries : /\ Link(s.fNext, cs[b])
                        /\ s.fObject[b] = Nth(cs[b], 1)
                        /\ \A i \in 1 .. Len(cs[b]) : Hash[cs[b][i]] = b
  /\ e \in 0 .. TableSize
  /\ j \in 1 .. Len(cs[e]) + 1
  /\ s.fThisObj = Nth(cs[e], j) /\ s.fPrevObj = Nth(cs[e], j - 1)

Sound(s, e) == \E cs, j : Threads(s, cs, e, j)

AliveIn(s) == {o \in Obj : Exists(s, o)}
Ahead(s) == From(s, s.fThisObj)

\* What is in a table whose chains are known.
LEMMA ThreadsFacts ==
  ASSUME NEW s, NEW cs, NEW e, NEW j, Threads(s, cs, e, j)
  PROVE  /\ \A b \in Entries : Linked(s, b) = Rest(cs[b], 1) /\ Linked(s, b) \subseteq Obj
         /\ \A o \in Obj : Exists(s, o) <=> o \in Rest(cs[Hash[o]], 1)
         /\ \A b \in Entries : \A o \in Rest(cs[b], 1) : o \in Obj /\ Hash[o] = b
         /\ Ahead(s) = Rest(cs[e], j)
         /\ \A b \in 0 .. TableSize : Len(cs[b]) \in Nat
         /\ TableSize \in Nat \ {0} /\ e \in Nat /\ j \in Nat \ {0}
<1>1. /\ TableSize \in Nat \ {0} /\ None \notin Obj
      /\ \A b \in Entries : b \in 0 .. TableSize
      /\ \A o \in Obj : Hash[o] \in Entries
  BY Constants DEF Entries
<1>2. \A b \in 0 .. TableSize : cs[b] \in Seq(Obj) /\ Len(cs[b]) \in Nat
  BY DEF Threads
<1>3. ASSUME NEW b \in Entries, NEW k \in 1 .. Len(cs[b]) + 1
      PROVE  From(s, Nth(cs[b], k)) = Rest(cs[b], k)
  <2>1. Link(s.fNext, cs[b]) /\ s.fNext[None] = None
    BY DEF Threads
  <2>2. QED
    BY <2>1, FromIs
<1>4. \A b \in Entries : \A i \in 1 .. Len(cs[b]) : cs[b][i] \in Obj /\ Hash[cs[b][i]] = b
  BY <1>1, <1>2 DEF Threads
<1>5. \A b \in Entries : Linked(s, b) = Rest(cs[b], 1) /\ Linked(s, b) \subseteq Obj
  <2> SUFFICES ASSUME NEW b \in Entries
               PROVE  Linked(s, b) = Rest(cs[b], 1) /\ Linked(s, b) \subseteq Obj
    OBVIOUS
  <2>1. s.fObject[b] = Nth(cs[b], 1) /\ 1 \in 1 .. Len(cs[b]) + 1
    BY <1>1, <1>2 DEF Threads
  <2>2. Linked(s, b) = Rest(cs[b], 1)
    BY <1>3, <2>1 DEF Linked
  <2>3. QED
    BY <1>4, <2>2 DEF Rest
<1>6. \A o \in Obj : Exists(s, o) <=> o \in Rest(cs[Hash[o]], 1)
  BY <1>1, <1>5 DEF Exists
<1>7. \A b \in Entries : \A o \in Rest(cs[b], 1) : o \in Obj /\ Hash[o] = b
  BY <1>4 DEF Rest
<1>8. Ahead(s) = Rest(cs[e], j)
  <2>1. e \in 0 .. TableSize /\ j \in 1 .. Len(cs[e]) + 1 /\ s.fThisObj = Nth(cs[e], j)
    BY DEF Threads
  <2>2. CASE e \in Entries
    BY <1>3, <2>1, <2>2 DEF Ahead
  <2>3. CASE e \notin Entries
    <3>1. e = TableSize /\ cs[e] = <<>>
      BY <1>1, <2>1, <2>3 DEF Entries, Threads
    <3>2. Link(s.fNext, cs[e]) /\ s.fNext[None] = None
      BY <3>1 DEF Threads, Link
    <3>3. From(s, Nth(cs[e], j)) = Rest(cs[e], j)
      BY <2>1, <3>2, FromIs
    <3>4. QED
      BY <2>1, <3>3 DEF Ahead
  <2>4. QED
    BY <2>2, <2>3
<1>9. e \in Nat /\ j \in Nat \ {0}
  BY <1>1, <1>2 DEF Threads
<1>10. QED
  BY <1>1, <1>2, <1>5, <1>6, <1>7, <1>8, <1>9

\* The fields that the chains and the walk do not use.
Rights(s, u) ==
  /\ u.fAssignedOwnerId = s.fAssignedOwnerId /\ u.fBequeathId = s.fBequeathId
  /\ u.fInheritedId = s.fInheritedId /\ u.fDeferredId = s.fDeferredId
  /\ u.destroyed = s.destroyed

SameLinks(s, u) ==
  /\ u \in TableRecord
  /\ u.fObject = s.fObject /\ u.fNext = s.fNext
  /\ u.fThisObj = s.fThisObj /\ u.fPrevObj = s.fPrevObj

\* A change of these fields is none of the chains.
LEMMA SameLinksSound ==
  ASSUME NEW s, NEW u, NEW e, Sound(s, e), SameLinks(s, u)
  PROVE  Sound(u, e) /\ AliveIn(u) = AliveIn(s) /\ Ahead(u) = Ahead(s)
<1>1. PICK cs, j : Threads(s, cs, e, j)
  BY DEF Sound
<1>2. Threads(u, cs, e, j)
  BY <1>1 DEF Threads, SameLinks
<1>3. \A o \in Obj : Exists(s, o) <=> Exists(u, o)
  <2>1. \A o \in Obj : Exists(s, o) <=> o \in Rest(cs[Hash[o]], 1)
    BY <1>1, ThreadsFacts
  <2>2. \A o \in Obj : Exists(u, o) <=> o \in Rest(cs[Hash[o]], 1)
    BY <1>2, ThreadsFacts
  <2>3. QED
    BY <2>1, <2>2
<1>4. Ahead(u) = Ahead(s)
  <2>1. Ahead(s) = Rest(cs[e], j)
    BY <1>1, ThreadsFacts
  <2>2. Ahead(u) = Rest(cs[e], j)
    BY <1>2, ThreadsFacts
  <2>3. QED
    BY <2>1, <2>2
<1>5. QED
  BY <1>2, <1>3, <1>4 DEF Sound, AliveIn
-----------------------------------------------------------------------------
(* The removal of an object from its chain.                                *)

\* u is s without o.
Unlinked(s, u, e, o) ==
  /\ Sound(u, e) /\ AliveIn(u) = AliveIn(s) \ {o} /\ Ahead(u) = Ahead(s) \ {o}
  /\ \A y \in Obj \ {o} : u.fOwnerId[y] = s.fOwnerId[y]
  /\ Rights(s, u)

\* What is known of one chain.
LEMMA ThreadsLink ==
  ASSUME NEW s, NEW cs, NEW e, NEW j, Threads(s, cs, e, j), NEW b \in Entries
  PROVE  /\ cs[b] \in Seq(Obj) /\ Len(cs[b]) \in Nat
         /\ \A x, y \in 1 .. Len(cs[b]) : cs[b][x] = cs[b][y] => x = y
         /\ \A x \in 1 .. Len(cs[b]) : /\ cs[b][x] \in Obj /\ Hash[cs[b][x]] = b
                                      /\ s.fNext[cs[b][x]] = Nth(cs[b], x + 1)
         /\ s.fObject[b] = Nth(cs[b], 1)
         /\ Link(s.fNext, cs[b])
<1>1. /\ Link(s.fNext, cs[b]) /\ s.fObject[b] = Nth(cs[b], 1)
      /\ \A x \in 1 .. Len(cs[b]) : Hash[cs[b][x]] = b
  BY DEF Threads
<1>2. cs[b] \in Seq(Obj)
  BY <1>1 DEF Link
<1>3. \A x \in 1 .. Len(cs[b]) : cs[b][x] \in Obj
  BY <1>2
<1>4. QED
  BY <1>1, <1>2, <1>3 DEF Link

\* The links, when the object at place k of the chain of entry b is taken out, and
\* the walk is left with the place i in the new chain.
LEMMA ThreadsWithout ==
  ASSUME NEW s, NEW cs, NEW e, NEW j, Threads(s, cs, e, j),
         NEW b \in Entries, NEW k \in 1 .. Len(cs[b]),
         NEW u \in TableRecord,
         u.fObject = IF k = 1 THEN [s.fObject EXCEPT ![b] = Nth(cs[b], k + 1)] ELSE s.fObject,
         u.fNext = IF k = 1 THEN s.fNext
                   ELSE [s.fNext EXCEPT ![cs[b][k - 1]] = Nth(cs[b], k + 1)],
         NEW ds, ds = [cs EXCEPT ![b] = Without(cs[b], k)],
         NEW i \in 1 .. Len(ds[e]) + 1,
         u.fThisObj = Nth(ds[e], i), u.fPrevObj = Nth(ds[e], i - 1)
  PROVE  Threads(u, ds, e, i)
<1> DEFINE c == cs[b]
           L == Len(c)
           d == Without(c, k)
<1>1. /\ TableSize \in Nat \ {0} /\ b \in 0 .. TableSize /\ b # TableSize
      /\ None \notin Obj
  BY Constants DEF Entries
<1>2. /\ c \in Seq(Obj) /\ L \in Nat /\ k \in Nat /\ k >= 1 /\ k <= L
      /\ \A x, y \in 1 .. L : c[x] = c[y] => x = y
      /\ \A x \in 1 .. L : c[x] \in Obj /\ Hash[c[x]] = b /\ s.fNext[c[x]] = Nth(c, x + 1)
      /\ s.fObject[b] = Nth(c, 1)
  BY ThreadsLink
<1>3. /\ d \in Seq(Obj) /\ Len(d) = L - 1
      /\ \A x \in Nat : Nth(d, x) = Nth(c, IF x < k THEN x ELSE x + 1)
      /\ \A x, y \in 1 .. Len(d) : d[x] = d[y] => x = y
      /\ \A x \in 1 .. Len(d) : d[x] = Nth(d, x)
  <2>1. NoRepeats(c)
    BY <1>2 DEF NoRepeats
  <2>2. Taken(c, k, d)
    BY <1>2, <2>1, WithoutIs
  <2> HIDE DEF c, d
  <2>3. QED
    BY <2>2 DEF Taken
<1>4. ds[b] = d /\ \A x \in 0 .. TableSize : x # b => ds[x] = cs[x]
  BY <1>1 DEF Threads
<1> HIDE DEF d
<1>5. ds \in [0 .. TableSize -> Seq(Obj)] /\ ds[TableSize] = <<>>
  BY <1>1, <1>3, <1>4 DEF Threads, d
<1>6. u.fNext[None] = None
  <2>1. k # 1 => c[k - 1] \in Obj
    BY <1>2
  <2>2. QED
    <3>1. s.fNext[None] = None /\ s.fNext \in [Obj \cup {None} -> Obj \cup {None}]
      BY DEF Threads, TableRecord
    <3>2. CASE k = 1
      BY <3>1, <3>2
    <3>3. CASE k # 1
      <4>1. u.fNext = [s.fNext EXCEPT ![c[k - 1]] = Nth(c, k + 1)] /\ c[k - 1] # None
        BY <1>1, <2>1, <3>3
      <4>2. QED
        BY <3>1, <4>1
    <3>4. QED
      BY <3>2, <3>3
<1>7. ASSUME NEW x \in Obj, ~(k # 1 /\ x = c[k - 1]) PROVE u.fNext[x] = s.fNext[x]
  BY <1>7 DEF TableRecord, Threads
<1>8. ASSUME k # 1 PROVE u.fNext[c[k - 1]] = Nth(c, k + 1)
  <2>1. c[k - 1] \in Obj
    BY <1>2, <1>8
  <2>2. QED
    BY <1>8, <2>1 DEF TableRecord, Threads
<1>9. Link(u.fNext, d) /\ u.fObject[b] = Nth(d, 1) /\ \A x \in 1 .. Len(d) : Hash[d[x]] = b
  <2>1. ASSUME NEW x \in 1 .. L - 1 PROVE u.fNext[d[x]] = Nth(d, x + 1) /\ Hash[d[x]] = b
    <3>1. CASE x = k - 1
      <4>1. k # 1 /\ x < k /\ ~(x + 1 < k) /\ x \in 1 .. L /\ (x + 1) + 1 = k + 1 /\ x \in Nat /\ x + 1 \in Nat
        BY <1>2, <3>1
      <4>2. d[x] = Nth(c, x) /\ Nth(d, x + 1) = Nth(c, k + 1)
        BY <1>3, <4>1
      <4>3. Nth(c, x) = c[x]
        BY <4>1 DEF Nth
      <4>4. QED
        BY <1>2, <1>8, <3>1, <4>1, <4>2, <4>3
    <3>2. CASE x # k - 1
      <4> DEFINE y == IF x < k THEN x ELSE x + 1
      <4>1. /\ y \in 1 .. L /\ y # k - 1 /\ x \in Nat /\ x + 1 \in Nat
            /\ y + 1 = IF x + 1 < k THEN x + 1 ELSE (x + 1) + 1
        BY <1>2, <3>2
      <4>2. d[x] = Nth(c, y) /\ Nth(d, x + 1) = Nth(c, y + 1)
        BY <1>3, <4>1
      <4> HIDE DEF y
      <4>3. Nth(c, y) = c[y] /\ c[y] \in Obj /\ Hash[c[y]] = b /\ s.fNext[c[y]] = Nth(c, y + 1)
        BY <1>2, <4>1 DEF Nth
      <4>4. ~(k # 1 /\ c[y] = c[k - 1])
        <5>1. k # 1 => k - 1 \in 1 .. L
          BY <1>2
        <5>2. QED
          BY <1>2, <4>1, <5>1
      <4>5. QED
        BY <1>7, <4>2, <4>3, <4>4
    <3>3. QED
      BY <3>1, <3>2
  <2>2. u.fObject[b] = Nth(d, 1)
    <3>1. CASE k = 1
      <4>1. Nth(d, 1) = Nth(c, 2)
        BY <1>3, <3>1
      <4>2. QED
        BY <3>1, <4>1 DEF Threads, TableRecord
    <3>2. CASE k # 1
      <4>1. 1 < k
        BY <1>2, <3>2
      <4>2. Nth(d, 1) = Nth(c, 1)
        BY <1>3, <4>1
      <4>3. QED
        BY <1>2, <3>2, <4>2
    <3>3. QED
      BY <3>1, <3>2
  <2>3. QED
    BY <1>3, <2>1, <2>2 DEF Link
<1>10. ASSUME NEW x \in Entries, x # b
       PROVE  /\ Link(u.fNext, ds[x]) /\ u.fObject[x] = Nth(ds[x], 1)
              /\ \A y \in 1 .. Len(ds[x]) : Hash[ds[x][y]] = x
  <2>1. ds[x] = cs[x] /\ x \in 0 .. TableSize
    BY <1>4, <1>10, <1>1 DEF Entries
  <2>2. /\ Link(s.fNext, cs[x]) /\ s.fObject[x] = Nth(cs[x], 1)
        /\ \A y \in 1 .. Len(cs[x]) : cs[x][y] \in Obj /\ Hash[cs[x][y]] = x
    BY <2>1, ThreadsLink DEF Link
  <2>3. \A y \in 1 .. Len(cs[x]) : ~(k # 1 /\ cs[x][y] = c[k - 1])
    <3>1. k # 1 => Hash[c[k - 1]] = b
      <4>1. k # 1 => k - 1 \in 1 .. L
        BY <1>2
      <4>2. QED
        BY <1>2, <4>1
    <3>2. QED
      BY <1>10, <2>2, <3>1
  <2>4. \A y \in 1 .. Len(cs[x]) : u.fNext[cs[x][y]] = s.fNext[cs[x][y]]
    BY <1>7, <2>2, <2>3
  <2>5. u.fObject[x] = s.fObject[x]
    BY <1>10 DEF Threads, TableRecord
  <2>6. Link(u.fNext, cs[x])
    BY <2>2, <2>4 DEF Link
  <2>7. QED
    BY <2>1, <2>2, <2>5, <2>6
<1>11. e \in 0 .. TableSize
  BY DEF Threads
<1>12. \A x \in Entries : /\ Link(u.fNext, ds[x]) /\ u.fObject[x] = Nth(ds[x], 1)
                          /\ \A y \in 1 .. Len(ds[x]) : Hash[ds[x][y]] = x
  BY <1>4, <1>9, <1>10
<1> HIDE DEF c, L
<1>13. QED
  BY <1>5, <1>6, <1>11, <1>12 DEF Threads

\* The place j of the walk in c becomes the place i in d.
Moved(c, k, d, j, i) ==
  /\ Nth(d, i) = IF j = k THEN Nth(c, k + 1) ELSE Nth(c, j)
  /\ Nth(d, i - 1) = IF j - 1 = k THEN Nth(c, k - 1) ELSE Nth(c, j - 1)
  /\ Rest(d, i) = Rest(c, j) \ {c[k]}

\* The place of the walk in a chain, when the object at place k is taken out.
LEMMA WalkWithout ==
  ASSUME NEW c \in Seq(Obj), NEW k \in 1 .. Len(c), NEW d, Taken(c, k, d),
         NEW j \in 1 .. Len(c) + 1
  PROVE  \E i \in 1 .. Len(d) + 1 : Moved(c, k, d, j, i)
<1> DEFINE i == IF j <= k THEN j ELSE j - 1
<1>1. /\ Len(c) \in Nat /\ Len(d) = Len(c) - 1 /\ k \in Nat /\ j \in Nat /\ k >= 1
      /\ k <= Len(c) /\ j >= 1 /\ j <= Len(c) + 1
  BY DEF Taken
<1>2. i \in 1 .. Len(d) + 1 /\ i \in Nat /\ i - 1 \in Nat
  BY <1>1
<1>3. \A x \in Nat : Nth(d, x) = Nth(c, IF x < k THEN x ELSE x + 1)
  BY DEF Taken
<1>4. Nth(d, i) = IF j = k THEN Nth(c, k + 1) ELSE Nth(c, j)
  <2>1. (IF i < k THEN i ELSE i + 1) = IF j = k THEN k + 1 ELSE j
    BY <1>1
  <2>2. QED
    BY <1>2, <1>3, <2>1
<1>5. Nth(d, i - 1) = IF j - 1 = k THEN Nth(c, k - 1) ELSE Nth(c, j - 1)
  <2>1. CASE j - 1 = k
    <3>1. i - 1 = k - 1 /\ (IF i - 1 < k THEN i - 1 ELSE (i - 1) + 1) = k - 1
      BY <1>1, <2>1
    <3>2. QED
      BY <1>2, <1>3, <2>1, <3>1
  <2>2. CASE j - 1 # k
    <3>1. (IF i - 1 < k THEN i - 1 ELSE (i - 1) + 1) = j - 1
      BY <1>1, <2>2
    <3>2. QED
      BY <1>2, <1>3, <2>2, <3>1
  <2>3. QED
    BY <2>1, <2>2
<1>6. Rest(d, i) = Rest(c, j) \ {c[k]}
  <2>1. CASE j <= k
    <3>1. j \in 1 .. k /\ i = j
      BY <1>1, <2>1
    <3>2. QED
      BY <3>1 DEF Taken
  <2>2. CASE ~(j <= k)
    <3>1. j \in k + 1 .. Len(c) + 1 /\ i = j - 1
      BY <1>1, <2>2
    <3>2. Rest(d, j - 1) = Rest(c, j) /\ c[k] \notin Rest(c, j)
      BY <3>1 DEF Taken
    <3>3. QED
      BY <3>1, <3>2
  <2>3. QED
    BY <2>1, <2>2
<1>7. Moved(c, k, d, j, i)
  BY <1>4, <1>5, <1>6 DEF Moved
<1> HIDE DEF i
<1>8. QED
  BY <1>2, <1>7

\* What is before an object in its chain.
Before(s, o) == {p \in Linked(s, Hash[o]) : s.fNext[p] = o}
Predecessor(s, c, k) == \A p : p \in Before(s, c[k]) <=> k # 1 /\ p = c[k - 1]

LEMMA BeforeIs ==
  ASSUME NEW s, NEW cs, NEW e, NEW j, Threads(s, cs, e, j),
         NEW b \in Entries, NEW k \in 1 .. Len(cs[b])
  PROVE  Predecessor(s, cs[b], k)
<1> DEFINE c == cs[b]
           o == c[k]
<1>1. /\ c \in Seq(Obj) /\ Len(c) \in Nat
      /\ \A x, y \in 1 .. Len(c) : c[x] = c[y] => x = y
      /\ \A x \in 1 .. Len(c) : c[x] \in Obj /\ Hash[c[x]] = b /\ s.fNext[c[x]] = Nth(c, x + 1)
  BY ThreadsLink
<1>2. o \in Obj /\ Hash[o] = b /\ o # None
  BY <1>1, Constants
<1>3. Linked(s, b) = {c[x] : x \in 1 .. Len(c)}
  BY ThreadsFacts DEF Rest
<1>4. \A x \in 1 .. Len(c) : Nth(c, x + 1) = o <=> x + 1 = k
  <2>1. ASSUME NEW x \in 1 .. Len(c), Nth(c, x + 1) = o PROVE x + 1 = k
    <3>1. x + 1 \in 1 .. Len(c) /\ c[x + 1] = c[k]
      BY <1>2, <2>1 DEF Nth
    <3>2. QED
      BY <1>1, <3>1
  <2>2. ASSUME NEW x \in 1 .. Len(c), x + 1 = k PROVE Nth(c, x + 1) = o
    BY <2>2 DEF Nth
  <2>3. QED
    BY <2>1, <2>2
<1>5. \A p : p \in Before(s, o) <=> \E x \in 1 .. Len(c) : p = c[x] /\ x + 1 = k
  BY <1>1, <1>2, <1>3, <1>4 DEF Before
<1>6. k = 1 => \A p : p \notin Before(s, o)
  <2> SUFFICES ASSUME k = 1 PROVE \A p : p \notin Before(s, o)
    OBVIOUS
  <2>1. \A x \in 1 .. Len(c) : x + 1 # k
    BY <1>1
  <2>2. QED
    BY <1>5, <2>1
<1>7. k # 1 => \A p : p \in Before(s, o) <=> p = c[k - 1]
  <2> SUFFICES ASSUME k # 1 PROVE \A p : p \in Before(s, o) <=> p = c[k - 1]
    OBVIOUS
  <2>1. k - 1 \in 1 .. Len(c) /\ (k - 1) + 1 = k /\ \A x \in 1 .. Len(c) : x + 1 = k => x = k - 1
    BY <1>1
  <2>2. QED
    BY <1>5, <2>1
<1>8. \A p : p \in Before(s, o) <=> k # 1 /\ p = c[k - 1]
  BY <1>6, <1>7
<1>9. QED
  BY <1>8 DEF Predecessor

\* What Unlink makes of the object at place k of its chain.
LEMMA UnlinkIs ==
  ASSUME NEW s, NEW cs, NEW e, NEW j, Threads(s, cs, e, j),
         NEW b \in Entries, NEW k \in 1 .. Len(cs[b]), NEW o, o = cs[b][k]
  PROVE  LET c == cs[b]
             u == Unlink(s, o)
         IN  /\ u \in TableRecord
             /\ u.fObject = IF k = 1 THEN [s.fObject EXCEPT ![b] = Nth(c, k + 1)] ELSE s.fObject
             /\ u.fNext = IF k = 1 THEN s.fNext
                          ELSE [s.fNext EXCEPT ![c[k - 1]] = Nth(c, k + 1)]
             /\ u.fThisObj = IF s.fThisObj = o THEN Nth(c, k + 1) ELSE s.fThisObj
             /\ u.fPrevObj = IF s.fThisObj # o /\ s.fPrevObj = o THEN Nth(c, k - 1) ELSE s.fPrevObj
             /\ u.fOwnerId = s.fOwnerId /\ Rights(s, u)
<1> DEFINE c == cs[b]
           before == Before(s, o)
           prev == IF before = {} THEN None ELSE CHOOSE p \in before : TRUE
           w == IF prev = None THEN [s EXCEPT !.fObject[b] = s.fNext[o]]
                ELSE [s EXCEPT !.fNext[prev] = s.fNext[o]]
           u == Unlink(s, o)
<1>1. /\ c \in Seq(Obj) /\ Len(c) \in Nat
      /\ \A x \in 1 .. Len(c) : c[x] \in Obj /\ Hash[c[x]] = b /\ s.fNext[c[x]] = Nth(c, x + 1)
  BY ThreadsLink
<1>2. o \in Obj /\ Hash[o] = b /\ s.fNext[o] = Nth(c, k + 1) /\ None \notin Obj
  BY <1>1, Constants
<1>3. before = IF k = 1 THEN {} ELSE {c[k - 1]}
  <2>1. \A p : p \in Before(s, cs[b][k]) <=> k # 1 /\ p = cs[b][k - 1]
    <3>1. Predecessor(s, cs[b], k)
      BY BeforeIs
    <3>2. QED
      BY <3>1 DEF Predecessor
  <2>2. \A p : p \in before <=> k # 1 /\ p = c[k - 1]
    BY <2>1
  <2> HIDE DEF before, c
  <2>3. k = 1 => before = {}
    BY <2>2
  <2>4. k # 1 => before = {c[k - 1]}
    BY <2>2
  <2>5. QED
    BY <2>3, <2>4
<1>4. k # 1 => k - 1 \in 1 .. Len(c)
  BY <1>1
<1>5. prev = Nth(c, k - 1) /\ (prev = None <=> k = 1) /\ (k # 1 => prev = c[k - 1])
  <2>1. CASE k = 1
    <3>1. k - 1 \notin 1 .. Len(c)
      BY <1>1, <2>1
    <3>2. QED
      BY <1>3, <2>1, <3>1 DEF Nth
  <2>2. CASE k # 1
    BY <1>1, <1>2, <1>3, <1>4, <2>2 DEF Nth
  <2>3. QED
    BY <2>1, <2>2
<1>6. prev \in Obj \cup {None} /\ s.fNext[o] \in Obj \cup {None} /\ s \in TableRecord
  <2>1. prev \in Obj \cup {None}
    BY <1>1, <1>4, <1>5
  <2>2. s \in TableRecord
    BY DEF Threads
  <2>3. s.fNext[o] \in Obj \cup {None}
    BY <1>2, <2>2 DEF TableRecord
  <2>4. QED
    BY <2>1, <2>2, <2>3
<1>7. u = CASE s.fThisObj = o -> [w EXCEPT !.fThisObj = s.fNext[o]]
            [] s.fThisObj # o /\ s.fPrevObj = o -> [w EXCEPT !.fPrevObj = prev]
            [] OTHER -> w
  BY <1>2 DEF Unlink, Before
<1> HIDE DEF prev, before, u, c
<1>8. /\ w \in TableRecord
      /\ w.fObject = IF k = 1 THEN [s.fObject EXCEPT ![b] = s.fNext[o]] ELSE s.fObject
      /\ w.fNext = IF k = 1 THEN s.fNext ELSE [s.fNext EXCEPT ![prev] = s.fNext[o]]
      /\ w.fThisObj = s.fThisObj /\ w.fPrevObj = s.fPrevObj
      /\ w.fOwnerId = s.fOwnerId /\ Rights(s, w)
  <2>1. CASE k = 1
    BY <1>5, <1>6, <2>1 DEF TableRecord, Rights
  <2>2. CASE k # 1
    BY <1>5, <1>6, <2>2 DEF TableRecord, Rights
  <2>3. QED
    BY <2>1, <2>2
<1> HIDE DEF w
<1>9. /\ u \in TableRecord /\ u.fObject = w.fObject /\ u.fNext = w.fNext
      /\ u.fThisObj = IF s.fThisObj = o THEN s.fNext[o] ELSE s.fThisObj
      /\ u.fPrevObj = IF s.fThisObj # o /\ s.fPrevObj = o THEN prev ELSE s.fPrevObj
      /\ u.fOwnerId = w.fOwnerId /\ Rights(w, u)
  <2>1. CASE s.fThisObj = o
    BY <1>6, <1>7, <1>8, <2>1 DEF TableRecord, Rights
  <2>2. CASE s.fThisObj # o /\ s.fPrevObj = o
    BY <1>6, <1>7, <1>8, <2>2 DEF TableRecord, Rights
  <2>3. CASE s.fThisObj # o /\ s.fPrevObj # o
    <3>1. u = w
      BY <1>7, <2>3
    <3>2. QED
      BY <1>8, <2>3, <3>1 DEF Rights
  <2>4. QED
    BY <2>1, <2>2, <2>3
<1>10. QED
  BY <1>2, <1>5, <1>8, <1>9 DEF Rights, u, c

OneTaken(cs, ds, b, k) ==
  ds[b] = Without(cs[b], k) /\ \A x \in Entries : x # b => ds[x] = cs[x]

\* What the chains become when one object is taken out of its chain.
LEMMA RestWithout ==
  ASSUME NEW s, NEW cs, NEW e, NEW j, Threads(s, cs, e, j),
         NEW u, NEW ds, NEW i, Threads(u, ds, e, i),
         NEW b \in Entries, NEW k \in 1 .. Len(cs[b]),
         OneTaken(cs, ds, b, k),
         NEW o, o = cs[b][k], Rest(ds[e], i) = Rest(cs[e], j) \ {o}
  PROVE  AliveIn(u) = AliveIn(s) \ {o} /\ Ahead(u) = Ahead(s) \ {o}
<1> DEFINE c == cs[b]
<1>1. /\ c \in Seq(Obj) /\ NoRepeats(c) /\ o \in Obj /\ Hash[o] = b
      /\ Len(c) \in Nat /\ b \in 0 .. TableSize
  <2>1. /\ c \in Seq(Obj) /\ Len(c) \in Nat
        /\ \A x, y \in 1 .. Len(c) : c[x] = c[y] => x = y
        /\ \A x \in 1 .. Len(c) : c[x] \in Obj /\ Hash[c[x]] = b
    BY ONLY Threads(s, cs, e, j), b \in Entries, ThreadsLink
  <2>2. NoRepeats(c)
    BY <2>1 DEF NoRepeats
  <2>3. b \in 0 .. TableSize
    BY Constants DEF Entries
  <2>4. QED
    BY <2>1, <2>2, <2>3
<1>2. Taken(c, k, Without(c, k))
  BY <1>1, WithoutIs
<1>3. ds[b] = Without(c, k) /\ \A x \in Entries : x # b => ds[x] = cs[x]
  BY DEF OneTaken
<1>4. Rest(ds[b], 1) = Rest(c, 1) \ {o}
  <2>1. 1 \in 1 .. k
    BY <1>1
  <2>2. QED
    BY <1>2, <1>3, <2>1 DEF Taken
<1>5. ASSUME NEW y \in Obj PROVE Exists(u, y) <=> Exists(s, y) /\ y # o
  <2>1. Hash[y] \in Entries
    BY Constants
  <2>2. Exists(s, y) <=> y \in Rest(cs[Hash[y]], 1)
    BY ThreadsFacts
  <2>3. Exists(u, y) <=> y \in Rest(ds[Hash[y]], 1)
    BY ThreadsFacts
  <2>4. QED
    BY <1>1, <1>3, <1>4, <2>1, <2>2, <2>3
<1>6. Ahead(s) = Rest(cs[e], j)
  BY ThreadsFacts
<1>7. Ahead(u) = Rest(ds[e], i)
  BY ONLY Threads(u, ds, e, i), ThreadsFacts
<1>8. QED
  BY <1>5, <1>6, <1>7 DEF AliveIn

LEMMA UnlinkSound ==
  ASSUME NEW s, NEW e, Sound(s, e), NEW o \in Obj, Exists(s, o)
  PROVE  Unlinked(s, Unlink(s, o), e, o)
<1>1. PICK cs, j : Threads(s, cs, e, j)
  BY DEF Sound
<1> DEFINE b == Hash[o]
           c == cs[b]
           u == Unlink(s, o)
<1>2. b \in Entries /\ b \in 0 .. TableSize /\ e \in 0 .. TableSize
  BY <1>1, Constants DEF Entries, Threads
<1>3. /\ c \in Seq(Obj) /\ Len(c) \in Nat /\ NoRepeats(c)
      /\ \A x, y \in 1 .. Len(c) : c[x] = c[y] => x = y
  BY <1>1, <1>2, ThreadsLink DEF NoRepeats
<1>4. PICK k \in 1 .. Len(c) : o = c[k]
  BY <1>1, <1>2, ThreadsFacts DEF Rest
<1>5. Taken(c, k, Without(c, k))
  BY <1>3, WithoutIs
<1> DEFINE d == Without(c, k)
           ds == [cs EXCEPT ![b] = d]
<1>6. ds[b] = d /\ \A x \in 0 .. TableSize : x # b => ds[x] = cs[x]
  BY <1>1, <1>2 DEF Threads
<1>7. /\ u \in TableRecord
      /\ u.fObject = IF k = 1 THEN [s.fObject EXCEPT ![b] = Nth(c, k + 1)] ELSE s.fObject
      /\ u.fNext = IF k = 1 THEN s.fNext
                   ELSE [s.fNext EXCEPT ![c[k - 1]] = Nth(c, k + 1)]
      /\ u.fThisObj = IF s.fThisObj = o THEN Nth(c, k + 1) ELSE s.fThisObj
      /\ u.fPrevObj = IF s.fThisObj # o /\ s.fPrevObj = o THEN Nth(c, k - 1) ELSE s.fPrevObj
      /\ u.fOwnerId = s.fOwnerId /\ Rights(s, u)
  BY <1>1, <1>2, <1>4, UnlinkIs
<1>8. /\ j \in Nat /\ j \in 1 .. Len(cs[e]) + 1 /\ Len(cs[e]) \in Nat
      /\ s.fThisObj = Nth(cs[e], j) /\ s.fPrevObj = Nth(cs[e], j - 1)
  BY <1>1, <1>2, ThreadsFacts DEF Threads
<1> HIDE DEF u, d
<1>9. \E i \in 1 .. Len(ds[e]) + 1 :
        /\ u.fThisObj = Nth(ds[e], i) /\ u.fPrevObj = Nth(ds[e], i - 1)
        /\ Rest(ds[e], i) = Rest(cs[e], j) \ {o}
  <2>1. CASE e = b
    <3>0. PICK i \in 1 .. Len(d) + 1 : Moved(c, k, d, j, i)
      <4> HIDE DEF c
      <4>1. c \in Seq(Obj) /\ Taken(c, k, d) /\ j \in 1 .. Len(c) + 1
        BY <1>3, <1>5, <1>8, <2>1 DEF d, c
      <4>2. QED
        BY <4>1, WalkWithout
    <3>1. /\ Nth(d, i) = IF j = k THEN Nth(c, k + 1) ELSE Nth(c, j)
          /\ Nth(d, i - 1) = IF j - 1 = k THEN Nth(c, k - 1) ELSE Nth(c, j - 1)
          /\ Rest(d, i) = Rest(c, j) \ {c[k]}
      BY <3>0 DEF Moved
    <3>2. \A x \in Nat : Nth(c, x) = o <=> x = k
      <4>1. o # None
        BY Constants
      <4>2. QED
        BY <1>3, <1>4, <4>1 DEF Nth
    <3>3. (s.fThisObj = o <=> j = k) /\ (s.fPrevObj = o <=> j - 1 = k)
      <4>1. j - 1 \in Nat
        BY <1>8
      <4>2. QED
        BY <1>8, <2>1, <3>2, <4>1
    <3>4. u.fThisObj = Nth(d, i) /\ u.fPrevObj = Nth(d, i - 1)
      <4>1. j = k => j - 1 # k
        BY <1>8
      <4>2. QED
        BY <1>7, <1>8, <2>1, <3>1, <3>3, <4>1
    <3>5. QED
      BY <1>4, <1>6, <2>1, <3>1, <3>4
  <2>2. CASE e # b
    <3>1. ds[e] = cs[e]
      BY <1>2, <1>6, <2>2
    <3>2. \A x \in 1 .. Len(cs[e]) : cs[e][x] # o
      <4>1. CASE e \in Entries
        BY <1>1, <2>2, <4>1, ThreadsLink
      <4>2. CASE e \notin Entries
        <5>1. e = TableSize
          BY <1>2, <4>2, Constants DEF Entries
        <5>2. Len(cs[e]) = 0
          BY <1>1, <5>1 DEF Threads
        <5>3. QED
          BY <5>2
      <4>3. QED
        BY <4>1, <4>2
    <3>3. \A x : Nth(cs[e], x) # o
      BY <3>2, Constants DEF Nth
    <3>4. s.fThisObj # o /\ s.fPrevObj # o
      BY <1>8, <3>3
    <3>5. u.fThisObj = Nth(cs[e], j) /\ u.fPrevObj = Nth(cs[e], j - 1)
      BY <1>7, <1>8, <3>4
    <3>6. o \notin Rest(cs[e], j)
      <4>1. \A x \in j .. Len(cs[e]) : x \in 1 .. Len(cs[e])
        BY <1>8
      <4>2. QED
        BY <3>2, <4>1 DEF Rest
    <3>7. Rest(cs[e], j) = Rest(cs[e], j) \ {o}
      BY <3>6
    <3>8. QED
      BY <1>8, <3>1, <3>5, <3>7
  <2>3. QED
    BY <2>1, <2>2
<1>10. PICK i \in 1 .. Len(ds[e]) + 1 :
         /\ u.fThisObj = Nth(ds[e], i) /\ u.fPrevObj = Nth(ds[e], i - 1)
         /\ Rest(ds[e], i) = Rest(cs[e], j) \ {o}
  BY <1>9
<1>11. Threads(u, ds, e, i)
  BY <1>1, <1>2, <1>7, <1>10, ThreadsWithout DEF d
<1>12. AliveIn(u) = AliveIn(s) \ {o} /\ Ahead(u) = Ahead(s) \ {o}
  <2>1. OneTaken(cs, ds, b, k)
    BY <1>2, <1>6, Constants DEF OneTaken, Entries, d
  <2> HIDE DEF ds, b
  <2>2. QED
    BY ONLY <1>1, <1>2, <1>4, <1>10, <1>11, <2>1, RestWithout
<1>13. Sound(u, e)
  BY <1>11 DEF Sound
<1>14. QED
  BY <1>7, <1>12, <1>13 DEF Unlinked, u

LEMMA SameRecord ==
  ASSUME NEW r \in TableRecord, NEW q \in TableRecord,
         r.fObject = q.fObject, r.fNext = q.fNext, r.fOwnerId = q.fOwnerId,
         r.fAssignedOwnerId = q.fAssignedOwnerId, r.fBequeathId = q.fBequeathId,
         r.fInheritedId = q.fInheritedId, r.fThisObj = q.fThisObj, r.fPrevObj = q.fPrevObj,
         r.fDeferredId = q.fDeferredId, r.destroyed = q.destroyed
  PROVE  r = q
BY DEF TableRecord

\* The scavenger takes the object it stands at out of its chain as remove would.
ScavengeUnlink(s, dead) ==
  LET r == [s EXCEPT !.fThisObj = s.fNext[dead], !.fOwnerId[dead] = dead]
  IN  IF r.fPrevObj # None THEN [r EXCEPT !.fNext[r.fPrevObj] = r.fNext[dead]]
      ELSE [r EXCEPT !.fObject[Hash[dead]] = r.fNext[dead]]

LEMMA ScavengeUnlinkIs ==
  ASSUME NEW s, NEW e, Sound(s, e), s.fThisObj # None
  PROVE  /\ s.fThisObj \in Obj /\ Exists(s, s.fThisObj)
         /\ Sound([s EXCEPT !.fOwnerId[s.fThisObj] = s.fThisObj], e)
         /\ ScavengeUnlink(s, s.fThisObj)
              = Unlink([s EXCEPT !.fOwnerId[s.fThisObj] = s.fThisObj], s.fThisObj)
<1>1. PICK cs, j : Threads(s, cs, e, j)
  BY DEF Sound
<1> DEFINE o == s.fThisObj
           c == cs[e]
           r == [s EXCEPT !.fOwnerId[o] = o]
           v == ScavengeUnlink(s, o)
<1>2. s \in TableRecord /\ o = Nth(c, j) /\ s.fPrevObj = Nth(c, j - 1) /\ e \in 0 .. TableSize
  BY <1>1 DEF Threads
<1>3. e \in Entries
  <2>1. e # TableSize
    <3>1. cs[TableSize] = <<>>
      BY <1>1 DEF Threads
    <3>2. e = TableSize => Nth(c, j) = None
      BY <3>1 DEF Nth
    <3>3. QED
      BY <1>2, <3>2
  <2>2. QED
    BY <1>2, <2>1, Constants DEF Entries
<1>4. /\ j \in 1 .. Len(c) /\ o = c[j] /\ c \in Seq(Obj) /\ Len(c) \in Nat
      /\ o \in Obj /\ Hash[o] = e
  <2>1. j \in 1 .. Len(c) /\ o = c[j]
    BY <1>2 DEF Nth
  <2>2. QED
    BY <1>1, <1>3, <2>1, ThreadsLink
<1>5. Exists(s, o)
  BY <1>1, <1>3, <1>4, ThreadsFacts DEF Rest
<1>6. r \in TableRecord /\ Threads(r, cs, e, j)
  <2>1. r \in TableRecord
    BY <1>2, <1>4 DEF TableRecord
  <2>2. QED
    BY <1>1, <2>1 DEF Threads
<1> HIDE DEF v
<1>7. LET u == Unlink(r, o)
      IN  /\ u \in TableRecord
          /\ u.fObject = IF j = 1 THEN [r.fObject EXCEPT ![e] = Nth(c, j + 1)] ELSE r.fObject
          /\ u.fNext = IF j = 1 THEN r.fNext
                       ELSE [r.fNext EXCEPT ![c[j - 1]] = Nth(c, j + 1)]
          /\ u.fThisObj = IF r.fThisObj = o THEN Nth(c, j + 1) ELSE r.fThisObj
          /\ u.fPrevObj = IF r.fThisObj # o /\ r.fPrevObj = o THEN Nth(c, j - 1) ELSE r.fPrevObj
          /\ u.fOwnerId = r.fOwnerId /\ Rights(r, u)
  <2> HIDE DEF r, c, o
  <2>1. j \in 1 .. Len(cs[e]) /\ o = cs[e][j]
    BY <1>4 DEF c
  <2>2. QED
    BY <1>3, <1>6, <2>1, UnlinkIs DEF c
<1>8. s.fNext[o] = Nth(c, j + 1) /\ s.fNext[o] \in Obj \cup {None}
  <2>1. s.fNext[o] = Nth(c, j + 1)
    BY <1>1, <1>3, <1>4, ThreadsLink
  <2>2. QED
    BY <1>2, <1>4, <2>1 DEF TableRecord
<1>9. (s.fPrevObj = None <=> j = 1) /\ (j # 1 => s.fPrevObj = c[j - 1])
  <2>1. CASE j = 1
    BY <1>2, <1>4, <2>1 DEF Nth
  <2>2. CASE j # 1
    <3>1. j - 1 \in 1 .. Len(c)
      BY <1>4, <2>2
    <3>2. s.fPrevObj = c[j - 1] /\ c[j - 1] # None
      BY <1>2, <1>4, <3>1, Constants DEF Nth
    <3>3. QED
      BY <2>2, <3>2
  <2>3. QED
    BY <2>1, <2>2
<1>10. /\ v \in TableRecord
       /\ v.fObject = IF j = 1 THEN [s.fObject EXCEPT ![e] = s.fNext[o]] ELSE s.fObject
       /\ v.fNext = IF j = 1 THEN s.fNext ELSE [s.fNext EXCEPT ![s.fPrevObj] = s.fNext[o]]
       /\ v.fThisObj = s.fNext[o] /\ v.fPrevObj = s.fPrevObj
       /\ v.fOwnerId = [s.fOwnerId EXCEPT ![o] = o] /\ Rights(s, v)
  <2>1. CASE j = 1
    BY <1>2, <1>4, <1>8, <1>9, <2>1 DEF v, ScavengeUnlink, TableRecord, Rights
  <2>2. CASE j # 1
    BY <1>2, <1>4, <1>8, <1>9, <2>2 DEF v, ScavengeUnlink, TableRecord, Rights
  <2>3. QED
    BY <2>1, <2>2
<1>11. /\ r.fObject = s.fObject /\ r.fNext = s.fNext /\ r.fThisObj = o
       /\ r.fPrevObj = s.fPrevObj /\ Rights(s, r) /\ r.fOwnerId = [s.fOwnerId EXCEPT ![o] = o]
  BY <1>2 DEF TableRecord, Rights
<1>12. v = Unlink(r, o)
  <2> DEFINE u == Unlink(r, o)
  <2>1. /\ v.fObject = u.fObject /\ v.fNext = u.fNext /\ v.fThisObj = u.fThisObj
        /\ v.fPrevObj = u.fPrevObj /\ v.fOwnerId = u.fOwnerId
    <3> HIDE DEF r, c, o
    <3>1. QED
      BY <1>7, <1>8, <1>9, <1>10, <1>11
  <2>2. Rights(s, v) /\ Rights(s, r) /\ Rights(r, u)
    BY <1>7, <1>10, <1>11
  <2>3. u \in TableRecord
    BY <1>7
  <2> HIDE DEF u
  <2>4. v = u
    BY <1>10, <2>1, <2>2, <2>3, SameRecord DEF Rights
  <2>5. QED
    BY <2>4 DEF u
<1>13. QED
  BY <1>4, <1>5, <1>6, <1>12 DEF Sound, v
-----------------------------------------------------------------------------
(* An object that is in no chain.                                          *)

\* u keeps the fields of every object outside X.
Keeps(s, u, X) ==
  \A y \in Obj \ X :
    /\ u.fOwnerId[y] = s.fOwnerId[y] /\ u.fAssignedOwnerId[y] = s.fAssignedOwnerId[y]
    /\ u.fBequeathId[y] = s.fBequeathId[y] /\ u.fInheritedId[y] = s.fInheritedId[y]

LEMMA FreeSound ==
  ASSUME NEW s, NEW e, Sound(s, e), NEW o \in Obj, ~Exists(s, o)
  PROVE  LET u == Free(s, o)
         IN  /\ Sound(u, e) /\ AliveIn(u) = AliveIn(s) /\ Ahead(u) = Ahead(s)
             /\ Keeps(s, u, {o}) /\ u.fBequeathId[o] = None
             /\ u.fDeferredId = s.fDeferredId /\ u.destroyed = s.destroyed
<1>1. PICK cs, j : Threads(s, cs, e, j)
  BY DEF Sound
<1> DEFINE u == Free(s, o)
<1>2. s \in TableRecord /\ s.fNext[None] = None /\ o # None
  BY <1>1, Constants DEF Threads
<1>3. /\ u \in TableRecord
      /\ u.fObject = s.fObject /\ u.fNext = [s.fNext EXCEPT ![o] = None]
      /\ u.fThisObj = s.fThisObj /\ u.fPrevObj = s.fPrevObj
      /\ u.fDeferredId = s.fDeferredId /\ u.destroyed = s.destroyed
      /\ u.fBequeathId[o] = None
      /\ Keeps(s, u, {o})
  BY <1>2 DEF Free, TableRecord, Keeps
<1> HIDE DEF u
<1>4. \A x \in Obj \cup {None} : x # o => u.fNext[x] = s.fNext[x]
  BY <1>2, <1>3 DEF TableRecord
<1>5. ASSUME NEW b \in Entries PROVE Link(u.fNext, cs[b])
  <2>1. /\ cs[b] \in Seq(Obj)
        /\ \A i \in 1 .. Len(cs[b]) : cs[b][i] \in Obj /\ Hash[cs[b][i]] = b
        /\ Link(s.fNext, cs[b])
    BY <1>1, ThreadsLink
  <2>2. o \in Rest(cs[b], 1) => Hash[o] = b
    BY <2>1 DEF Rest
  <2>3. o \notin Rest(cs[b], 1)
    BY <1>1, <2>2, ThreadsFacts
  <2>4. \A i \in 1 .. Len(cs[b]) : cs[b][i] # o
    BY <2>3 DEF Rest
  <2>5. \A i \in 1 .. Len(cs[b]) : u.fNext[cs[b][i]] = s.fNext[cs[b][i]]
    BY <1>4, <2>1, <2>4
  <2>6. QED
    BY <2>1, <2>5 DEF Link
<1>6. u.fNext[None] = None
  BY <1>2, <1>4
<1>7. Threads(u, cs, e, j)
  BY <1>1, <1>3, <1>5, <1>6 DEF Threads
<1>8. \A x \in Obj : Exists(u, x) <=> Exists(s, x)
  <2>1. \A x \in Obj : Exists(u, x) <=> x \in Rest(cs[Hash[x]], 1)
    BY ONLY <1>7, ThreadsFacts
  <2>2. \A x \in Obj : Exists(s, x) <=> x \in Rest(cs[Hash[x]], 1)
    BY ONLY <1>1, ThreadsFacts
  <2>3. QED
    BY <2>1, <2>2
<1>9. Ahead(u) = Ahead(s)
  <2>1. Ahead(u) = Rest(cs[e], j)
    BY ONLY <1>7, ThreadsFacts
  <2>2. Ahead(s) = Rest(cs[e], j)
    BY ONLY <1>1, ThreadsFacts
  <2>3. QED
    BY <2>1, <2>2
<1>10. QED
  BY <1>3, <1>7, <1>8, <1>9 DEF Sound, AliveIn, u

\* Between the walks, the scavenger stands nowhere.
LEMMA IdleWalk ==
  ASSUME NEW s, Sound(s, TableSize)
  PROVE  s.fThisObj = None /\ s.fPrevObj = None /\ Ahead(s) = {}
<1>1. PICK cs, j : Threads(s, cs, TableSize, j)
  BY DEF Sound
<1>2. cs[TableSize] = <<>> /\ s.fThisObj = Nth(<<>>, j) /\ s.fPrevObj = Nth(<<>>, j - 1)
  BY <1>1 DEF Threads
<1>3. Ahead(s) = Rest(cs[TableSize], j) /\ j \in Nat \ {0}
  BY <1>1, ThreadsFacts
<1>4. Rest(<<>>, j) = {} /\ \A i : Nth(<<>>, i) = None
  BY <1>3 DEF Rest, Nth
<1>5. QED
  BY <1>2, <1>3, <1>4

With(o, c) == [i \in 1 .. Len(c) + 1 |-> IF i = 1 THEN o ELSE c[i - 1]]

\* A chain with a new first object.
LEMMA WithIs ==
  ASSUME NEW next, NEW c, Link(next, c), NEW o \in Obj,
         \A i \in 1 .. Len(c) : c[i] # o,
         NEW nxt, \A x \in Obj \ {o} : nxt[x] = next[x], nxt[o] = Nth(c, 1)
  PROVE  /\ Link(nxt, With(o, c)) /\ Nth(With(o, c), 1) = o
         /\ Rest(With(o, c), 1) = Rest(c, 1) \cup {o}
<1> DEFINE d == With(o, c)
           L == Len(c)
<1>1. /\ c \in Seq(Obj) /\ L \in Nat /\ \A i \in 1 .. L : c[i] \in Obj /\ next[c[i]] = Nth(c, i + 1)
      /\ \A x, y \in 1 .. L : c[x] = c[y] => x = y
  <2>1. c \in Seq(Obj)
    BY DEF Link
  <2>2. L \in Nat /\ \A i \in 1 .. L : c[i] \in Obj
    BY <2>1
  <2>3. QED
    BY <2>1, <2>2 DEF Link
<1>2. \A i \in 1 .. L + 1 : i # 1 => i - 1 \in 1 .. L
  BY <1>1
<1>3. d \in Seq(Obj) /\ Len(d) = L + 1 /\ \A i \in 1 .. L + 1 : d[i] = IF i = 1 THEN o ELSE c[i - 1]
  <2>1. d \in [1 .. L + 1 -> Obj]
    BY <1>1, <1>2 DEF With
  <2>2. L + 1 \in Nat
    BY <1>1
  <2>3. QED
    BY <2>1, <2>2 DEF With
<1> HIDE DEF d
<1>4. \A i \in 1 .. L : Nth(d, i + 1) = Nth(c, i)
  <2> SUFFICES ASSUME NEW i \in 1 .. L PROVE Nth(d, i + 1) = Nth(c, i)
    OBVIOUS
  <2>1. i + 1 \in 1 .. L + 1 /\ i + 1 # 1 /\ (i + 1) - 1 = i
    BY <1>1
  <2>2. QED
    BY <1>3, <2>1 DEF Nth
<1>5. Nth(d, L + 2) = None /\ Nth(c, L + 1) = None
  BY <1>1, <1>3 DEF Nth
<1>6. ASSUME NEW i \in 1 .. Len(d) PROVE nxt[d[i]] = Nth(d, i + 1)
  <2>1. CASE i = 1
    <3>1. d[i] = o
      BY <1>3, <2>1
    <3>2. Nth(d, 2) = Nth(c, 1)
      <4>1. CASE L = 0
        <5>1. Nth(d, 2) = None /\ Nth(c, 1) = None
          BY <1>5, <4>1
        <5>2. QED
          BY <5>1
      <4>2. CASE L # 0
        <5>1. 1 \in 1 .. L /\ 1 + 1 = 2
          BY <1>1, <4>2
        <5>2. QED
          BY <1>4, <5>1
      <4>3. QED
        BY <4>1, <4>2
    <3>3. QED
      BY <2>1, <3>1, <3>2
  <2>2. CASE i # 1
    <3>1. i - 1 \in 1 .. L /\ (i - 1) + 1 = i /\ d[i] = c[i - 1]
      BY <1>2, <1>3, <2>2
    <3>2. nxt[d[i]] = Nth(c, i)
      BY <1>1, <3>1
    <3>3. Nth(d, i + 1) = Nth(c, i)
      <4>1. CASE i = L + 1
        <5>1. i + 1 = L + 2
          BY <1>1, <4>1
        <5>2. QED
          BY <1>5, <4>1, <5>1
      <4>2. CASE i # L + 1
        <5>1. i \in 1 .. L
          BY <1>1, <1>3, <4>2
        <5>2. QED
          BY <1>4, <5>1
      <4>3. QED
        BY <4>1, <4>2
    <3>4. QED
      BY <3>2, <3>3
  <2>3. QED
    BY <2>1, <2>2
<1>7. ASSUME NEW x \in 1 .. Len(d), NEW y \in 1 .. Len(d), d[x] = d[y] PROVE x = y
  <2>1. x = 1 <=> y = 1
    BY <1>2, <1>3, <1>7
  <2>2. CASE x # 1
    <3>1. x - 1 \in 1 .. L /\ y - 1 \in 1 .. L /\ c[x - 1] = c[y - 1]
      BY <1>2, <1>3, <1>7, <2>1, <2>2
    <3>2. x - 1 = y - 1
      BY <1>1, <3>1
    <3>3. QED
      BY <1>3, <3>2
  <2>3. QED
    BY <2>1, <2>2
<1>8. Link(nxt, d)
  BY <1>3, <1>6, <1>7 DEF Link
<1>9. Nth(d, 1) = o
  BY <1>1, <1>3 DEF Nth
<1>10. \A x : x \in Rest(d, 1) <=> x = o \/ x \in Rest(c, 1)
  <2>1. \A x : x \in Rest(d, 1) <=> \E i \in 1 .. L + 1 : x = d[i]
    BY <1>3 DEF Rest
  <2>2. \A x : x \in Rest(c, 1) <=> \E i \in 1 .. L : x = c[i]
    BY DEF Rest
  <2>3. \A i \in 1 .. L : i + 1 \in 1 .. L + 1 /\ d[i + 1] = c[i]
    BY <1>1, <1>3
  <2>4. 1 \in 1 .. L + 1 /\ d[1] = o
    BY <1>1, <1>3
  <2>5. \A i \in 1 .. L + 1 : i # 1 => d[i] = c[i - 1]
    BY <1>3
  <2>6. QED
    BY <1>2, <2>1, <2>2, <2>3, <2>4, <2>5
<1>11. QED
  BY <1>8, <1>9, <1>10 DEF d

LEMMA AddSound ==
  ASSUME NEW s, Sound(s, TableSize), NEW o \in Obj, ~Exists(s, o), NEW owner \in Obj
  PROVE  LET u == Add(s, o, owner)
         IN  /\ Sound(u, TableSize) /\ AliveIn(u) = AliveIn(s) \cup {o}
             /\ Keeps(s, u, {o}) /\ u.fOwnerId[o] = owner /\ u.fAssignedOwnerId[o] = owner
             /\ u.fBequeathId = s.fBequeathId
             /\ u.fDeferredId = s.fDeferredId /\ u.destroyed = s.destroyed
<1>1. PICK cs, j : Threads(s, cs, TableSize, j)
  BY DEF Sound
<1> DEFINE u == Add(s, o, owner)
           b == Hash[o]
           ds == [cs EXCEPT ![b] = With(o, cs[b])]
<1>2. s \in TableRecord /\ s.fNext[None] = None /\ o # None /\ b \in Entries
  BY <1>1, Constants DEF Threads
<1>3. s.fObject[b] \in Obj \cup {None} /\ s.fObject[b] = Nth(cs[b], 1)
  BY <1>1, <1>2 DEF Threads, TableRecord
<1>4. /\ u \in TableRecord
      /\ u.fObject = [s.fObject EXCEPT ![b] = o]
      /\ u.fNext = [s.fNext EXCEPT ![o] = s.fObject[b]]
      /\ u.fThisObj = s.fThisObj /\ u.fPrevObj = s.fPrevObj
      /\ u.fDeferredId = s.fDeferredId /\ u.destroyed = s.destroyed
      /\ u.fOwnerId[o] = owner /\ u.fAssignedOwnerId[o] = owner
      /\ u.fBequeathId = s.fBequeathId
      /\ Keeps(s, u, {o})
  BY <1>2, <1>3 DEF Add, TableRecord, Keeps
<1> HIDE DEF u
<1>5. /\ u.fNext[None] = None /\ u.fNext[o] = Nth(cs[b], 1)
      /\ \A x \in Obj \ {o} : u.fNext[x] = s.fNext[x]
      /\ u.fObject[b] = o /\ \A x \in Entries : x # b => u.fObject[x] = s.fObject[x]
  BY <1>2, <1>3, <1>4 DEF TableRecord
<1>6. TableSize \in 0 .. TableSize /\ b \in 0 .. TableSize /\ b # TableSize
      /\ \A x \in Entries : x \in 0 .. TableSize
  BY <1>2, Constants DEF Entries
<1>7. /\ ds[b] = With(o, cs[b]) /\ \A x \in 0 .. TableSize : x # b => ds[x] = cs[x]
  BY <1>1, <1>6 DEF Threads
<1>8. ASSUME NEW x \in Entries
      PROVE  /\ Link(s.fNext, cs[x]) /\ s.fObject[x] = Nth(cs[x], 1)
             /\ \A i \in 1 .. Len(cs[x]) :
                  cs[x][i] \in Obj /\ Hash[cs[x][i]] = x /\ cs[x][i] # o
  <2>1. /\ Link(s.fNext, cs[x]) /\ s.fObject[x] = Nth(cs[x], 1)
        /\ \A i \in 1 .. Len(cs[x]) : cs[x][i] \in Obj /\ Hash[cs[x][i]] = x
    BY <1>1, ThreadsLink
  <2>2. o \notin Rest(cs[b], 1)
    BY <1>1, ThreadsFacts
  <2>3. \A i \in 1 .. Len(cs[b]) : cs[b][i] # o
    BY <2>2 DEF Rest
  <2>4. QED
    BY <2>1, <2>3
<1>9. /\ Link(u.fNext, With(o, cs[b])) /\ Nth(With(o, cs[b]), 1) = o
      /\ Rest(With(o, cs[b]), 1) = Rest(cs[b], 1) \cup {o}
  <2>1. Link(s.fNext, cs[b]) /\ \A i \in 1 .. Len(cs[b]) : cs[b][i] # o
    BY <1>2, <1>8
  <2> HIDE DEF b
  <2>2. QED
    BY <1>5, <2>1, WithIs
<1> DEFINE d == With(o, cs[b])
<1>10. /\ d \in Seq(Obj) /\ \A i \in 1 .. Len(d) : Hash[d[i]] = b
  <2>1. d \in Seq(Obj) /\ Rest(d, 1) = Rest(cs[b], 1) \cup {o}
    BY <1>9 DEF Link
  <2>2. \A y \in Rest(cs[b], 1) : Hash[y] = b
    BY <1>1, <1>2, ThreadsFacts
  <2>3. \A i \in 1 .. Len(d) : d[i] \in Rest(d, 1)
    BY DEF Rest
  <2> HIDE DEF d
  <2>4. QED
    BY <2>1, <2>2, <2>3
<1> HIDE DEF d
<1>11. ASSUME NEW x \in Entries, x # b
       PROVE  Link(u.fNext, cs[x])
  <2>1. \A i \in 1 .. Len(cs[x]) : u.fNext[cs[x][i]] = s.fNext[cs[x][i]]
    BY <1>5, <1>8
  <2>2. QED
    BY <1>8, <2>1 DEF Link
<1>12. ds \in [0 .. TableSize -> Seq(Obj)] /\ ds[TableSize] = <<>>
  BY <1>1, <1>6, <1>7, <1>10 DEF Threads, d
<1>13. ASSUME NEW x \in Entries
       PROVE  /\ Link(u.fNext, ds[x]) /\ u.fObject[x] = Nth(ds[x], 1)
              /\ \A i \in 1 .. Len(ds[x]) : Hash[ds[x][i]] = x
  <2>1. CASE x = b
    BY <1>5, <1>7, <1>9, <1>10, <2>1 DEF d
  <2>2. CASE x # b
    <3>1. ds[x] = cs[x]
      BY <1>6, <1>7, <2>2
    <3>2. QED
      BY <1>5, <1>8, <1>11, <2>2, <3>1
  <2>3. QED
    BY <2>1, <2>2
<1>14. ds[TableSize] = cs[TableSize]
  BY <1>6, <1>7
<1> HIDE DEF ds
<1>15. Threads(u, ds, TableSize, j)
  BY <1>1, <1>4, <1>5, <1>12, <1>13, <1>14 DEF Threads
<1>16. \A x \in Obj : Exists(u, x) <=> Exists(s, x) \/ x = o
  <2>1. \A x \in Obj : Exists(u, x) <=> x \in Rest(ds[Hash[x]], 1)
    BY ONLY <1>15, ThreadsFacts
  <2>2. \A x \in Obj : Exists(s, x) <=> x \in Rest(cs[Hash[x]], 1)
    BY ONLY <1>1, ThreadsFacts
  <2>3. \A x \in Obj : Hash[x] \in Entries
    BY Constants
  <2>4. \A x \in Entries : x # b => ds[x] = cs[x]
    BY <1>6, <1>7
  <2>5. Rest(ds[b], 1) = Rest(cs[b], 1) \cup {o}
    BY <1>7, <1>9
  <2>6. ASSUME NEW x \in Obj PROVE Exists(u, x) <=> Exists(s, x) \/ x = o
    <3>1. CASE Hash[x] = b
      BY <2>1, <2>2, <2>5, <3>1
    <3>2. CASE Hash[x] # b
      BY <2>1, <2>2, <2>3, <2>4, <3>2
    <3>3. QED
      BY <3>1, <3>2
  <2>7. QED
    BY <2>6
<1>17. AliveIn(u) = AliveIn(s) \cup {o}
  BY <1>16 DEF AliveIn
<1>18. QED
  BY <1>4, <1>15, <1>17 DEF Sound, u
-----------------------------------------------------------------------------
(* The steps of the walk.                                                  *)

SameFields(s, u) ==
  /\ u.fOwnerId = s.fOwnerId /\ u.fAssignedOwnerId = s.fAssignedOwnerId
  /\ u.fBequeathId = s.fBequeathId /\ u.fInheritedId = s.fInheritedId
  /\ u.fDeferredId = s.fDeferredId

\* The objects of entry e.
Hashed(s, e) == {o \in AliveIn(s) : Hash[o] = e}

Passed(s) == [s EXCEPT !.fPrevObj = s.fThisObj, !.fThisObj = s.fNext[s.fThisObj]]

LEMMA PassSound ==
  ASSUME NEW s, NEW e, Sound(s, e), s.fThisObj # None
  PROVE  /\ Sound(Passed(s), e) /\ AliveIn(Passed(s)) = AliveIn(s)
         /\ Ahead(Passed(s)) = Ahead(s) \ {s.fThisObj}
         /\ SameFields(s, Passed(s)) /\ Passed(s).destroyed = s.destroyed
<1>1. PICK cs, j : Threads(s, cs, e, j)
  BY DEF Sound
<1> DEFINE o == s.fThisObj
           c == cs[e]
           u == Passed(s)
<1>2. s \in TableRecord /\ o = Nth(c, j) /\ e \in 0 .. TableSize
  BY <1>1 DEF Threads
<1>3. e \in Entries
  <2>1. cs[TableSize] = <<>>
    BY <1>1 DEF Threads
  <2>2. e = TableSize => Nth(c, j) = None
    BY <2>1 DEF Nth
  <2>3. QED
    BY <1>2, <2>2, Constants DEF Entries
<1>4. /\ j \in 1 .. Len(c) /\ o = c[j] /\ Len(c) \in Nat
      /\ o \in Obj /\ s.fNext[o] = Nth(c, j + 1)
      /\ \A x, y \in 1 .. Len(c) : c[x] = c[y] => x = y
  <2>1. j \in 1 .. Len(c) /\ o = c[j]
    BY <1>2 DEF Nth
  <2>2. QED
    BY <1>1, <1>3, <2>1, ThreadsLink
<1>5. /\ u \in TableRecord /\ u.fObject = s.fObject /\ u.fNext = s.fNext
      /\ u.fPrevObj = o /\ u.fThisObj = s.fNext[o]
      /\ SameFields(s, u) /\ u.destroyed = s.destroyed
  BY <1>2, <1>4 DEF Passed, TableRecord, SameFields
<1> HIDE DEF u
<1>6. j + 1 \in 1 .. Len(c) + 1 /\ (j + 1) - 1 = j /\ o = Nth(c, j)
  BY <1>2, <1>4
<1>7. Threads(u, cs, e, j + 1)
  BY <1>1, <1>4, <1>5, <1>6 DEF Threads
<1>8. \A x \in Obj : Exists(u, x) <=> Exists(s, x)
  <2>1. \A x \in Obj : Exists(u, x) <=> x \in Rest(cs[Hash[x]], 1)
    BY ONLY <1>7, ThreadsFacts
  <2>2. \A x \in Obj : Exists(s, x) <=> x \in Rest(cs[Hash[x]], 1)
    BY ONLY <1>1, ThreadsFacts
  <2>3. QED
    BY <2>1, <2>2
<1>9. Ahead(u) = Ahead(s) \ {o}
  <2>1. Ahead(u) = Rest(c, j + 1)
    BY ONLY <1>7, ThreadsFacts
  <2>2. Ahead(s) = Rest(c, j)
    BY ONLY <1>1, ThreadsFacts
  <2>3. \A i : i \in j .. Len(c) <=> i = j \/ i \in j + 1 .. Len(c)
    BY <1>4
  <2>4. \A i \in j + 1 .. Len(c) : c[i] # c[j]
    BY <1>4
  <2> HIDE DEF c
  <2>5. Rest(c, j + 1) = Rest(c, j) \ {c[j]}
    BY <2>3, <2>4 DEF Rest
  <2>6. QED
    BY <1>4, <2>1, <2>2, <2>5
<1>10. QED
  BY <1>5, <1>7, <1>8, <1>9 DEF Sound, AliveIn, u

\* The scavenger stands at the head of the chain of an entry.
LEMMA HeadSound ==
  ASSUME NEW s, NEW e, Sound(s, e), NEW n \in 0 .. TableSize, NEW u \in TableRecord,
         u.fObject = s.fObject, u.fNext = s.fNext, u.fPrevObj = None,
         u.fThisObj = IF n = TableSize THEN None ELSE s.fObject[n]
  PROVE  Sound(u, n) /\ AliveIn(u) = AliveIn(s) /\ Ahead(u) = Hashed(u, n)
<1>1. PICK cs, j : Threads(s, cs, e, j)
  BY DEF Sound
<1>2. \A b \in 0 .. TableSize : Len(cs[b]) \in Nat
  BY <1>1, ThreadsFacts
<1>3. n \in Entries <=> n # TableSize
  BY Constants DEF Entries
<1>4. u.fThisObj = Nth(cs[n], 1)
  <2>1. CASE n = TableSize
    <3>1. cs[n] = <<>>
      BY <1>1, <2>1 DEF Threads
    <3>2. Nth(cs[n], 1) = None
      BY <3>1 DEF Nth
    <3>3. QED
      BY <2>1, <3>2
  <2>2. CASE n # TableSize
    BY <1>1, <1>3, <2>2 DEF Threads
  <2>3. QED
    BY <2>1, <2>2
<1>5. 1 \in 1 .. Len(cs[n]) + 1 /\ 1 - 1 = 0 /\ Nth(cs[n], 0) = None
  BY <1>2 DEF Nth
<1>6. Threads(u, cs, n, 1)
  BY <1>1, <1>4, <1>5 DEF Threads
<1>7. \A x \in Obj : Exists(u, x) <=> x \in Rest(cs[Hash[x]], 1)
  BY ONLY <1>6, ThreadsFacts
<1>8. \A x \in Obj : Exists(s, x) <=> x \in Rest(cs[Hash[x]], 1)
  BY ONLY <1>1, ThreadsFacts
<1>9. Ahead(u) = Rest(cs[n], 1)
  BY ONLY <1>6, ThreadsFacts
<1>10. \A x : x \in Rest(cs[n], 1) <=> x \in Obj /\ Hash[x] = n /\ x \in Rest(cs[Hash[x]], 1)
  <2>1. CASE n \in Entries
    <3>1. \A x \in Rest(cs[n], 1) : x \in Obj /\ Hash[x] = n
      BY ONLY <1>1, <2>1, ThreadsFacts
    <3>2. QED
      BY <3>1
  <2>2. CASE n \notin Entries
    <3>1. cs[n] = <<>>
      BY <1>1, <1>3, <2>2 DEF Threads
    <3>2. Rest(cs[n], 1) = {}
      BY <3>1 DEF Rest
    <3>3. \A x \in Obj : Hash[x] # n
      BY <2>2, Constants
    <3>4. QED
      BY <3>2, <3>3
  <2>3. QED
    BY <2>1, <2>2
<1>11. QED
  BY <1>6, <1>7, <1>8, <1>9, <1>10 DEF Sound, AliveIn, Hashed

\* Where the walk stands, there is an object ahead, and only there.
LEMMA AheadFacts ==
  ASSUME NEW s, NEW e, Sound(s, e)
  PROVE  /\ Ahead(s) \subseteq AliveIn(s)
         /\ \A o \in Ahead(s) : Hash[o] = e
         /\ s.fThisObj = None => Ahead(s) = {}
<1>1. PICK cs, j : Threads(s, cs, e, j)
  BY DEF Sound
<1>2. /\ \A o \in Obj : Exists(s, o) <=> o \in Rest(cs[Hash[o]], 1)
      /\ \A b \in Entries : \A o \in Rest(cs[b], 1) : o \in Obj /\ Hash[o] = b
      /\ Ahead(s) = Rest(cs[e], j) /\ j \in Nat \ {0}
      /\ \A b \in 0 .. TableSize : Len(cs[b]) \in Nat
  BY <1>1, ThreadsFacts
<1>3. /\ e \in 0 .. TableSize /\ s.fThisObj = Nth(cs[e], j) /\ j \in 1 .. Len(cs[e]) + 1
      /\ cs[TableSize] = <<>>
  BY <1>1 DEF Threads
<1>4. CASE e \in Entries
  <2>1. Rest(cs[e], j) \subseteq Rest(cs[e], 1)
    <3>1. \A i \in j .. Len(cs[e]) : i \in 1 .. Len(cs[e])
      BY <1>2, <1>3
    <3>2. QED
      BY <3>1 DEF Rest
  <2>2. \A o \in Rest(cs[e], j) : o \in Obj /\ Hash[o] = e
    BY <1>2, <1>4, <2>1
  <2>3. \A o \in Rest(cs[e], j) : Exists(s, o)
    BY <1>2, <2>1, <2>2
  <2>4. s.fThisObj = None => Rest(cs[e], j) = {}
    <3>1. \A i \in 1 .. Len(cs[e]) : cs[e][i] # None
      <4>1. \A i \in 1 .. Len(cs[e]) : cs[e][i] \in Obj
        BY <1>1, <1>4, ThreadsLink
      <4>2. QED
        BY <4>1, Constants
    <3>2. s.fThisObj = None => j \notin 1 .. Len(cs[e])
      BY <1>3, <3>1 DEF Nth
    <3>3. Len(cs[e]) \in Nat
      BY <1>2, <1>3
    <3>4. j \notin 1 .. Len(cs[e]) => j .. Len(cs[e]) = {}
      BY <1>2, <3>3
    <3>5. QED
      BY <3>2, <3>4 DEF Rest
  <2>5. QED
    BY <1>2, <2>2, <2>3, <2>4 DEF AliveIn
<1>5. CASE e \notin Entries
  <2>1. e = TableSize
    BY <1>3, <1>5, Constants DEF Entries
  <2>2. Sound(s, TableSize)
    BY <2>1
  <2>3. Ahead(s) = {}
    BY <2>2, IdleWalk
  <2>4. QED
    BY <2>3
<1>6. QED
  BY <1>4, <1>5
-----------------------------------------------------------------------------
(* The fold of a function h over the places 1 to n, as FoldLeft takes it.   *)

IsFold(g, R, k, base, h) ==
  /\ g \in [SUBSET (1 .. k) -> R]
  /\ \A S \in SUBSET (1 .. k) :
       g[S] = IF S = {} THEN base ELSE h[<<g[S \ {Max(S)}], Max(S)>>]

LEMMA Iterates ==
  ASSUME NEW R, NEW n \in Nat, NEW base \in R, NEW h \in [R \X (1 .. n) -> R]
  PROVE  \E g : IsFold(g, R, n, base, h)
<1> DEFINE IsIter(g, k) == IsFold(g, R, k, base, h)
           T == {k \in 0 .. n : \E g : IsIter(g, k)}
<1>1. 0 \in T
  <2>1. \A S \in SUBSET (1 .. 0) : S = {}
    OBVIOUS
  <2>2. IsIter([S \in SUBSET (1 .. 0) |-> base], 0)
    BY <2>1 DEF IsFold
  <2>3. 0 \in 0 .. n
    OBVIOUS
  <2> HIDE DEF IsIter
  <2>4. QED
    BY <2>2, <2>3
<1>2. ASSUME NEW k \in 1 .. n, k - 1 \in T PROVE k \in T
  <2>1. PICK f : IsIter(f, k - 1)
    BY <1>2
  <2> DEFINE g == [S \in SUBSET (1 .. k) |-> IF k \in S THEN h[<<f[S \ {k}], k>>] ELSE f[S]]
  <2>2. /\ f \in [SUBSET (1 .. (k - 1)) -> R]
        /\ \A S \in SUBSET (1 .. (k - 1)) :
             f[S] = IF S = {} THEN base ELSE h[<<f[S \ {Max(S)}], Max(S)>>]
    BY <2>1 DEF IsFold
  <2>3. k \in Nat /\ 1 .. (k - 1) = (1 .. k) \ {k} /\ k \in 1 .. n
    OBVIOUS
  <2>4. ASSUME NEW S \in SUBSET (1 .. k)
        PROVE  g[S] \in R /\ g[S] = IF S = {} THEN base ELSE h[<<g[S \ {Max(S)}], Max(S)>>]
    <3>1. CASE k \in S
      <4>1. Max(S) \in S /\ Max(S) >= k
        BY <2>3, <3>1, MaxUpTo
      <4>2. Max(S) = k
        <5>1. Max(S) \in 1 .. k
          BY <4>1
        <5>2. QED
          BY <2>3, <4>1, <5>1
      <4>3. S \ {k} \in SUBSET (1 .. (k - 1)) /\ g[S \ {k}] = f[S \ {k}]
        BY <2>3
      <4>4. g[S] = h[<<f[S \ {k}], k>>]
        BY <3>1
      <4>5. f[S \ {k}] \in R
        BY <2>2, <4>3
      <4>6. h[<<f[S \ {k}], k>>] \in R
        BY <2>3, <4>5
      <4> HIDE DEF g
      <4>7. QED
        BY <3>1, <4>2, <4>3, <4>4, <4>6
    <3>2. CASE k \notin S
      <4>1. S \in SUBSET (1 .. (k - 1))
        BY <2>3, <3>2
      <4>2. g[S] = f[S] /\ g[S \ {Max(S)}] = f[S \ {Max(S)}]
        BY <3>2
      <4>3. f[S] \in R
        BY <2>2, <4>1
      <4> HIDE DEF g
      <4>4. QED
        BY <2>2, <4>1, <4>2, <4>3
    <3>3. QED
      BY <3>1, <3>2
  <2>5. g = [S \in SUBSET (1 .. k) |-> g[S]]
    OBVIOUS
  <2> HIDE DEF g
  <2>6. g \in [SUBSET (1 .. k) -> R]
    BY <2>4, <2>5
  <2>7. IsIter(g, k)
    BY <2>4, <2>6 DEF IsFold
  <2> HIDE DEF IsIter
  <2>8. k \in 0 .. n
    BY <2>3
  <2>9. QED
    BY <2>7, <2>8
<1>3. T \in SUBSET (0 .. n)
  OBVIOUS
<1> HIDE DEF T
<1>4. T = 0 .. n
  BY <1>1, <1>2, <1>3, UpTo
<1>5. n \in T
  BY <1>4
<1> HIDE DEF IsIter
<1>6. QED
  BY <1>5 DEF T, IsIter

\* The places up to i, as FoldLeft takes them from the last to the first.
UpToPlace(n, i) ==
  /\ 1 .. i \in SUBSET (1 .. n) /\ 1 .. i # {} /\ Max(1 .. i) = i
  /\ (1 .. i) \ {i} = 1 .. (i - 1)

LEMMA FirstPlaces ==
  ASSUME NEW n \in Nat, NEW i \in 1 .. n
  PROVE  UpToPlace(n, i)
<1>1. i \in Nat /\ i \in 1 .. i
  OBVIOUS
<1>2. 1 .. i \in SUBSET (1 .. n)
  OBVIOUS
<1>3. 1 .. i # {}
  BY <1>1
<1>4. (1 .. i) \ {i} = 1 .. (i - 1)
  OBVIOUS
<1>5. Max(1 .. i) \in 1 .. i /\ Max(1 .. i) >= i
  BY <1>1, <1>3, MaxUpTo
<1>6. Max(1 .. i) = i
  BY <1>1, <1>5
<1>7. QED
  BY <1>2, <1>3, <1>4, <1>6 DEF UpToPlace

-----------------------------------------------------------------------------
(* The removal of leaves.                                                  *)

Members(o) == ToSet(Parts[o])

Unbequeathed(s) == \A x \in Obj \ AliveIn(s) : s.fBequeathId[x] = None

\* u is s without the objects X.
Gone(s, u, e, X) ==
  /\ Sound(u, e) /\ AliveIn(u) = AliveIn(s) \ X /\ Ahead(u) = Ahead(s) \ X
  /\ Keeps(s, u, X)
  /\ Unbequeathed(s) => Unbequeathed(u)
  /\ u.fDeferredId = s.fDeferredId /\ u.destroyed = s.destroyed

LEMMA GoneTwice ==
  ASSUME NEW s, NEW u, NEW v, NEW e, NEW X, NEW Y, Gone(s, u, e, X), Gone(u, v, e, Y)
  PROVE  Gone(s, v, e, X \cup Y)
<1>1. Sound(v, e) /\ AliveIn(v) = AliveIn(s) \ (X \cup Y) /\ Ahead(v) = Ahead(s) \ (X \cup Y)
  BY DEF Gone
<1>2. Keeps(s, u, X) /\ Keeps(u, v, Y)
  BY DEF Gone
<1>3. Keeps(s, v, X \cup Y)
  BY <1>2 DEF Keeps
<1>4. QED
  BY <1>1, <1>3 DEF Gone

\* An object is unlinked and freed.
LEMMA FreeUnlinkGone ==
  ASSUME NEW s, NEW e, Sound(s, e), NEW o \in Obj, Exists(s, o)
  PROVE  Gone(s, Free(Unlink(s, o), o), e, {o})
<1> DEFINE u == Unlink(s, o)
           v == Free(u, o)
<1>1. Unlinked(s, u, e, o)
  BY UnlinkSound
<1> HIDE DEF u
<1>2. /\ Sound(u, e) /\ AliveIn(u) = AliveIn(s) \ {o} /\ Ahead(u) = Ahead(s) \ {o}
      /\ \A y \in Obj \ {o} : u.fOwnerId[y] = s.fOwnerId[y]
      /\ Rights(s, u)
  BY <1>1 DEF Unlinked
<1>3. ~Exists(u, o)
  BY <1>2 DEF AliveIn
<1>4. /\ Sound(v, e) /\ AliveIn(v) = AliveIn(u) /\ Ahead(v) = Ahead(u)
      /\ Keeps(u, v, {o}) /\ v.fBequeathId[o] = None
      /\ v.fDeferredId = u.fDeferredId /\ v.destroyed = u.destroyed
  BY <1>2, <1>3, FreeSound
<1> HIDE DEF v
<1>5. Keeps(s, v, {o})
  BY <1>2, <1>4 DEF Keeps, Rights
<1>6. Unbequeathed(s) => Unbequeathed(v)
  BY <1>2, <1>4, <1>5 DEF Unbequeathed, Keeps
<1>7. QED
  BY <1>2, <1>4, <1>5, <1>6 DEF Gone, Rights, u, v

LEMMA RemoveLeafGone ==
  ASSUME NEW s, NEW e, Sound(s, e), NEW o \in Obj
  PROVE  Gone(s, RemoveLeaf(s, o), e, {o})
<1>1. CASE Exists(s, o)
  BY <1>1, FreeUnlinkGone DEF RemoveLeaf, DeleteLeaf
<1>2. CASE ~Exists(s, o)
  <2>1. RemoveLeaf(s, o) = s
    BY <1>2 DEF RemoveLeaf
  <2>2. o \notin AliveIn(s) /\ o \notin Ahead(s)
    <3>1. o \notin AliveIn(s)
      BY <1>2 DEF AliveIn
    <3>2. QED
      BY <3>1, AheadFacts
  <2>3. Keeps(s, s, {o})
    BY DEF Keeps
  <2>4. QED
    BY <2>1, <2>2, <2>3 DEF Gone
<1>3. QED
  BY <1>1, <1>2

\* All parts of a task are leaves, and are removed.
LEMMA RemoveLeavesGone ==
  ASSUME NEW s, NEW e, Sound(s, e), NEW q \in Seq(Obj)
  PROVE  Gone(s, FoldLeft(RemoveLeaf, s, q), e, ToSet(q))
<1> DEFINE n == Len(q)
           R == {r \in TableRecord : Sound(r, e)}
           h == [p \in R \X (1 .. n) |-> RemoveLeaf(p[1], q[p[2]])]
           IsIter(g) == g = [S \in SUBSET (1 .. n) |->
                               IF S = {} THEN s ELSE RemoveLeaf(g[S \ {Max(S)}], q[Max(S)])]
           it == CHOOSE g : IsIter(g)
<1>1. n \in Nat /\ DOMAIN q = 1 .. n /\ \A i \in 1 .. n : q[i] \in Obj
  BY SeqElements
<1>2. \A r : Sound(r, e) => r \in TableRecord
  BY DEF Sound, Threads
<1>3. ASSUME NEW r \in R, NEW i \in 1 .. n PROVE RemoveLeaf(r, q[i]) \in R
  <2>1. Gone(r, RemoveLeaf(r, q[i]), e, {q[i]})
    BY <1>1, RemoveLeafGone
  <2>2. QED
    BY <1>2, <2>1 DEF Gone
<1>4. s \in R /\ h \in [R \X (1 .. n) -> R]
  BY <1>2, <1>3
<1>5. \E g : IsIter(g)
  <2> HIDE DEF h, R
  <2>0. PICK g : IsFold(g, R, n, s, h)
    BY <1>1, <1>4, Iterates
  <2>1. /\ g \in [SUBSET (1 .. n) -> R]
        /\ \A S \in SUBSET (1 .. n) :
             g[S] = IF S = {} THEN s ELSE h[<<g[S \ {Max(S)}], Max(S)>>]
    BY <2>0 DEF IsFold
  <2>2. ASSUME NEW S \in SUBSET (1 .. n), S # {}
        PROVE  h[<<g[S \ {Max(S)}], Max(S)>>] = RemoveLeaf(g[S \ {Max(S)}], q[Max(S)])
    <3>1. Max(S) \in 1 .. n
      BY <1>1, <2>2, MaxUpTo
    <3>2. g[S \ {Max(S)}] \in R
      BY <2>1
    <3>3. QED
      BY <3>1, <3>2 DEF h
  <2>3. \A S \in SUBSET (1 .. n) :
          g[S] = IF S = {} THEN s ELSE RemoveLeaf(g[S \ {Max(S)}], q[Max(S)])
    BY <2>1, <2>2
  <2>4. g = [S \in SUBSET (1 .. n) |-> g[S]]
    BY <2>1
  <2>5. IsIter(g)
    BY <2>3, <2>4
  <2>6. QED
    BY <2>5
<1>6. IsIter(it)
  BY <1>5
<1>7. FoldLeft(RemoveLeaf, s, q) = it[1 .. n]
  BY <1>1 DEF FoldLeft, MapThenFoldSet
<1> HIDE DEF it, R, h
<1>8. \A S \in SUBSET (1 .. n) :
        it[S] = IF S = {} THEN s ELSE RemoveLeaf(it[S \ {Max(S)}], q[Max(S)])
  BY <1>6
<1> HIDE DEF IsIter
<1> DEFINE First(i) == {q[j] : j \in 1 .. i}
           V == {i \in 0 .. n : Gone(s, it[1 .. i], e, First(i))}
<1>9. 0 \in V
  <2>1. 1 .. 0 = {} /\ First(0) = {}
    OBVIOUS
  <2>2. it[1 .. 0] = s
    BY <1>8, <2>1
  <2>3. Gone(s, s, e, {})
    BY DEF Gone, Keeps
  <2> HIDE DEF First
  <2>4. Gone(s, it[1 .. 0], e, First(0)) /\ 0 \in 0 .. n
    <3>1. Gone(s, it[1 .. 0], e, First(0))
      BY ONLY <2>1, <2>2, <2>3
    <3>2. QED
      BY <1>1, <3>1
  <2>5. QED
    BY <2>4
<1>10. ASSUME NEW i \in 1 .. n, i - 1 \in V PROVE i \in V
  <2>1. Gone(s, it[1 .. (i - 1)], e, First(i - 1))
    BY <1>10
  <2>2. it[1 .. i] = RemoveLeaf(it[1 .. (i - 1)], q[i])
    <3>1. UpToPlace(n, i)
      <4> HIDE DEF n
      <4>1. n \in Nat
        BY <1>1
      <4>2. QED
        BY ONLY <4>1, i \in 1 .. n, FirstPlaces
    <3>2. /\ 1 .. i \in SUBSET (1 .. n) /\ 1 .. i # {} /\ Max(1 .. i) = i
          /\ (1 .. i) \ {i} = 1 .. (i - 1)
      BY <3>1 DEF UpToPlace
    <3>3. QED
      BY <1>8, <3>2
  <2>3. First(i) = First(i - 1) \cup {q[i]}
    <3>1. \A j : j \in 1 .. i <=> j \in 1 .. (i - 1) \/ j = i
      BY <1>1
    <3>2. QED
      BY <3>1
  <2> HIDE DEF First
  <2>4. Gone(it[1 .. (i - 1)], it[1 .. i], e, {q[i]})
    <3>1. Sound(it[1 .. (i - 1)], e) /\ q[i] \in Obj
      BY <1>1, <2>1 DEF Gone
    <3>2. QED
      BY <2>2, <3>1, RemoveLeafGone
  <2>5. Gone(s, it[1 .. i], e, First(i))
    BY <2>1, <2>3, <2>4, GoneTwice
  <2>6. i \in 0 .. n
    BY <1>1
  <2>7. QED
    BY <2>5, <2>6
<1>11. V \in SUBSET (0 .. n)
  OBVIOUS
<1>12. n \in V
  <2> HIDE DEF V
  <2>1. V = 0 .. n
    BY <1>1, <1>9, <1>10, <1>11, UpTo
  <2>2. QED
    BY <1>1, <2>1
<1>13. First(n) = ToSet(q)
  BY <1>1 DEF ToSet
<1>14. QED
  BY <1>7, <1>12, <1>13
-----------------------------------------------------------------------------
(* The removal of a task.                                                  *)

\* Somebody bequeaths to o and will bequeath to the heir of o.
Hooked(s, o) == Exists(s, s.fInheritedId[o]) /\ s.fBequeathId[s.fInheritedId[o]] = o

\* f is s after the task o, which is in no chain, has been deleted.
TaskDeleted(s, f, e, o) ==
  LET heir == s.fBequeathId[o]
      from == s.fInheritedId[o]
  IN  /\ Sound(f, e) /\ AliveIn(f) = AliveIn(s) \ Members(o) /\ Ahead(f) = Ahead(s) \ Members(o)
      /\ Unbequeathed(f) /\ f.destroyed /\ f.fDeferredId = s.fDeferredId
      /\ \A y \in AliveIn(f) :
           /\ f.fAssignedOwnerId[y] = s.fAssignedOwnerId[y]
           /\ f.fOwnerId[y] = IF s.fOwnerId[y] = o /\ heir \in AliveIn(f) THEN heir
                              ELSE s.fOwnerId[y]
           /\ f.fBequeathId[y] = IF Hooked(s, o) /\ y = from THEN heir ELSE s.fBequeathId[y]
           /\ f.fInheritedId[y] =
                IF Hooked(s, o) /\ y = heir /\ heir \in AliveIn(s) /\ Kind[heir] = "task" THEN from
                ELSE s.fInheritedId[y]

LEMMA AliveFacts ==
  ASSUME NEW s
  PROVE  /\ AliveIn(s) \subseteq Obj
         /\ \A x \in Obj \cup {None} : Exists(s, x) <=> x \in AliveIn(s)
BY Constants DEF AliveIn, Exists

LEMMA SetBequeathIdSound ==
  ASSUME NEW s, NEW e, Sound(s, e), NEW a \in Obj, NEW heir \in Obj \cup {None}
  PROVE  LET u == SetBequeathId(s, a, heir)
         IN  /\ Sound(u, e) /\ AliveIn(u) = AliveIn(s) /\ Ahead(u) = Ahead(s)
             /\ u.fOwnerId = s.fOwnerId /\ u.fAssignedOwnerId = s.fAssignedOwnerId
             /\ u.fBequeathId = [s.fBequeathId EXCEPT ![a] = heir]
             /\ \A y \in Obj : u.fInheritedId[y] =
                  IF y = heir /\ heir \in AliveIn(s) /\ Kind[heir] = "task" THEN a
                  ELSE s.fInheritedId[y]
             /\ u.fDeferredId = s.fDeferredId /\ u.destroyed = s.destroyed
<1> DEFINE u == SetBequeathId(s, a, heir)
           named == heir \in AliveIn(s) /\ Kind[heir] = "task"
<1>1. s \in TableRecord
  BY DEF Sound, Threads
<1>2. Exists(s, heir) <=> heir \in AliveIn(s)
  BY AliveFacts
<1>3. /\ u \in TableRecord
      /\ u.fObject = s.fObject /\ u.fNext = s.fNext
      /\ u.fThisObj = s.fThisObj /\ u.fPrevObj = s.fPrevObj
      /\ u.fOwnerId = s.fOwnerId /\ u.fAssignedOwnerId = s.fAssignedOwnerId
      /\ u.fBequeathId = [s.fBequeathId EXCEPT ![a] = heir]
      /\ u.fInheritedId = IF named THEN [s.fInheritedId EXCEPT ![heir] = a] ELSE s.fInheritedId
      /\ u.fDeferredId = s.fDeferredId /\ u.destroyed = s.destroyed
  <2>1. CASE named
    <3>1. heir \in Obj
      BY <2>1, AliveFacts
    <3>2. QED
      BY <1>1, <1>2, <2>1, <3>1 DEF SetBequeathId, TableRecord
  <2>2. CASE ~named
    BY <1>1, <1>2, <2>2 DEF SetBequeathId, TableRecord
  <2>3. QED
    BY <2>1, <2>2
<1> HIDE DEF u
<1>4. SameLinks(s, u)
  BY <1>3 DEF SameLinks
<1>5. Sound(u, e) /\ AliveIn(u) = AliveIn(s) /\ Ahead(u) = Ahead(s)
  BY <1>4, SameLinksSound
<1>6. \A y \in Obj : u.fInheritedId[y] = IF y = heir /\ named THEN a ELSE s.fInheritedId[y]
  BY <1>1, <1>3 DEF TableRecord
<1>7. QED
  BY <1>3, <1>5, <1>6 DEF u

LEMMA DeleteTaskIs ==
  ASSUME NEW s, NEW e, Sound(s, e), NEW o \in Obj, o \notin AliveIn(s),
         \A x \in Obj \ AliveIn(s) : x # o => s.fBequeathId[x] = None
  PROVE  TaskDeleted(s, DeleteTask(s, o), e, o)
<1> DEFINE heir == s.fBequeathId[o]
           from == s.fInheritedId[o]
           P == Members(o)
           u == IF Exists(s, from) /\ s.fBequeathId[from] = o THEN SetBequeathId(s, from, heir) ELSE s
           w == Free(u, o)
           v == FoldLeft(RemoveLeaf, w, Parts[o])
           f == [ReassignOwnership(v, o, heir) EXCEPT !.destroyed = TRUE]
<1>1. DeleteTask(s, o) = f
  BY DEF DeleteTask
<1>2. s \in TableRecord /\ heir \in Obj \cup {None} /\ from \in Obj \cup {None}
  <2>1. s \in TableRecord
    BY DEF Sound, Threads
  <2>2. QED
    BY <2>1 DEF TableRecord
<1>3. Hooked(s, o) => from \in AliveIn(s) /\ from \in Obj /\ from # o
  <2>1. Exists(s, from) => from \in AliveIn(s)
    BY <1>2, AliveFacts
  <2>2. QED
    BY <2>1, AliveFacts DEF Hooked
<1>4. u = IF Hooked(s, o) THEN SetBequeathId(s, from, heir) ELSE s
  BY DEF Hooked
<1> HIDE DEF u, w, v, f, P
<1>5. /\ Sound(u, e) /\ AliveIn(u) = AliveIn(s) /\ Ahead(u) = Ahead(s)
      /\ u.fOwnerId = s.fOwnerId /\ u.fAssignedOwnerId = s.fAssignedOwnerId
      /\ \A y \in Obj : u.fBequeathId[y] = IF Hooked(s, o) /\ y = from THEN heir ELSE s.fBequeathId[y]
      /\ \A y \in Obj : u.fInheritedId[y] =
           IF Hooked(s, o) /\ y = heir /\ heir \in AliveIn(s) /\ Kind[heir] = "task" THEN from
           ELSE s.fInheritedId[y]
      /\ u.fDeferredId = s.fDeferredId /\ u.destroyed = s.destroyed
  <2>1. CASE Hooked(s, o)
    <3>1. from \in Obj /\ u = SetBequeathId(s, from, heir)
      BY <1>3, <1>4, <2>1
    <3> HIDE DEF from, heir
    <3>2. /\ Sound(u, e) /\ AliveIn(u) = AliveIn(s) /\ Ahead(u) = Ahead(s)
          /\ u.fOwnerId = s.fOwnerId /\ u.fAssignedOwnerId = s.fAssignedOwnerId
          /\ u.fBequeathId = [s.fBequeathId EXCEPT ![from] = heir]
          /\ \A y \in Obj : u.fInheritedId[y] =
               IF y = heir /\ heir \in AliveIn(s) /\ Kind[heir] = "task" THEN from
               ELSE s.fInheritedId[y]
          /\ u.fDeferredId = s.fDeferredId /\ u.destroyed = s.destroyed
      BY <1>2, <3>1, SetBequeathIdSound
    <3>3. \A y \in Obj : u.fBequeathId[y] = IF y = from THEN heir ELSE s.fBequeathId[y]
      BY <1>2, <3>2 DEF TableRecord
    <3>4. QED
      BY <2>1, <3>2, <3>3
  <2>2. CASE ~Hooked(s, o)
    BY <1>4, <2>2
  <2>3. QED
    BY <2>1, <2>2
<1>6. ~Exists(u, o)
  BY <1>5, AliveFacts
<1>7. /\ Sound(w, e) /\ AliveIn(w) = AliveIn(u) /\ Ahead(w) = Ahead(u)
      /\ Keeps(u, w, {o}) /\ w.fBequeathId[o] = None
      /\ w.fDeferredId = u.fDeferredId /\ w.destroyed = u.destroyed
  BY <1>5, <1>6, FreeSound DEF w
<1>8. Unbequeathed(w)
  <2>1. ASSUME NEW x \in Obj \ AliveIn(w) PROVE w.fBequeathId[x] = None
    <3>1. CASE x = o
      BY <1>7, <3>1
    <3>2. CASE x # o
      <4>1. x \notin AliveIn(s) /\ s.fBequeathId[x] = None
        BY <1>5, <1>7, <3>2
      <4>2. ~(Hooked(s, o) /\ x = from)
        BY <1>3, <4>1
      <4>3. u.fBequeathId[x] = None
        BY <1>5, <4>1, <4>2
      <4>4. w.fBequeathId[x] = u.fBequeathId[x]
        BY <1>7, <3>2 DEF Keeps
      <4>5. QED
        BY <4>3, <4>4
    <3>3. QED
      BY <3>1, <3>2
  <2>2. QED
    BY <2>1 DEF Unbequeathed
<1>9. Gone(w, v, e, P)
  BY <1>7, RemoveLeavesGone, Constants DEF v, P, Members
<1>10. /\ Sound(v, e) /\ AliveIn(v) = AliveIn(s) \ P /\ Ahead(v) = Ahead(s) \ P
       /\ Keeps(w, v, P) /\ Unbequeathed(v)
       /\ v.fDeferredId = s.fDeferredId
  BY <1>5, <1>7, <1>8, <1>9 DEF Gone
<1>11. v \in TableRecord /\ (Exists(v, heir) <=> heir \in AliveIn(v))
  BY <1>2, <1>10, AliveFacts DEF Sound, Threads
<1>12. /\ f \in TableRecord
       /\ f.fObject = v.fObject /\ f.fNext = v.fNext
       /\ f.fThisObj = v.fThisObj /\ f.fPrevObj = v.fPrevObj
       /\ f.fAssignedOwnerId = v.fAssignedOwnerId /\ f.fBequeathId = v.fBequeathId
       /\ f.fInheritedId = v.fInheritedId /\ f.fDeferredId = v.fDeferredId /\ f.destroyed
       /\ \A y \in Obj : f.fOwnerId[y] = IF v.fOwnerId[y] = o /\ heir \in AliveIn(v) THEN heir
                                         ELSE v.fOwnerId[y]
  <2>1. CASE heir \in AliveIn(v)
    <3>1. heir \in Obj
      BY <2>1, AliveFacts
    <3>2. QED
      BY <1>11, <2>1, <3>1 DEF f, ReassignOwnership, TableRecord
  <2>2. CASE heir \notin AliveIn(v)
    BY <1>11, <2>2 DEF f, ReassignOwnership, TableRecord
  <2>3. QED
    BY <2>1, <2>2
<1>13. Sound(f, e) /\ AliveIn(f) = AliveIn(v) /\ Ahead(f) = Ahead(v)
  <2>1. SameLinks(v, f)
    BY <1>12 DEF SameLinks
  <2>2. QED
    BY <1>10, <2>1, SameLinksSound
<1>14. Unbequeathed(f)
  BY <1>10, <1>12, <1>13 DEF Unbequeathed
<1>15. ASSUME NEW y \in AliveIn(f)
       PROVE  /\ f.fAssignedOwnerId[y] = s.fAssignedOwnerId[y]
              /\ f.fOwnerId[y] = IF s.fOwnerId[y] = o /\ heir \in AliveIn(f) THEN heir
                                 ELSE s.fOwnerId[y]
              /\ f.fBequeathId[y] = IF Hooked(s, o) /\ y = from THEN heir ELSE s.fBequeathId[y]
              /\ f.fInheritedId[y] =
                   IF Hooked(s, o) /\ y = heir /\ heir \in AliveIn(s) /\ Kind[heir] = "task" THEN from
                   ELSE s.fInheritedId[y]
  <2>1. y \in Obj /\ y \notin P /\ y # o
    BY <1>10, <1>13, AliveFacts
  <2>2. /\ v.fOwnerId[y] = u.fOwnerId[y] /\ v.fAssignedOwnerId[y] = u.fAssignedOwnerId[y]
        /\ v.fBequeathId[y] = u.fBequeathId[y] /\ v.fInheritedId[y] = u.fInheritedId[y]
    BY <1>7, <1>10, <2>1 DEF Keeps
  <2>3. f.fAssignedOwnerId[y] = s.fAssignedOwnerId[y]
    BY <1>5, <1>12, <2>2
  <2>4. f.fOwnerId[y] = IF s.fOwnerId[y] = o /\ heir \in AliveIn(f) THEN heir ELSE s.fOwnerId[y]
    BY <1>5, <1>12, <1>13, <2>1, <2>2
  <2>5. f.fBequeathId[y] = u.fBequeathId[y] /\ f.fInheritedId[y] = u.fInheritedId[y]
    BY <1>12, <2>2
  <2>6. QED
    BY <1>5, <2>1, <2>3, <2>4, <2>5
<1>16. QED
  BY <1>1, <1>10, <1>12, <1>13, <1>14, <1>15 DEF TaskDeleted, P
-----------------------------------------------------------------------------
(* Who owns what.                                                          *)

\* Parts belong to themselves or to what they are part of, the rest to tasks.
Rightful(o, w) ==
  w \in Obj /\ (w = o \/ o \in Members(w) \/ (o \notin Part /\ Kind[w] = "task"))

Placed(s, U) ==
  /\ AliveIn(s) \subseteq U
  /\ \A o \in AliveIn(s) : /\ Rightful(o, s.fOwnerId[o]) /\ Rightful(o, s.fAssignedOwnerId[o])
                           /\ s.fAssignedOwnerId[o] \in U

Forever(s) ==
  \A a \in System : a \in AliveIn(s) /\ s.fOwnerId[a] = a /\ s.fAssignedOwnerId[a] = a

KeptBySystem(s) ==
  \A o \in AliveIn(s) : Kept(o) => s.fOwnerId[o] \in System \cup {o} /\ s.fAssignedOwnerId[o] \in System

Mortal(s) ==
  s.fDeferredId # None => /\ s.fDeferredId \in Obj \ (System \cup Part)
                          /\ Kind[s.fDeferredId] = "task"

Core(s, U) == Placed(s, U) /\ Forever(s) /\ KeptBySystem(s) /\ Mortal(s)

\* h is a task to which a bequeaths, and a task that is not of the system has only
\* one that bequeaths to it: who has created it, or took over from that one.
HeirOf(s, a, h) ==
  /\ h \in AliveIn(s) /\ Kind[h] = "task"
  /\ \/ h \in System
     \/ s.fInheritedId[h] = a /\ (s.fAssignedOwnerId[h] = a \/ s.fAssignedOwnerId[h] \notin AliveIn(s))

Heirs(s) == \A a \in AliveIn(s) : s.fBequeathId[a] = None \/ HeirOf(s, a, s.fBequeathId[a])

\* An object and its parts come and go together, but for the objects M.
Families(s, M) ==
  \A w \in Obj \ M : \A x \in Members(w) : x \in AliveIn(s) <=> w \in AliveIn(s)

\* Only a task that is no part of another object bequeaths what it owns.
Mute(s) == \A x \in Obj : s.fBequeathId[x] # None => Kind[x] = "task" /\ x \notin Part

\* Nobody's owner changes.
Stays(s, u) == Mute(s) => Mute(u) /\ \A y \in AliveIn(u) : u.fOwnerId[y] = s.fOwnerId[y]

\* What o owned passes to its heir.
Passes(s, u, o) ==
  LET heir == s.fBequeathId[o]
  IN  Mute(s) => /\ Mute(u)
                 /\ \A y \in AliveIn(u) :
                      u.fOwnerId[y] = IF s.fOwnerId[y] = o /\ heir \in AliveIn(u) THEN heir
                                      ELSE s.fOwnerId[y]

Fit(s, e, U, M) ==
  Sound(s, e) /\ Core(s, U) /\ Unbequeathed(s) /\ Heirs(s) /\ Families(s, M)

Orphans(s) == {o \in AliveIn(s) : s.fOwnerId[o] # o /\ s.fOwnerId[o] \notin AliveIn(s)}

\* what TableAssumption says of parts
LEMMA Kinship ==
  /\ \A o \in Obj : Members(o) \subseteq Obj \cap Part
  /\ \A o \in Obj : Kind[o] \in {"leaf", "kept"} => Members(o) = {}
  /\ \A o \in Obj : \A x \in Members(o) : Kind[x] \in {"task", "leaf"}
  /\ \A o \in Obj : Kind[o] = "task" => \A x \in Members(o) : Kind[x] = "leaf"
  /\ \A o, w \in Obj : \A x \in Members(o) : x \in Members(w) => o = w
  /\ System \cap Part = {} /\ System \subseteq Obj
  /\ \A a \in System : Kind[a] = "task" /\ Members(a) = {}
  /\ \A x \in Part : \E o \in Obj : x \in Members(o)
<1>1. \A o \in Obj : /\ Parts[o] \in Seq(Obj)
                     /\ \A x \in Members(o) : \E i \in DOMAIN Parts[o] : x = Parts[o][i]
  BY TableAssumption DEF Members, ToSet
<1>2. \A o \in Obj : Members(o) \subseteq Obj
  BY <1>1
<1>3. \A o \in Obj : Members(o) \subseteq Part
  BY DEF Members, Part
<1>4. \A o \in Obj : \A x \in Members(o) :
        \/ Kind[o] = "task" /\ Kind[x] = "leaf"
        \/ Kind[o] = "monitor" /\ Kind[x] \in {"task", "leaf"}
  BY TableAssumption DEF Members
<1>5. \A o, w \in Obj : \A x \in Members(o) : x \in Members(w) => o = w
  <2>1. \A o, w \in Obj : \A i \in DOMAIN Parts[o], j \in DOMAIN Parts[w] :
          Parts[o][i] = Parts[w][j] => o = w
    BY TableAssumption
  <2>2. QED
    BY <1>1, <2>1
<1>6. \A a \in System : a \in Obj /\ Kind[a] = "task" /\ Members(a) = {}
  <2>1. \A a \in System : a \in Obj /\ Kind[a] = "task" /\ Parts[a] = <<>>
    BY TableAssumption
  <2>2. ToSet(<<>>) = {}
    BY DEF ToSet
  <2>3. QED
    BY <2>1, <2>2 DEF Members
<1>7. \A o \in Obj : Kind[o] \in {"leaf", "kept"} => Members(o) = {}
  BY <1>4
<1>8. \A x \in Part : \E o \in Obj : x \in Members(o)
  BY DEF Part, Members
<1>9. System \cap Part = {}
  BY TableAssumption
<1>10. QED
  BY <1>2, <1>3, <1>4, <1>5, <1>6, <1>7, <1>8, <1>9

\* When objects go and others change hands, those that stay are owned as they should be.
LEMMA CoreShrinks ==
  ASSUME NEW s, NEW u, NEW U, Core(s, U),
         AliveIn(u) \subseteq AliveIn(s), System \subseteq AliveIn(u),
         u.fDeferredId = s.fDeferredId,
         \A y \in AliveIn(u) :
           /\ u.fAssignedOwnerId[y] = s.fAssignedOwnerId[y]
           /\ \/ u.fOwnerId[y] = s.fOwnerId[y]
              \/ u.fOwnerId[y] = y
              \/ /\ y \notin System \cup Part /\ ~Kept(y)
                 /\ u.fOwnerId[y] \in Obj /\ Kind[u.fOwnerId[y]] = "task"
  PROVE  Core(u, U)
<1>1. Placed(s, U) /\ Forever(s) /\ KeptBySystem(s) /\ Mortal(s)
  BY DEF Core
<1>2. Placed(u, U)
  <2>1. AliveIn(u) \subseteq U
    BY <1>1 DEF Placed
  <2>2. ASSUME NEW y \in AliveIn(u)
        PROVE  /\ Rightful(y, u.fOwnerId[y]) /\ Rightful(y, u.fAssignedOwnerId[y])
               /\ u.fAssignedOwnerId[y] \in U
    <3>1. /\ Rightful(y, s.fOwnerId[y]) /\ Rightful(y, s.fAssignedOwnerId[y])
          /\ s.fAssignedOwnerId[y] \in U
      BY <1>1 DEF Placed
    <3>2. Rightful(y, y)
      BY AliveFacts DEF Rightful
    <3>3. (y \notin Part /\ u.fOwnerId[y] \in Obj /\ Kind[u.fOwnerId[y]] = "task")
            => Rightful(y, u.fOwnerId[y])
      BY DEF Rightful
    <3>4. QED
      BY <3>1, <3>2, <3>3
  <2>3. QED
    BY <2>1, <2>2 DEF Placed
<1>3. Forever(u)
  BY <1>1 DEF Forever
<1>4. KeptBySystem(u)
  BY <1>1 DEF KeptBySystem
<1>5. Mortal(u)
  BY <1>1 DEF Mortal
<1>6. QED
  BY <1>2, <1>3, <1>4, <1>5 DEF Core

\* An object that is no task goes.
LEMMA GoneFit ==
  ASSUME NEW s, NEW u, NEW e, NEW U, NEW M, Fit(s, e, U, M), NEW o \in Obj,
         Kind[o] # "task", \A w \in Obj \ M : o \notin Members(w),
         Members(o) = {} \/ o \in M,
         Gone(s, u, e, {o})
  PROVE  Fit(u, e, U, M) /\ Orphans(u) \subseteq Orphans(s) \cup Members(o)
<1>1. /\ Sound(u, e) /\ AliveIn(u) = AliveIn(s) \ {o}
      /\ Unbequeathed(u) /\ u.fDeferredId = s.fDeferredId
  BY DEF Gone, Fit
<1>2. \A y \in AliveIn(u) :
        /\ u.fOwnerId[y] = s.fOwnerId[y] /\ u.fAssignedOwnerId[y] = s.fAssignedOwnerId[y]
        /\ u.fBequeathId[y] = s.fBequeathId[y] /\ u.fInheritedId[y] = s.fInheritedId[y]
  BY <1>1, AliveFacts DEF Gone, Keeps
<1>3. Core(s, U) /\ Heirs(s) /\ Families(s, M)
  BY DEF Fit
<1>4. System \subseteq AliveIn(u)
  <2>1. o \notin System
    BY Kinship
  <2>2. System \subseteq AliveIn(s)
    BY <1>3 DEF Core, Forever
  <2>3. QED
    BY <1>1, <2>1, <2>2
<1>5. Core(u, U)
  BY <1>1, <1>2, <1>3, <1>4, CoreShrinks
<1>6. Heirs(u)
  <2> SUFFICES ASSUME NEW a \in AliveIn(u), u.fBequeathId[a] # None
               PROVE  HeirOf(u, a, u.fBequeathId[a])
    BY DEF Heirs
  <2> DEFINE h == s.fBequeathId[a]
  <2>1. a \in AliveIn(s) /\ u.fBequeathId[a] = h /\ h # None
    BY <1>1, <1>2
  <2>2. HeirOf(s, a, h)
    BY <1>3, <2>1 DEF Heirs
  <2>3. h \in AliveIn(u)
    BY <1>1, <2>2 DEF HeirOf
  <2> HIDE DEF h
  <2>4. HeirOf(u, a, h)
    BY <1>1, <1>2, <2>2, <2>3 DEF HeirOf
  <2>5. QED
    BY <2>1, <2>4
<1>7. Families(u, M)
  <2> SUFFICES ASSUME NEW w \in Obj \ M, NEW x \in Members(w)
               PROVE  x \in AliveIn(u) <=> w \in AliveIn(u)
    BY DEF Families
  <2>1. x # o /\ w # o
    OBVIOUS
  <2>2. x \in AliveIn(s) <=> w \in AliveIn(s)
    BY <1>3 DEF Families
  <2>3. QED
    BY <1>1, <2>1, <2>2
<1>8. ASSUME NEW y \in Orphans(u) PROVE y \in Orphans(s) \cup Members(o)
  <2>1. y \in AliveIn(s) /\ y # o /\ s.fOwnerId[y] # y /\ s.fOwnerId[y] \notin AliveIn(s) \ {o}
    BY <1>1, <1>2 DEF Orphans
  <2>2. CASE s.fOwnerId[y] = o
    <3>1. Rightful(y, o)
      BY <1>3, <2>1, <2>2 DEF Core, Placed
    <3>2. QED
      BY <2>1, <3>1 DEF Rightful
  <2>3. CASE s.fOwnerId[y] # o
    BY <2>1, <2>3 DEF Orphans
  <2>4. QED
    BY <2>2, <2>3
<1>9. QED
  BY <1>1, <1>5, <1>6, <1>7, <1>8 DEF Fit

\* A task goes with its parts, and what it owned changes hands.
LEMMA TaskFit ==
  ASSUME NEW s, NEW e, NEW U, NEW M, Fit(s, e, U, M), NEW o \in AliveIn(s),
         Kind[o] = "task", o \notin System, \A w \in Obj \ M : o \notin Members(w)
  PROVE  LET f == DeleteTask(Unlink(s, o), o)
         IN  /\ Fit(f, e, U, M) /\ f.destroyed /\ f.fDeferredId = s.fDeferredId
             /\ AliveIn(f) = AliveIn(s) \ ({o} \cup Members(o))
             /\ Ahead(f) = Ahead(s) \ ({o} \cup Members(o))
             /\ Passes(s, f, o)
<1> DEFINE q == Unlink(s, o)
           f == DeleteTask(q, o)
           heir == s.fBequeathId[o]
           from == s.fInheritedId[o]
<1>1. /\ Sound(s, e) /\ Core(s, U) /\ Unbequeathed(s) /\ Heirs(s) /\ Families(s, M)
      /\ o \in Obj /\ Exists(s, o)
  BY AliveFacts DEF Fit
<1>2. Unlinked(s, q, e, o)
  BY <1>1, UnlinkSound
<1> HIDE DEF q
<1>3. /\ Sound(q, e) /\ AliveIn(q) = AliveIn(s) \ {o} /\ Ahead(q) = Ahead(s) \ {o}
      /\ \A y \in Obj \ {o} : q.fOwnerId[y] = s.fOwnerId[y]
      /\ Rights(s, q)
  BY <1>2 DEF Unlinked
<1>4. \A x \in Obj \ AliveIn(q) : x # o => q.fBequeathId[x] = None
  BY <1>1, <1>3 DEF Unbequeathed, Rights
<1>5. TaskDeleted(q, f, e, o)
  BY <1>1, <1>3, <1>4, DeleteTaskIs
<1> HIDE DEF f
<1>6. /\ Sound(f, e) /\ AliveIn(f) = AliveIn(s) \ ({o} \cup Members(o))
      /\ Ahead(f) = Ahead(s) \ ({o} \cup Members(o))
      /\ Unbequeathed(f) /\ f.destroyed /\ f.fDeferredId = s.fDeferredId
  BY <1>3, <1>5 DEF TaskDeleted, Rights
<1>7. \A y \in AliveIn(f) :
        /\ f.fAssignedOwnerId[y] = s.fAssignedOwnerId[y]
        /\ f.fOwnerId[y] = IF s.fOwnerId[y] = o /\ heir \in AliveIn(f) THEN heir
                           ELSE s.fOwnerId[y]
        /\ f.fBequeathId[y] = IF Hooked(q, o) /\ y = from THEN heir ELSE s.fBequeathId[y]
        /\ f.fInheritedId[y] =
             IF Hooked(q, o) /\ y = heir /\ heir \in AliveIn(q) /\ Kind[heir] = "task" THEN from
             ELSE s.fInheritedId[y]
  <2>1. \A y \in AliveIn(f) : y \in Obj \ {o}
    BY <1>6, AliveFacts
  <2>2. QED
    BY <1>3, <1>5, <2>1 DEF TaskDeleted, Rights
<1>8. heir # None => HeirOf(s, o, heir)
  BY <1>1 DEF Heirs
<1>9. \A x \in Members(o) : Kind[x] = "leaf"
  BY <1>1, Kinship
<1>10. System \subseteq AliveIn(f)
  <2>1. System \subseteq AliveIn(s)
    BY <1>1 DEF Core, Forever
  <2>2. \A a \in System : a \notin Members(o)
    BY <1>1, Kinship
  <2>3. QED
    BY <1>6, <2>1, <2>2
<1>11. Core(f, U)
  <2>1. ASSUME NEW y \in AliveIn(f), f.fOwnerId[y] # s.fOwnerId[y]
        PROVE  /\ y \notin System \cup Part /\ ~Kept(y)
               /\ f.fOwnerId[y] \in Obj /\ Kind[f.fOwnerId[y]] = "task"
    <3>1. y \in AliveIn(s) /\ y # o /\ y \notin Members(o)
      BY <1>6
    <3>2. s.fOwnerId[y] = o /\ f.fOwnerId[y] = heir /\ heir \in AliveIn(f)
      BY <1>7, <2>1
    <3>3. heir \in Obj /\ Kind[heir] = "task"
      BY <1>8, <3>2, AliveFacts, Constants DEF HeirOf
    <3>4. y \notin System
      BY <1>1, <3>1, <3>2 DEF Core, Forever
    <3>5. Rightful(y, o)
      BY <1>1, <3>1, <3>2 DEF Core, Placed
    <3>6. y \notin Part
      BY <3>1, <3>5 DEF Rightful
    <3>7. ~Kept(y)
      BY <1>1, <3>1, <3>2 DEF Core, KeptBySystem
    <3>8. QED
      BY <3>2, <3>3, <3>4, <3>6, <3>7
  <2>2. AliveIn(f) \subseteq AliveIn(s)
    BY <1>6
  <2>3. \A y \in AliveIn(f) : f.fAssignedOwnerId[y] = s.fAssignedOwnerId[y]
    BY <1>7
  <2>4. QED
    BY <1>1, <1>6, <1>10, <2>1, <2>2, <2>3, CoreShrinks
<1>12. Heirs(f)
  <2> SUFFICES ASSUME NEW a \in AliveIn(f), f.fBequeathId[a] # None
               PROVE  HeirOf(f, a, f.fBequeathId[a])
    BY DEF Heirs
  <2>1. a \in AliveIn(s) /\ a # o /\ a \in AliveIn(q) /\ a \in Obj
    BY <1>3, <1>6, AliveFacts
  <2>2. \A h \in AliveIn(s) : Kind[h] = "task" /\ h # o => h \in AliveIn(f)
    BY <1>6, <1>9
  <2>3. CASE s.fBequeathId[a] = o
    <3>1. HeirOf(s, a, o)
      BY <1>1, <2>1, <2>3, Constants DEF Heirs
    <3>2. from = a
      BY <3>1 DEF HeirOf
    <3>3. Hooked(q, o)
      <4>1. Exists(q, a)
        BY <2>1, AliveFacts
      <4>2. QED
        BY <1>3, <2>3, <3>2, <4>1 DEF Hooked, Rights
    <3>4. f.fBequeathId[a] = heir /\ heir # None
      BY <1>7, <3>2, <3>3
    <3>5. HeirOf(s, o, heir)
      BY <1>8, <3>4
    <3>6. heir # o
      BY <2>1, <3>2, <3>5 DEF HeirOf
    <3>7. heir \in AliveIn(f) /\ heir \in AliveIn(q) /\ Kind[heir] = "task"
      BY <1>3, <2>2, <3>5, <3>6 DEF HeirOf
    <3>8. f.fInheritedId[heir] = a /\ f.fAssignedOwnerId[heir] = s.fAssignedOwnerId[heir]
      BY <1>7, <3>2, <3>3, <3>7
    <3>9. heir \notin System => f.fAssignedOwnerId[heir] \notin AliveIn(f)
      BY <1>6, <3>5, <3>8 DEF HeirOf
    <3>10. QED
      BY <3>4, <3>7, <3>8, <3>9 DEF HeirOf
  <2>4. CASE s.fBequeathId[a] # o
    <3> DEFINE h == s.fBequeathId[a]
    <3>1. ~(Hooked(q, o) /\ a = from)
      BY <1>3, <2>4 DEF Hooked, Rights
    <3>2. f.fBequeathId[a] = h /\ h # None
      BY <1>7, <3>1
    <3>3. HeirOf(s, a, h)
      BY <1>1, <2>1, <3>2 DEF Heirs
    <3>4. h \in AliveIn(f) /\ Kind[h] = "task"
      BY <2>2, <2>4, <3>3 DEF HeirOf
    <3>5. h \notin System => heir # h
      BY <1>8, <2>1, <3>2, <3>3 DEF HeirOf
    <3> HIDE DEF h
    <3>6. h \notin System => f.fInheritedId[h] = s.fInheritedId[h]
      BY <1>7, <3>4, <3>5
    <3>7. f.fAssignedOwnerId[h] = s.fAssignedOwnerId[h]
      BY <1>7, <3>4
    <3>8. HeirOf(f, a, h)
      BY <1>6, <3>3, <3>4, <3>6, <3>7 DEF HeirOf
    <3>9. QED
      BY <3>2, <3>8
  <2>5. QED
    BY <2>3, <2>4
<1>13. Families(f, M)
  <2> SUFFICES ASSUME NEW w \in Obj \ M, NEW x \in Members(w)
               PROVE  x \in AliveIn(f) <=> w \in AliveIn(f)
    BY DEF Families
  <2>1. x \in AliveIn(s) <=> w \in AliveIn(s)
    BY <1>1 DEF Families
  <2>2. x # o
    OBVIOUS
  <2>3. x \in Members(o) <=> w = o
    BY <1>1, Kinship
  <2>4. w \notin Members(o)
    <3>1. w \in Members(o) => Kind[w] = "leaf"
      BY <1>9
    <3>2. Kind[w] = "leaf" => Members(w) = {}
      BY Kinship
    <3>3. QED
      BY <3>1, <3>2
  <2>5. QED
    BY <1>6, <2>1, <2>2, <2>3, <2>4
<1>14. Passes(s, f, o)
  <2> SUFFICES ASSUME Mute(s) PROVE Mute(f)
    BY <1>7 DEF Passes
  <2> SUFFICES ASSUME NEW y \in Obj, f.fBequeathId[y] # None PROVE Kind[y] = "task" /\ y \notin Part
    BY DEF Mute
  <2>1. y \in AliveIn(f)
    BY <1>6 DEF Unbequeathed
  <2>2. CASE Hooked(q, o) /\ y = from
    <3>1. s.fBequeathId[y] = o
      BY <1>3, <2>2 DEF Hooked, Rights
    <3>2. o # None
      BY <1>1, Constants
    <3>3. QED
      BY <3>1, <3>2 DEF Mute
  <2>3. CASE ~(Hooked(q, o) /\ y = from)
    BY <1>7, <2>1, <2>3 DEF Mute
  <2>4. QED
    BY <2>2, <2>3
<1>15. QED
  BY <1>6, <1>11, <1>12, <1>13, <1>14 DEF Fit, f, q
-----------------------------------------------------------------------------
(* The removal of an object with its parts.                                *)

\* u is s without X; an object without owner in u was one in s, unless a task has gone.
Cut(s, u, e, U, M, X) ==
  /\ Fit(u, e, U, M)
  /\ AliveIn(u) = AliveIn(s) \ X /\ Ahead(u) = Ahead(s) \ X
  /\ u.fDeferredId = s.fDeferredId
  /\ s.destroyed => u.destroyed
  /\ u.destroyed \/ Orphans(u) \subseteq Orphans(s)

LEMMA CutTwice ==
  ASSUME NEW s, NEW u, NEW v, NEW e, NEW U, NEW M, NEW X, NEW Y,
         Cut(s, u, e, U, M, X), Cut(u, v, e, U, M, Y)
  PROVE  Cut(s, v, e, U, M, X \cup Y)
<1>1. /\ Fit(v, e, U, M)
      /\ AliveIn(v) = AliveIn(s) \ (X \cup Y) /\ Ahead(v) = Ahead(s) \ (X \cup Y)
      /\ v.fDeferredId = s.fDeferredId
  BY DEF Cut
<1>2. (s.destroyed => v.destroyed) /\ (v.destroyed \/ Orphans(v) \subseteq Orphans(s))
  <2>1. /\ s.destroyed => u.destroyed
        /\ u.destroyed => v.destroyed
        /\ u.destroyed \/ Orphans(u) \subseteq Orphans(s)
        /\ v.destroyed \/ Orphans(v) \subseteq Orphans(u)
    BY DEF Cut
  <2>2. QED
    BY <2>1, Zenon
<1>3. QED
  BY <1>1, <1>2 DEF Cut

\* An object becomes its own owner.
LEMMA SelfOwnedCut ==
  ASSUME NEW s, NEW e, NEW U, NEW M, Fit(s, e, U, M), NEW o \in AliveIn(s)
  PROVE  LET u == [s EXCEPT !.fOwnerId[o] = o]
         IN  Cut(s, u, e, U, M, {}) /\ Orphans(u) \subseteq Orphans(s) /\ u.destroyed = s.destroyed
<1> DEFINE u == [s EXCEPT !.fOwnerId[o] = o]
<1>1. /\ Sound(s, e) /\ Core(s, U) /\ Unbequeathed(s) /\ Heirs(s) /\ Families(s, M)
      /\ o \in Obj /\ s \in TableRecord
  BY AliveFacts DEF Fit, Sound, Threads
<1>2. /\ u \in TableRecord /\ SameLinks(s, u) /\ Rights(s, u)
      /\ \A y \in Obj : u.fOwnerId[y] = IF y = o THEN o ELSE s.fOwnerId[y]
  BY <1>1 DEF TableRecord, SameLinks, Rights
<1> HIDE DEF u
<1>3. Sound(u, e) /\ AliveIn(u) = AliveIn(s) /\ Ahead(u) = Ahead(s)
  BY <1>1, <1>2, SameLinksSound
<1>4. /\ u.fAssignedOwnerId = s.fAssignedOwnerId /\ u.fBequeathId = s.fBequeathId
      /\ u.fInheritedId = s.fInheritedId /\ u.fDeferredId = s.fDeferredId
      /\ u.destroyed = s.destroyed
  BY <1>2 DEF Rights
<1>5. Core(u, U)
  <2>1. System \subseteq AliveIn(u)
    BY <1>1, <1>3 DEF Core, Forever
  <2>2. \A y \in AliveIn(u) : u.fOwnerId[y] = s.fOwnerId[y] \/ u.fOwnerId[y] = y
    BY <1>2, <1>3, AliveFacts
  <2>3. QED
    BY <1>1, <1>3, <1>4, <2>1, <2>2, CoreShrinks
<1>6. Unbequeathed(u) /\ Families(u, M)
  BY <1>1, <1>3, <1>4 DEF Unbequeathed, Families
<1>7. Heirs(u)
  BY <1>1, <1>3, <1>4 DEF Heirs, HeirOf
<1>8. Orphans(u) \subseteq Orphans(s)
  BY <1>2, <1>3, AliveFacts DEF Orphans
<1>9. QED
  BY <1>3, <1>4, <1>5, <1>6, <1>7, <1>8 DEF Cut, Fit, u

Branch(p) == {p} \cup Members(p)

\* What is freed bequeaths nothing.
LEMMA GoneStays ==
  ASSUME NEW s, NEW u, NEW e, NEW X, Gone(s, u, e, X), Unbequeathed(s)
  PROVE  Stays(s, u)
<1>1. Unbequeathed(u) /\ Keeps(s, u, X) /\ AliveIn(u) = AliveIn(s) \ X
  BY DEF Gone
<1>2. \A y \in AliveIn(u) : y \in Obj \ X
  BY <1>1, AliveFacts
<1>3. \A y \in AliveIn(u) : u.fOwnerId[y] = s.fOwnerId[y]
  BY <1>1, <1>2 DEF Keeps
<1>4. ASSUME Mute(s), NEW y \in Obj, u.fBequeathId[y] # None
      PROVE  Kind[y] = "task" /\ y \notin Part
  <2>1. y \in AliveIn(u)
    BY <1>1, <1>4 DEF Unbequeathed
  <2>2. u.fBequeathId[y] = s.fBequeathId[y]
    BY <1>1, <1>2, <2>1 DEF Keeps
  <2>3. QED
    BY <1>4, <2>2 DEF Mute
<1>5. QED
  BY <1>3, <1>4 DEF Stays, Mute

\* A cut that changes no owner.
PartsCut(s, u, e, U, M, X) == Cut(s, u, e, U, M, X) /\ Stays(s, u)

LEMMA PartsCutTwice ==
  ASSUME NEW s, NEW u, NEW v, NEW e, NEW U, NEW M, NEW X, NEW Y,
         PartsCut(s, u, e, U, M, X), PartsCut(u, v, e, U, M, Y)
  PROVE  PartsCut(s, v, e, U, M, X \cup Y)
<1>1. Cut(s, u, e, U, M, X) /\ Cut(u, v, e, U, M, Y) /\ Stays(s, u) /\ Stays(u, v)
  BY DEF PartsCut
<1>2. Cut(s, v, e, U, M, X \cup Y)
  BY <1>1, CutTwice
<1>3. AliveIn(v) \subseteq AliveIn(u)
  BY <1>1 DEF Cut
<1>4. Stays(s, v)
  BY <1>1, <1>3 DEF Stays
<1>5. QED
  BY <1>2, <1>4 DEF PartsCut

\* A part of a monitor goes.
LEMMA RemovePartCut ==
  ASSUME NEW m \in Obj, Kind[m] = "monitor", NEW s, NEW e, NEW U, Fit(s, e, U, {m}),
         NEW p \in Members(m)
  PROVE  PartsCut(s, RemovePart(s, p), e, U, {m}, Branch(p))
<1>1. p \in Obj /\ p \in Part /\ p # m /\ Kind[p] \in {"task", "leaf"}
      /\ p \notin System /\ \A w \in Obj \ {m} : p \notin Members(w)
  BY Kinship
<1>2. Sound(s, e) /\ Families(s, {m}) /\ Unbequeathed(s)
  BY DEF Fit
<1>3. CASE Kind[p] = "task" /\ Exists(s, p)
  <2>1. p \in AliveIn(s)
    BY <1>1, <1>3, AliveFacts
  <2>2. RemovePart(s, p) = DeleteTask(Unlink(s, p), p)
    BY <1>3 DEF RemovePart, RemoveTask
  <2> DEFINE f == DeleteTask(Unlink(s, p), p)
  <2>3. Cut(s, f, e, U, {m}, Branch(p)) /\ Passes(s, f, p)
    BY <1>1, <1>3, <2>1, TaskFit DEF Cut, Branch
  <2> HIDE DEF f
  <2>4. Stays(s, f)
    <3> SUFFICES ASSUME Mute(s)
                 PROVE  Mute(f) /\ \A y \in AliveIn(f) : f.fOwnerId[y] = s.fOwnerId[y]
      BY DEF Stays
    <3>1. s.fBequeathId[p] = None
      BY <1>1 DEF Mute
    <3>2. None \notin AliveIn(f)
      BY AliveFacts, Constants
    <3>3. QED
      BY <2>3, <3>1, <3>2 DEF Passes
  <2>5. QED
    BY <2>2, <2>3, <2>4 DEF PartsCut, f
<1>4. CASE Kind[p] = "task" /\ ~Exists(s, p)
  <2>1. RemovePart(s, p) = s
    BY <1>4 DEF RemovePart, RemoveTask
  <2>2. p \notin AliveIn(s)
    BY <1>4, AliveFacts
  <2>3. \A x \in Members(p) : x \notin AliveIn(s)
    BY <1>1, <1>2, <2>2 DEF Families
  <2>4. AliveIn(s) = AliveIn(s) \ Branch(p) /\ Ahead(s) = Ahead(s) \ Branch(p)
    <3>1. Ahead(s) \subseteq AliveIn(s)
      BY <1>2, AheadFacts
    <3>2. QED
      BY <2>2, <2>3, <3>1 DEF Branch
  <2>5. QED
    BY <2>1, <2>4 DEF Cut, PartsCut, Stays
<1>5. CASE Kind[p] = "leaf"
  <2>1. RemovePart(s, p) = RemoveLeaf(s, p) /\ Members(p) = {}
    BY <1>1, <1>5, Kinship DEF RemovePart
  <2>2. Gone(s, RemovePart(s, p), e, {p})
    BY <1>1, <1>2, <2>1, RemoveLeafGone
  <2>3. /\ Fit(RemovePart(s, p), e, U, {m})
        /\ Orphans(RemovePart(s, p)) \subseteq Orphans(s) \cup Members(p)
    <3> DEFINE M == {m}
               u == RemovePart(s, p)
    <3>1. /\ p \in Obj /\ Kind[p] # "task" /\ Fit(s, e, U, M) /\ Gone(s, u, e, {p})
          /\ \A w \in Obj \ M : p \notin Members(w)
          /\ Members(p) = {} \/ p \in M
      BY <1>1, <1>5, <2>1, <2>2
    <3> HIDE DEF M, u
    <3>2. Fit(u, e, U, M) /\ Orphans(u) \subseteq Orphans(s) \cup Members(p)
      BY ONLY <3>1, GoneFit
    <3>3. QED
      BY <3>2 DEF M, u
  <2>4. Stays(s, RemovePart(s, p))
    BY <1>2, <2>2, GoneStays
  <2>5. QED
    BY <2>1, <2>2, <2>3, <2>4 DEF Cut, Gone, Branch, PartsCut
<1>6. QED
  BY <1>1, <1>3, <1>4, <1>5

\* All parts of a monitor go.
LEMMA RemovePartsCut ==
  ASSUME NEW m \in Obj, Kind[m] = "monitor", NEW s, NEW e, NEW U, Fit(s, e, U, {m})
  PROVE  PartsCut(s, FoldLeft(RemovePart, s, Parts[m]), e, U, {m}, UNION {Branch(p) : p \in Members(m)})
<1> DEFINE q == Parts[m]
           n == Len(q)
           R == {r \in TableRecord : Fit(r, e, U, {m})}
           h == [p \in R \X (1 .. n) |-> RemovePart(p[1], q[p[2]])]
           IsIter(g) == g = [S \in SUBSET (1 .. n) |->
                               IF S = {} THEN s ELSE RemovePart(g[S \ {Max(S)}], q[Max(S)])]
           it == CHOOSE g : IsIter(g)
<1>1. n \in Nat /\ DOMAIN q = 1 .. n /\ \A i \in 1 .. n : q[i] \in Members(m)
  <2>1. q \in Seq(Obj)
    BY Constants
  <2>2. n \in Nat /\ DOMAIN q = 1 .. n
    BY <2>1, SeqElements
  <2>3. QED
    BY <2>2 DEF Members, ToSet
<1>2. \A r : Fit(r, e, U, {m}) => r \in TableRecord
  BY DEF Fit, Sound, Threads
<1>3. ASSUME NEW r \in R, NEW i \in 1 .. n PROVE RemovePart(r, q[i]) \in R
  <2>1. PartsCut(r, RemovePart(r, q[i]), e, U, {m}, Branch(q[i]))
    BY <1>1, RemovePartCut
  <2>2. QED
    BY <1>2, <2>1 DEF Cut, PartsCut
<1> HIDE DEF q
<1>4. s \in R /\ h \in [R \X (1 .. n) -> R]
  BY <1>2, <1>3
<1>5. \E g : IsIter(g)
  <2> HIDE DEF h, R
  <2>0. PICK g : IsFold(g, R, n, s, h)
    BY <1>1, <1>4, Iterates
  <2>1. /\ g \in [SUBSET (1 .. n) -> R]
        /\ \A S \in SUBSET (1 .. n) :
             g[S] = IF S = {} THEN s ELSE h[<<g[S \ {Max(S)}], Max(S)>>]
    BY <2>0 DEF IsFold
  <2>2. ASSUME NEW S \in SUBSET (1 .. n), S # {}
        PROVE  h[<<g[S \ {Max(S)}], Max(S)>>] = RemovePart(g[S \ {Max(S)}], q[Max(S)])
    <3>1. Max(S) \in 1 .. n
      BY <1>1, <2>2, MaxUpTo
    <3>2. g[S \ {Max(S)}] \in R
      BY <2>1
    <3>3. QED
      BY <3>1, <3>2 DEF h
  <2>3. \A S \in SUBSET (1 .. n) :
          g[S] = IF S = {} THEN s ELSE RemovePart(g[S \ {Max(S)}], q[Max(S)])
    BY <2>1, <2>2
  <2>4. g = [S \in SUBSET (1 .. n) |-> g[S]]
    BY <2>1
  <2>5. IsIter(g)
    BY <2>3, <2>4
  <2>6. QED
    BY <2>5
<1>6. IsIter(it)
  BY <1>5
<1>7. FoldLeft(RemovePart, s, q) = it[1 .. n]
  BY <1>1 DEF FoldLeft, MapThenFoldSet
<1> HIDE DEF it, R, h
<1>8. \A S \in SUBSET (1 .. n) :
        it[S] = IF S = {} THEN s ELSE RemovePart(it[S \ {Max(S)}], q[Max(S)])
  BY <1>6
<1> HIDE DEF IsIter
<1> DEFINE First(i) == UNION {Branch(q[j]) : j \in 1 .. i}
           V == {i \in 0 .. n : PartsCut(s, it[1 .. i], e, U, {m}, First(i))}
<1>9. 0 \in V
  <2>1. 1 .. 0 = {} /\ First(0) = {}
    OBVIOUS
  <2>2. it[1 .. 0] = s
    BY <1>8, <2>1
  <2>3. PartsCut(s, s, e, U, {m}, {})
    BY DEF Cut, PartsCut, Stays
  <2> HIDE DEF First
  <2>4. PartsCut(s, it[1 .. 0], e, U, {m}, First(0)) /\ 0 \in 0 .. n
    <3>1. PartsCut(s, it[1 .. 0], e, U, {m}, First(0))
      BY ONLY <2>1, <2>2, <2>3
    <3>2. QED
      BY <1>1, <3>1
  <2>5. QED
    BY <2>4
<1>10. ASSUME NEW i \in 1 .. n, i - 1 \in V PROVE i \in V
  <2>1. PartsCut(s, it[1 .. (i - 1)], e, U, {m}, First(i - 1))
    BY <1>10
  <2>2. it[1 .. i] = RemovePart(it[1 .. (i - 1)], q[i])
    <3>1. UpToPlace(n, i)
      <4> HIDE DEF n
      <4>1. n \in Nat
        BY <1>1
      <4>2. QED
        BY ONLY <4>1, i \in 1 .. n, FirstPlaces
    <3>2. /\ 1 .. i \in SUBSET (1 .. n) /\ 1 .. i # {} /\ Max(1 .. i) = i
          /\ (1 .. i) \ {i} = 1 .. (i - 1)
      BY <3>1 DEF UpToPlace
    <3>3. QED
      BY <1>8, <3>2
  <2>3. First(i) = First(i - 1) \cup Branch(q[i])
    <3>1. \A j : j \in 1 .. i <=> j \in 1 .. (i - 1) \/ j = i
      BY <1>1
    <3>2. QED
      BY <3>1
  <2> HIDE DEF First
  <2>4. PartsCut(it[1 .. (i - 1)], it[1 .. i], e, U, {m}, Branch(q[i]))
    <3>1. Fit(it[1 .. (i - 1)], e, U, {m}) /\ q[i] \in Members(m)
      BY <1>1, <2>1 DEF Cut, PartsCut
    <3>2. QED
      BY <2>2, <3>1, RemovePartCut
  <2>5. PartsCut(s, it[1 .. i], e, U, {m}, First(i))
    BY <2>1, <2>3, <2>4, PartsCutTwice
  <2>6. i \in 0 .. n
    BY <1>1
  <2>7. QED
    BY <2>5, <2>6
<1>11. V \in SUBSET (0 .. n)
  OBVIOUS
<1>12. n \in V
  <2> HIDE DEF V
  <2>1. V = 0 .. n
    BY <1>1, <1>9, <1>10, <1>11, UpTo
  <2>2. QED
    BY <1>1, <2>1
<1>13. First(n) = UNION {Branch(p) : p \in Members(m)}
  BY <1>1 DEF ToSet, Members, q
<1>14. QED
  BY <1>7, <1>12, <1>13 DEF q

LEMMA WholeIs ==
  ASSUME NEW o \in Obj
  PROVE  /\ Whole[o] = {o} \cup UNION {Branch(p) : p \in Members(o)}
         /\ Members(o) \subseteq Whole[o]
         /\ Whole[o] \subseteq Obj
         /\ \A x \in Whole[o] : x = o \/ x \in Part
         /\ Kind[o] # "monitor" => Whole[o] = Branch(o)
<1>1. Whole[o] = {o} \cup Members(o) \cup UNION {Members(p) : p \in Members(o)}
  BY DEF Whole, Members
<1>2. Members(o) \subseteq Obj \cap Part /\ \A p \in Members(o) : Members(p) \subseteq Obj \cap Part
  BY Kinship
<1>3. Whole[o] = {o} \cup UNION {Branch(p) : p \in Members(o)}
  BY <1>1 DEF Branch
<1>4. Kind[o] # "monitor" => Whole[o] = Branch(o)
  <2> SUFFICES ASSUME Kind[o] # "monitor" PROVE Whole[o] = Branch(o)
    OBVIOUS
  <2>1. Kind[o] \in {"task", "leaf", "kept"}
    BY Constants
  <2>2. \A p \in Members(o) : Kind[p] = "leaf"
    BY <2>1, Kinship
  <2>3. \A p \in Members(o) : Members(p) = {}
    BY <1>2, <2>2, Kinship
  <2>4. QED
    BY <1>1, <2>3 DEF Branch
<1>5. QED
  BY <1>1, <1>2, <1>3, <1>4

\* A monitor goes.
LEMMA MonitorCut ==
  ASSUME NEW s, NEW e, NEW U, Fit(s, e, U, {}), NEW o \in AliveIn(s), Kind[o] = "monitor"
  PROVE  PartsCut(s, DeleteMonitor(Unlink(s, o), o), e, U, {}, Whole[o])
<1> DEFINE w == Free(Unlink(s, o), o)
           f == DeleteMonitor(Unlink(s, o), o)
           M == {o}
           X == UNION {Branch(p) : p \in Members(o)}
<1>1. o \in Obj /\ Exists(s, o) /\ Sound(s, e) /\ Families(s, {})
  BY AliveFacts DEF Fit
<1>2. f = FoldLeft(RemovePart, w, Parts[o])
  BY DEF DeleteMonitor
<1>3. Gone(s, w, e, {o})
  BY <1>1, FreeUnlinkGone
<1>4. Fit(s, e, U, M)
  BY DEF Fit, Families
<1>5. /\ Kind[o] # "task" /\ \A v \in Obj \ M : o \notin Members(v)
      /\ Members(o) = {} \/ o \in M
  BY Kinship
<1> HIDE DEF w, f
<1>6. Fit(w, e, U, M) /\ Orphans(w) \subseteq Orphans(s) \cup Members(o)
  <2> HIDE DEF M
  <2>1. QED
    BY ONLY <1>1, <1>3, <1>4, <1>5, GoneFit
<1>7. Cut(w, f, e, U, M, X) /\ Stays(w, f)
  BY <1>1, <1>2, <1>6, RemovePartsCut DEF PartsCut
<1>8. /\ AliveIn(f) = AliveIn(s) \ Whole[o] /\ Ahead(f) = Ahead(s) \ Whole[o]
      /\ f.fDeferredId = s.fDeferredId /\ (s.destroyed => f.destroyed)
  <2>1. Whole[o] = {o} \cup X
    BY <1>1, WholeIs
  <2> HIDE DEF X
  <2>2. /\ AliveIn(f) = AliveIn(w) \ X /\ Ahead(f) = Ahead(w) \ X
        /\ f.fDeferredId = w.fDeferredId /\ (w.destroyed => f.destroyed)
    BY <1>7 DEF Cut
  <2>3. /\ AliveIn(w) = AliveIn(s) \ {o} /\ Ahead(w) = Ahead(s) \ {o}
        /\ w.fDeferredId = s.fDeferredId /\ w.destroyed = s.destroyed
    BY <1>3 DEF Gone
  <2>4. QED
    BY <2>1, <2>2, <2>3
<1>9. f.destroyed \/ Orphans(f) \subseteq Orphans(s)
  <2>1. f.destroyed \/ Orphans(f) \subseteq Orphans(w)
    BY <1>7 DEF Cut
  <2>2. Orphans(f) \subseteq AliveIn(f)
    BY DEF Orphans
  <2>3. Members(o) \subseteq Whole[o]
    BY <1>1, WholeIs
  <2>4. QED
    BY <1>6, <1>8, <2>1, <2>2, <2>3
<1>10. Families(f, {})
  <2> SUFFICES ASSUME NEW v \in Obj, NEW x \in Members(v)
               PROVE  x \in AliveIn(f) <=> v \in AliveIn(f)
    BY DEF Families
  <2>1. CASE v = o
    <3>1. x \in Whole[o] /\ o \in Whole[o]
      BY <1>1, <2>1, WholeIs
    <3>2. QED
      BY <1>8, <2>1, <3>1
  <2>2. CASE v # o
    BY <1>7, <2>2 DEF Cut, Fit, Families
  <2>3. QED
    BY <2>1, <2>2
<1>11. Fit(f, e, U, {})
  BY <1>7, <1>10 DEF Cut, Fit
<1>12. Stays(s, f)
  <2>1. Stays(s, w)
    BY <1>3, GoneStays DEF Fit
  <2>2. AliveIn(f) \subseteq AliveIn(w)
    BY <1>7 DEF Cut
  <2>3. QED
    BY <1>7, <2>1, <2>2 DEF Stays
<1>13. QED
  BY <1>8, <1>9, <1>11, <1>12 DEF Cut, PartsCut, f

\* What scavenge and remove do to an object that is not to be kept.
LEMMA DeleteCut ==
  ASSUME NEW s, NEW e, NEW U, Fit(s, e, U, {}), NEW o \in AliveIn(s),
         ~Kept(o), o \notin System, o \notin Part
  PROVE  /\ Cut(s, Delete(Unlink(s, o), o), e, U, {}, Whole[o])
         /\ Passes(s, Delete(Unlink(s, o), o), o)
<1>1. o \in Obj /\ Exists(s, o) /\ Sound(s, e) /\ Unbequeathed(s)
  BY AliveFacts DEF Fit
<1> DEFINE d == Delete(Unlink(s, o), o)
<1>0. ASSUME Kind[o] # "task", Stays(s, d) PROVE Passes(s, d, o)
  <2> SUFFICES ASSUME Mute(s) PROVE s.fBequeathId[o] \notin AliveIn(d)
    BY <1>0 DEF Passes, Stays
  <2>1. s.fBequeathId[o] = None
    BY <1>0, <1>1 DEF Mute
  <2>2. QED
    BY <2>1, AliveFacts, Constants
<1> HIDE DEF d
<1>2. Kind[o] \in {"task", "monitor", "leaf"}
  BY <1>1, Constants DEF Kept
<1>3. \A w \in Obj \ {} : o \notin Members(w)
  BY Kinship
<1>4. CASE Kind[o] = "task"
  <2> DEFINE f == DeleteTask(Unlink(s, o), o)
  <2>1. Delete(Unlink(s, o), o) = f
    BY <1>4 DEF Delete
  <2>2. /\ Fit(f, e, U, {}) /\ f.destroyed /\ f.fDeferredId = s.fDeferredId
        /\ AliveIn(f) = AliveIn(s) \ ({o} \cup Members(o))
        /\ Ahead(f) = Ahead(s) \ ({o} \cup Members(o))
        /\ Passes(s, f, o)
    BY <1>3, <1>4, TaskFit
  <2>3. Whole[o] = {o} \cup Members(o)
    BY <1>1, <1>4, WholeIs DEF Branch
  <2> HIDE DEF f
  <2>4. Cut(s, f, e, U, {}, Whole[o]) /\ Passes(s, f, o)
    BY <2>2, <2>3 DEF Cut
  <2>5. QED
    BY <2>1, <2>4
<1>5. CASE Kind[o] = "monitor"
  <2>1. Delete(Unlink(s, o), o) = DeleteMonitor(Unlink(s, o), o)
    BY <1>5 DEF Delete
  <2>2. Cut(s, d, e, U, {}, Whole[o]) /\ Stays(s, d)
    BY <1>5, <2>1, MonitorCut DEF PartsCut, d
  <2>3. QED
    BY <1>0, <1>5, <2>2 DEF d
<1>6. CASE Kind[o] = "leaf"
  <2> DEFINE f == Free(Unlink(s, o), o)
             M == {}
  <2>1. Delete(Unlink(s, o), o) = f
    BY <1>6 DEF Delete, DeleteLeaf
  <2>2. Gone(s, f, e, {o})
    BY <1>1, FreeUnlinkGone
  <2>3. Members(o) = {} /\ Whole[o] = {o}
    BY <1>1, <1>6, Kinship, WholeIs DEF Branch
  <2> HIDE DEF f
  <2>4. Fit(s, e, U, M) /\ Kind[o] # "task" /\ \A w \in Obj \ M : o \notin Members(w)
    BY <1>3, <1>6
  <2>5. Fit(f, e, U, M) /\ Orphans(f) \subseteq Orphans(s) \cup Members(o)
    <3> HIDE DEF M
    <3>1. Members(o) = {} \/ o \in M
      BY <2>3
    <3>2. QED
      BY ONLY <1>1, <2>2, <2>4, <3>1, GoneFit
  <2>6. Cut(s, f, e, U, {}, Whole[o])
    BY <2>2, <2>3, <2>5 DEF Cut, Gone
  <2>7. Stays(s, d)
    BY <1>1, <2>1, <2>2, GoneStays DEF d
  <2>8. QED
    BY <1>0, <1>6, <2>1, <2>6, <2>7 DEF d
<1>7. QED
  BY <1>2, <1>4, <1>5, <1>6

\* What goes when an object is to be removed.
Taking(o) == IF Kept(o) THEN {} ELSE Whole[o]

LEMMA RemoveObjectCut ==
  ASSUME NEW s, NEW e, NEW U, Fit(s, e, U, {}), NEW o \in Obj, o \notin System, o \notin Part
  PROVE  Cut(s, RemoveObject(s, o), e, U, {}, Taking(o))
<1> DEFINE u == [s EXCEPT !.fOwnerId[o] = o]
<1>1. CASE o \notin AliveIn(s)
  <2>1. RemoveObject(s, o) = s
    BY <1>1, AliveFacts DEF RemoveObject
  <2>2. \A x \in Whole[o] : x \notin AliveIn(s)
    <3>1. \A p \in Members(o) : p \in Obj /\ p \notin AliveIn(s)
      BY <1>1, Kinship DEF Fit, Families
    <3>2. \A p \in Members(o) : \A x \in Members(p) : x \notin AliveIn(s)
      BY <3>1 DEF Fit, Families
    <3>3. QED
      BY <1>1, <3>1, <3>2, WholeIs DEF Branch
  <2>3. Ahead(s) \subseteq AliveIn(s)
    BY AheadFacts DEF Fit
  <2>4. AliveIn(s) = AliveIn(s) \ Taking(o) /\ Ahead(s) = Ahead(s) \ Taking(o)
    BY <2>2, <2>3 DEF Taking
  <2>5. QED
    BY <2>1, <2>4 DEF Cut
<1>2. CASE o \in AliveIn(s) /\ Kept(o)
  <2>1. RemoveObject(s, o) = u
    BY <1>2, AliveFacts DEF RemoveObject
  <2>2. Cut(s, u, e, U, {}, {})
    BY <1>2, SelfOwnedCut
  <2>3. QED
    BY <1>2, <2>1, <2>2 DEF Taking
<1>3. CASE o \in AliveIn(s) /\ ~Kept(o)
  <2>1. RemoveObject(s, o) = Delete(Unlink(u, o), o)
    BY <1>3, AliveFacts DEF RemoveObject
  <2>2. Cut(s, u, e, U, {}, {})
    BY <1>3, SelfOwnedCut
  <2>3. Fit(u, e, U, {}) /\ o \in AliveIn(u)
    BY <1>3, <2>2 DEF Cut
  <2> HIDE DEF u
  <2>4. Cut(u, Delete(Unlink(u, o), o), e, U, {}, Whole[o])
    BY <1>3, <2>3, DeleteCut
  <2>5. Cut(s, Delete(Unlink(u, o), o), e, U, {}, {} \cup Whole[o])
    BY <2>2, <2>4, CutTwice
  <2>6. {} \cup Whole[o] = Taking(o)
    BY <1>3 DEF Taking
  <2>7. QED
    BY <2>1, <2>5, <2>6
<1>4. QED
  BY <1>1, <1>2, <1>3
-----------------------------------------------------------------------------
(* The creation of an object with its parts, between the walks.            *)

\* u is s with the new objects X, which are owned by members of W.
Grown(s, u, X, W) ==
  /\ Sound(u, TableSize) /\ AliveIn(u) = AliveIn(s) \cup X
  /\ Keeps(s, u, X) /\ u.fBequeathId = s.fBequeathId
  /\ \A x \in X : /\ u.fOwnerId[x] \in W /\ Rightful(x, u.fOwnerId[x])
                  /\ u.fAssignedOwnerId[x] = u.fOwnerId[x]
  /\ u.fDeferredId = s.fDeferredId /\ u.destroyed = s.destroyed

LEMMA GrownTwice ==
  ASSUME NEW s, NEW u, NEW v, NEW X, NEW Y, NEW W,
         Grown(s, u, X, W), Grown(u, v, Y, W), X \cap Y = {}, X \subseteq Obj
  PROVE  Grown(s, v, X \cup Y, W)
<1>1. /\ Sound(v, TableSize) /\ AliveIn(v) = AliveIn(s) \cup (X \cup Y)
      /\ v.fBequeathId = s.fBequeathId
      /\ v.fDeferredId = s.fDeferredId /\ v.destroyed = s.destroyed
      /\ Keeps(s, u, X) /\ Keeps(u, v, Y)
  BY DEF Grown
<1>2. Keeps(s, v, X \cup Y)
  BY <1>1 DEF Keeps
<1>3. ASSUME NEW x \in X \cup Y
      PROVE  /\ v.fOwnerId[x] \in W /\ Rightful(x, v.fOwnerId[x])
             /\ v.fAssignedOwnerId[x] = v.fOwnerId[x]
  <2>1. CASE x \in Y
    BY <2>1 DEF Grown
  <2>2. CASE x \notin Y
    <3>1. x \in X /\ x \in Obj \ Y
      BY <2>2
    <3>2. v.fOwnerId[x] = u.fOwnerId[x] /\ v.fAssignedOwnerId[x] = u.fAssignedOwnerId[x]
      BY <1>1, <3>1 DEF Keeps
    <3>3. QED
      BY <3>1, <3>2 DEF Grown
  <2>3. QED
    BY <2>1, <2>2
<1>4. QED
  BY <1>1, <1>2, <1>3 DEF Grown

LEMMA AddGrown ==
  ASSUME NEW s, Sound(s, TableSize), NEW x \in Obj, x \notin AliveIn(s),
         NEW W, NEW w \in W, Rightful(x, w)
  PROVE  Grown(s, Add(s, x, w), {x}, W)
<1>1. ~Exists(s, x) /\ w \in Obj
  BY AliveFacts DEF Rightful
<1> DEFINE u == Add(s, x, w)
<1>2. /\ Sound(u, TableSize) /\ AliveIn(u) = AliveIn(s) \cup {x}
      /\ Keeps(s, u, {x}) /\ u.fOwnerId[x] = w /\ u.fAssignedOwnerId[x] = w
      /\ u.fBequeathId = s.fBequeathId
      /\ u.fDeferredId = s.fDeferredId /\ u.destroyed = s.destroyed
  BY <1>1, AddSound
<1> HIDE DEF u
<1>3. Grown(s, u, {x}, W)
  BY <1>2 DEF Grown
<1>4. QED
  BY <1>3 DEF u

\* What is added stays a table.
LEMMA AddRecord ==
  ASSUME NEW s \in TableRecord, NEW x \in Obj, NEW w \in Obj
  PROVE  Add(s, x, w) \in TableRecord
<1>1. Hash[x] \in Entries
  BY Constants
<1>2. s.fObject[Hash[x]] \in Obj \cup {None}
  BY <1>1 DEF TableRecord
<1>3. QED
  BY <1>1, <1>2 DEF Add, TableRecord

\* The leaves of o are added one after the other.
LEMMA AddLeavesSteps ==
  ASSUME NEW s \in TableRecord, NEW o \in Obj
  PROVE  LET n == Len(Parts[o])
         IN  \E f : /\ f[0] = s
                    /\ \A i \in 1 .. n : f[i] = Add(f[i - 1], Parts[o][i], o)
                    /\ AddLeaves(s, o) = f[n]
                    /\ f[n] \in TableRecord
<1> DEFINE q == Parts[o]
           n == Len(q)
           h == [p \in TableRecord \X (1 .. n) |-> Add(p[1], q[p[2]], o)]
           IsIter(g) == g = [S \in SUBSET (1 .. n) |->
                               IF S = {} THEN s ELSE Add(g[S \ {Max(S)}], q[Max(S)], o)]
           it == CHOOSE g : IsIter(g)
<1>1. n \in Nat /\ DOMAIN q = 1 .. n /\ \A i \in 1 .. n : q[i] \in Obj
  <2>1. q \in Seq(Obj)
    BY Constants
  <2>2. QED
    BY <2>1, SeqElements
<1> HIDE DEF q
<1>2. h \in [TableRecord \X (1 .. n) -> TableRecord]
  BY <1>1, AddRecord
<1>3. \E g : IsIter(g) /\ g \in [SUBSET (1 .. n) -> TableRecord]
  <2> HIDE DEF h
  <2>0. PICK g : IsFold(g, TableRecord, n, s, h)
    BY <1>1, <1>2, Iterates
  <2>1. /\ g \in [SUBSET (1 .. n) -> TableRecord]
        /\ \A S \in SUBSET (1 .. n) :
             g[S] = IF S = {} THEN s ELSE h[<<g[S \ {Max(S)}], Max(S)>>]
    BY <2>0 DEF IsFold
  <2>2. ASSUME NEW S \in SUBSET (1 .. n), S # {}
        PROVE  h[<<g[S \ {Max(S)}], Max(S)>>] = Add(g[S \ {Max(S)}], q[Max(S)], o)
    <3>1. Max(S) \in 1 .. n
      BY <1>1, <2>2, MaxUpTo
    <3>2. g[S \ {Max(S)}] \in TableRecord
      BY <2>1
    <3>3. QED
      BY <3>1, <3>2 DEF h
  <2>3. \A S \in SUBSET (1 .. n) :
          g[S] = IF S = {} THEN s ELSE Add(g[S \ {Max(S)}], q[Max(S)], o)
    BY <2>1, <2>2
  <2>4. g = [S \in SUBSET (1 .. n) |-> g[S]]
    BY <2>1
  <2>5. IsIter(g)
    BY <2>3, <2>4
  <2>6. QED
    BY <2>1, <2>5
<1>4. IsIter(it)
  BY <1>3
<1>5. AddLeaves(s, o) = it[1 .. n]
  BY <1>1 DEF AddLeaves, FoldLeft, MapThenFoldSet, q
<1> HIDE DEF it, h
<1>6. \A S \in SUBSET (1 .. n) :
        it[S] = IF S = {} THEN s ELSE Add(it[S \ {Max(S)}], q[Max(S)], o)
  BY <1>4
<1> HIDE DEF IsIter
<1> DEFINE f == [i \in 0 .. n |-> it[1 .. i]]
<1>7. f[0] = s
  <2>1. 1 .. 0 = {} /\ 0 \in 0 .. n
    BY <1>1
  <2>2. f[0] = it[1 .. 0]
    BY <2>1
  <2>3. QED
    BY <1>6, <2>1, <2>2
<1>8. ASSUME NEW i \in 1 .. n PROVE f[i] = Add(f[i - 1], q[i], o)
  <2>1. UpToPlace(n, i)
    <3> HIDE DEF n
    <3>1. n \in Nat
      BY <1>1
    <3>2. QED
      BY ONLY <3>1, i \in 1 .. n, FirstPlaces
  <2>2. /\ 1 .. i \in SUBSET (1 .. n) /\ 1 .. i # {} /\ Max(1 .. i) = i
        /\ (1 .. i) \ {i} = 1 .. (i - 1)
    BY <2>1 DEF UpToPlace
  <2>3. it[1 .. i] = Add(it[1 .. (i - 1)], q[i], o)
    BY <1>6, <2>2
  <2>4. i \in 0 .. n /\ i - 1 \in 0 .. n
    BY <1>1
  <2>5. QED
    BY <2>3, <2>4
<1>9. f[n] = it[1 .. n]
  BY <1>1
<1> DEFINE V == {i \in 0 .. n : f[i] \in TableRecord}
<1> HIDE DEF f
<1>10. 0 \in V
  BY <1>1, <1>7
<1>11. ASSUME NEW i \in 1 .. n, i - 1 \in V PROVE i \in V
  <2>1. f[i] \in TableRecord
    BY <1>1, <1>8, <1>11, AddRecord
  <2>2. i \in 0 .. n
    BY <1>1
  <2>3. QED
    BY <2>1, <2>2
<1>12. V \in SUBSET (0 .. n)
  OBVIOUS
<1>13. n \in V
  <2> HIDE DEF V
  <2>1. V = 0 .. n
    BY <1>1, <1>10, <1>11, <1>12, UpTo
  <2>2. QED
    BY <1>1, <2>1
<1>14. /\ f[0] = s
       /\ \A i \in 1 .. n : f[i] = Add(f[i - 1], q[i], o)
       /\ AddLeaves(s, o) = f[n]
       /\ f[n] \in TableRecord
  BY <1>5, <1>7, <1>8, <1>9, <1>13
<1>15. QED
  BY <1>14 DEF q

\* No part is listed twice.
LEMMA PartsApart ==
  ASSUME NEW o \in Obj
  PROVE  /\ Len(Parts[o]) \in Nat
         /\ \A i \in 1 .. Len(Parts[o]) : Parts[o][i] \in Members(o)
         /\ \A x \in Members(o) : \E i \in 1 .. Len(Parts[o]) : x = Parts[o][i]
         /\ \A i, j \in 1 .. Len(Parts[o]) : Parts[o][i] = Parts[o][j] => i = j
<1>1. Parts[o] \in Seq(Obj)
  BY Constants
<1>2. Len(Parts[o]) \in Nat /\ DOMAIN Parts[o] = 1 .. Len(Parts[o])
  BY <1>1, SeqElements
<1>3. \A i \in DOMAIN Parts[o], j \in DOMAIN Parts[o] : Parts[o][i] = Parts[o][j] => i = j
  BY TableAssumption
<1>4. QED
  BY <1>2, <1>3 DEF Members, ToSet

LEMMA AddLeavesGrown ==
  ASSUME NEW s, Sound(s, TableSize), NEW o \in Obj,
         \A x \in Members(o) : x \notin AliveIn(s),
         NEW W, o \in W
  PROVE  Grown(s, AddLeaves(s, o), Members(o), W)
<1> DEFINE q == Parts[o]
           n == Len(q)
<1>1. /\ n \in Nat /\ \A i \in 1 .. n : q[i] \in Members(o) /\ q[i] \in Obj
      /\ \A i, j \in 1 .. n : q[i] = q[j] => i = j
  BY PartsApart, Kinship
<1>2. s \in TableRecord
  BY DEF Sound, Threads
<1>3. PICK f : /\ f[0] = s
               /\ \A i \in 1 .. n : f[i] = Add(f[i - 1], q[i], o)
               /\ AddLeaves(s, o) = f[n]
  BY <1>2, AddLeavesSteps
<1> DEFINE First(i) == {q[j] : j \in 1 .. i}
           V == {i \in 0 .. n : Grown(s, f[i], First(i), W)}
<1>4. First(n) = Members(o)
  BY PartsApart
<1> HIDE DEF q
<1>5. 0 \in V
  <2>1. First(0) = {}
    OBVIOUS
  <2>2. Grown(s, s, {}, W)
    BY DEF Grown, Keeps
  <2> HIDE DEF First
  <2>3. Grown(s, f[0], First(0), W)
    BY <1>3, <2>1, <2>2
  <2>4. 0 \in 0 .. n
    BY <1>1
  <2>5. QED
    BY <2>3, <2>4
<1>6. ASSUME NEW i \in 1 .. n, i - 1 \in V PROVE i \in V
  <2>1. Grown(s, f[i - 1], First(i - 1), W)
    BY <1>6
  <2>2. First(i) = First(i - 1) \cup {q[i]}
    <3>1. \A j : j \in 1 .. i <=> j \in 1 .. (i - 1) \/ j = i
      BY <1>1
    <3>2. QED
      BY <3>1
  <2>3. First(i - 1) \cap {q[i]} = {} /\ First(i - 1) \subseteq Obj
    <3>1. \A j \in 1 .. (i - 1) : j \in 1 .. n /\ j # i
      BY <1>1
    <3>2. \A j \in 1 .. (i - 1) : q[j] # q[i] /\ q[j] \in Obj
      BY <1>1, <3>1
    <3>3. QED
      BY <3>2
  <2>4. q[i] \in Obj /\ q[i] \in Members(o) /\ f[i] = Add(f[i - 1], q[i], o)
    BY <1>1, <1>3
  <2> HIDE DEF First
  <2>5. Sound(f[i - 1], TableSize) /\ q[i] \notin AliveIn(f[i - 1])
    BY <2>1, <2>3, <2>4 DEF Grown
  <2>6. Rightful(q[i], o)
    BY <2>4 DEF Rightful
  <2>7. Grown(f[i - 1], f[i], {q[i]}, W)
    BY <2>4, <2>5, <2>6, AddGrown
  <2>8. Grown(s, f[i], First(i), W)
    BY <2>1, <2>2, <2>3, <2>7, GrownTwice
  <2>9. i \in 0 .. n
    BY <1>1
  <2>10. QED
    BY <2>8, <2>9
<1>7. V \in SUBSET (0 .. n)
  OBVIOUS
<1>8. n \in V
  <2> HIDE DEF V
  <2>1. V = 0 .. n
    BY <1>1, <1>5, <1>6, <1>7, UpTo
  <2>2. QED
    BY <1>1, <2>1
<1>9. QED
  BY <1>3, <1>4, <1>8

LEMMA AddPartRecord ==
  ASSUME NEW s \in TableRecord, NEW p \in Obj, NEW o \in Obj
  PROVE  AddPart(s, p, o) \in TableRecord
<1> DEFINE u == Add(s, p, IF Kind[p] = "task" THEN p ELSE o)
<1>1. u \in TableRecord
  BY AddRecord
<1> HIDE DEF u
<1>2. AddLeaves(u, p) \in TableRecord
  BY <1>1, AddLeavesSteps
<1>3. QED
  BY <1>2 DEF AddPart, u

\* A part comes with its leaves.
LEMMA AddPartGrown ==
  ASSUME NEW s, Sound(s, TableSize), NEW o \in Obj, NEW p \in Members(o),
         \A x \in Branch(p) : x \notin AliveIn(s),
         NEW W, o \in W, p \in W
  PROVE  Grown(s, AddPart(s, p, o), Branch(p), W)
<1> DEFINE w == IF Kind[p] = "task" THEN p ELSE o
           u == Add(s, p, w)
           v == AddLeaves(u, p)
<1>1. p \in Obj /\ w \in W /\ Rightful(p, w) /\ p \notin AliveIn(s)
  BY Kinship DEF Rightful, Branch
<1>2. p \notin Members(p) /\ \A x \in Members(p) : x \notin AliveIn(s)
  <2>1. p \in Members(p) => p = o
    BY <1>1, Kinship
  <2>2. p \in Members(p) => Kind[p] = "leaf" /\ Kind[p] # "leaf"
    <3>1. p \in Members(p) => Kind[p] \in {"task", "leaf"}
      BY <1>1, Kinship
    <3>2. Kind[p] = "task" /\ p \in Members(p) => Kind[p] = "leaf"
      BY <1>1, Kinship
    <3>3. Kind[p] = "leaf" => Members(p) = {}
      BY <1>1, Kinship
    <3>4. QED
      BY <3>1, <3>2, <3>3
  <2>3. QED
    BY <2>2 DEF Branch
<1> HIDE DEF w, u, v
<1>3. Grown(s, u, {p}, W)
  BY <1>1, AddGrown DEF u
<1>4. Sound(u, TableSize) /\ \A x \in Members(p) : x \notin AliveIn(u)
  BY <1>2, <1>3 DEF Grown
<1>5. Grown(u, v, Members(p), W)
  BY <1>1, <1>4, AddLeavesGrown DEF v
<1>6. {p} \cap Members(p) = {} /\ {p} \subseteq Obj
  BY <1>1, <1>2
<1>7. Grown(s, v, {p} \cup Members(p), W)
  BY <1>3, <1>5, <1>6, GrownTwice
<1>8. QED
  BY <1>7 DEF AddPart, Branch, u, v, w

AddParts(s, o) == FoldLeft(LAMBDA acc, p : AddPart(acc, p, o), s, Parts[o])

\* The parts of o are added one after the other.
LEMMA AddPartsSteps ==
  ASSUME NEW s \in TableRecord, NEW o \in Obj
  PROVE  LET n == Len(Parts[o])
         IN  \E f : /\ f[0] = s
                    /\ \A i \in 1 .. n : f[i] = AddPart(f[i - 1], Parts[o][i], o)
                    /\ AddParts(s, o) = f[n]
<1> DEFINE q == Parts[o]
           n == Len(q)
           h == [p \in TableRecord \X (1 .. n) |-> AddPart(p[1], q[p[2]], o)]
           IsIter(g) == g = [S \in SUBSET (1 .. n) |->
                               IF S = {} THEN s ELSE AddPart(g[S \ {Max(S)}], q[Max(S)], o)]
           it == CHOOSE g : IsIter(g)
<1>1. n \in Nat /\ DOMAIN q = 1 .. n /\ \A i \in 1 .. n : q[i] \in Obj
  <2>1. q \in Seq(Obj)
    BY Constants
  <2>2. QED
    BY <2>1, SeqElements
<1> HIDE DEF q
<1>2. h \in [TableRecord \X (1 .. n) -> TableRecord]
  BY <1>1, AddPartRecord
<1>3. \E g : IsIter(g)
  <2> HIDE DEF h
  <2>0. PICK g : IsFold(g, TableRecord, n, s, h)
    BY <1>1, <1>2, Iterates
  <2>1. /\ g \in [SUBSET (1 .. n) -> TableRecord]
        /\ \A S \in SUBSET (1 .. n) :
             g[S] = IF S = {} THEN s ELSE h[<<g[S \ {Max(S)}], Max(S)>>]
    BY <2>0 DEF IsFold
  <2>2. ASSUME NEW S \in SUBSET (1 .. n), S # {}
        PROVE  h[<<g[S \ {Max(S)}], Max(S)>>] = AddPart(g[S \ {Max(S)}], q[Max(S)], o)
    <3>1. Max(S) \in 1 .. n
      BY <1>1, <2>2, MaxUpTo
    <3>2. g[S \ {Max(S)}] \in TableRecord
      BY <2>1
    <3>3. QED
      BY <3>1, <3>2 DEF h
  <2>3. \A S \in SUBSET (1 .. n) :
          g[S] = IF S = {} THEN s ELSE AddPart(g[S \ {Max(S)}], q[Max(S)], o)
    BY <2>1, <2>2
  <2>4. g = [S \in SUBSET (1 .. n) |-> g[S]]
    BY <2>1
  <2>5. IsIter(g)
    BY <2>3, <2>4
  <2>6. QED
    BY <2>5
<1>4. IsIter(it)
  BY <1>3
<1>5. AddParts(s, o) = it[1 .. n]
  BY <1>1 DEF AddParts, FoldLeft, MapThenFoldSet, q
<1> HIDE DEF it, h
<1>6. \A S \in SUBSET (1 .. n) :
        it[S] = IF S = {} THEN s ELSE AddPart(it[S \ {Max(S)}], q[Max(S)], o)
  BY <1>4
<1> HIDE DEF IsIter
<1> DEFINE f == [i \in 0 .. n |-> it[1 .. i]]
<1>7. f[0] = s
  <2>1. 1 .. 0 = {} /\ 0 \in 0 .. n
    BY <1>1
  <2>2. f[0] = it[1 .. 0]
    BY <2>1
  <2>3. QED
    BY <1>6, <2>1, <2>2
<1>8. ASSUME NEW i \in 1 .. n PROVE f[i] = AddPart(f[i - 1], q[i], o)
  <2>1. UpToPlace(n, i)
    <3> HIDE DEF n
    <3>1. n \in Nat
      BY <1>1
    <3>2. QED
      BY ONLY <3>1, i \in 1 .. n, FirstPlaces
  <2>2. /\ 1 .. i \in SUBSET (1 .. n) /\ 1 .. i # {} /\ Max(1 .. i) = i
        /\ (1 .. i) \ {i} = 1 .. (i - 1)
    BY <2>1 DEF UpToPlace
  <2>3. it[1 .. i] = AddPart(it[1 .. (i - 1)], q[i], o)
    BY <1>6, <2>2
  <2>4. i \in 0 .. n /\ i - 1 \in 0 .. n
    BY <1>1
  <2>5. QED
    BY <2>3, <2>4
<1>9. f[n] = it[1 .. n]
  BY <1>1
<1> HIDE DEF f
<1>10. /\ f[0] = s
       /\ \A i \in 1 .. n : f[i] = AddPart(f[i - 1], q[i], o)
       /\ AddParts(s, o) = f[n]
  BY <1>5, <1>7, <1>8, <1>9
<1>11. QED
  BY <1>10 DEF q

\* The parts of an object come with their leaves.
LEMMA AddPartsGrown ==
  ASSUME NEW s, Sound(s, TableSize), NEW o \in Obj, o \notin Part,
         \A p \in Members(o) : \A x \in Branch(p) : x \notin AliveIn(s),
         NEW W, o \in W, Members(o) \subseteq W
  PROVE  Grown(s, AddParts(s, o), UNION {Branch(p) : p \in Members(o)}, W)
<1> DEFINE q == Parts[o]
           n == Len(q)
<1>1. /\ n \in Nat /\ \A i \in 1 .. n : q[i] \in Members(o) /\ q[i] \in Obj
      /\ \A i, j \in 1 .. n : q[i] = q[j] => i = j
  BY PartsApart, Kinship
<1>2. s \in TableRecord
  BY DEF Sound, Threads
<1>3. PICK f : /\ f[0] = s
               /\ \A i \in 1 .. n : f[i] = AddPart(f[i - 1], q[i], o)
               /\ AddParts(s, o) = f[n]
  BY <1>2, AddPartsSteps
<1> DEFINE First(i) == UNION {Branch(q[j]) : j \in 1 .. i}
           V == {i \in 0 .. n : Grown(s, f[i], First(i), W)}
<1>4. First(n) = UNION {Branch(p) : p \in Members(o)}
  BY PartsApart
<1>5. ASSUME NEW p \in Members(o), NEW r \in Members(o), p # r
      PROVE  \A x \in Branch(p) : x \notin Branch(r)
  <2>1. p \in Obj /\ r \in Obj /\ p # o /\ r # o
    BY Kinship
  <2>2. p \notin Members(r) /\ r \notin Members(p)
    BY <2>1, Kinship
  <2>3. \A x \in Members(p) : x \notin Members(r)
    BY <1>5, <2>1, Kinship
  <2>4. QED
    BY <1>5, <2>2, <2>3 DEF Branch
<1> HIDE DEF q
<1>6. 0 \in V
  <2>1. First(0) = {}
    OBVIOUS
  <2>2. Grown(s, s, {}, W)
    BY DEF Grown, Keeps
  <2> HIDE DEF First
  <2>3. Grown(s, f[0], First(0), W)
    BY <1>3, <2>1, <2>2
  <2>4. 0 \in 0 .. n
    BY <1>1
  <2>5. QED
    BY <2>3, <2>4
<1>7. ASSUME NEW i \in 1 .. n, i - 1 \in V PROVE i \in V
  <2>1. Grown(s, f[i - 1], First(i - 1), W)
    BY <1>7
  <2>2. First(i) = First(i - 1) \cup Branch(q[i])
    <3>1. \A j : j \in 1 .. i <=> j \in 1 .. (i - 1) \/ j = i
      BY <1>1
    <3>2. QED
      BY <3>1
  <2>3. \A x \in First(i - 1) : x \notin Branch(q[i]) /\ x \in Obj
    <3>1. \A j \in 1 .. (i - 1) : j \in 1 .. n /\ j # i
      BY <1>1
    <3>2. \A j \in 1 .. (i - 1) : q[j] # q[i] /\ q[j] \in Members(o) /\ q[i] \in Members(o)
      BY <1>1, <3>1
    <3>3. \A p \in Members(o) : Branch(p) \subseteq Obj
      BY Kinship DEF Branch
    <3>4. QED
      BY <1>5, <3>2, <3>3
  <2>4. q[i] \in Members(o) /\ f[i] = AddPart(f[i - 1], q[i], o)
    BY <1>1, <1>3
  <2> HIDE DEF First
  <2>5. First(i - 1) \cap Branch(q[i]) = {} /\ First(i - 1) \subseteq Obj
    BY <2>3
  <2>6. Sound(f[i - 1], TableSize) /\ \A x \in Branch(q[i]) : x \notin AliveIn(f[i - 1])
    BY <2>1, <2>3, <2>4 DEF Grown
  <2>7. q[i] \in W
    BY <2>4
  <2>8. Grown(f[i - 1], f[i], Branch(q[i]), W)
    BY <2>4, <2>6, <2>7, AddPartGrown
  <2>9. Grown(s, f[i], First(i), W)
    BY <2>1, <2>2, <2>5, <2>8, GrownTwice
  <2>10. i \in 0 .. n
    BY <1>1
  <2>11. QED
    BY <2>9, <2>10
<1>8. V \in SUBSET (0 .. n)
  OBVIOUS
<1>9. n \in V
  <2> HIDE DEF V
  <2>1. V = 0 .. n
    BY <1>1, <1>6, <1>7, <1>8, UpTo
  <2>2. QED
    BY <1>1, <2>1
<1>10. QED
  BY <1>3, <1>4, <1>9

\* A new object with its parts has owners who are alive.
LEMMA CreatedGrown ==
  ASSUME Sound(t, TableSize), NEW o \in Obj, o \notin Part,
         \A x \in Whole[o] : x \notin AliveIn(t),
         NEW creator \in AliveIn(t), Kind[creator] = "task"
  PROVE  LET u == Created(o, creator)
         IN  /\ Sound(u, TableSize) /\ AliveIn(u) = AliveIn(t) \cup Whole[o]
             /\ Keeps(t, u, Whole[o]) /\ u.fBequeathId = t.fBequeathId
             /\ \A x \in Whole[o] :
                  /\ u.fOwnerId[x] \in Whole[o] \cup {creator} /\ Rightful(x, u.fOwnerId[x])
                  /\ u.fAssignedOwnerId[x] \in Whole[o] \cup {creator}
                  /\ Rightful(x, u.fAssignedOwnerId[x])
             /\ Kept(o) => u.fOwnerId[o] = creator /\ u.fAssignedOwnerId[o] = creator
             /\ u.fDeferredId = t.fDeferredId /\ u.destroyed = t.destroyed
<1> DEFINE W == Whole[o] \cup {creator}
           w == IF Kind[o] = "task" THEN o ELSE creator
           u0 == Add(t, o, w)
           X == UNION {Branch(p) : p \in Members(o)}
           v == AddParts(u0, o)
           u == IF Kind[o] = "task" THEN [v EXCEPT !.fAssignedOwnerId[o] = creator] ELSE v
<1>1. Created(o, creator) = u
  BY DEF Created, AddParts
<1>2. /\ Whole[o] = {o} \cup X /\ Members(o) \subseteq Whole[o]
      /\ Whole[o] \subseteq Obj /\ \A x \in Whole[o] : x = o \/ x \in Part
  BY WholeIs
<1>3. creator \in Obj /\ w \in W /\ Rightful(o, w) /\ Rightful(o, creator)
  BY <1>2, AliveFacts DEF Rightful
<1> HIDE DEF W, w, u0, v, u
<1>4. Grown(t, u0, {o}, W)
  BY <1>2, <1>3, AddGrown DEF u0
<1>5. o \notin X
  <2>1. ASSUME NEW p \in Members(o) PROVE o \notin Branch(p)
    <3>1. Branch(p) \subseteq Part
      BY Kinship DEF Branch
    <3>2. QED
      BY <3>1
  <2>2. QED
    BY <2>1
<1>6. /\ Sound(u0, TableSize) /\ o \in W /\ Members(o) \subseteq W
      /\ \A p \in Members(o) : \A x \in Branch(p) : x \notin AliveIn(u0)
  <2>1. \A p \in Members(o) : \A x \in Branch(p) : x \in X
    OBVIOUS
  <2> HIDE DEF X
  <2>2. QED
    BY <1>2, <1>4, <1>5, <2>1 DEF Grown, W
<1>7. Grown(u0, v, X, W)
  BY <1>6, AddPartsGrown DEF v
<1> HIDE DEF X
<1>8. Grown(t, v, Whole[o], W)
  <2>1. {o} \cap X = {} /\ {o} \subseteq Obj
    BY <1>5
  <2>2. Grown(t, v, {o} \cup X, W)
    BY <1>4, <1>7, <2>1, GrownTwice
  <2>3. QED
    BY <1>2, <2>2
<1>9. v \in TableRecord /\ Sound(v, TableSize)
  BY <1>8 DEF Grown, Sound, Threads
<1>10. /\ SameLinks(v, u) /\ u.fOwnerId = v.fOwnerId /\ u.fBequeathId = v.fBequeathId
       /\ u.fInheritedId = v.fInheritedId
       /\ u.fDeferredId = v.fDeferredId /\ u.destroyed = v.destroyed
       /\ \A y \in Obj : u.fAssignedOwnerId[y] =
            IF Kind[o] = "task" /\ y = o THEN creator ELSE v.fAssignedOwnerId[y]
  <2>1. CASE Kind[o] = "task"
    BY <1>3, <1>9, <2>1 DEF u, SameLinks, TableRecord
  <2>2. CASE Kind[o] # "task"
    BY <1>9, <2>2 DEF u, SameLinks, TableRecord
  <2>3. QED
    BY <2>1, <2>2
<1>11. Sound(u, TableSize) /\ AliveIn(u) = AliveIn(v)
  BY <1>9, <1>10, SameLinksSound
<1>12. Keeps(t, u, Whole[o])
  BY <1>2, <1>8, <1>10 DEF Grown, Keeps
<1>13. ASSUME NEW x \in Whole[o]
       PROVE  /\ u.fOwnerId[x] \in W /\ Rightful(x, u.fOwnerId[x])
              /\ u.fAssignedOwnerId[x] \in W /\ Rightful(x, u.fAssignedOwnerId[x])
  <2>1. /\ v.fOwnerId[x] \in W /\ Rightful(x, v.fOwnerId[x])
        /\ v.fAssignedOwnerId[x] = v.fOwnerId[x] /\ x \in Obj
    BY <1>2, <1>8 DEF Grown
  <2>2. creator \in W
    BY DEF W
  <2>3. QED
    BY <1>3, <1>10, <2>1, <2>2
<1>14. Kept(o) => u.fOwnerId[o] = creator /\ u.fAssignedOwnerId[o] = creator
  <2> SUFFICES ASSUME Kept(o) PROVE u.fOwnerId[o] = creator /\ u.fAssignedOwnerId[o] = creator
    OBVIOUS
  <2>1. Kind[o] # "task"
    BY DEF Kept
  <2>2. u0.fOwnerId[o] = creator /\ u0.fAssignedOwnerId[o] = creator
    <3>1. t \in TableRecord
      BY DEF Sound, Threads
    <3>2. QED
      BY <1>3, <2>1, <3>1 DEF u0, w, Add, TableRecord
  <2>3. v.fOwnerId[o] = u0.fOwnerId[o] /\ v.fAssignedOwnerId[o] = u0.fAssignedOwnerId[o]
    BY <1>5, <1>7 DEF Grown, Keeps
  <2>4. QED
    BY <1>10, <2>1, <2>2, <2>3
<1>15. /\ AliveIn(u) = AliveIn(t) \cup Whole[o] /\ u.fBequeathId = t.fBequeathId
       /\ u.fDeferredId = t.fDeferredId /\ u.destroyed = t.destroyed
  BY <1>8, <1>10, <1>11 DEF Grown
<1>16. QED
  BY <1>1, <1>11, <1>12, <1>13, <1>14, <1>15 DEF W

LEMMA CreatedFit ==
  ASSUME NEW U, Fit(t, TableSize, U, {}), NEW o \in Obj, o \notin Part,
         \A x \in Whole[o] : x \notin U,
         NEW creator \in AliveIn(t), Kind[creator] = "task",
         Kept(o) => creator \in System
  PROVE  LET u == Created(o, creator)
         IN  /\ Fit(u, TableSize, U \cup Whole[o], {})
             /\ AliveIn(u) = AliveIn(t) \cup Whole[o] /\ Keeps(t, u, Whole[o])
             /\ Orphans(u) \subseteq Orphans(t)
             /\ u.fDeferredId = t.fDeferredId /\ u.destroyed = t.destroyed
<1> DEFINE u == Created(o, creator)
           V == U \cup Whole[o]
<1>1. /\ Sound(t, TableSize) /\ Core(t, U) /\ Unbequeathed(t) /\ Heirs(t) /\ Families(t, {})
      /\ Placed(t, U) /\ Forever(t) /\ KeptBySystem(t) /\ Mortal(t)
  BY DEF Fit, Core
<1>2. \A x \in Whole[o] : x \notin AliveIn(t)
  BY <1>1 DEF Placed
<1>3. /\ Sound(u, TableSize) /\ AliveIn(u) = AliveIn(t) \cup Whole[o]
      /\ Keeps(t, u, Whole[o]) /\ u.fBequeathId = t.fBequeathId
      /\ \A x \in Whole[o] :
           /\ u.fOwnerId[x] \in Whole[o] \cup {creator} /\ Rightful(x, u.fOwnerId[x])
           /\ u.fAssignedOwnerId[x] \in Whole[o] \cup {creator}
           /\ Rightful(x, u.fAssignedOwnerId[x])
      /\ Kept(o) => u.fOwnerId[o] = creator /\ u.fAssignedOwnerId[o] = creator
      /\ u.fDeferredId = t.fDeferredId /\ u.destroyed = t.destroyed
  BY <1>1, <1>2, CreatedGrown
<1> HIDE DEF u
<1>4. \A y \in AliveIn(t) :
        /\ y \in Obj /\ y \notin Whole[o]
        /\ u.fOwnerId[y] = t.fOwnerId[y] /\ u.fAssignedOwnerId[y] = t.fAssignedOwnerId[y]
        /\ u.fInheritedId[y] = t.fInheritedId[y]
  BY <1>2, <1>3, AliveFacts DEF Keeps
<1>5. Whole[o] \subseteq Obj /\ \A x \in Whole[o] : x = o \/ x \in Part
  BY WholeIs
<1>6. Placed(u, V)
  <2>1. AliveIn(u) \subseteq V /\ creator \in V
    BY <1>1, <1>3 DEF Placed
  <2>2. ASSUME NEW y \in AliveIn(u)
        PROVE  /\ Rightful(y, u.fOwnerId[y]) /\ Rightful(y, u.fAssignedOwnerId[y])
               /\ u.fAssignedOwnerId[y] \in V
    <3>1. CASE y \in AliveIn(t)
      BY <1>1, <1>4, <3>1 DEF Placed
    <3>2. CASE y \in Whole[o]
      BY <1>3, <2>1, <3>2
    <3>3. QED
      BY <1>3, <3>1, <3>2
  <2>3. QED
    BY <2>1, <2>2 DEF Placed
<1>7. Forever(u)
  BY <1>1, <1>3, <1>4 DEF Forever
<1>8. KeptBySystem(u)
  <2> SUFFICES ASSUME NEW y \in AliveIn(u), Kept(y)
               PROVE  u.fOwnerId[y] \in System \cup {y} /\ u.fAssignedOwnerId[y] \in System
    BY DEF KeptBySystem
  <2>1. CASE y \in AliveIn(t)
    BY <1>1, <1>4, <2>1 DEF KeptBySystem
  <2>2. CASE y \in Whole[o]
    <3>1. y \notin Part
      BY Kinship DEF Kept
    <3>2. QED
      BY <1>3, <1>5, <2>2, <3>1
  <2>3. QED
    BY <1>3, <2>1, <2>2
<1>9. Mortal(u)
  BY <1>1, <1>3 DEF Mortal
<1>10. Unbequeathed(u)
  BY <1>1, <1>3 DEF Unbequeathed
<1>11. Heirs(u)
  <2> SUFFICES ASSUME NEW a \in AliveIn(u), u.fBequeathId[a] # None
               PROVE  HeirOf(u, a, u.fBequeathId[a])
    BY DEF Heirs
  <2> DEFINE h == t.fBequeathId[a]
  <2>1. a \in AliveIn(t)
    BY <1>1, <1>3, AliveFacts DEF Unbequeathed
  <2>2. HeirOf(t, a, h) /\ u.fBequeathId[a] = h
    BY <1>1, <1>3, <2>1 DEF Heirs
  <2> HIDE DEF h
  <2>3. /\ h \in AliveIn(u) /\ Kind[h] = "task" /\ u.fInheritedId[h] = t.fInheritedId[h]
        /\ u.fAssignedOwnerId[h] = t.fAssignedOwnerId[h]
    BY <1>3, <1>4, <2>2 DEF HeirOf
  <2>4. t.fAssignedOwnerId[h] \notin AliveIn(t) => t.fAssignedOwnerId[h] \notin AliveIn(u)
    <3>1. t.fAssignedOwnerId[h] \in U
      BY <1>1, <2>2 DEF Placed, HeirOf
    <3>2. QED
      BY <1>3, <3>1
  <2>5. HeirOf(u, a, h)
    BY <2>2, <2>3, <2>4 DEF HeirOf
  <2>6. QED
    BY <2>2, <2>5
<1>12. Families(u, {})
  <2> SUFFICES ASSUME NEW w \in Obj, NEW x \in Members(w)
               PROVE  x \in AliveIn(u) <=> w \in AliveIn(u)
    BY DEF Families
  <2>1. x \in AliveIn(t) <=> w \in AliveIn(t)
    BY <1>1 DEF Families
  <2>2. x \in Whole[o] <=> w \in Whole[o]
    <3>1. Whole[o] = {o} \cup UNION {Branch(p) : p \in Members(o)} /\ Members(o) \subseteq Obj
      BY WholeIs, Kinship
    <3>2. ASSUME w \in Whole[o] PROVE x \in Whole[o]
      <4>1. CASE w = o
        BY <3>1, <4>1 DEF Branch
      <4>2. CASE w # o
        <5>1. PICK p \in Members(o) : w \in Branch(p)
          BY <3>1, <3>2, <4>2
        <5>2. w \notin Members(p)
          <6>1. w \in Members(p) => Kind[p] # "leaf"
            BY <3>1, Kinship
          <6>2. Kind[p] \in {"task", "leaf"}
            BY Kinship
          <6>3. w \in Members(p) /\ Kind[p] = "task" => Kind[w] = "leaf"
            BY <3>1, Kinship
          <6>4. Kind[w] # "leaf"
            BY Kinship
          <6>5. QED
            BY <6>1, <6>2, <6>3, <6>4
        <5>3. w = p
          BY <5>1, <5>2 DEF Branch
        <5>4. QED
          BY <3>1, <5>1, <5>3 DEF Branch
      <4>3. QED
        BY <4>1, <4>2
    <3>3. ASSUME x \in Whole[o] PROVE w \in Whole[o]
      <4>1. x # o
        BY Kinship
      <4>2. PICK p \in Members(o) : x \in Branch(p)
        BY <3>1, <3>3, <4>1
      <4>3. CASE x = p
        BY <3>1, <4>3, Kinship
      <4>4. CASE x \in Members(p)
        <5>1. w = p
          BY <3>1, <4>4, Kinship
        <5>2. QED
          BY <3>1, <5>1 DEF Branch
      <4>5. QED
        BY <4>2, <4>3, <4>4 DEF Branch
    <3>4. QED
      BY <3>2, <3>3
  <2>3. QED
    BY <1>3, <2>1, <2>2
<1>13. Orphans(u) \subseteq Orphans(t)
  <2> SUFFICES ASSUME NEW y \in Orphans(u) PROVE y \in Orphans(t)
    OBVIOUS
  <2>1. y \in AliveIn(u) /\ u.fOwnerId[y] # y /\ u.fOwnerId[y] \notin AliveIn(u)
    BY DEF Orphans
  <2>2. y \notin Whole[o]
    BY <1>3, <2>1
  <2>3. y \in AliveIn(t)
    BY <1>3, <2>1, <2>2
  <2>4. QED
    BY <1>3, <1>4, <2>1, <2>3 DEF Orphans
<1>14. Core(u, V)
  BY <1>6, <1>7, <1>8, <1>9 DEF Core
<1>15. Fit(u, TableSize, V, {})
  BY <1>3, <1>10, <1>11, <1>12, <1>14 DEF Fit
<1>16. QED
  BY <1>3, <1>13, <1>15 DEF u

-----------------------------------------------------------------------------
(* The invariant, and that every step keeps it.                            *)

\* who has lost its owner is met by the walk under way, or asks for one
Settled(s, e) == s.destroyed \/ \A o \in Orphans(s) : Hash[o] > e \/ o \in Ahead(s)

\* an object that was never made has no part that was
Fresh(U) == \A o \in Obj \ Part : o \notin U => \A x \in Whole[o] : x \notin U

\* e is the entry of the walk
InvAt(s, e, U) == Fit(s, e, U, {}) /\ Settled(s, e) /\ Fresh(U) /\ U \subseteq Obj

Inv == pass \in 0 .. TableSize /\ InvAt(t, TableSize - pass, used)

\* Numbers of entries.
LEMMA Walking ==
  ASSUME Inv
  PROVE  /\ TableSize \in Nat \ {0} /\ pass \in 0 .. TableSize
         /\ TableSize - pass \in 0 .. TableSize
         /\ pass = 0 => TableSize - pass = TableSize
         /\ pass # 0 => /\ TableSize - pass \in Entries /\ pass - 1 \in 0 .. TableSize
                        /\ TableSize - (pass - 1) = TableSize - pass + 1
BY Constants DEF Inv, Entries

\* A change of the chains or of the walk only.
LEMMA SameFit ==
  ASSUME NEW s, NEW u, NEW e, NEW n, NEW U, Fit(s, e, U, {}), Sound(u, n),
         AliveIn(u) = AliveIn(s), SameFields(s, u)
  PROVE  Fit(u, n, U, {}) /\ Orphans(u) = Orphans(s)
<1>1. \A o : Rightful(o, u.fOwnerId[o]) = Rightful(o, s.fOwnerId[o])
  BY DEF SameFields
<1>2. Core(u, U)
  BY DEF Fit, Core, SameFields, Placed, Forever, KeptBySystem, Mortal
<1>3. Unbequeathed(u) /\ Heirs(u) /\ Families(u, {})
  BY DEF Fit, SameFields, Unbequeathed, Heirs, HeirOf, Families
<1>4. QED
  BY <1>2, <1>3 DEF Fit, Orphans, SameFields

\* A removal leaves no orphan behind.
LEMMA CutSettled ==
  ASSUME NEW s, NEW u, NEW e, NEW U, NEW X, Cut(s, u, e, U, {}, X), Settled(s, e)
  PROVE  Settled(u, e)
<1> SUFFICES ASSUME ~u.destroyed, NEW o \in Orphans(u) PROVE Hash[o] > e \/ o \in Ahead(u)
  BY DEF Settled
<1>1. o \in Orphans(s) /\ ~s.destroyed
  BY DEF Cut
<1>2. o \notin X
  BY DEF Cut, Orphans
<1>3. QED
  BY <1>1, <1>2 DEF Cut, Settled

\* Objects are made apart from each other.
LEMMA WholesApart ==
  ASSUME NEW o \in Obj \ Part, NEW w \in Obj \ Part, o # w, NEW x \in Whole[o]
  PROVE  x \notin Whole[w]
<1> SUFFICES ASSUME x \in Whole[w] PROVE FALSE
  OBVIOUS
<1>1. /\ Whole[o] = {o} \cup UNION {Branch(p) : p \in Members(o)}
      /\ Whole[w] = {w} \cup UNION {Branch(p) : p \in Members(w)}
  BY WholeIs
<1>2. /\ \A y \in Obj : Members(y) \subseteq Obj \cap Part
      /\ \A y, z \in Obj : \A v \in Members(y) : v \in Members(z) => y = z
      /\ \A y \in Obj : Kind[y] \in {"leaf", "kept"} => Members(y) = {}
      /\ \A y \in Obj : Kind[y] = "task" => \A v \in Members(y) : Kind[v] = "leaf"
      /\ \A y \in Obj : \A v \in Members(y) : Kind[v] \in {"task", "leaf"}
  BY Kinship
<1>3. CASE x = o
  <2>1. PICK p \in Members(w) : o \in Branch(p)
    BY <1>1, <1>3
  <2>2. QED
    BY <1>2, <2>1 DEF Branch
<1>4. CASE x # o
  <2>1. PICK p \in Members(o) : x \in Branch(p)
    BY <1>1, <1>4
  <2>2. x \in Part
    BY <1>2, <2>1 DEF Branch
  <2>3. PICK q \in Members(w) : x \in Branch(q)
    BY <1>1, <2>2
  <2>4. p \in Obj /\ q \in Obj /\ p # q /\ p \in Part /\ q \in Part
    BY <1>2, <2>1, <2>3
  <2>5. CASE x = p
    <3>1. x \in Members(q)
      BY <2>3, <2>4, <2>5 DEF Branch
    <3>2. q = o
      BY <1>2, <2>1, <2>4, <2>5, <3>1
    <3>3. QED
      BY <2>4, <3>2
  <2>6. CASE x # p
    <3>1. x \in Members(p)
      BY <2>1, <2>6 DEF Branch
    <3>2. x = q
      BY <1>2, <2>3, <2>4, <3>1 DEF Branch
    <3>3. p = w
      BY <1>2, <2>3, <2>4, <3>1, <3>2
    <3>4. QED
      BY <2>4, <3>3
  <2>7. QED
    BY <2>5, <2>6
<1>5. QED
  BY <1>3, <1>4

\* The end of a request.
LEMMA EndRequestInv ==
  ASSUME pass = 0, NEW s, NEW U, InvAt(s, TableSize, U), EndRequest(s)
  PROVE  pass' \in 0 .. TableSize /\ InvAt(t', TableSize - pass', U)
<1>1. TableSize \in Nat \ {0} /\ 0 \in Entries
  BY Constants DEF Entries
<1>2. CASE ~s.destroyed
  <2>1. t' = s /\ pass' = 0
    BY <1>2 DEF EndRequest
  <2>2. TableSize - pass' = TableSize
    BY <1>1, <2>1
  <2>3. QED
    BY <1>1, <2>1, <2>2
<1>3. CASE s.destroyed
  <2>1. /\ pass' = TableSize
        /\ t' = [s EXCEPT !.destroyed = FALSE, !.fThisObj = s.fObject[0], !.fPrevObj = None]
    BY <1>3 DEF EndRequest
  <2>2. s \in TableRecord /\ Sound(s, TableSize)
    BY DEF InvAt, Fit, Sound, Threads
  <2>3. /\ t' \in TableRecord /\ t'.fObject = s.fObject /\ t'.fNext = s.fNext
        /\ t'.fPrevObj = None /\ t'.fThisObj = s.fObject[0]
        /\ SameFields(s, t') /\ ~t'.destroyed
    BY <1>1, <2>1, <2>2 DEF TableRecord, SameFields
  <2>4. 0 \in 0 .. TableSize /\ 0 # TableSize /\ TableSize - pass' = 0
    BY <1>1, <2>1
  <2>5. Sound(t', 0) /\ AliveIn(t') = AliveIn(s) /\ Ahead(t') = Hashed(t', 0)
    BY <2>2, <2>3, <2>4, HeadSound
  <2>6. Fit(t', 0, U, {})
    BY <2>3, <2>5, SameFit DEF InvAt
  <2>7. Settled(t', 0)
    <3>1. ASSUME NEW o \in Orphans(t') PROVE Hash[o] > 0 \/ o \in Ahead(t')
      <4>1. o \in AliveIn(t') /\ o \in Obj
        BY AliveFacts DEF Orphans
      <4>2. Hash[o] \in Nat
        BY <1>1, <4>1, Constants DEF Entries
      <4>3. QED
        BY <2>5, <4>1, <4>2 DEF Hashed
    <3>2. QED
      BY <3>1 DEF Settled
  <2>8. QED
    BY <1>1, <2>1, <2>4, <2>6, <2>7 DEF InvAt
<1>4. QED
  BY <1>2, <1>3

\* Who runs, and what a request finds.
LEMMA RunningFacts ==
  ASSUME NEW a \in Running
  PROVE  /\ a \in AliveIn(t) /\ a \in Obj /\ Kind[a] = "task" /\ a \notin Part
         /\ a # t.fDeferredId
BY DEF Running, Tasks, AliveIn

LEMMA CreateInv ==
  ASSUME KeptOwners \subseteq System, Inv, NEW a \in Running, NEW o \in Obj, NEW fails \in BOOLEAN,
         Create(a, o, fails)
  PROVE  Inv'
<1> DEFINE u == Created(o, a)
           r == IF fails THEN RemoveObject(u, o) ELSE u
           V == used \cup Whole[o]
<1>1. pass = 0 /\ InvAt(t, TableSize, used)
  BY Walking DEF Create, Serving, Inv
<1>2. o \notin Part /\ o \notin used /\ (Kept(o) => a \in System)
  BY DEF Create
<1>3. EndRequest(r) /\ used' = V
  BY DEF Create
<1>5. Fresh(used) /\ used \subseteq Obj /\ Fit(t, TableSize, used, {}) /\ Settled(t, TableSize)
  BY <1>1 DEF InvAt
<1>6. /\ Fit(u, TableSize, V, {}) /\ AliveIn(u) = AliveIn(t) \cup Whole[o]
      /\ Orphans(u) \subseteq Orphans(t) /\ u.destroyed = t.destroyed
  <2>1. \A x \in Whole[o] : x \notin used
    BY <1>2, <1>5 DEF Fresh
  <2>2. a \in AliveIn(t) /\ Kind[a] = "task"
    BY RunningFacts
  <2>3. Fit(t, TableSize, used, {}) /\ o \in Obj /\ o \notin Part /\ (Kept(o) => a \in System)
    BY <1>2, <1>5
  <2>4. /\ Fit(u, TableSize, V, {}) /\ AliveIn(u) = AliveIn(t) \cup Whole[o]
        /\ Keeps(t, u, Whole[o]) /\ Orphans(u) \subseteq Orphans(t)
        /\ u.fDeferredId = t.fDeferredId /\ u.destroyed = t.destroyed
    BY ONLY <2>1, <2>2, <2>3, CreatedFit
  <2>5. QED
    BY <2>4
<1> HIDE DEF u
<1>7. Settled(u, TableSize)
  <2> SUFFICES ASSUME ~u.destroyed, NEW x \in Orphans(u) PROVE FALSE
    BY DEF Settled
  <2>1. Sound(t, TableSize)
    BY <1>5 DEF Fit
  <2>2. Ahead(t) = {}
    BY <2>1, IdleWalk
  <2>3. x \in Orphans(t) /\ x \in Obj
    BY <1>6, AliveFacts DEF Orphans
  <2>4. Hash[x] > TableSize
    BY <1>5, <1>6, <2>2, <2>3 DEF Settled
  <2>5. QED
    BY <2>3, <2>4, Constants DEF Entries
<1>8. Fit(r, TableSize, V, {}) /\ Settled(r, TableSize)
  <2>1. CASE fails
    <3>1. o \notin System
      BY <1>2, <1>5 DEF Fit, Core, Forever, Placed
    <3>2. Cut(u, RemoveObject(u, o), TableSize, V, {}, Taking(o))
      BY <1>2, <1>6, <3>1, RemoveObjectCut
    <3>3. Cut(u, r, TableSize, V, {}, Taking(o))
      BY <2>1, <3>2
    <3> HIDE DEF r
    <3>4. QED
      BY <1>7, <3>3, CutSettled DEF Cut
  <2>2. CASE ~fails
    BY <1>6, <1>7, <2>2
  <2>3. QED
    BY <2>1, <2>2
<1> HIDE DEF r
<1>9. Fresh(V) /\ V \subseteq Obj
  <2>1. Whole[o] \subseteq Obj
    BY WholeIs
  <2>2. ASSUME NEW w \in Obj \ Part, w \notin V, NEW x \in Whole[w] PROVE x \notin V
    <3>1. x \notin used
      BY <1>5, <2>2 DEF Fresh
    <3>2. o \in Whole[o]
      BY WholeIs
    <3>3. x \notin Whole[o]
      BY <1>2, <2>2, <3>2, WholesApart
    <3>4. QED
      BY <3>1, <3>3
  <2>3. QED
    BY <1>5, <2>1, <2>2 DEF Fresh
<1> HIDE DEF V
<1>10. InvAt(r, TableSize, V)
  BY <1>8, <1>9 DEF InvAt
<1>11. QED
  BY <1>1, <1>3, <1>10, EndRequestInv DEF Inv

LEMMA DestroyInv ==
  ASSUME Inv, NEW a \in Running, NEW o \in Obj, Destroy(a, o)
  PROVE  Inv'
<1> DEFINE r == RemoveObject(t, o)
<1>1. pass = 0 /\ InvAt(t, TableSize, used)
  BY Walking DEF Destroy, Serving, Inv
<1>2. o \notin Part /\ o # a /\ Exists(t, o) /\ t.fOwnerId[o] = a /\ EndRequest(r) /\ used' = used
  BY DEF Destroy
<1>3. Fit(t, TableSize, used, {}) /\ Settled(t, TableSize)
  BY <1>1 DEF InvAt
<1>4. o \notin System
  BY <1>2, <1>3 DEF Fit, Core, Forever
<1>5. Cut(t, r, TableSize, used, {}, Taking(o))
  BY <1>2, <1>3, <1>4, RemoveObjectCut
<1> HIDE DEF r
<1>6. Settled(r, TableSize) /\ Fit(r, TableSize, used, {})
  BY <1>3, <1>5, CutSettled DEF Cut
<1>7. InvAt(r, TableSize, used)
  BY <1>1, <1>6 DEF InvAt
<1>8. QED
  BY <1>1, <1>2, <1>7, EndRequestInv DEF Inv

\* The field fDeferredId is none of the table's.
LEMMA DeferredFit ==
  ASSUME NEW s, NEW e, NEW U, Fit(s, e, U, {}), NEW d \in Obj \cup {None},
         d # None => d \notin System \cup Part /\ Kind[d] = "task"
  PROVE  LET u == [s EXCEPT !.fDeferredId = d]
         IN  /\ Fit(u, e, U, {}) /\ AliveIn(u) = AliveIn(s)
             /\ Settled(s, e) => Settled(u, e)
<1> DEFINE u == [s EXCEPT !.fDeferredId = d]
<1>1. s \in TableRecord /\ Sound(s, e)
  BY DEF Fit, Sound, Threads
<1>2. /\ SameLinks(s, u) /\ u.fDeferredId = d /\ u.destroyed = s.destroyed
      /\ u.fOwnerId = s.fOwnerId /\ u.fAssignedOwnerId = s.fAssignedOwnerId
      /\ u.fBequeathId = s.fBequeathId /\ u.fInheritedId = s.fInheritedId
  BY <1>1 DEF SameLinks, TableRecord
<1> HIDE DEF u
<1>3. Sound(u, e) /\ AliveIn(u) = AliveIn(s) /\ Ahead(u) = Ahead(s)
  BY <1>1, <1>2, SameLinksSound
<1>4. Placed(u, U) /\ Forever(u) /\ KeptBySystem(u)
  BY <1>2, <1>3 DEF Fit, Core, Placed, Forever, KeptBySystem
<1>5. Mortal(u)
  BY <1>2 DEF Mortal
<1>6. Unbequeathed(u) /\ Heirs(u) /\ Families(u, {})
  BY <1>2, <1>3 DEF Fit, Unbequeathed, Heirs, HeirOf, Families
<1>7. Fit(u, e, U, {})
  BY <1>3, <1>4, <1>5, <1>6 DEF Fit, Core
<1>8. Settled(s, e) => Settled(u, e)
  BY <1>2, <1>3 DEF Settled, Orphans
<1>9. QED
  BY <1>3, <1>7, <1>8 DEF u

LEMMA TaskKillSelfInv ==
  ASSUME Inv, NEW a \in Running, TaskKillSelf(a)
  PROVE  Inv'
<1>1. /\ a \in Obj /\ a \notin System \cup Part /\ Kind[a] = "task"
      /\ t' = [t EXCEPT !.fDeferredId = a] /\ pass' = pass /\ used' = used
  BY RunningFacts DEF TaskKillSelf
<1>2. InvAt(t, TableSize - pass, used)
  BY DEF Inv
<1>3. Fit(t', TableSize - pass, used, {}) /\ Settled(t', TableSize - pass)
  BY <1>1, <1>2, DeferredFit DEF InvAt
<1>4. QED
  BY <1>1, <1>2, <1>3 DEF Inv, InvAt

LEMMA RemoveDeferredInv ==
  ASSUME Inv, RemoveDeferred
  PROVE  Inv'
<1> DEFINE o == t.fDeferredId
           r == RemoveObject(t, o)
           e == TableSize - pass
<1>1. /\ o # None /\ t' = [r EXCEPT !.fDeferredId = None] /\ pass' = pass /\ used' = used
  BY DEF RemoveDeferred
<1>2. InvAt(t, e, used)
  BY DEF Inv
<1>3. o \in Obj /\ o \notin System /\ o \notin Part
  BY <1>1, <1>2 DEF InvAt, Fit, Core, Mortal
<1> HIDE DEF o
<1>4. Cut(t, r, e, used, {}, Taking(o))
  BY <1>2, <1>3, RemoveObjectCut DEF InvAt
<1> HIDE DEF r
<1>5. Fit(r, e, used, {}) /\ Settled(r, e)
  BY <1>2, <1>4, CutSettled DEF Cut, InvAt
<1>6. Fit(t', e, used, {}) /\ Settled(t', e)
  BY <1>1, <1>5, DeferredFit
<1>7. QED
  BY <1>1, <1>2, <1>6 DEF Inv, InvAt

\* Who has no owner is no system task, no part and nothing kept.
LEMMA OrphanIs ==
  ASSUME NEW s, NEW e, NEW U, Fit(s, e, U, {}), NEW o \in AliveIn(s)
  PROVE  /\ Orphan(s, o) <=> o \in Orphans(s)
         /\ Orphan(s, o) => o \notin System /\ o \notin Part /\ ~Kept(o)
<1>1. o \in Obj /\ Rightful(o, s.fOwnerId[o]) /\ s.fOwnerId[o] \in Obj
  BY AliveFacts DEF Fit, Core, Placed, Rightful
<1>2. Exists(s, s.fOwnerId[o]) <=> s.fOwnerId[o] \in AliveIn(s)
  BY <1>1 DEF AliveIn
<1>3. Orphan(s, o) <=> o \in Orphans(s)
  BY <1>2 DEF Orphan, Orphans
<1>4. ASSUME o \in Orphans(s) PROVE o \notin System /\ o \notin Part /\ ~Kept(o)
  <2>1. s.fOwnerId[o] # o /\ s.fOwnerId[o] \notin AliveIn(s)
    BY <1>4 DEF Orphans
  <2>2. o \notin System
    BY <2>1 DEF Fit, Core, Forever
  <2>3. o \notin Members(s.fOwnerId[o])
    BY <1>1, <2>1 DEF Fit, Families
  <2>4. o \notin Part
    BY <1>1, <2>1, <2>3 DEF Rightful
  <2>5. ~Kept(o)
    BY <2>1 DEF Fit, Core, KeptBySystem, Forever
  <2>6. QED
    BY <2>2, <2>4, <2>5
<1>5. QED
  BY <1>3, <1>4

LEMMA ScavengeObjectInv ==
  ASSUME Inv, ScavengeObject
  PROVE  Inv'
<1> DEFINE o == t.fThisObj
           s == [t EXCEPT !.fOwnerId[o] = o]
           e == TableSize - pass
<1>1. o # None /\ Orphan(t, o) /\ pass' = pass /\ used' = used
  BY DEF ScavengeObject
<1>2. InvAt(t, e, used) /\ Fit(t, e, used, {}) /\ Settled(t, e) /\ Sound(t, e)
  BY DEF Inv, InvAt, Fit
<1>3. /\ o \in Obj /\ Exists(t, o) /\ Sound(s, e)
      /\ ScavengeUnlink(t, o) = Unlink(s, o)
  BY <1>1, <1>2, ScavengeUnlinkIs
<1>4. o \in AliveIn(t)
  BY <1>3 DEF AliveIn
<1>5. o \notin System /\ o \notin Part /\ ~Kept(o)
  BY <1>1, <1>2, <1>4, OrphanIs
<1>6. t' = Delete(ScavengeUnlink(t, o), o)
  BY <1>5 DEF ScavengeObject, ScavengeUnlink
<1> HIDE DEF o
<1>7. Cut(t, s, e, used, {}, {})
  BY <1>2, <1>4, SelfOwnedCut
<1> HIDE DEF s, e
<1>8. Fit(s, e, used, {}) /\ Settled(s, e) /\ o \in AliveIn(s)
  BY <1>2, <1>4, <1>7, CutSettled DEF Cut
<1>9. Cut(s, Delete(Unlink(s, o), o), e, used, {}, Whole[o])
  BY <1>5, <1>8, DeleteCut
<1>10. Cut(s, t', e, used, {}, Whole[o])
  BY <1>3, <1>6, <1>9
<1>11. Fit(t', e, used, {}) /\ Settled(t', e)
  BY <1>8, <1>10, CutSettled DEF Cut
<1>12. QED
  BY <1>1, <1>2, <1>11 DEF Inv, InvAt, e

LEMMA PassObjectInv ==
  ASSUME Inv, PassObject
  PROVE  Inv'
<1> DEFINE e == TableSize - pass
<1>1. /\ t.fThisObj # None /\ ~Orphan(t, t.fThisObj) /\ t' = Passed(t)
      /\ pass' = pass /\ used' = used
  BY DEF PassObject, Passed
<1>2. InvAt(t, e, used) /\ Fit(t, e, used, {}) /\ Settled(t, e) /\ Sound(t, e)
  BY DEF Inv, InvAt, Fit
<1> HIDE DEF e
<1>3. /\ Sound(t', e) /\ AliveIn(t') = AliveIn(t) /\ Ahead(t') = Ahead(t) \ {t.fThisObj}
      /\ SameFields(t, t') /\ t'.destroyed = t.destroyed
  BY <1>1, <1>2, PassSound
<1>4. Fit(t', e, used, {}) /\ Orphans(t') = Orphans(t)
  BY <1>2, <1>3, SameFit
<1>5. t.fThisObj \notin Orphans(t)
  BY <1>1, <1>2, OrphanIs DEF Orphans
<1>6. Settled(t', e)
  BY <1>2, <1>3, <1>4, <1>5 DEF Settled
<1>7. QED
  BY <1>1, <1>2, <1>4, <1>6 DEF Inv, InvAt, e

LEMMA NextEntryInv ==
  ASSUME Inv, NextEntry
  PROVE  Inv'
<1> DEFINE e == TableSize - pass
           n == e + 1
<1>1. /\ pass # 0 /\ t.fThisObj = None /\ pass' = pass - 1 /\ used' = used
      /\ t' = [t EXCEPT !.fPrevObj = None,
                        !.fThisObj = IF pass = 1 THEN None ELSE t.fObject[TableSize - pass + 1]]
  BY DEF NextEntry
<1>2. InvAt(t, e, used) /\ Fit(t, e, used, {}) /\ Settled(t, e) /\ Sound(t, e) /\ t \in TableRecord
  BY DEF Inv, InvAt, Fit, Sound, Threads
<1>3. /\ TableSize \in Nat \ {0} /\ pass \in 1 .. TableSize
      /\ e \in Entries /\ n \in 0 .. TableSize /\ TableSize - pass' = n
      /\ pass' \in 0 .. TableSize
      /\ pass = 1 <=> n = TableSize
      /\ n # TableSize => n \in Entries
  BY <1>1, Walking DEF Entries
<1>4. /\ t' \in TableRecord /\ t'.fObject = t.fObject /\ t'.fNext = t.fNext /\ t'.fPrevObj = None
      /\ t'.fThisObj = IF n = TableSize THEN None ELSE t.fObject[n]
      /\ SameFields(t, t') /\ t'.destroyed = t.destroyed
  <2> DEFINE first == IF n = TableSize THEN None ELSE t.fObject[n]
  <2>1. t' = [t EXCEPT !.fPrevObj = None, !.fThisObj = first]
    BY <1>1, <1>3
  <2>2. first \in Obj \cup {None}
    BY <1>2, <1>3 DEF TableRecord
  <2> HIDE DEF first
  <2>3. /\ t' \in TableRecord /\ t'.fObject = t.fObject /\ t'.fNext = t.fNext /\ t'.fPrevObj = None
        /\ t'.fThisObj = first
        /\ SameFields(t, t') /\ t'.destroyed = t.destroyed
    BY <1>2, <2>1, <2>2 DEF TableRecord, SameFields
  <2>4. QED
    BY <2>3 DEF first
<1> HIDE DEF n
<1>5. Sound(t', n) /\ AliveIn(t') = AliveIn(t) /\ Ahead(t') = Hashed(t', n)
  BY <1>2, <1>3, <1>4, HeadSound
<1>6. Fit(t', n, used, {}) /\ Orphans(t') = Orphans(t)
  BY <1>2, <1>4, <1>5, SameFit
<1>7. Ahead(t) = {}
  BY <1>1, <1>2, AheadFacts
<1>8. Settled(t', n)
  <2> SUFFICES ASSUME ~t'.destroyed, NEW o \in Orphans(t') PROVE Hash[o] > n \/ o \in Ahead(t')
    BY DEF Settled
  <2>1. Hash[o] > e
    BY <1>2, <1>4, <1>6, <1>7 DEF Settled
  <2>2. o \in AliveIn(t') /\ o \in Obj
    BY AliveFacts DEF Orphans
  <2>3. Hash[o] \in Entries
    BY <2>2, Constants
  <2>4. Hash[o] > n \/ Hash[o] = n
    BY <1>3, <2>1, <2>3 DEF Entries, n
  <2>5. QED
    BY <1>5, <2>2, <2>4 DEF Hashed
<1>9. QED
  BY <1>1, <1>2, <1>3, <1>6, <1>8 DEF Inv, InvAt

\* What is assigned to a task that runs has never lost its place.
LEMMA AcceptObjectInv ==
  ASSUME Inv, NEW a \in Running, NEW o \in Obj, AcceptObject(a, o)
  PROVE  Inv'
<1> DEFINE e == TableSize - pass
<1>1. /\ o \in AliveIn(t) /\ t.fAssignedOwnerId[o] = a /\ t' = [t EXCEPT !.fOwnerId[o] = a]
      /\ pass' = pass /\ used' = used /\ a \in AliveIn(t) /\ a \in Obj
  BY RunningFacts DEF AcceptObject, AliveIn
<1>2. InvAt(t, e, used) /\ Fit(t, e, used, {}) /\ Settled(t, e) /\ Sound(t, e) /\ t \in TableRecord
  BY DEF Inv, InvAt, Fit, Sound, Threads
<1> HIDE DEF e
<1>3. /\ SameLinks(t, t') /\ t'.fAssignedOwnerId = t.fAssignedOwnerId
      /\ t'.fBequeathId = t.fBequeathId /\ t'.fInheritedId = t.fInheritedId
      /\ t'.fDeferredId = t.fDeferredId /\ t'.destroyed = t.destroyed
      /\ \A y \in Obj : t'.fOwnerId[y] = IF y = o THEN a ELSE t.fOwnerId[y]
  BY <1>1, <1>2 DEF SameLinks, TableRecord
<1>4. Sound(t', e) /\ AliveIn(t') = AliveIn(t) /\ Ahead(t') = Ahead(t)
  BY <1>2, <1>3, SameLinksSound
<1>5. Core(t, used) /\ Placed(t, used) /\ Forever(t) /\ KeptBySystem(t) /\ Mortal(t) /\ AliveIn(t) \subseteq Obj
  BY <1>2, AliveFacts DEF Fit, Core
<1>6. Placed(t', used)
  <2> SUFFICES ASSUME NEW y \in AliveIn(t)
               PROVE  /\ Rightful(y, t'.fOwnerId[y]) /\ Rightful(y, t'.fAssignedOwnerId[y])
                      /\ t'.fAssignedOwnerId[y] \in used
    BY <1>4, <1>5 DEF Placed
  <2>1. /\ Rightful(y, t.fOwnerId[y]) /\ Rightful(y, t.fAssignedOwnerId[y])
        /\ t.fAssignedOwnerId[y] \in used /\ y \in Obj
    BY <1>5 DEF Placed
  <2>2. t'.fOwnerId[y] = t.fOwnerId[y] \/ t'.fOwnerId[y] = t.fAssignedOwnerId[y]
    BY <1>1, <1>3, <2>1
  <2>3. QED
    BY <1>3, <2>1, <2>2
<1>7. Forever(t')
  BY <1>1, <1>3, <1>4, <1>5 DEF Forever
<1>8. KeptBySystem(t')
  BY <1>1, <1>3, <1>4, <1>5 DEF KeptBySystem
<1>9. Mortal(t') /\ Unbequeathed(t') /\ Heirs(t') /\ Families(t', {})
  BY <1>2, <1>3, <1>4, <1>5 DEF Fit, Mortal, Unbequeathed, Heirs, HeirOf, Families
<1>10. Fit(t', e, used, {})
  BY <1>4, <1>6, <1>7, <1>8, <1>9 DEF Fit, Core
<1>11. Orphans(t') \subseteq Orphans(t)
  BY <1>1, <1>3, <1>4, <1>5 DEF Orphans
<1>12. Settled(t', e)
  BY <1>2, <1>3, <1>4, <1>11 DEF Settled
<1>13. QED
  BY <1>1, <1>2, <1>10, <1>12 DEF Inv, InvAt, e

\* The heir of a fork is assigned to one task, so that nobody else bequeaths to it.
LEMMA BequeathInv ==
  ASSUME Inv, NEW a \in Running, NEW h \in Obj, Bequeath(a, h)
  PROVE  Inv'
<1> DEFINE e == TableSize - pass
<1>1. /\ a \in AliveIn(t) /\ a \in Obj /\ h \in AliveIn(t) /\ Kind[h] = "task" /\ h # a
      /\ h \in System \/ t.fAssignedOwnerId[h] = a
      /\ t' = SetBequeathId(t, a, h) /\ pass' = pass /\ used' = used
  BY RunningFacts DEF Bequeath, Tasks, AliveIn
<1>2. InvAt(t, e, used) /\ Fit(t, e, used, {}) /\ Settled(t, e) /\ Sound(t, e)
  BY DEF Inv, InvAt, Fit
<1> HIDE DEF e
<1>3. /\ Sound(t', e) /\ AliveIn(t') = AliveIn(t) /\ Ahead(t') = Ahead(t)
      /\ t'.fOwnerId = t.fOwnerId /\ t'.fAssignedOwnerId = t.fAssignedOwnerId
      /\ t'.fBequeathId = [t.fBequeathId EXCEPT ![a] = h]
      /\ \A y \in Obj : t'.fInheritedId[y] = IF y = h /\ h \in AliveIn(t) /\ Kind[h] = "task" THEN a
                                             ELSE t.fInheritedId[y]
      /\ t'.fDeferredId = t.fDeferredId /\ t'.destroyed = t.destroyed
  BY <1>1, <1>2, SetBequeathIdSound
<1>4. /\ \A y \in Obj : t'.fInheritedId[y] = IF y = h THEN a ELSE t.fInheritedId[y]
      /\ \A y \in Obj : t'.fBequeathId[y] = IF y = a THEN h ELSE t.fBequeathId[y]
  <2>1. t.fBequeathId \in [Obj -> Obj \cup {None}]
    BY <1>2 DEF Sound, Threads, TableRecord
  <2>2. QED
    BY <1>1, <1>3, <2>1
<1>5. Core(t', used)
  <2>1. Placed(t', used)
    BY <1>2, <1>3 DEF Fit, Core, Placed
  <2>2. Forever(t') /\ KeptBySystem(t') /\ Mortal(t')
    BY <1>2, <1>3 DEF Fit, Core, Forever, KeptBySystem, Mortal
  <2>3. QED
    BY <2>1, <2>2 DEF Core
<1>6. Unbequeathed(t') /\ Families(t', {})
  BY <1>1, <1>2, <1>3, <1>4 DEF Fit, Unbequeathed, Families
<1>7. Heirs(t')
  <2> SUFFICES ASSUME NEW b \in AliveIn(t), t'.fBequeathId[b] # None
               PROVE  HeirOf(t', b, t'.fBequeathId[b])
    BY <1>3 DEF Heirs
  <2>0. b \in Obj
    BY AliveFacts
  <2>1. CASE b = a
    BY <1>1, <1>3, <1>4, <2>1 DEF HeirOf
  <2>2. CASE b # a
    <3> DEFINE k == t.fBequeathId[b]
    <3>1. t'.fBequeathId[b] = k
      BY <1>4, <2>0, <2>2
    <3>2. HeirOf(t, b, k)
      BY <1>2, <3>1 DEF Fit, Heirs
    <3> HIDE DEF k
    <3>3. k \in AliveIn(t) /\ k \in Obj /\ Kind[k] = "task"
      BY <3>2, AliveFacts DEF HeirOf
    <3>4. CASE k \in System
      BY <1>3, <3>1, <3>3, <3>4 DEF HeirOf
    <3>5. CASE k \notin System
      <4>1. t.fInheritedId[k] = b /\ (t.fAssignedOwnerId[k] = b \/ t.fAssignedOwnerId[k] \notin AliveIn(t))
        BY <3>2, <3>5 DEF HeirOf
      <4>2. k # h
        BY <1>1, <2>2, <3>5, <4>1
      <4>3. t'.fInheritedId[k] = b
        BY <1>4, <3>3, <4>1, <4>2
      <4>4. QED
        BY <1>3, <3>1, <3>3, <4>1, <4>3 DEF HeirOf
    <3>6. QED
      BY <3>4, <3>5
  <2>3. QED
    BY <2>1, <2>2
<1>8. Fit(t', e, used, {})
  BY <1>3, <1>5, <1>6, <1>7 DEF Fit
<1>9. Settled(t', e)
  BY <1>2, <1>3 DEF Settled, Orphans
<1>10. QED
  BY <1>1, <1>2, <1>8, <1>9 DEF Inv, InvAt, e

-----------------------------------------------------------------------------
(* The objects that the system boots with.                                 *)

\* A finite set is listed once, and whole.
LEMMA Listed ==
  ASSUME NEW S, IsFiniteSet(S)
  PROVE  LET q == SetToSeq(S)
             n == Cardinality(S)
         IN  /\ n \in Nat /\ q \in [1 .. n -> S]
             /\ \A i, j \in 1 .. n : q[i] = q[j] => i = j
             /\ \A x \in S : \E i \in 1 .. n : x = q[i]
<1> DEFINE n == Cardinality(S)
           q == SetToSeq(S)
<1>1. n \in Nat /\ ExistsBijection(1 .. n, S)
  BY FS_CardinalityType
<1>2. PICK g : g \in Bijection(1 .. n, S)
  BY <1>1 DEF ExistsBijection
<1>3. g \in [1 .. n -> S] /\ IsInjective(g)
  BY <1>2 DEF Bijection, Injection
<1>4. q \in [1 .. n -> S] /\ IsInjective(q)
  BY <1>3 DEF SetToSeq
<1> HIDE DEF q
<1>5. IsFiniteSet(1 .. n) /\ Cardinality(1 .. n) = n
  <2>1. n \in Int /\ 1 \in Int
    BY <1>1
  <2>2. IsFiniteSet(1 .. n) /\ Cardinality(1 .. n) = IF 1 > n THEN 0 ELSE n - 1 + 1
    BY ONLY <2>1, FS_Interval
  <2>3. QED
    BY <1>1, <2>2
<1>6. q \in Injection(1 .. n, S)
  BY <1>4 DEF Injection
<1>7. q \in Surjection(1 .. n, S)
  BY <1>5, <1>6, FS_Injection
<1>8. QED
  BY <1>1, <1>4, <1>7 DEF Surjection, IsInjective, q

LEMMA BootSteps ==
  ASSUME NoObjects \in TableRecord, NEW n \in Nat, NEW q \in [1 .. n -> Obj]
  PROVE  \E f : /\ f[0] = NoObjects
                /\ \A i \in 1 .. n : f[i] = Add(f[i - 1], q[i], q[i])
                /\ Booted(q) = f[n]
<1> DEFINE s == NoObjects
           h == [p \in TableRecord \X (1 .. n) |-> Add(p[1], q[p[2]], q[p[2]])]
           IsIter(g) == g = [S \in SUBSET (1 .. n) |->
                               IF S = {} THEN s ELSE Add(g[S \ {Max(S)}], q[Max(S)], q[Max(S)])]
           it == CHOOSE g : IsIter(g)
<1>1. DOMAIN q = 1 .. n /\ \A i \in 1 .. n : q[i] \in Obj
  OBVIOUS
<1>2. h \in [TableRecord \X (1 .. n) -> TableRecord]
  BY <1>1, AddRecord
<1>3. \E g : IsIter(g) /\ g \in [SUBSET (1 .. n) -> TableRecord]
  <2> HIDE DEF h
  <2>0. PICK g : IsFold(g, TableRecord, n, s, h)
    BY <1>1, <1>2, Iterates
  <2>1. /\ g \in [SUBSET (1 .. n) -> TableRecord]
        /\ \A S \in SUBSET (1 .. n) :
             g[S] = IF S = {} THEN s ELSE h[<<g[S \ {Max(S)}], Max(S)>>]
    BY <2>0 DEF IsFold
  <2>2. ASSUME NEW S \in SUBSET (1 .. n), S # {}
        PROVE  h[<<g[S \ {Max(S)}], Max(S)>>] = Add(g[S \ {Max(S)}], q[Max(S)], q[Max(S)])
    <3>1. Max(S) \in 1 .. n
      BY <1>1, <2>2, MaxUpTo
    <3>2. g[S \ {Max(S)}] \in TableRecord
      BY <2>1
    <3>3. QED
      BY <3>1, <3>2 DEF h
  <2>3. \A S \in SUBSET (1 .. n) :
          g[S] = IF S = {} THEN s ELSE Add(g[S \ {Max(S)}], q[Max(S)], q[Max(S)])
    BY <2>1, <2>2
  <2>4. g = [S \in SUBSET (1 .. n) |-> g[S]]
    BY <2>1
  <2>5. IsIter(g)
    BY <2>3, <2>4
  <2>6. QED
    BY <2>1, <2>5
<1>4. IsIter(it)
  BY <1>3
<1>5. Booted(q) = it[1 .. n]
  BY <1>1 DEF Booted, FoldLeft, MapThenFoldSet
<1> HIDE DEF it, h, s
<1>6. \A S \in SUBSET (1 .. n) :
        it[S] = IF S = {} THEN s ELSE Add(it[S \ {Max(S)}], q[Max(S)], q[Max(S)])
  BY <1>4
<1> HIDE DEF IsIter
<1> DEFINE f == [i \in 0 .. n |-> it[1 .. i]]
<1>7. f[0] = s
  <2>1. 1 .. 0 = {} /\ 0 \in 0 .. n
    OBVIOUS
  <2>2. f[0] = it[1 .. 0]
    BY <2>1
  <2>3. QED
    BY <1>6, <2>1, <2>2
<1>8. ASSUME NEW i \in 1 .. n PROVE f[i] = Add(f[i - 1], q[i], q[i])
  <2>1. UpToPlace(n, i)
    BY ONLY n \in Nat, i \in 1 .. n, FirstPlaces
  <2>2. /\ 1 .. i \in SUBSET (1 .. n) /\ 1 .. i # {} /\ Max(1 .. i) = i
        /\ (1 .. i) \ {i} = 1 .. (i - 1)
    BY <2>1 DEF UpToPlace
  <2>3. it[1 .. i] = Add(it[1 .. (i - 1)], q[i], q[i])
    BY <1>6, <2>2
  <2>4. i \in 0 .. n /\ i - 1 \in 0 .. n
    OBVIOUS
  <2>5. QED
    BY <2>3, <2>4
<1>9. f[n] = it[1 .. n]
  OBVIOUS
<1> HIDE DEF f
<1>10. QED
  BY <1>5, <1>7, <1>8, <1>9 DEF s

\* A table without objects.
LEMMA EmptySound ==
  /\ Sound(NoObjects, TableSize) /\ AliveIn(NoObjects) = {}
  /\ \A o \in Obj : NoObjects.fBequeathId[o] = None
  /\ NoObjects.fDeferredId = None /\ ~NoObjects.destroyed
<1> DEFINE s == NoObjects
           cs == [b \in 0 .. TableSize |-> <<>>]
<1>1. /\ s \in TableRecord /\ s.fNext[None] = None /\ \A b \in Entries : s.fObject[b] = None
      /\ s.fThisObj = None /\ s.fPrevObj = None
      /\ \A o \in Obj : s.fBequeathId[o] = None
      /\ s.fDeferredId = None /\ ~s.destroyed
  BY DEF NoObjects, TableRecord, Entries
<1> HIDE DEF s
<1>2. /\ TableSize \in Nat \ {0} /\ TableSize \in 0 .. TableSize
      /\ \A b \in Entries : b \in 0 .. TableSize
  BY Constants DEF Entries
<1>3. /\ <<>> \in Seq(Obj) /\ Len(<<>>) = 0
      /\ \A k : Nth(<<>>, k) = None
      /\ \A k \in Nat : Rest(<<>>, 1) = {}
  BY DEF Nth, Rest
<1>4. Link(s.fNext, <<>>)
  BY <1>3 DEF Link
<1>5. cs \in [0 .. TableSize -> Seq(Obj)] /\ \A b \in 0 .. TableSize : cs[b] = <<>>
  BY <1>3
<1> HIDE DEF cs
<1>6. Threads(s, cs, TableSize, 1)
  BY <1>1, <1>2, <1>3, <1>4, <1>5 DEF Threads
<1>7. \A o \in Obj : ~Exists(s, o)
  <2>1. \A o \in Obj : Exists(s, o) <=> o \in Rest(cs[Hash[o]], 1)
    BY <1>6, ThreadsFacts
  <2>2. \A o \in Obj : cs[Hash[o]] = <<>>
    BY <1>2, <1>5, Constants
  <2>3. QED
    BY <1>3, <2>1, <2>2
<1>8. QED
  BY <1>1, <1>6, <1>7 DEF Sound, AliveIn, s

\* The objects of A are there, and own themselves.
OwnTasks(s, A) ==
  /\ Sound(s, TableSize) /\ AliveIn(s) = A
  /\ \A x \in A : s.fOwnerId[x] = x /\ s.fAssignedOwnerId[x] = x
  /\ \A o \in Obj : s.fBequeathId[o] = None
  /\ s.fDeferredId = None /\ ~s.destroyed

LEMMA InitOwnTasks ==
  ASSUME Init
  PROVE  OwnTasks(t, System)
<1> DEFINE q == SetToSeq(System)
           n == Cardinality(System)
           s == NoObjects
<1>1. IsFiniteSet(System) /\ System \subseteq Obj
  BY Constants, FS_Subset
<1>2. /\ n \in Nat /\ q \in [1 .. n -> System]
      /\ \A i, j \in 1 .. n : q[i] = q[j] => i = j
      /\ \A x \in System : \E i \in 1 .. n : x = q[i]
  BY <1>1, Listed
<1>3. t = Booted(q)
  BY DEF Init
<1> HIDE DEF q, n, s
<1>4. OwnTasks(s, {}) /\ s \in TableRecord
  BY EmptySound DEF OwnTasks, s, Sound, Threads
<1>5. \A i \in 1 .. n : q[i] \in Obj /\ q[i] \in System
  BY <1>1, <1>2
<1>6. PICK f : /\ f[0] = s
               /\ \A i \in 1 .. n : f[i] = Add(f[i - 1], q[i], q[i])
               /\ Booted(q) = f[n]
  <2>1. q \in [1 .. n -> Obj]
    BY <1>1, <1>2
  <2>2. QED
    BY <1>2, <1>4, <2>1, BootSteps DEF s
<1> DEFINE First(i) == {q[j] : j \in 1 .. i}
           V == {i \in 0 .. n : OwnTasks(f[i], First(i))}
<1>7. First(n) = System
  BY <1>2
<1>8. 0 \in V
  <2>1. First(0) = {} /\ 0 \in 0 .. n
    BY <1>2
  <2> HIDE DEF First
  <2>2. QED
    BY <1>4, <1>6, <2>1
<1>9. ASSUME NEW i \in 1 .. n, i - 1 \in V PROVE i \in V
  <2>1. OwnTasks(f[i - 1], First(i - 1))
    BY <1>9
  <2>2. First(i) = First(i - 1) \cup {q[i]}
    <3>1. \A j : j \in 1 .. i <=> j \in 1 .. (i - 1) \/ j = i
      BY <1>2
    <3>2. QED
      BY <3>1
  <2>3. q[i] \notin First(i - 1) /\ First(i - 1) \subseteq Obj
    <3>1. \A j \in 1 .. (i - 1) : j \in 1 .. n /\ j # i
      BY <1>2
    <3>2. \A j \in 1 .. (i - 1) : q[j] # q[i] /\ q[j] \in Obj
      BY <1>2, <1>5, <3>1
    <3>3. QED
      BY <3>2
  <2>4. q[i] \in Obj /\ f[i] = Add(f[i - 1], q[i], q[i])
    BY <1>5, <1>6
  <2> DEFINE r == f[i - 1]
             x == q[i]
             u == f[i]
  <2> HIDE DEF First
  <2>5. Sound(r, TableSize) /\ ~Exists(r, x)
    BY <2>1, <2>3, <2>4 DEF OwnTasks, AliveIn
  <2>6. u = Add(r, x, x) /\ x \in Obj
    BY <2>4
  <2> HIDE DEF r, x, u
  <2>7. /\ Sound(u, TableSize) /\ AliveIn(u) = AliveIn(r) \cup {x}
        /\ Keeps(r, u, {x}) /\ u.fOwnerId[x] = x /\ u.fAssignedOwnerId[x] = x
        /\ u.fBequeathId = r.fBequeathId
        /\ u.fDeferredId = r.fDeferredId /\ u.destroyed = r.destroyed
    BY <2>5, <2>6, AddSound
  <2>8. OwnTasks(u, First(i))
    <3>1. OwnTasks(r, First(i - 1)) /\ First(i) = First(i - 1) \cup {x} /\ First(i - 1) \subseteq Obj
      BY <2>1, <2>2, <2>3 DEF r, x
    <3>2. ASSUME NEW y \in First(i) PROVE u.fOwnerId[y] = y /\ u.fAssignedOwnerId[y] = y
      <4>1. CASE y = x
        BY <2>7, <4>1
      <4>2. CASE y # x
        BY <2>7, <3>1, <4>2 DEF OwnTasks, Keeps
      <4>3. QED
        BY <4>1, <4>2
    <3>3. AliveIn(u) = First(i)
      BY <2>7, <3>1 DEF OwnTasks
    <3>4. QED
      BY <2>7, <3>1, <3>2, <3>3 DEF OwnTasks
  <2>9. i \in 0 .. n
    BY <1>2
  <2>10. QED
    BY <2>8, <2>9 DEF u
<1>10. V \in SUBSET (0 .. n)
  OBVIOUS
<1>11. n \in V
  <2> HIDE DEF V
  <2>1. V = 0 .. n
    BY <1>2, <1>8, <1>9, <1>10, UpTo
  <2>2. QED
    BY <1>2, <2>1
<1>12. QED
  BY <1>3, <1>6, <1>7, <1>11

LEMMA InitInv ==
  ASSUME Init
  PROVE  Inv
<1>1. /\ OwnTasks(t, System) /\ pass = 0 /\ used = System
      /\ Sound(t, TableSize) /\ AliveIn(t) = System
      /\ \A x \in System : t.fOwnerId[x] = x /\ t.fAssignedOwnerId[x] = x
      /\ \A o \in Obj : t.fBequeathId[o] = None
      /\ t.fDeferredId = None
  <2>1. OwnTasks(t, System)
    BY InitOwnTasks
  <2>2. pass = 0 /\ used = System
    BY DEF Init
  <2>3. QED
    BY <2>1, <2>2 DEF OwnTasks
<1>2. System \subseteq Obj /\ TableSize \in Nat \ {0}
  BY Constants
<1>3. Placed(t, System)
  BY <1>1, <1>2 DEF Placed, Rightful
<1>4. Forever(t) /\ Mortal(t) /\ Unbequeathed(t) /\ Heirs(t)
  BY <1>1, <1>2 DEF Forever, Mortal, Unbequeathed, Heirs
<1>5. KeptBySystem(t)
  BY <1>1, Kinship DEF KeptBySystem, Kept
<1>6. Families(t, {})
  <2> SUFFICES ASSUME NEW w \in Obj, NEW x \in Members(w)
               PROVE  x \in System <=> w \in System
    BY <1>1 DEF Families
  <2>1. QED
    BY Kinship
<1>7. Fit(t, TableSize, System, {})
  BY <1>1, <1>3, <1>4, <1>5, <1>6 DEF Fit, Core
<1>8. Settled(t, TableSize)
  BY <1>1 DEF Settled, Orphans
<1>9. Fresh(System)
  <2> SUFFICES ASSUME NEW o \in Obj \ Part, o \notin System, NEW x \in Whole[o], x \in System
               PROVE  FALSE
    BY DEF Fresh
  <2>1. x = o \/ x \in Part
    BY WholeIs
  <2>2. QED
    BY <2>1, Kinship
<1>10. 0 \in 0 .. TableSize /\ TableSize - 0 = TableSize
  BY <1>2
<1>11. QED
  BY <1>1, <1>2, <1>7, <1>8, <1>9, <1>10 DEF Inv, InvAt

LEMMA NextInv ==
  ASSUME KeptOwners \subseteq System, Inv, [Next]_vars
  PROVE  Inv'
<1>1. CASE Next
  <2>1. ASSUME NEW a \in Running, Request(a) PROVE Inv'
    <3>1. CASE TaskKillSelf(a)
      BY <3>1, TaskKillSelfInv
    <3>2. ASSUME NEW o \in Obj, Create(a, o, TRUE) \/ Create(a, o, FALSE) \/ Destroy(a, o) PROVE Inv'
      <4>1. CASE Create(a, o, TRUE)
        BY <4>1, CreateInv
      <4>2. CASE Create(a, o, FALSE)
        BY <4>2, CreateInv
      <4>3. CASE Destroy(a, o)
        BY <4>3, DestroyInv
      <4>4. QED
        BY <3>2, <4>1, <4>2, <4>3
    <3>3. QED
      BY <2>1, <3>1, <3>2 DEF Request
  <2>2. ASSUME NEW a \in Running, NEW o \in Obj, AcceptObject(a, o) \/ Bequeath(a, o) PROVE Inv'
    BY <2>2, AcceptObjectInv, BequeathInv
  <2>3. CASE RemoveDeferred
    BY <2>3, RemoveDeferredInv
  <2>4. CASE Walk
    BY <2>4, ScavengeObjectInv, PassObjectInv, NextEntryInv DEF Walk
  <2>5. QED
    BY <1>1, <2>1, <2>2, <2>3, <2>4 DEF Next
<1>2. CASE UNCHANGED vars
  <2>1. t' = t /\ pass' = pass /\ used' = used
    BY <1>2 DEF vars
  <2>2. QED
    BY <2>1 DEF Inv
<1>3. QED
  BY <1>1, <1>2

LEMMA TableInvariant ==
  ASSUME KeptOwners \subseteq System
  PROVE  Spec => []Inv
<1>1. Init => Inv
  BY InitInv
<1>2. Inv /\ [Next]_vars => Inv'
  BY NextInv
<1>3. QED
  BY <1>1, <1>2, PTL DEF Spec

-----------------------------------------------------------------------------
(* What the invariant says of the chains.                                  *)

LEMMA AliveIs ==
  ASSUME Inv
  PROVE  Alive = AliveIn(t)
<1>1. Sound(t, TableSize - pass)
  BY DEF Inv, InvAt, Fit
<1>2. PICK cs, j : Threads(t, cs, TableSize - pass, j)
  BY <1>1 DEF Sound
<1>3. \A b \in Entries : /\ Linked(t, b) \subseteq Obj
                         /\ \A o \in Linked(t, b) : Hash[o] = b
  BY <1>2, ThreadsFacts
<1>4. \A o \in Obj : Hash[o] \in Entries
  BY Constants
<1>5. \A o \in Obj : o \in AliveIn(t) <=> o \in Linked(t, Hash[o])
  BY Constants DEF AliveIn, Exists
<1>6. Alive = UNION {Linked(t, b) : b \in Entries}
  BY DEF Alive, Entries
<1>7. QED
  BY <1>3, <1>4, <1>5, <1>6, AliveFacts

LEMMA InvWalkInChain ==
  ASSUME Inv
  PROVE  WalkInChain
<1> DEFINE e == TableSize - pass
<1>1. Sound(t, e)
  BY DEF Inv, InvAt, Fit
<1>2. PICK cs, j : Threads(t, cs, e, j)
  BY <1>1 DEF Sound
<1>3. /\ \A b \in Entries : Linked(t, b) = Rest(cs[b], 1) /\ Linked(t, b) \subseteq Obj
      /\ \A b \in Entries : \A o \in Rest(cs[b], 1) : o \in Obj /\ Hash[o] = b
      /\ \A b \in 0 .. TableSize : Len(cs[b]) \in Nat
      /\ TableSize \in Nat \ {0} /\ j \in Nat \ {0}
  BY <1>2, ThreadsFacts
<1>4. \A b \in Entries : b \in 0 .. TableSize
  BY <1>3 DEF Entries
<1>5. ASSUME NEW b \in Entries
      PROVE  /\ \A o \in Linked(t, b) : Hash[o] = b
             /\ Linked(t, b) = {} \/ \E o \in Linked(t, b) : t.fNext[o] = None
  <2>1. Link(t.fNext, cs[b])
    BY <1>2 DEF Threads
  <2> DEFINE n == Len(cs[b])
  <2>2. CASE n = 0
    BY <1>3, <2>2 DEF Rest
  <2>3. CASE n # 0
    <3>1. n \in 1 .. n /\ n + 1 \notin 1 .. n
      BY <1>3, <1>4, <2>3
    <3>2. t.fNext[cs[b][n]] = None
      BY <2>1, <3>1 DEF Link, Nth
    <3>3. cs[b][n] \in Rest(cs[b], 1)
      BY <3>1 DEF Rest
    <3>4. QED
      BY <1>3, <3>2, <3>3
  <2>4. QED
    BY <2>2, <2>3
<1>6. ASSUME pass # 0
      PROVE  /\ {t.fThisObj, t.fPrevObj} \ {None} \subseteq Linked(t, e)
             /\ t.fThisObj = IF t.fPrevObj = None THEN t.fObject[e] ELSE t.fNext[t.fPrevObj]
  <2>1. e \in Entries
    BY <1>6, Walking
  <2> HIDE DEF e
  <2> DEFINE c == cs[e]
  <2>2. /\ Link(t.fNext, c) /\ t.fObject[e] = Nth(c, 1) /\ Len(c) \in Nat
        /\ j \in 1 .. Len(c) + 1 /\ t.fThisObj = Nth(c, j) /\ t.fPrevObj = Nth(c, j - 1)
        /\ Linked(t, e) = Rest(c, 1)
    BY <1>2, <1>3, <1>4, <2>1 DEF Threads
  <2> HIDE DEF c
  <2>3. \A i : Nth(c, i) # None => Nth(c, i) \in Rest(c, 1)
    BY DEF Nth, Rest
  <2>4. CASE j = 1
    <3>1. t.fPrevObj = None
      BY <2>2, <2>4 DEF Nth
    <3>2. QED
      BY <2>2, <2>3, <2>4, <3>1
  <2>5. CASE j # 1
    <3>1. j - 1 \in 1 .. Len(c) /\ (j - 1) + 1 = j
      BY <2>2, <2>5
    <3>2. t.fPrevObj = c[j - 1] /\ t.fNext[c[j - 1]] = Nth(c, j)
      BY <2>2, <3>1 DEF Link, Nth
    <3>3. c[j - 1] \in Obj
      BY <2>2, <3>1 DEF Link
    <3>4. c[j - 1] # None
      BY <3>3, Constants
    <3>5. QED
      BY <2>2, <2>3, <3>2, <3>4
  <2>6. QED
    BY <2>4, <2>5
<1>7. QED
  BY <1>5, <1>6 DEF WalkInChain, Entries

LEMMA InvOrphansAhead ==
  ASSUME Inv
  PROVE  OrphansAhead
<1> SUFFICES ASSUME NEW o \in Alive, Orphan(t, o), ~t.destroyed
             PROVE  pass # 0 /\ (Hash[o] > TableSize - pass \/ o \in From(t, t.fThisObj))
  BY DEF OrphansAhead
<1> DEFINE e == TableSize - pass
<1>1. Fit(t, e, used, {}) /\ Settled(t, e) /\ Sound(t, e) /\ o \in AliveIn(t)
  BY AliveIs DEF Inv, InvAt, Fit
<1>2. o \in Orphans(t)
  BY <1>1, OrphanIs
<1>3. Hash[o] > e \/ o \in Ahead(t)
  BY <1>1, <1>2 DEF Settled
<1>4. pass # 0
  <2> SUFFICES ASSUME pass = 0 PROVE FALSE
    OBVIOUS
  <2>1. e = TableSize
    BY Walking
  <2>2. Ahead(t) = {}
    BY <1>1, <2>1, IdleWalk
  <2>3. o \in Obj
    BY <1>1, AliveFacts
  <2>4. Hash[o] \in Entries /\ TableSize \in Nat
    BY <2>3, Constants
  <2>5. QED
    BY <1>3, <2>1, <2>2, <2>4 DEF Entries
<1>5. QED
  BY <1>3, <1>4 DEF Ahead

LEMMA InvHeirsAlive ==
  ASSUME Inv
  PROVE  HeirsAlive
<1>1. Heirs(t)
  BY DEF Inv, InvAt, Fit
<1>2. \A a \in Tasks : a \in AliveIn(t)
  BY DEF Tasks, AliveIn
<1>3. QED
  BY <1>1, <1>2 DEF HeirsAlive, Heirs, HeirOf, AliveIn

-----------------------------------------------------------------------------
(* Results.                                                                *)

\* Every chain ends and the scavenger stands between two neighbours of the
\* chain it walks (CObjectTable::remove under CObjectTable::scavenge).
THEOREM TableWalkInChain ==
  ASSUME KeptOwners \subseteq System
  PROVE  Spec => []WalkInChain
<1>1. Inv => WalkInChain
  BY InvWalkInChain
<1>2. Spec => []Inv
  BY TableInvariant
<1>3. QED
  BY <1>1, <1>2, PTL

\* Every object that has lost its owner is met by the walk under way, or asks
\* for another (gTaskDestroyed).
THEOREM TableOrphansAhead ==
  ASSUME KeptOwners \subseteq System
  PROVE  Spec => []OrphansAhead
<1>1. Inv => OrphansAhead
  BY InvOrphansAhead
<1>2. Spec => []Inv
  BY TableInvariant
<1>3. QED
  BY <1>1, <1>2, PTL

\* A task that bequeaths has an heir who is alive (DeleteTask unhooks the dead).
THEOREM TableHeirsAlive ==
  ASSUME KeptOwners \subseteq System
  PROVE  Spec => []HeirsAlive
<1>1. Inv => HeirsAlive
  BY InvHeirsAlive
<1>2. Spec => []Inv
  BY TableInvariant
<1>3. QED
  BY <1>1, <1>2, PTL

-----------------------------------------------------------------------------
(* The table implements a set of objects with owners.                      *)

\* What a removal by request does to the owners.
LEMMA RemoveObjectPasses ==
  ASSUME NEW s, NEW e, NEW U, Fit(s, e, U, {}), Mute(s),
         NEW o \in AliveIn(s), o \notin System, o \notin Part
  PROVE  LET r == RemoveObject(s, o)
         IN  /\ Mute(r)
             /\ Kept(o) => \A y \in AliveIn(s) : r.fOwnerId[y] = IF y = o THEN o ELSE s.fOwnerId[y]
             /\ ~Kept(o) => Passes(s, r, o)
<1> DEFINE u == [s EXCEPT !.fOwnerId[o] = o]
           r == RemoveObject(s, o)
<1>1. o \in Obj /\ Exists(s, o) /\ s \in TableRecord
  BY AliveFacts DEF Fit, Sound, Threads
<1>2. /\ u.fBequeathId = s.fBequeathId
      /\ \A y \in Obj : u.fOwnerId[y] = IF y = o THEN o ELSE s.fOwnerId[y]
  BY <1>1 DEF TableRecord
<1>3. Cut(s, u, e, U, {}, {})
  BY SelfOwnedCut
<1>4. CASE Kept(o)
  <2>1. r = u
    BY <1>1, <1>4 DEF RemoveObject
  <2> HIDE DEF u, r
  <2>2. \A y \in AliveIn(s) : y \in Obj
    BY AliveFacts
  <2>3. Mute(r)
    BY <1>2, <2>1 DEF Mute
  <2>4. \A y \in AliveIn(s) : r.fOwnerId[y] = IF y = o THEN o ELSE s.fOwnerId[y]
    BY <1>2, <2>1, <2>2
  <2>5. QED
    BY <1>4, <2>3, <2>4 DEF r
<1>5. CASE ~Kept(o)
  <2>1. r = Delete(Unlink(u, o), o)
    BY <1>1, <1>5 DEF RemoveObject
  <2> HIDE DEF u, r
  <2>2. Fit(u, e, U, {}) /\ o \in AliveIn(u)
    BY <1>3 DEF Cut
  <2>3. Cut(u, Delete(Unlink(u, o), o), e, U, {}, Whole[o]) /\ Passes(u, Delete(Unlink(u, o), o), o)
    BY <1>5, <2>2, DeleteCut
  <2>4. AliveIn(r) = AliveIn(u) \ Whole[o] /\ Passes(u, r, o)
    BY <2>1, <2>3 DEF Cut
  <2>5. Mute(u)
    BY <1>2 DEF Mute
  <2>6. \A y \in AliveIn(r) : y \in Obj /\ y # o
    BY <1>1, <2>4, WholeIs, AliveFacts
  <2>7. Mute(r) /\ Passes(s, r, o)
    BY <1>2, <2>4, <2>5, <2>6 DEF Passes
  <2>8. QED
    BY <1>5, <2>7 DEF r
<1>6. QED
  BY <1>4, <1>5

\* The two variables of ObjectSet.
Owners(s) == [o \in AliveIn(s) |-> s.fOwnerId[o]]

\* the same objects with the same owners
SameSet(s, u) == AliveIn(u) = AliveIn(s) /\ \A y \in AliveIn(s) : u.fOwnerId[y] = s.fOwnerId[y]

\* the steps of ObjectSet
Comes(s, u, x) ==
  /\ x \notin AliveIn(s) /\ AliveIn(u) = AliveIn(s) \cup Whole[x]
  /\ \A y \in AliveIn(s) : u.fOwnerId[y] = s.fOwnerId[y]
  /\ \A y \in AliveIn(u) : u.fOwnerId[y] \in Obj
Goes(s, u, x) ==
  /\ x \in AliveIn(s) \ System /\ AliveIn(u) = AliveIn(s) \ Whole[x]
  /\ \E heir \in AliveIn(u) \cup {None} :
       \A y \in AliveIn(u) :
         u.fOwnerId[y] = IF heir # None /\ s.fOwnerId[y] = x THEN heir ELSE s.fOwnerId[y]
IsPassedOn(s, u, x) ==
  /\ x \in AliveIn(s) /\ AliveIn(u) = AliveIn(s) /\ u.fOwnerId[x] \in AliveIn(s)
  /\ \A y \in AliveIn(s) \ {x} : u.fOwnerId[y] = s.fOwnerId[y]

SetStep(s, u) ==
  \/ SameSet(s, u)
  \/ \E x \in Obj : Comes(s, u, x) \/ Goes(s, u, x) \/ IsPassedOn(s, u, x)

\* A removal that passes on what the object owned takes it out of the set.
LEMMA PassesGoes ==
  ASSUME NEW s, NEW r, NEW o \in AliveIn(s) \ System, Mute(s), Passes(s, r, o),
         AliveIn(r) = AliveIn(s) \ Whole[o]
  PROVE  SetStep(s, r) /\ Mute(r)
<1> DEFINE h == s.fBequeathId[o]
<1>1. /\ Mute(r)
      /\ \A y \in AliveIn(r) : r.fOwnerId[y] = IF s.fOwnerId[y] = o /\ h \in AliveIn(r) THEN h
                                               ELSE s.fOwnerId[y]
  BY DEF Passes
<1> HIDE DEF h
<1>2. None \notin AliveIn(r) /\ o \in Obj
  BY AliveFacts, Constants
<1>3. \E heir \in AliveIn(r) \cup {None} :
        \A y \in AliveIn(r) :
          r.fOwnerId[y] = IF heir # None /\ s.fOwnerId[y] = o THEN heir ELSE s.fOwnerId[y]
  <2>1. CASE h \in AliveIn(r)
    BY <1>1, <1>2, <2>1
  <2>2. CASE h \notin AliveIn(r)
    BY <1>1, <2>2
  <2>3. QED
    BY <2>1, <2>2
<1>4. Goes(s, r, o)
  BY <1>3 DEF Goes
<1>5. QED
  BY <1>1, <1>2, <1>4 DEF SetStep

\* A removal is a step of the set.
LEMMA RemoveObjectStep ==
  ASSUME NEW s, NEW e, NEW U, Fit(s, e, U, {}), Mute(s),
         NEW o \in Obj, o \notin System, o \notin Part
  PROVE  SetStep(s, RemoveObject(s, o)) /\ Mute(RemoveObject(s, o))
<1> DEFINE r == RemoveObject(s, o)
<1>1. CASE o \notin AliveIn(s)
  <2>1. r = s
    BY <1>1, AliveFacts DEF RemoveObject
  <2>2. QED
    BY <2>1 DEF SetStep, SameSet
<1>2. CASE o \in AliveIn(s)
  <2>1. /\ Mute(r)
        /\ Kept(o) => \A y \in AliveIn(s) : r.fOwnerId[y] = IF y = o THEN o ELSE s.fOwnerId[y]
        /\ ~Kept(o) => Passes(s, r, o)
    BY <1>2, RemoveObjectPasses
  <2>2. AliveIn(r) = AliveIn(s) \ Taking(o)
    BY RemoveObjectCut DEF Cut
  <2> HIDE DEF r
  <2>3. CASE Kept(o)
    <3>1. IsPassedOn(s, r, o)
      BY <1>2, <2>1, <2>2, <2>3 DEF IsPassedOn, Taking
    <3>2. QED
      BY <2>1, <3>1 DEF SetStep, r
  <2>4. CASE ~Kept(o)
    <3>1. AliveIn(r) = AliveIn(s) \ Whole[o]
      BY <2>2, <2>4 DEF Taking
    <3>2. QED
      BY <1>2, <2>1, <2>4, <3>1, PassesGoes DEF r
  <2>5. QED
    BY <2>3, <2>4
<1>3. QED
  BY <1>1, <1>2

\* What the next state is compared with is the record alone.
LEMMA SameSetStep ==
  ASSUME NEW s, NEW u, NEW v, SetStep(s, u), SameSet(u, v)
  PROVE  SetStep(s, v)
<1>1. AliveIn(v) = AliveIn(u) /\ \A y \in AliveIn(u) : v.fOwnerId[y] = u.fOwnerId[y]
  BY DEF SameSet
<1>2. CASE SameSet(s, u)
  BY <1>1, <1>2 DEF SetStep, SameSet
<1>3. ASSUME NEW x \in Obj, Comes(s, u, x) PROVE Comes(s, v, x)
  BY <1>1, <1>3 DEF Comes
<1>4. ASSUME NEW x \in Obj, Goes(s, u, x) PROVE Goes(s, v, x)
  BY <1>1, <1>4 DEF Goes
<1>5. ASSUME NEW x \in Obj, IsPassedOn(s, u, x) PROVE IsPassedOn(s, v, x)
  BY <1>1, <1>5 DEF IsPassedOn
<1>6. QED
  BY <1>2, <1>3, <1>4, <1>5 DEF SetStep

\* The end of a request changes neither objects nor owners.
LEMMA EndRequestSame ==
  ASSUME pass = 0, NEW s, Sound(s, TableSize), EndRequest(s)
  PROVE  SameSet(s, t') /\ t'.fBequeathId = s.fBequeathId
<1>1. TableSize \in Nat \ {0} /\ 0 \in Entries
  BY Constants DEF Entries
<1>2. CASE ~s.destroyed
  BY <1>2 DEF EndRequest, SameSet
<1>3. CASE s.destroyed
  <2>1. t' = [s EXCEPT !.destroyed = FALSE, !.fThisObj = s.fObject[0], !.fPrevObj = None]
    BY <1>3 DEF EndRequest
  <2>2. s \in TableRecord
    BY DEF Sound, Threads
  <2>3. /\ t' \in TableRecord /\ t'.fObject = s.fObject /\ t'.fNext = s.fNext
        /\ t'.fPrevObj = None /\ t'.fThisObj = s.fObject[0]
        /\ t'.fOwnerId = s.fOwnerId /\ t'.fBequeathId = s.fBequeathId
    BY <1>1, <2>1, <2>2 DEF TableRecord
  <2>4. 0 \in 0 .. TableSize /\ 0 # TableSize
    BY <1>1
  <2>5. AliveIn(t') = AliveIn(s)
    BY <2>2, <2>3, <2>4, HeadSound
  <2>6. QED
    BY <2>3, <2>5 DEF SameSet
<1>4. QED
  BY <1>2, <1>3

-----------------------------------------------------------------------------
(* Every step is a step of the set, and keeps parts mute.                  *)

MuteStep == SetStep(t, t') /\ Mute(t')

\* The record of a step that changes neither objects, owners nor heirs.
LEMMA SameMute ==
  ASSUME Mute(t), NEW u, SetStep(t, u), Mute(u), SameSet(u, t'), t'.fBequeathId = u.fBequeathId
  PROVE  MuteStep
<1>1. SetStep(t, t')
  BY SameSetStep
<1>2. Mute(t')
  BY DEF Mute
<1>3. QED
  BY <1>1, <1>2 DEF MuteStep

\* What is created, and removed again when its init fails.
LEMMA CreateMute ==
  ASSUME KeptOwners \subseteq System, Inv, Mute(t),
         NEW a \in Running, NEW o \in Obj, NEW fails \in BOOLEAN, Create(a, o, fails)
  PROVE  MuteStep
<1> DEFINE u == Created(o, a)
           r == IF fails THEN RemoveObject(u, o) ELSE u
           V == used \cup Whole[o]
<1>1. pass = 0 /\ InvAt(t, TableSize, used)
  BY Walking DEF Create, Serving, Inv
<1>2. o \notin Part /\ o \notin used /\ (Kept(o) => a \in System)
  BY DEF Create
<1>3. EndRequest(r)
  BY DEF Create
<1>5. /\ Fresh(used) /\ Fit(t, TableSize, used, {}) /\ Sound(t, TableSize)
      /\ AliveIn(t) \subseteq used /\ System \subseteq used /\ Unbequeathed(t)
  BY <1>1 DEF InvAt, Fit, Core, Placed, Forever
<1>6. /\ Fit(u, TableSize, V, {}) /\ AliveIn(u) = AliveIn(t) \cup Whole[o]
      /\ Keeps(t, u, Whole[o]) /\ u.fBequeathId = t.fBequeathId
      /\ \A x \in Whole[o] : x \notin used
  <2>1. \A x \in Whole[o] : x \notin used
    BY <1>2, <1>5 DEF Fresh
  <2>2. a \in AliveIn(t) /\ Kind[a] = "task"
    BY RunningFacts
  <2>3. Fit(t, TableSize, used, {}) /\ o \in Obj /\ o \notin Part /\ (Kept(o) => a \in System)
    BY <1>2, <1>5
  <2>4. /\ Fit(u, TableSize, V, {}) /\ AliveIn(u) = AliveIn(t) \cup Whole[o]
        /\ Keeps(t, u, Whole[o]) /\ Orphans(u) \subseteq Orphans(t)
        /\ u.fDeferredId = t.fDeferredId /\ u.destroyed = t.destroyed
    BY ONLY <2>1, <2>2, <2>3, CreatedFit
  <2>5. \A x \in Whole[o] : x \notin AliveIn(t)
    BY <1>5, <2>1
  <2>6. /\ Sound(u, TableSize) /\ AliveIn(u) = AliveIn(t) \cup Whole[o]
        /\ Keeps(t, u, Whole[o]) /\ u.fBequeathId = t.fBequeathId
        /\ \A x \in Whole[o] :
             /\ u.fOwnerId[x] \in Whole[o] \cup {a} /\ Rightful(x, u.fOwnerId[x])
             /\ u.fAssignedOwnerId[x] \in Whole[o] \cup {a}
             /\ Rightful(x, u.fAssignedOwnerId[x])
        /\ Kept(o) => u.fOwnerId[o] = a /\ u.fAssignedOwnerId[o] = a
        /\ u.fDeferredId = t.fDeferredId /\ u.destroyed = t.destroyed
    BY ONLY <1>5, <2>2, <2>3, <2>5, CreatedGrown
  <2>7. QED
    BY <2>1, <2>4, <2>6
<1> HIDE DEF u
<1>7. /\ Mute(u) /\ o \in Whole[o] /\ o \notin System
      /\ \A y \in AliveIn(t) : y \in Obj /\ y \notin Whole[o] /\ u.fOwnerId[y] = t.fOwnerId[y]
  <2>1. \A y \in AliveIn(t) : y \in Obj /\ y \notin Whole[o]
    BY <1>5, <1>6, AliveFacts
  <2>2. QED
    BY <1>2, <1>5, <1>6, <2>1, WholeIs DEF Mute, Keeps
<1>8. SetStep(t, r) /\ Mute(r) /\ Sound(r, TableSize)
  <2>1. CASE fails /\ ~Kept(o)
    <3> DEFINE v == RemoveObject(u, o)
    <3>1. o \in AliveIn(u) /\ ~Kept(o)
      BY <1>6, <1>7, <2>1
    <3>2. Mute(v) /\ Passes(u, v, o)
      BY <1>2, <1>6, <1>7, <3>1, RemoveObjectPasses
    <3>3. Cut(u, v, TableSize, V, {}, Taking(o))
      BY <1>2, <1>6, <1>7, RemoveObjectCut
    <3> HIDE DEF v
    <3>4. AliveIn(v) = AliveIn(t) /\ Sound(v, TableSize)
      BY <1>6, <1>7, <3>1, <3>3 DEF Cut, Taking, Fit
    <3>5. u.fBequeathId[o] = None /\ None \notin AliveIn(v)
      <4>1. o \notin AliveIn(t)
        BY <1>2, <1>5
      <4>2. QED
        BY <1>5, <1>6, <4>1, AliveFacts, Constants DEF Unbequeathed
    <3>6. \A y \in AliveIn(v) : v.fOwnerId[y] = u.fOwnerId[y]
      BY <1>7, <3>2, <3>5 DEF Passes
    <3>7. SameSet(t, v)
      BY <1>7, <3>4, <3>6 DEF SameSet
    <3>8. QED
      BY <2>1, <3>2, <3>4, <3>7 DEF SetStep, v
  <2>2. CASE ~fails
    <3>1. \A y \in AliveIn(u) : u.fOwnerId[y] \in Obj
      BY <1>6 DEF Fit, Core, Placed, Rightful
    <3>2. Comes(t, u, o)
      BY <1>2, <1>5, <1>6, <1>7, <3>1 DEF Comes
    <3>3. Sound(u, TableSize)
      BY <1>6 DEF Fit
    <3>4. QED
      BY <1>7, <2>2, <3>2, <3>3 DEF SetStep
  <2>3. CASE fails /\ Kept(o)
    <3> DEFINE v == RemoveObject(u, o)
    <3>1. o \in AliveIn(u)
      BY <1>6, <1>7
    <3>2. /\ Mute(v)
          /\ \A y \in AliveIn(u) : v.fOwnerId[y] = IF y = o THEN o ELSE u.fOwnerId[y]
      BY <1>2, <1>6, <1>7, <2>3, <3>1, RemoveObjectPasses
    <3>3. Cut(u, v, TableSize, V, {}, Taking(o))
      BY <1>2, <1>6, <1>7, RemoveObjectCut
    <3> HIDE DEF v
    <3>4. AliveIn(v) = AliveIn(u) /\ Sound(v, TableSize)
      BY <2>3, <3>3 DEF Cut, Taking, Fit
    <3>5. \A y \in AliveIn(u) : u.fOwnerId[y] \in Obj
      BY <1>6 DEF Fit, Core, Placed, Rightful
    <3>6. \A y \in AliveIn(v) : v.fOwnerId[y] \in Obj
      BY <3>2, <3>4, <3>5
    <3>7. \A y \in AliveIn(t) : y # o /\ y \in AliveIn(u) /\ v.fOwnerId[y] = t.fOwnerId[y]
      BY <1>6, <1>7, <3>2
    <3>8. Comes(t, v, o)
      BY <1>6, <3>4, <3>6, <3>7 DEF Comes
    <3>9. QED
      BY <2>3, <3>2, <3>4, <3>8 DEF SetStep, v
  <2>4. QED
    BY <2>1, <2>2, <2>3
<1> HIDE DEF r
<1>9. SameSet(r, t') /\ t'.fBequeathId = r.fBequeathId
  BY <1>1, <1>3, <1>8, EndRequestSame
<1>10. QED
  BY <1>8, <1>9, SameMute

LEMMA DestroyMute ==
  ASSUME Inv, Mute(t), NEW a \in Running, NEW o \in Obj, Destroy(a, o)
  PROVE  MuteStep
<1> DEFINE r == RemoveObject(t, o)
<1>1. pass = 0 /\ InvAt(t, TableSize, used)
  BY Walking DEF Destroy, Serving, Inv
<1>2. o \notin Part /\ o # a /\ t.fOwnerId[o] = a /\ EndRequest(r)
  BY DEF Destroy
<1>3. Fit(t, TableSize, used, {})
  BY <1>1 DEF InvAt
<1>4. o \notin System
  BY <1>2, <1>3 DEF Fit, Core, Forever
<1>5. SetStep(t, r) /\ Mute(r)
  BY <1>2, <1>3, <1>4, RemoveObjectStep
<1>6. Cut(t, r, TableSize, used, {}, Taking(o))
  BY <1>2, <1>3, <1>4, RemoveObjectCut
<1> HIDE DEF r
<1>7. SameSet(r, t') /\ t'.fBequeathId = r.fBequeathId
  BY <1>1, <1>2, <1>6, EndRequestSame DEF Cut, Fit
<1>8. QED
  BY <1>5, <1>7, SameMute

LEMMA TaskKillSelfMute ==
  ASSUME Inv, Mute(t), NEW a \in Running, TaskKillSelf(a)
  PROVE  MuteStep
<1>1. /\ a \in Obj /\ a \notin System \cup Part /\ Kind[a] = "task"
      /\ t' = [t EXCEPT !.fDeferredId = a]
  BY RunningFacts DEF TaskKillSelf
<1>2. Fit(t, TableSize - pass, used, {}) /\ t \in TableRecord
  BY DEF Inv, InvAt, Fit, Sound, Threads
<1>3. AliveIn(t') = AliveIn(t)
  BY <1>1, <1>2, DeferredFit
<1>4. t'.fOwnerId = t.fOwnerId /\ t'.fBequeathId = t.fBequeathId
  BY <1>1, <1>2 DEF TableRecord
<1>5. SameSet(t, t') /\ SetStep(t, t)
  BY <1>3, <1>4 DEF SameSet, SetStep
<1>6. QED
  BY <1>4, <1>5, SameMute

LEMMA RemoveDeferredMute ==
  ASSUME Inv, Mute(t), RemoveDeferred
  PROVE  MuteStep
<1> DEFINE o == t.fDeferredId
           r == RemoveObject(t, o)
           e == TableSize - pass
<1>1. o # None /\ t' = [r EXCEPT !.fDeferredId = None]
  BY DEF RemoveDeferred
<1>2. Fit(t, e, used, {})
  BY DEF Inv, InvAt
<1>3. o \in Obj /\ o \notin System /\ o \notin Part
  BY <1>1, <1>2 DEF Fit, Core, Mortal
<1> HIDE DEF o, e
<1>4. SetStep(t, r) /\ Mute(r)
  BY <1>2, <1>3, RemoveObjectStep
<1>5. Cut(t, r, e, used, {}, Taking(o))
  BY <1>2, <1>3, RemoveObjectCut
<1> HIDE DEF r
<1>6. Fit(r, e, used, {}) /\ r \in TableRecord
  BY <1>5 DEF Cut, Fit, Sound, Threads
<1>7. AliveIn(t') = AliveIn(r)
  BY <1>1, <1>6, DeferredFit
<1>8. t'.fOwnerId = r.fOwnerId /\ t'.fBequeathId = r.fBequeathId
  BY <1>1, <1>6 DEF TableRecord
<1>9. SameSet(r, t')
  BY <1>7, <1>8 DEF SameSet
<1>10. QED
  BY <1>4, <1>8, <1>9, SameMute

LEMMA ScavengeObjectMute ==
  ASSUME Inv, Mute(t), ScavengeObject
  PROVE  MuteStep
<1> DEFINE o == t.fThisObj
           s == [t EXCEPT !.fOwnerId[o] = o]
           e == TableSize - pass
<1>1. o # None /\ Orphan(t, o)
  BY DEF ScavengeObject
<1>2. Fit(t, e, used, {}) /\ Sound(t, e) /\ t \in TableRecord
  BY DEF Inv, InvAt, Fit, Sound, Threads
<1>3. /\ o \in Obj /\ Exists(t, o) /\ Sound(s, e)
      /\ ScavengeUnlink(t, o) = Unlink(s, o)
  BY <1>1, <1>2, ScavengeUnlinkIs
<1>4. o \in AliveIn(t)
  BY <1>3 DEF AliveIn
<1>5. o \notin System /\ o \notin Part /\ ~Kept(o)
  BY <1>1, <1>2, <1>4, OrphanIs
<1>6. t' = Delete(ScavengeUnlink(t, o), o)
  BY <1>5 DEF ScavengeObject, ScavengeUnlink
<1> HIDE DEF o
<1>7. Cut(t, s, e, used, {}, {})
  BY <1>2, <1>4, SelfOwnedCut
<1>8. /\ s.fBequeathId = t.fBequeathId
      /\ \A y \in Obj : s.fOwnerId[y] = IF y = o THEN o ELSE t.fOwnerId[y]
  BY <1>2, <1>3 DEF TableRecord
<1> HIDE DEF s, e
<1>9. Fit(s, e, used, {}) /\ o \in AliveIn(s) /\ AliveIn(s) = AliveIn(t)
  BY <1>4, <1>7 DEF Cut
<1>10. Cut(s, Delete(Unlink(s, o), o), e, used, {}, Whole[o]) /\ Passes(s, Delete(Unlink(s, o), o), o)
  BY <1>5, <1>9, DeleteCut
<1>11. AliveIn(t') = AliveIn(t) \ Whole[o] /\ Passes(s, t', o)
  BY <1>3, <1>6, <1>9, <1>10 DEF Cut
<1>12. Passes(t, t', o)
  <2>1. \A y \in AliveIn(t') : y \in Obj /\ y # o
    BY <1>3, <1>11, WholeIs, AliveFacts
  <2>2. Mute(s)
    BY <1>8 DEF Mute
  <2>3. QED
    BY <1>8, <1>11, <2>1, <2>2 DEF Passes
<1>13. QED
  BY <1>4, <1>5, <1>11, <1>12, PassesGoes DEF MuteStep

\* The walk itself changes nothing else.
LEMMA WalkMute ==
  ASSUME Inv, Mute(t), PassObject \/ NextEntry
  PROVE  MuteStep
<1> DEFINE e == TableSize - pass
<1>1. Sound(t, e) /\ t \in TableRecord
  BY DEF Inv, InvAt, Fit, Sound, Threads
<1>2. AliveIn(t') = AliveIn(t) /\ t'.fOwnerId = t.fOwnerId /\ t'.fBequeathId = t.fBequeathId
  <2>1. CASE PassObject
    <3>1. t.fThisObj # None /\ t' = Passed(t)
      BY <2>1 DEF PassObject, Passed
    <3> HIDE DEF e
    <3>2. QED
      BY <1>1, <3>1, PassSound DEF SameFields
  <2>2. CASE NextEntry
    <3> DEFINE n == e + 1
               first == IF n = TableSize THEN None ELSE t.fObject[n]
    <3>1. /\ pass # 0
          /\ t' = [t EXCEPT !.fPrevObj = None,
                            !.fThisObj = IF pass = 1 THEN None ELSE t.fObject[TableSize - pass + 1]]
      BY <2>2 DEF NextEntry
    <3>2. /\ n \in 0 .. TableSize /\ (pass = 1 <=> n = TableSize)
          /\ n # TableSize => n \in Entries
      BY <3>1, Walking DEF Entries
    <3>3. t' = [t EXCEPT !.fPrevObj = None, !.fThisObj = first]
      BY <3>1, <3>2
    <3>4. first \in Obj \cup {None}
      BY <1>1, <3>2 DEF TableRecord
    <3> HIDE DEF first
    <3>5. /\ t' \in TableRecord /\ t'.fObject = t.fObject /\ t'.fNext = t.fNext /\ t'.fPrevObj = None
          /\ t'.fThisObj = first /\ t'.fOwnerId = t.fOwnerId /\ t'.fBequeathId = t.fBequeathId
      BY <1>1, <3>3, <3>4 DEF TableRecord
    <3>6. t'.fThisObj = IF n = TableSize THEN None ELSE t.fObject[n]
      BY <3>5 DEF first
    <3> HIDE DEF n, e
    <3>7. AliveIn(t') = AliveIn(t)
      BY <1>1, <3>2, <3>5, <3>6, HeadSound
    <3>8. QED
      BY <3>5, <3>7
  <2>3. QED
    BY <2>1, <2>2
<1>3. SameSet(t, t') /\ SetStep(t, t)
  BY <1>2 DEF SameSet, SetStep
<1>4. QED
  BY <1>2, <1>3, SameMute

LEMMA AcceptObjectMute ==
  ASSUME Inv, Mute(t), NEW a \in Running, NEW o \in Obj, AcceptObject(a, o)
  PROVE  MuteStep
<1>1. /\ o \in AliveIn(t) /\ t' = [t EXCEPT !.fOwnerId[o] = a] /\ a \in AliveIn(t) /\ a \in Obj
  BY RunningFacts DEF AcceptObject, AliveIn
<1>2. Sound(t, TableSize - pass) /\ t \in TableRecord
  BY DEF Inv, InvAt, Fit, Sound, Threads
<1>3. /\ SameLinks(t, t') /\ t'.fBequeathId = t.fBequeathId
      /\ \A y \in Obj : t'.fOwnerId[y] = IF y = o THEN a ELSE t.fOwnerId[y]
  BY <1>1, <1>2 DEF SameLinks, TableRecord
<1>4. AliveIn(t') = AliveIn(t)
  BY <1>2, <1>3, SameLinksSound
<1>5. IsPassedOn(t, t', o)
  BY <1>1, <1>3, <1>4, AliveFacts DEF IsPassedOn
<1>6. Mute(t')
  BY <1>3 DEF Mute
<1>7. QED
  BY <1>5, <1>6 DEF MuteStep, SetStep

LEMMA BequeathMute ==
  ASSUME Inv, Mute(t), NEW a \in Running, NEW h \in Obj, Bequeath(a, h)
  PROVE  MuteStep
<1>1. a \in Obj /\ Kind[a] = "task" /\ a \notin Part /\ t' = SetBequeathId(t, a, h)
  BY RunningFacts DEF Bequeath
<1>2. Sound(t, TableSize - pass) /\ t \in TableRecord
  BY DEF Inv, InvAt, Fit, Sound, Threads
<1>3. /\ AliveIn(t') = AliveIn(t) /\ t'.fOwnerId = t.fOwnerId
      /\ t'.fBequeathId = [t.fBequeathId EXCEPT ![a] = h]
  BY SMTT(30), <1>1, <1>2, SetBequeathIdSound
<1>4. \A y \in Obj : t'.fBequeathId[y] = IF y = a THEN h ELSE t.fBequeathId[y]
  <2>1. t.fBequeathId \in [Obj -> Obj \cup {None}]
    BY <1>2 DEF TableRecord
  <2>2. QED
    BY <1>1, <1>3, <2>1
<1>5. Mute(t')
  BY <1>1, <1>4 DEF Mute
<1>6. SameSet(t, t')
  BY <1>3 DEF SameSet
<1>7. QED
  BY <1>5, <1>6 DEF MuteStep, SetStep

\* Whatever happens is a step of the set.
LEMMA NextMute ==
  ASSUME KeptOwners \subseteq System, Inv, Mute(t), [Next]_vars
  PROVE  MuteStep
<1>1. CASE Next
  <2>1. ASSUME NEW a \in Running, Request(a) PROVE MuteStep
    <3>1. CASE TaskKillSelf(a)
      BY <3>1, TaskKillSelfMute
    <3>2. ASSUME NEW o \in Obj, Create(a, o, TRUE) \/ Create(a, o, FALSE) \/ Destroy(a, o)
          PROVE  MuteStep
      <4>1. CASE Create(a, o, TRUE)
        BY <4>1, CreateMute
      <4>2. CASE Create(a, o, FALSE)
        BY <4>2, CreateMute
      <4>3. CASE Destroy(a, o)
        BY <4>3, DestroyMute
      <4>4. QED
        BY <3>2, <4>1, <4>2, <4>3
    <3>3. QED
      BY <2>1, <3>1, <3>2 DEF Request
  <2>2. ASSUME NEW a \in Running, NEW o \in Obj, AcceptObject(a, o) \/ Bequeath(a, o) PROVE MuteStep
    BY <2>2, AcceptObjectMute, BequeathMute
  <2>3. CASE RemoveDeferred
    BY <2>3, RemoveDeferredMute
  <2>4. CASE Walk
    BY <2>4, ScavengeObjectMute, WalkMute DEF Walk
  <2>5. QED
    BY <1>1, <2>1, <2>2, <2>3, <2>4 DEF Next
<1>2. CASE UNCHANGED vars
  <2>1. t' = t
    BY <1>2 DEF vars
  <2>2. QED
    BY <2>1 DEF MuteStep, SetStep, SameSet
<1>3. QED
  BY <1>1, <1>2

\* An object comes with the same parts in both modules.
LEMMA SetWhole ==
  ASSUME NEW x \in Obj
  PROVE  Set!Whole[x] = Whole[x]
<1> DEFINE P == [o \in Obj |-> ToSet(Parts[o])]
<1>1. \A y \in ToSet(Parts[x]) : y \in Obj
  BY Kinship DEF Members
<1>2. P[x] = ToSet(Parts[x]) /\ \A y \in ToSet(Parts[x]) : P[y] = ToSet(Parts[y])
  BY <1>1
<1>3. Set!Whole[x] = {x} \cup P[x] \cup UNION {P[y] : y \in P[x]}
  BY DEF Set!Whole
<1> HIDE DEF P
<1>4. UNION {P[y] : y \in P[x]} = UNION {ToSet(Parts[y]) : y \in ToSet(Parts[x])}
  BY <1>2
<1>5. QED
  BY <1>2, <1>3, <1>4 DEF Whole

TableOwner == [o \in Alive |-> t.fOwnerId[o]]

\* A step of the set, in the words of ObjectSet.
LEMMA SetNext ==
  ASSUME Inv, Inv', SetStep(t, t')
  PROVE  Set!Next \/ UNCHANGED <<Alive, TableOwner>>
<1> DEFINE A == Alive
           w == TableOwner
<1>1. A = AliveIn(t) /\ A' = AliveIn(t')
  <2>1. Alive = AliveIn(t)
    BY AliveIs
  <2>2. (Inv => Alive = AliveIn(t))'
    BY AliveIs, PTL
  <2>3. QED
    BY <2>1, <2>2 DEF AliveIn
<1>2. w = [o \in A |-> t.fOwnerId[o]] /\ w' = [o \in A' |-> t'.fOwnerId[o]]
  BY DEF TableOwner
<1>3. A \subseteq Obj
  BY <1>1, AliveFacts
<1> HIDE DEF A, w
<1>4. CASE SameSet(t, t')
  <2>1. A' = A /\ w' = w
    BY <1>1, <1>2, <1>4 DEF SameSet
  <2>2. QED
    BY <2>1 DEF A, w
<1>5. ASSUME NEW x \in Obj, Comes(t, t', x) PROVE Set!Create(x)
  <2>1. x \notin A /\ A' = A \cup Set!Whole[x]
    BY <1>1, <1>5, SetWhole DEF Comes
  <2>2. \A y \in A : w'[y] = w[y]
    BY <1>1, <1>2, <1>5, <2>1 DEF Comes
  <2>3. w' \in [A' -> Obj]
    BY <1>1, <1>2, <1>5 DEF Comes
  <2>4. QED
    BY <2>1, <2>2, <2>3 DEF Set!Create, A, w, TableOwner
<1>6. ASSUME NEW x \in Obj, Goes(t, t', x) PROVE Set!Destroy(x)
  <2>1. x \in A \ System /\ A' = A \ Set!Whole[x]
    BY <1>1, <1>6, SetWhole DEF Goes
  <2>2. PICK heir \in A' \cup {None} :
          \A y \in A' :
            t'.fOwnerId[y] = IF heir # None /\ t.fOwnerId[y] = x THEN heir ELSE t.fOwnerId[y]
    BY <1>1, <1>6 DEF Goes
  <2>3. \A y \in A' : w[y] = t.fOwnerId[y]
    BY <1>2, <2>1
  <2>4. w' = [y \in A' |-> IF heir # None /\ w[y] = x THEN heir ELSE w[y]]
    BY <1>2, <2>2, <2>3
  <2>5. QED
    BY <2>1, <2>4 DEF Set!Destroy, A, w, TableOwner
<1>7. ASSUME NEW x \in Obj, IsPassedOn(t, t', x) PROVE Set!ChangeOwner(x)
  <2>1. A' = A /\ x \in A /\ t'.fOwnerId[x] \in A
        /\ \A y \in A \ {x} : t'.fOwnerId[y] = t.fOwnerId[y]
    BY <1>1, <1>7 DEF IsPassedOn
  <2>2. w'[x] \in A
    BY <1>2, <2>1
  <2>3. w' = [w EXCEPT ![x] = w'[x]]
    BY <1>2, <2>1
  <2>4. QED
    BY <2>1, <2>2, <2>3 DEF Set!ChangeOwner, A, w, TableOwner
<1>8. QED
  BY <1>4, <1>5, <1>6, <1>7 DEF SetStep, Set!Next, A, w

\* The table, with its chains and walks, is a set of objects with owners
\* (ObjectAlloc, remove, DeleteTask, scavenge and acceptOwnership).
THEOREM TableIsSet ==
  ASSUME KeptOwners \subseteq System
  PROVE  Spec => IsSet
<1> DEFINE IMute == Inv /\ Mute(t)
<1>1. Init => IMute /\ Set!Init
  <2> SUFFICES ASSUME Init PROVE IMute /\ Set!Init
    OBVIOUS
  <2>1. Inv /\ OwnTasks(t, System)
    BY InitInv, InitOwnTasks
  <2>2. Mute(t)
    BY <2>1 DEF OwnTasks, Mute
  <2>3. Alive = System /\ \A x \in System : t.fOwnerId[x] = x
    BY <2>1, AliveIs DEF OwnTasks
  <2>4. QED
    BY <2>1, <2>2, <2>3 DEF Set!Init
<1>2. IMute /\ [Next]_vars => IMute' /\ [Set!Next]_<<Alive, TableOwner>>
  <2> SUFFICES ASSUME Inv, Mute(t), [Next]_vars
               PROVE  IMute' /\ [Set!Next]_<<Alive, TableOwner>>
    OBVIOUS
  <2>1. Inv' /\ MuteStep
    BY NextInv, NextMute
  <2>2. Mute(t)'
    BY <2>1 DEF MuteStep, Mute
  <2>3. Set!Next \/ UNCHANGED <<Alive, TableOwner>>
    BY <2>1, SetNext DEF MuteStep
  <2>4. QED
    BY <2>1, <2>2, <2>3
<1>3. QED
  BY <1>1, <1>2, PTL DEF Spec, IsSet, Set!Spec, TableOwner
=============================================================================
