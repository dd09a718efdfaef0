-------------------------- MODULE FlashStoreProofs --------------------------
(***************************************************************************)
(* Proofs about FlashStore, for every set of objects and contents, every   *)
(* room and tracker: what the store looks like between calls, what the     *)
(* tracker knows, and that the store implements AtomicStore.               *)
(*                                                                         *)
(* The invariant names a function D, what a power failure would leave of   *)
(* the objects that are kept, and a mode the store is in.  A call is a list *)
(* of writes that leads from one set of versions to another (Path) with    *)
(* every state of the flash on the way in a set that a repair takes to D.  *)
(* When an object is lost to the callers, D is cut down to the others.     *)
(***************************************************************************)
EXTENDS FlashStore, SequenceTheorems, FiniteSetTheorems, WellFoundedInduction, TLAPS

USE DEF Replacing, Rewriting, Created, Committed, Superseded, Superseder, Deleted

Version == [st : State, dir : BOOLEAN, val : Val \cup {Blank}]
Versions == [Slot -> Version \cup {Free}]
Content == Val \cup {Blank, None}

(* The writes of a call that touch the versions of object id; only a commit  *)
(* and the end of an abort make a version the committed one.                 *)
Places(id) == {s \in Slot : s[1] = id}
Write(id) ==
  [do : {"add", "state"}, at : Places(id), st : State \ {Committed}]
    \cup [do : {"link", "unlink", "zap"}, at : Places(id)]
    \cup [do : {"data"}, at : Places(id), val : Val \cup {Blank}]

(* The writes w lead from vs to ve, and whatever is on the flash before,     *)
(* between and after them is in S: a power failure leaves a member of S.     *)
Path(S, vs, w, ve) ==
  \E tr \in [0 .. Len(w) -> S] :
    /\ tr[0] = vs /\ tr[Len(w)] = ve
    /\ \A i \in 1 .. Len(w) : tr[i] = Written(tr[i - 1], w[i])

(* The fields of a version. *)
Has(o, x, d, v) == o.st = x /\ o.dir = d /\ o.val = v

Others(t, vs, ve) == \A s \in Slot : s # t => ve[s] = vs[s]
-----------------------------------------------------------------------------
(* One write. *)

(* The fields of an empty place, and that nothing else looks like it. *)
LEMMA FreeIs ==
  /\ Free.st = 0 /\ Free.dir = FALSE /\ Free.val = None
  /\ \A o \in Version \cup {Free} : (o.st = 0) = (o = Free)
BY DEF Version, Free, State

(* addObject: a blank version without a directory entry. *)
LEMMA AddIs ==
  ASSUME NEW vs \in Versions, NEW t \in Slot, NEW x \in State, NEW ve,
         ve = Written(vs, [do |-> "add", at |-> t, st |-> x])
  PROVE  /\ ve \in Versions /\ Others(t, vs, ve)
         /\ Has(ve[t], x, FALSE, Blank)
<1> DEFINE o == [st |-> x, dir |-> FALSE, val |-> Blank]
<1>1. ve = [vs EXCEPT ![t] = o]
  BY DEF Written
<1>2. o \in Version
  BY DEF Version
<1>3. o.st = x /\ o.dir = FALSE /\ o.val = Blank
  OBVIOUS
<1> QED BY <1>1, <1>2, <1>3 DEF Versions, Others, Has

(* addDirEnt. *)
LEMMA LinkIs ==
  ASSUME NEW vs \in Versions, NEW t \in Slot, NEW ve, vs[t].st # 0,
         ve = Written(vs, [do |-> "link", at |-> t])
  PROVE  /\ ve \in Versions /\ Others(t, vs, ve)
         /\ Has(ve[t], vs[t].st, TRUE, vs[t].val)
<1> DEFINE o == [vs[t] EXCEPT !.dir = TRUE]
<1>1. ve = [vs EXCEPT ![t] = o]
  BY DEF Written
<1>2. vs[t] \in Version
  BY FreeIs DEF Versions
<1>3. o \in Version /\ o.st = vs[t].st /\ o.dir = TRUE /\ o.val = vs[t].val
  BY <1>2 DEF Version
<1> QED BY <1>1, <1>3 DEF Versions, Others, Has

(* zapDirEnt. *)
LEMMA UnlinkIs ==
  ASSUME NEW vs \in Versions, NEW t \in Slot, NEW ve, vs[t].st # 0,
         ve = Written(vs, [do |-> "unlink", at |-> t])
  PROVE  /\ ve \in Versions /\ Others(t, vs, ve)
         /\ Has(ve[t], vs[t].st, FALSE, vs[t].val)
<1> DEFINE o == [vs[t] EXCEPT !.dir = FALSE]
<1>1. ve = [vs EXCEPT ![t] = o]
  BY DEF Written
<1>2. vs[t] \in Version
  BY FreeIs DEF Versions
<1>3. o \in Version /\ o.st = vs[t].st /\ o.dir = FALSE /\ o.val = vs[t].val
  BY <1>2 DEF Version
<1> QED BY <1>1, <1>3 DEF Versions, Others, Has

(* The content is copied. *)
LEMMA DataIs ==
  ASSUME NEW vs \in Versions, NEW t \in Slot, NEW v \in Val \cup {Blank}, NEW ve, vs[t].st # 0,
         ve = Written(vs, [do |-> "data", at |-> t, val |-> v])
  PROVE  /\ ve \in Versions /\ Others(t, vs, ve)
         /\ Has(ve[t], vs[t].st, vs[t].dir, v)
<1> DEFINE o == [vs[t] EXCEPT !.val = v]
<1>1. ve = [vs EXCEPT ![t] = o]
  BY DEF Written
<1>2. vs[t] \in Version
  BY FreeIs DEF Versions
<1>3. o \in Version /\ o.st = vs[t].st /\ o.dir = vs[t].dir /\ o.val = v
  BY <1>2 DEF Version
<1> QED BY <1>1, <1>3 DEF Versions, Others, Has

(* setState. *)
LEMMA StateIs ==
  ASSUME NEW vs \in Versions, NEW t \in Slot, NEW x \in State, NEW ve, vs[t].st # 0,
         ve = Written(vs, [do |-> "state", at |-> t, st |-> x])
  PROVE  /\ ve \in Versions /\ Others(t, vs, ve)
         /\ Has(ve[t], x, vs[t].dir, vs[t].val)
<1> DEFINE o == [vs[t] EXCEPT !.st = x]
<1>1. ve = [vs EXCEPT ![t] = o]
  BY DEF Written
<1>2. vs[t] \in Version
  BY FreeIs DEF Versions
<1>3. o \in Version /\ o.st = x /\ o.dir = vs[t].dir /\ o.val = vs[t].val
  BY <1>2 DEF Version
<1> QED BY <1>1, <1>3 DEF Versions, Others, Has

(* zapObject. *)
LEMMA ZapIs ==
  ASSUME NEW vs \in Versions, NEW t \in Slot, NEW ve,
         ve = Written(vs, [do |-> "zap", at |-> t])
  PROVE  ve \in Versions /\ Others(t, vs, ve) /\ ve[t] = Free
<1>1. ve = [vs EXCEPT ![t] = Free]
  BY DEF Written
<1> QED BY <1>1 DEF Versions, Others
-----------------------------------------------------------------------------
(* Lists of writes. *)

(* A write of object id leaves the versions of every other alone. *)
LEMMA WriteIs ==
  ASSUME NEW id, NEW w \in Write(id), NEW vs \in Versions
  PROVE  /\ w.do # "record" /\ w.at \in Slot /\ w.at[1] = id
         /\ \A s \in Slot : s[1] # id => Written(vs, w)[s] = vs[s]
<1>1. w.do \in {"add", "state", "link", "unlink", "zap", "data"} /\ w.at \in Places(id)
  BY DEF Write
<1>2. \A s \in Slot : s # w.at => Written(vs, w)[s] = vs[s]
  BY <1>1 DEF Written, Versions
<1> QED BY <1>1, <1>2 DEF Places

(* Nothing to write. *)
LEMMA PathEmpty ==
  ASSUME NEW S, NEW vs \in S
  PROVE  Path(S, vs, <<>>, vs)
<1> DEFINE tr == [i \in 0 .. 0 |-> vs]
<1>1. tr \in [0 .. Len(<<>>) -> S] /\ tr[0] = vs /\ tr[Len(<<>>)] = vs
  OBVIOUS
<1> HIDE DEF tr
<1> QED BY <1>1 DEF Path

(* A list of one write. *)
LEMMA PathOne ==
  ASSUME NEW S, NEW w, NEW vs \in S, NEW ve \in S, ve = Written(vs, w)
  PROVE  Path(S, vs, <<w>>, ve)
<1> DEFINE tr == [i \in 0 .. 1 |-> IF i = 0 THEN vs ELSE ve]
<1>1. tr \in [0 .. 1 -> S] /\ tr[0] = vs /\ tr[1] = ve
  OBVIOUS
<1>2. Len(<<w>>) = 1 /\ <<w>>[1] = w
  OBVIOUS
<1> HIDE DEF tr
<1>3. \A i \in 1 .. 1 : tr[i] = Written(tr[i - 1], <<w>>[i])
  BY <1>1, <1>2
<1> QED BY <1>1, <1>2, <1>3 DEF Path

(* One list after another. *)
LEMMA PathConcat ==
  ASSUME NEW S, NEW W, NEW w \in Seq(W), NEW u \in Seq(W), NEW a, NEW b, NEW c,
         Path(S, a, w, b), Path(S, b, u, c)
  PROVE  Path(S, a, w \o u, c)
<1>1. PICK f \in [0 .. Len(w) -> S] :
        /\ f[0] = a /\ f[Len(w)] = b
        /\ \A i \in 1 .. Len(w) : f[i] = Written(f[i - 1], w[i])
  BY DEF Path
<1>2. PICK g \in [0 .. Len(u) -> S] :
        /\ g[0] = b /\ g[Len(u)] = c
        /\ \A i \in 1 .. Len(u) : g[i] = Written(g[i - 1], u[i])
  BY DEF Path
<1> DEFINE n == Len(w)
           m == Len(u)
           x == w \o u
           h == [i \in 0 .. n + m |-> IF i <= n THEN f[i] ELSE g[i - n]]
<1>3. n \in Nat /\ m \in Nat /\ Len(x) = n + m
  BY LenProperties, ConcatProperties
<1>4. /\ \A i \in 1 .. n : x[i] = w[i]
      /\ \A i \in 1 .. m : x[n + i] = u[i]
  BY <1>3, ConcatProperties
<1> HIDE DEF n, m, x
<1>5. /\ h \in [0 .. n + m -> S]
      /\ \A i \in 0 .. n : h[i] = f[i]
      /\ \A i \in 0 .. m : h[n + i] = g[i]
  <2>1. \A i \in 0 .. n : i \in 0 .. n + m /\ h[i] = f[i] /\ f[i] \in S
    BY <1>1, <1>3 DEF n
  <2>2. \A i \in 0 .. m : n + i \in 0 .. n + m /\ h[n + i] = g[i] /\ g[i] \in S
    <3> SUFFICES ASSUME NEW i \in 0 .. m PROVE n + i \in 0 .. n + m /\ h[n + i] = g[i] /\ g[i] \in S
      OBVIOUS
    <3>1. n + i \in 0 .. n + m /\ g[i] \in S
      BY <1>2, <1>3 DEF m
    <3>2. CASE i = 0
      BY <3>1, <3>2, <1>1, <1>2, <1>3 DEF n
    <3>3. CASE i # 0
      <4>1. ~(n + i <= n) /\ (n + i) - n = i
        BY <3>3, <1>3
      <4> QED BY <4>1, <3>1
    <3> QED BY <3>1, <3>2, <3>3
  <2>3. \A i \in 0 .. n + m : i \in 0 .. n \/ (i - n \in 0 .. m /\ i = n + (i - n))
    BY <1>3
  <2> QED BY SMTT(30), <2>1, <2>2, <2>3
<1> HIDE DEF h
<1>6. ASSUME NEW i \in 1 .. n + m PROVE h[i] = Written(h[i - 1], x[i])
  <2>1. CASE i <= n
    <3>1. i \in 1 .. n /\ i \in 0 .. n /\ i - 1 \in 0 .. n
      BY <2>1, <1>3
    <3> QED BY <3>1, <1>1, <1>4, <1>5 DEF n
  <2>2. CASE i > n
    <3>1. i - n \in 1 .. m /\ i - n \in 0 .. m /\ (i - n) - 1 \in 0 .. m
          /\ i = n + (i - n) /\ i - 1 = n + ((i - n) - 1)
      BY <2>2, <1>3
    <3>2. h[i] = g[i - n] /\ h[i - 1] = g[(i - n) - 1] /\ x[i] = u[i - n]
      BY ONLY <3>1, <1>4, <1>5
    <3> QED BY <3>1, <3>2, <1>2 DEF m
  <2> QED BY <2>1, <2>2, <1>3
<1>7. h[0] = a /\ h[n + m] = c
  BY <1>1, <1>2, <1>3, <1>5 DEF n, m
<1>8. h \in [0 .. Len(x) -> S] /\ h[Len(x)] = c
      /\ \A i \in 1 .. Len(x) : h[i] = Written(h[i - 1], x[i])
  BY <1>3, <1>5, <1>6, <1>7
<1> QED BY <1>7, <1>8 DEF Path, x

(* The list is written from its head. *)
LEMMA PathStep ==
  ASSUME NEW S, NEW W, NEW w \in Seq(W), w # <<>>, NEW vs, NEW ve, Path(S, vs, w, ve)
  PROVE  Path(S, Written(vs, Head(w)), Tail(w), ve)
<1>1. PICK f \in [0 .. Len(w) -> S] :
        /\ f[0] = vs /\ f[Len(w)] = ve
        /\ \A i \in 1 .. Len(w) : f[i] = Written(f[i - 1], w[i])
  BY DEF Path
<1> DEFINE n == Len(w)
           u == Tail(w)
           h == [i \in 0 .. n - 1 |-> f[i + 1]]
<1>2. n \in Nat /\ n # 0 /\ Head(w) = w[1]
  BY LenProperties, EmptySeq
<1>3. Len(u) = n - 1 /\ \A i \in 1 .. n - 1 : u[i] = w[i + 1]
  BY <1>2, HeadTailProperties
<1> HIDE DEF n, u
<1>4. h \in [0 .. n - 1 -> S] /\ \A i \in 0 .. n - 1 : h[i] = f[i + 1]
  BY <1>1, <1>2 DEF n
<1> HIDE DEF h
<1>5. h[0] = Written(vs, Head(w)) /\ h[n - 1] = ve
  BY <1>1, <1>2, <1>4 DEF n
<1>6. ASSUME NEW i \in 1 .. n - 1 PROVE h[i] = Written(h[i - 1], u[i])
  <2>1. i + 1 \in 1 .. n /\ i \in 0 .. n - 1 /\ i - 1 \in 0 .. n - 1 /\ (i + 1) - 1 = (i - 1) + 1
    BY <1>2
  <2>2. f[i + 1] = Written(f[(i + 1) - 1], w[i + 1])
    BY <2>1, <1>1 DEF n
  <2> QED BY <2>1, <2>2, <1>3, <1>4
<1>7. h \in [0 .. Len(u) -> S] /\ h[Len(u)] = ve
      /\ \A i \in 1 .. Len(u) : h[i] = Written(h[i - 1], u[i])
  BY <1>3, <1>4, <1>5, <1>6
<1> QED BY <1>5, <1>7 DEF Path, u

(* Where a path starts and ends; a path without writes goes nowhere. *)
LEMMA PathEnds ==
  ASSUME NEW S, NEW W, NEW w \in Seq(W), NEW vs, NEW ve, Path(S, vs, w, ve)
  PROVE  vs \in S /\ ve \in S /\ (w = <<>> => ve = vs)
<1>1. Len(w) \in Nat /\ (w = <<>> => Len(w) = 0)
  BY LenProperties
<1> QED BY <1>1 DEF Path
-----------------------------------------------------------------------------
(* What is on the flash. *)

Base(o) == o.st \in {Committed, Superseded, Deleted}
IsLive(o) == o.st \in Live
Real(o) == o.st \notin {0, Replacing, Rewriting}

(* With the transaction open: a repair takes every object that is kept to D, *)
(* and finds one version to take it from.                                    *)
OpenIs(vs, D) ==
  /\ \A s, t \in Slot : Base(vs[s]) /\ Base(vs[t]) /\ s[1] = t[1] => s = t
  /\ \A s \in Slot : s[1] \in DOMAIN D =>
       /\ vs[s].st = Committed => vs[s].dir
       /\ Base(vs[s]) => vs[s].val = D[s[1]]
  /\ \A id \in DOMAIN D : D[id] # None => \E s \in Slot : s[1] = id /\ Base(vs[s])

(* After the commit point: the readable versions are what D says. *)
CommitIs(vs, D) ==
  /\ \A s, t \in Slot : s # t /\ s[1] = t[1] /\ Real(vs[s]) /\ Real(vs[t]) =>
       \/ vs[s].st = Superseded /\ vs[t].st \in {Superseder, Committed}
       \/ vs[t].st = Superseded /\ vs[s].st \in {Superseder, Committed}
  /\ \A s \in Slot : s[1] \in DOMAIN D /\ IsLive(vs[s]) => vs[s].dir /\ vs[s].val = D[s[1]]
  /\ \A id \in DOMAIN D : D[id] # None => \E s \in Slot : s[1] = id /\ IsLive(vs[s])

OpenSet(D) == {vs \in Versions : OpenIs(vs, D)}
CommitSet(D) == {vs \in Versions : CommitIs(vs, D)}

(* A change at one place keeps what a repair would find. *)
LEMMA OpenKeeps ==
  ASSUME NEW D, NEW vs \in OpenSet(D), NEW ve \in Versions, NEW t \in Slot, Others(t, vs, ve),
         Base(ve[t]) = Base(vs[t]), Base(ve[t]) => ve[t].val = vs[t].val,
         ve[t].st = Committed => ve[t].dir
  PROVE  ve \in OpenSet(D)
<1>1. OpenIs(vs, D)
  BY DEF OpenSet
<1>2. \A s \in Slot : (Base(ve[s]) = Base(vs[s])) /\ (Base(ve[s]) => ve[s].val = vs[s].val)
  BY DEF Others
<1>3. \A s \in Slot : s[1] \in DOMAIN D /\ ve[s].st = Committed => ve[s].dir
  BY <1>1 DEF Others, OpenIs
<1> QED BY <1>1, <1>2, <1>3 DEF OpenIs, OpenSet

(* A change at one place keeps what is readable after the commit point. *)
LEMMA CommitKeeps ==
  ASSUME NEW D, NEW vs \in CommitSet(D), NEW ve \in Versions, NEW t \in Slot, Others(t, vs, ve),
         Real(ve[t]) => Real(vs[t]),
         ve[t].st = vs[t].st \/ ~Real(ve[t]) \/ (ve[t].st = Committed /\ IsLive(vs[t])),
         IsLive(ve[t]) = IsLive(vs[t]),
         IsLive(ve[t]) => ve[t].dir = vs[t].dir /\ ve[t].val = vs[t].val
  PROVE  ve \in CommitSet(D)
<1>1. CommitIs(vs, D)
  BY DEF CommitSet
<1>2. \A s \in Slot : /\ Real(ve[s]) => Real(vs[s])
                      /\ ve[s].st = vs[s].st \/ ~Real(ve[s]) \/ (ve[s].st = Committed /\ IsLive(vs[s]))
                      /\ IsLive(ve[s]) = IsLive(vs[s])
                      /\ IsLive(ve[s]) => ve[s].dir = vs[s].dir /\ ve[s].val = vs[s].val
  BY DEF Others
<1>3. ASSUME NEW r \in Slot, NEW s \in Slot, r # s, r[1] = s[1], Real(ve[r]), Real(ve[s])
      PROVE  \/ ve[r].st = Superseded /\ ve[s].st \in {Superseder, Committed}
             \/ ve[s].st = Superseded /\ ve[r].st \in {Superseder, Committed}
  <2>1. Real(vs[r]) /\ Real(vs[s])
    BY <1>2, <1>3
  <2>2. \/ vs[r].st = Superseded /\ vs[s].st \in {Superseder, Committed}
        \/ vs[s].st = Superseded /\ vs[r].st \in {Superseder, Committed}
    BY <1>1, <1>3, <2>1 DEF CommitIs
  <2> QED BY <1>2, <1>3, <2>2 DEF IsLive, Live
<1>4. \A s \in Slot : s[1] \in DOMAIN D /\ IsLive(ve[s]) => ve[s].dir /\ ve[s].val = D[s[1]]
  BY <1>1, <1>2 DEF CommitIs
<1>5. \A id \in DOMAIN D : D[id] # None => \E s \in Slot : s[1] = id /\ IsLive(ve[s])
  BY <1>1, <1>2 DEF CommitIs
<1> QED BY <1>3, <1>4, <1>5 DEF CommitIs, CommitSet

(* The writes w touch only place t. *)
Changes(S, vs, w, t, ve) == Path(S, vs, w, ve) /\ Others(t, vs, ve)

(* The kinds of writes a place sees are writes of its object. *)
LEMMA WritesAre ==
  ASSUME NEW id \in Id, NEW t \in Places(id), NEW x \in State \ {Committed}, NEW v \in Val \cup {Blank}
  PROVE  /\ Add(t, x) \in Seq(Write(id)) /\ Data(t, v) \in Seq(Write(id))
         /\ SetState(t, x) \in Seq(Write(id)) /\ Dlete(t) \in Seq(Write(id))
<1>1. /\ [do |-> "add", at |-> t, st |-> x] \in Write(id)
      /\ [do |-> "state", at |-> t, st |-> x] \in Write(id)
      /\ [do |-> "link", at |-> t] \in Write(id)
      /\ [do |-> "unlink", at |-> t] \in Write(id)
      /\ [do |-> "zap", at |-> t] \in Write(id)
      /\ [do |-> "data", at |-> t, val |-> v] \in Write(id)
  BY DEF Write
<1> QED BY <1>1 DEF Add, Data, SetState, Dlete

(* Two writes to one place. *)
LEMMA TwoWrites ==
  ASSUME NEW S, NEW t, NEW x, NEW y, NEW a \in S, NEW b \in S, NEW c \in S,
         b = Written(a, x), c = Written(b, y), Others(t, a, b), Others(t, b, c)
  PROVE  Changes(S, a, <<x, y>>, t, c)
<1> DEFINE tr == [i \in 0 .. 2 |-> IF i = 0 THEN a ELSE IF i = 1 THEN b ELSE c]
           w == <<x, y>>
<1>1. tr \in [0 .. 2 -> S] /\ tr[0] = a /\ tr[1] = b /\ tr[2] = c
  OBVIOUS
<1>2. Len(w) = 2 /\ w[1] = x /\ w[2] = y
  OBVIOUS
<1> HIDE DEF tr, w
<1>3. ASSUME NEW i \in 1 .. 2 PROVE tr[i] = Written(tr[i - 1], w[i])
  <2>1. i = 1 \/ i = 2
    OBVIOUS
  <2> QED BY <2>1, <1>1, <1>2
<1>4. Path(S, a, w, c)
  BY <1>1, <1>2, <1>3 DEF Path
<1> QED BY <1>4 DEF Changes, Others, w

(* A copy is added: no repair would take it for the object. *)
LEMMA OpenAdd ==
  ASSUME NEW D, NEW vs \in OpenSet(D), NEW t \in Slot, vs[t].st = 0,
         NEW x \in State, x \in {Replacing, Rewriting, Created}
  PROVE  \E ve \in OpenSet(D) : /\ Changes(OpenSet(D), vs, Add(t, x), t, ve)
                                /\ Has(ve[t], x, TRUE, Blank)
<1> DEFINE a == [do |-> "add", at |-> t, st |-> x]
           l == [do |-> "link", at |-> t]
           v1 == Written(vs, a)
           v2 == Written(v1, l)
<1>1. v1 \in Versions /\ Others(t, vs, v1) /\ Has(v1[t], x, FALSE, Blank)
  <2>1. vs \in Versions
    BY DEF OpenSet
  <2> QED BY <2>1, AddIs
<1>2. v2 \in Versions /\ Others(t, v1, v2) /\ Has(v2[t], x, TRUE, Blank)
  <2>1. v1[t].st # 0 /\ v1[t].st = x /\ v1[t].val = Blank
    BY <1>1 DEF Has
  <2> HIDE DEF v1
  <2> QED BY <1>1, <2>1, LinkIs DEF Has
<1>3. Add(t, x) = <<a, l>>
  BY DEF Add
<1> HIDE DEF a, l
<1>4. v1 = Written(vs, a) /\ v2 = Written(v1, l)
  OBVIOUS
<1> HIDE DEF v1, v2
<1>5. v1 \in OpenSet(D)
  BY <1>1, OpenKeeps DEF Base, Has
<1>6. v2 \in OpenSet(D)
  BY <1>1, <1>2, <1>5, OpenKeeps DEF Base, Has
<1> QED BY <1>1, <1>2, <1>3, <1>4, <1>5, <1>6, TwoWrites

(* Content is copied into a version no repair would take. *)
LEMMA OpenData ==
  ASSUME NEW D, NEW vs \in OpenSet(D), NEW t \in Slot, vs[t].st # 0, ~Base(vs[t]),
         NEW v \in Val \cup {Blank}
  PROVE  \E ve \in OpenSet(D) : /\ Changes(OpenSet(D), vs, Data(t, v), t, ve)
                                /\ Has(ve[t], vs[t].st, vs[t].dir, v)
<1> DEFINE w == [do |-> "data", at |-> t, val |-> v]
           ve == Written(vs, w)
<1>1. ve \in Versions /\ Others(t, vs, ve) /\ Has(ve[t], vs[t].st, vs[t].dir, v)
  BY DataIs DEF OpenSet
<1>2. Data(t, v) = <<w>> /\ ve = Written(vs, w)
  BY DEF Data
<1> HIDE DEF w, ve
<1>3. ve \in OpenSet(D)
  BY <1>1, OpenKeeps DEF Base, Has
<1> QED BY <1>1, <1>2, <1>3, PathOne DEF Changes, Has

(* A version no repair would take is erased. *)
LEMMA OpenDlete ==
  ASSUME NEW D, NEW vs \in OpenSet(D), NEW t \in Slot, vs[t].st # 0, ~Base(vs[t])
  PROVE  \E ve \in OpenSet(D) : Changes(OpenSet(D), vs, Dlete(t), t, ve) /\ ve[t] = Free
<1> DEFINE a == [do |-> "unlink", at |-> t]
           l == [do |-> "zap", at |-> t]
           v1 == Written(vs, a)
           v2 == Written(v1, l)
<1>1. v1 \in Versions /\ Others(t, vs, v1) /\ v1[t].st = vs[t].st
  BY UnlinkIs DEF OpenSet, Has
<1>2. v2 \in Versions /\ Others(t, v1, v2) /\ v2[t] = Free
  BY <1>1, ZapIs
<1>3. Dlete(t) = <<a, l>>
  BY DEF Dlete
<1> HIDE DEF a, l
<1>4. v1 = Written(vs, a) /\ v2 = Written(v1, l)
  OBVIOUS
<1> HIDE DEF v1, v2
<1>5. v1 \in OpenSet(D)
  BY <1>1, OpenKeeps DEF Base, Has
<1>6. v2 \in OpenSet(D)
  BY <1>1, <1>2, <1>5, FreeIs, OpenKeeps DEF Base, Has
<1> QED BY <1>1, <1>2, <1>3, <1>4, <1>5, <1>6, TwoWrites

(* A state is changed that means the same to a repair. *)
LEMMA OpenState ==
  ASSUME NEW D, NEW vs \in OpenSet(D), NEW t \in Slot, vs[t].st # 0, NEW x \in State \ {Committed},
         Base(vs[t]) = (x \in {Superseded, Deleted})
  PROVE  \E ve \in OpenSet(D) : /\ Changes(OpenSet(D), vs, SetState(t, x), t, ve)
                                /\ Has(ve[t], x, vs[t].dir, vs[t].val)
<1> DEFINE w == [do |-> "state", at |-> t, st |-> x]
           ve == Written(vs, w)
<1>1. ve \in Versions /\ Others(t, vs, ve) /\ Has(ve[t], x, vs[t].dir, vs[t].val)
  <2>1. x \in State /\ vs \in Versions
    BY DEF OpenSet, State
  <2> QED BY <2>1, StateIs
<1>2. SetState(t, x) = <<w>> /\ ve = Written(vs, w)
  BY DEF SetState
<1> HIDE DEF w, ve
<1>3. ve \in OpenSet(D)
  BY <1>1, OpenKeeps DEF Base, Has
<1> QED BY <1>1, <1>2, <1>3, PathOne DEF Changes, Has

(* After the commit point: a version becomes the committed one. *)
LEMMA CommitState ==
  ASSUME NEW D, NEW vs \in CommitSet(D), NEW t \in Slot, IsLive(vs[t])
  PROVE  \E ve \in CommitSet(D) : /\ Changes(CommitSet(D), vs, SetState(t, Committed), t, ve)
                                  /\ Has(ve[t], Committed, vs[t].dir, vs[t].val)
<1> DEFINE w == [do |-> "state", at |-> t, st |-> Committed]
           ve == Written(vs, w)
<1>0. vs[t].st # 0
  BY DEF IsLive, Live
<1>1. ve \in Versions /\ Others(t, vs, ve) /\ Has(ve[t], Committed, vs[t].dir, vs[t].val)
  <2>1. vs \in Versions
    BY DEF CommitSet
  <2>2. PICK x \in State : x = Committed
    BY DEF State
  <2> DEFINE vx == Written(vs, [do |-> "state", at |-> t, st |-> x])
  <2>3. vx \in Versions /\ Others(t, vs, vx) /\ Has(vx[t], x, vs[t].dir, vs[t].val)
    BY ONLY x \in State, t \in Slot, <1>0, <2>1, StateIs
  <2>4. vx = ve
    BY <2>2
  <2> HIDE DEF vx, ve
  <2> QED BY ONLY <2>2, <2>3, <2>4
<1>2. SetState(t, Committed) = <<w>> /\ ve = Written(vs, w)
  BY DEF SetState
<1> HIDE DEF w, ve
<1>3. ve \in CommitSet(D)
  <2>1. Real(vs[t]) /\ IsLive(ve[t])
    BY <1>1 DEF IsLive, Live, Has, Real
  <2>2. ve[t].st = Committed /\ ve[t].dir = vs[t].dir /\ ve[t].val = vs[t].val
    BY <1>1 DEF Has
  <2> QED BY <1>1, <2>1, <2>2, CommitKeeps
<1> QED BY <1>1, <1>2, <1>3, PathOne DEF Changes, Has

(* After the commit point: a version nobody reads is erased. *)
LEMMA CommitDlete ==
  ASSUME NEW D, NEW vs \in CommitSet(D), NEW t \in Slot, vs[t].st # 0, ~IsLive(vs[t])
  PROVE  \E ve \in CommitSet(D) : Changes(CommitSet(D), vs, Dlete(t), t, ve) /\ ve[t] = Free
<1> DEFINE a == [do |-> "unlink", at |-> t]
           l == [do |-> "zap", at |-> t]
           v1 == Written(vs, a)
           v2 == Written(v1, l)
<1>1. v1 \in Versions /\ Others(t, vs, v1) /\ v1[t].st = vs[t].st
  BY UnlinkIs DEF CommitSet, Has
<1>2. v2 \in Versions /\ Others(t, v1, v2) /\ v2[t] = Free
  BY <1>1, ZapIs
<1>3. Dlete(t) = <<a, l>>
  BY DEF Dlete
<1> HIDE DEF a, l
<1>4. v1 = Written(vs, a) /\ v2 = Written(v1, l)
  OBVIOUS
<1> HIDE DEF v1, v2
<1>5. v1 \in CommitSet(D)
  <2>1. (IsLive(v1[t]) = IsLive(vs[t])) /\ (Real(v1[t]) = Real(vs[t])) /\ ~IsLive(v1[t])
    BY <1>1 DEF IsLive, Real
  <2> QED BY <1>1, <2>1, CommitKeeps
<1>6. v2 \in CommitSet(D)
  <2>1. ~IsLive(v2[t]) /\ ~Real(v2[t]) /\ (IsLive(v2[t]) = IsLive(v1[t]))
    BY <1>1, <1>2, FreeIs DEF IsLive, Live, Real
  <2> QED BY <1>2, <1>5, <2>1, CommitKeeps
<1> QED BY <1>1, <1>2, <1>3, <1>4, <1>5, <1>6, TwoWrites
-----------------------------------------------------------------------------
(* Between two writes. *)

(* Between calls: two versions of an object are the one replaced and the one *)
(* that replaces it, except for half-written copies.                         *)
Stable(vs, D) ==
  /\ \A s, t \in Slot : s # t /\ s[1] = t[1] /\ Real(vs[s]) /\ Real(vs[t]) =>
       \/ vs[s].st = Superseded /\ vs[t].st = Superseder
       \/ vs[t].st = Superseded /\ vs[s].st = Superseder
  /\ \A s \in Slot : vs[s].st = Superseded => vs[s].dir
  /\ \A s \in Slot : s[1] \in DOMAIN D =>
       /\ Real(vs[s]) => vs[s].dir
       /\ vs[s].st = Superseder => \E t \in Slot : t[1] = s[1] /\ vs[t].st = Superseded

Settled(vs, D) ==
  \A s \in Slot : s[1] \in DOMAIN D => vs[s].st \in {0, Replacing, Rewriting, Committed}

(* The tracker tr knows every object with a version to settle, unless it is  *)
(* full or locked.                                                           *)
Noted(vs, D, tr, locked) ==
  ~(Len(tr) >= TrackerSize) /\ ~locked =>
    \A s \in Slot : s[1] \in DOMAIN D /\ vs[s].st \in {Created, Superseded, Superseder} =>
      \E i \in 1 .. Len(tr) : tr[i] = s[1]

(* What the iterator of doCommit has to come to, itself or by the partner;   *)
(* of the objects that are not kept, only what the invariant rests on.       *)
Pending(vs, D, T) ==
  /\ \A s \in Slot : s[1] \in DOMAIN D =>
       /\ vs[s].st \in {Created, Deleted} => s \in T
       /\ vs[s].st = Superseded =>
            s \in T \/ (vs[s].dir /\ \E t \in Slot : t \in T /\ t[1] = s[1] /\ vs[t].st = Superseder)
       /\ vs[s].st = Superseder =>
            s \in T \/ \E t \in Slot : t \in T /\ t[1] = s[1] /\ vs[t].st = Superseded
  /\ \A s \in Slot : vs[s].st = Superseded => s \in T \/ vs[s].dir
  /\ \A s, t \in Slot : s[1] = t[1] /\ vs[s].st = Superseded /\ vs[t].st = Committed => s \in T

(* What the two passes of doAbort have to come to. *)
UndoLeft(vs, T) ==
  \A s \in Slot : vs[s].st \in {Replacing, Rewriting, Created, Superseder} => s \in T
RestoreLeft(vs, T) ==
  \A s \in Slot : /\ vs[s].st \notin {Replacing, Rewriting, Created, Superseder}
                  /\ vs[s].st \in {Superseded, Deleted} => s \in T

ZapAt(s) == [do |-> "zap", at |-> s]
CommitAt(t) == [do |-> "state", at |-> t, st |-> Committed]
CallWrite == UNION {Write(id) : id \in Id}
AnyWrite == CallWrite \cup {CommitAt(t) : t \in Slot}
Settles(w) == \A i \in 1 .. Len(w) : w[i].do = "state" => w[i].st = Committed

(* D for the objects in L. *)
Cut(D, L) == [id \in L |-> D[id]]
-----------------------------------------------------------------------------
(* The invariant: D is what a power failure would leave. *)

TypeOK ==
  /\ versions \in Versions /\ record \in {"none", "open", "commit"}
  /\ inTxn \in BOOLEAN /\ needsRepair \in BOOLEAN /\ lockCount \in Nat
  /\ tracker \in Seq(Id) /\ trackerLocked \in BOOLEAN /\ todo \in SUBSET Slot

Quiet == phase = "idle" /\ ~needsRepair /\ writes = <<>>

Rest(D) == /\ Quiet /\ ~inTxn /\ record = "none"
           /\ versions \in OpenSet(D) /\ Settled(versions, D) /\ Stable(versions, D)

Open(D) == /\ Quiet /\ inTxn /\ record = "open"
           /\ versions \in OpenSet(D) /\ Stable(versions, D)
           /\ Noted(versions, D, tracker, trackerLocked)

Between(D) == IF inTxn THEN Open(D) ELSE Rest(D)

(* A call on one object is at some write of its list. *)
InCallOn(D, id) ==
  /\ phase = "call" /\ ~needsRepair /\ inTxn
  /\ \E w \in Seq(Write(id)) : \E ve \in Versions :
       /\ Path(OpenSet(D), versions, w, ve)
       /\ Stable(ve, D) /\ Noted(ve, D, tracker, trackerLocked)
       /\ \/ record = "open" /\ writes = w
          \/ /\ record = "none" /\ writes = Record("open") \o w
             /\ Settled(versions, D) /\ Stable(versions, D)
InCall(D) == \E id : InCallOn(D, id)

Marking(D) == /\ phase = "commit" /\ ~needsRepair /\ record = "open"
              /\ writes = Record("commit")
              /\ versions \in OpenSet(D) /\ Stable(versions, D) /\ Pending(versions, D, todo)

Committing(D) ==
  /\ phase = "commit" /\ record = "commit"
  /\ writes \in Seq(AnyWrite) /\ Settles(writes)
  /\ \E ve \in Versions : Path(CommitSet(D), versions, writes, ve) /\ Pending(ve, D, todo)

CommitCut(D) == /\ phase = "idle" /\ needsRepair /\ ~inTxn /\ writes = <<>>
                /\ record = "commit" /\ versions \in CommitSet(D)

OpenCut(D) == /\ phase = "idle" /\ needsRepair /\ ~inTxn /\ writes = <<>>
              /\ record = "open" /\ versions \in OpenSet(D)

Undoing(D) ==
  /\ phase = "undo" /\ record = "open" /\ writes \in Seq(CallWrite)
  /\ \E ve \in Versions : Path(OpenSet(D), versions, writes, ve) /\ UndoLeft(ve, todo)

(* The old version is erased, the copy in slot t not yet committed: for all  *)
(* other objects the store is as it should be.                               *)
Bringing(D, vz, t, ve) ==
  /\ vz \in OpenSet(Cut(D, DOMAIN D \ {t[1]})) /\ vz[t].st = Replacing
  /\ ve = Written(vz, CommitAt(t))

Restoring(D) ==
  /\ phase = "restore" /\ record = "open"
  /\ \E ve \in OpenSet(D) :
       /\ RestoreLeft(ve, todo)
       /\ \/ \E w \in Seq(CallWrite) : \E s, t \in Slot : \E vm \in OpenSet(D) :
               /\ writes = w \o <<ZapAt(s), CommitAt(t)>>
               /\ Path(OpenSet(D), versions, w, vm)
               /\ Bringing(D, Written(vm, ZapAt(s)), t, ve)
          \/ \E t \in Slot : writes = <<CommitAt(t)>> /\ Bringing(D, versions, t, ve)
          \/ writes = <<>> /\ versions = ve

Mode(D) ==
  \/ Rest(D) \/ Open(D) \/ InCall(D) \/ Marking(D) \/ Committing(D)
  \/ CommitCut(D) \/ OpenCut(D) \/ Undoing(D) \/ Restoring(D)

Modes(D) == D = Cut(D, Kept) /\ Mode(D)

Inv == TypeOK /\ \E D : Modes(D)

(* What the transaction record says of the versions. *)
LEMMA FlashIs ==
  ASSUME NEW D, Modes(D)
  PROVE  /\ record \in {"none", "open"} /\ ~Restoring(D) => versions \in OpenSet(D)
         /\ record = "none" => Settled(versions, D) /\ Stable(versions, D)
         /\ record = "commit" => versions \in CommitSet(D)
<1>1. CASE Rest(D) \/ Open(D) \/ Marking(D) \/ CommitCut(D) \/ OpenCut(D)
  BY <1>1 DEF Rest, Open, Marking, CommitCut, OpenCut
<1>2. CASE InCall(D)
  BY <1>2, PathEnds DEF InCall, InCallOn
<1>3. CASE Committing(D)
  BY <1>3, PathEnds DEF Committing
<1>4. CASE Undoing(D)
  BY <1>4, PathEnds DEF Undoing
<1>5. CASE Restoring(D)
  BY <1>5 DEF Restoring
<1> QED BY <1>1, <1>2, <1>3, <1>4, <1>5 DEF Modes, Mode

(* What holds of D holds of a part of it. *)
LEMMA CutIs ==
  ASSUME NEW D, NEW L, L \subseteq DOMAIN D
  PROVE  /\ DOMAIN Cut(D, L) = L /\ \A id \in L : Cut(D, L)[id] = D[id]
         /\ OpenSet(D) \subseteq OpenSet(Cut(D, L))
         /\ CommitSet(D) \subseteq CommitSet(Cut(D, L))
         /\ \A vs : Stable(vs, D) => Stable(vs, Cut(D, L))
         /\ \A vs : Settled(vs, D) => Settled(vs, Cut(D, L))
         /\ \A vs, tr, x : Noted(vs, D, tr, x) => Noted(vs, Cut(D, L), tr, x)
<1> DEFINE E == Cut(D, L)
<1>1. DOMAIN E = L /\ \A id \in L : E[id] = D[id]
  BY DEF Cut
<1> HIDE DEF E
<1>2. \A vs : OpenIs(vs, D) => OpenIs(vs, E)
  BY <1>1 DEF OpenIs
<1>3. \A vs : CommitIs(vs, D) => CommitIs(vs, E)
  BY <1>1 DEF CommitIs
<1>4. /\ \A vs : Stable(vs, D) => Stable(vs, E)
      /\ \A vs : Settled(vs, D) => Settled(vs, E)
  BY <1>1 DEF Stable, Settled
<1>5. \A vs, tr, x : Noted(vs, D, tr, x) => Noted(vs, E, tr, x)
  BY <1>1 DEF Noted
<1> QED BY <1>1, <1>2, <1>3, <1>4, <1>5 DEF OpenSet, CommitSet, E

(* So it does between calls. *)
LEMMA CutBetween ==
  ASSUME NEW D, Between(D), NEW L, L \subseteq DOMAIN D
  PROVE  Between(Cut(D, L))
<1> DEFINE E == Cut(D, L)
<1>1. CASE inTxn
  <2>1. Open(D)
    BY <1>1 DEF Between
  <2>2. Open(E)
    BY <2>1, CutIs DEF Open
  <2> QED BY <1>1, <2>2 DEF Between
<1>2. CASE ~inTxn
  <2>1. Rest(D)
    BY <1>2 DEF Between
  <2>2. Rest(E)
    BY <2>1, CutIs DEF Rest
  <2> QED BY <1>2, <2>2 DEF Between
<1> QED BY <1>1, <1>2

(* Between calls. *)
LEMMA IdleIs ==
  ASSUME TypeOK, NEW D, Modes(D), Idle
  PROVE  Between(D)
<1>1. CASE Rest(D)
  BY <1>1 DEF Rest, Between
<1>2. CASE Open(D)
  BY <1>2 DEF Open, Between
<1> QED BY <1>1, <1>2 DEF Modes, Mode, Idle, InCall, InCallOn, Marking, Committing, CommitCut, OpenCut, Undoing, Restoring

(* What holds between calls, in a transaction or not. *)
LEMMA BetweenIs ==
  ASSUME TypeOK, NEW D, Between(D)
  PROVE  /\ Quiet /\ Idle /\ versions \in OpenSet(D) /\ Stable(versions, D)
         /\ Noted(versions, D, tracker, trackerLocked)
         /\ record \in {"none", "open"}
<1>1. CASE Rest(D)
  BY <1>1 DEF Rest, Noted, Settled, Quiet, Idle
<1>2. CASE Open(D)
  BY <1>2 DEF Open, Quiet, Idle
<1> QED BY <1>1, <1>2 DEF Between
-----------------------------------------------------------------------------
(* The calls. *)

(* A set of numbers has a least one. *)
LEMMA LeastNumber ==
  ASSUME NEW T \in SUBSET Nat, T # {}
  PROVE  \E n \in T : \A m \in T : n <= m
<1>1. IsWellFoundedOn(OpToRel(<, Nat), Nat)
  BY NatLessThanWellFounded
<1>2. PICK n \in T : \A m \in T : ~(<<m, n>> \in OpToRel(<, Nat))
  BY <1>1, WFMin
<1>3. \A m \in T : ~(m < n)
  BY <1>2 DEF OpToRel
<1> QED BY <1>3

(* What is in use, of which object. *)
LEMMA InUseIs ==
  ASSUME versions \in Versions
  PROVE  /\ \A s \in Slot : (s \in InUse) = (versions[s].st # 0)
         /\ \A s \in InUse : s \in Slot /\ versions[s] \in Version /\ versions[s].st \in State
         /\ \A s \in Slot : s[1] \in Id /\ s \in Places(s[1])
         /\ \A id \in Id : \A s \in Places(id) : s \in Slot /\ s[1] = id
<1>1. \A s \in Slot : (s \in InUse) = (versions[s].st # 0)
  BY FreeIs DEF InUse, Versions
<1>2. \A s \in InUse : s \in Slot /\ versions[s] \in Version
  BY DEF InUse, Versions
<1> QED BY <1>1, <1>2 DEF Version, Slot, Places

(* addObject finds an empty place when there is one. *)
LEMMA FreeSlotIs ==
  ASSUME versions \in Versions, NEW id \in Id, HasRoom(id)
  PROVE  FreeSlot(id) \in Places(id) /\ versions[FreeSlot(id)].st = 0
<1> DEFINE T == {n \in 1 .. MaxVersion : <<id, n>> \notin InUse}
           P(n) == /\ <<id, n>> \notin InUse
                   /\ \A m \in 1 .. n - 1 : <<id, m>> \in InUse
<1>1. T # {} /\ T \in SUBSET Nat
  BY DEF HasRoom
<1>2. PICK n \in T : \A m \in T : n <= m
  BY <1>1, LeastNumber
<1>3. n \in 1 .. MaxVersion /\ MaxVersion \in Nat
  BY FlashAssumption
<1>4. \A m \in 1 .. n - 1 : m \in 1 .. MaxVersion /\ ~(n <= m)
  BY <1>3
<1>5. P(n)
  BY <1>2, <1>4
<1> DEFINE k == CHOOSE n1 \in 1 .. MaxVersion : P(n1)
<1>6. k \in 1 .. MaxVersion /\ P(k)
  BY <1>3, <1>5
<1>7. FreeSlot(id) = <<id, k>>
  BY DEF FreeSlot
<1> HIDE DEF k
<1>8. <<id, k>> \in Slot /\ <<id, k>> \notin InUse /\ <<id, k>>[1] = id
  BY <1>6 DEF Slot
<1> QED BY <1>7, <1>8, InUseIs DEF Places

(* What a lookup may find. *)
LEMMA ReadableIs ==
  ASSUME versions \in Versions, NEW id \in Id, NEW s \in Readable(id)
  PROVE  /\ s \in Places(id) /\ versions[s] \in Version /\ versions[s].dir
         /\ versions[s].st \in {Created, Committed, Superseder}
BY InUseIs DEF Readable, Linked, Of, Live, Places

(* The tracker when a call has changed the versions of one object. *)
LEMMA NotedTracked ==
  ASSUME NEW D, NEW vs, NEW ve, NEW id \in Id, tracker \in Seq(Id),
         Noted(vs, D, tracker, trackerLocked), \A s \in Slot : s[1] # id => ve[s] = vs[s]
  PROVE  Noted(ve, D, Track(id), trackerLocked) /\ Track(id) \in Seq(Id)
<1>0. Len(tracker) \in Nat
  BY LenProperties
<1>1. CASE ~(Len(tracker) < TrackerSize)
  <2>1. Track(id) = tracker
    BY <1>1 DEF Track
  <2>2. ASSUME ~(Len(tracker) >= TrackerSize) PROVE FALSE
    BY <1>0, <1>1, <2>2, FlashAssumption
  <2> QED BY <2>1, <2>2 DEF Noted
<1>2. CASE Len(tracker) < TrackerSize
  <2> DEFINE n == Len(tracker)
             tr == Append(tracker, id)
  <2>1. tr \in Seq(Id) /\ Len(tr) = n + 1 /\ tr[n + 1] = id
        /\ \A i \in 1 .. n : tr[i] = tracker[i]
    BY AppendProperties
  <2>2. Track(id) = tr
    BY <1>2 DEF Track
  <2> HIDE DEF tr
  <2>3. ASSUME ~(Len(tr) >= TrackerSize), ~trackerLocked, NEW s \in Slot,
               s[1] \in DOMAIN D, ve[s].st \in {Created, Superseded, Superseder}
        PROVE  \E i \in 1 .. Len(tr) : tr[i] = s[1]
    <3>1. CASE s[1] = id
      BY <3>1, <1>0, <2>1
    <3>2. CASE s[1] # id
      <4>1. vs[s].st \in {Created, Superseded, Superseder}
        BY <3>2, <2>3
      <4>2. ~(n >= TrackerSize)
        BY <1>0, <1>2, FlashAssumption
      <4>3. PICK i \in 1 .. n : tracker[i] = s[1]
        BY <4>1, <4>2, <2>3 DEF Noted
      <4>4. i \in 1 .. n + 1
        BY <1>0
      <4> QED BY <2>1, <4>3, <4>4
    <3> QED BY <3>1, <3>2
  <2> QED BY <2>1, <2>2, <2>3 DEF Noted
<1> QED BY <1>1, <1>2

(* The tracker when a call only changes an object that had versions to       *)
(* settle before it.                                                         *)
LEMMA NotedKept ==
  ASSUME NEW D, NEW vs, NEW ve, Noted(vs, D, tracker, trackerLocked),
         \A s \in Slot : ve[s].st \in {Created, Superseded, Superseder} =>
           \E t \in Slot : t[1] = s[1] /\ vs[t].st \in {Created, Superseded, Superseder}
  PROVE  Noted(ve, D, tracker, trackerLocked)
BY DEF Noted

(* The versions of one object, between calls. *)
StableAt(vs, id, D) ==
  /\ \A s, t \in Slot : s[1] = id /\ t[1] = id /\ s # t /\ Real(vs[s]) /\ Real(vs[t]) =>
       \/ vs[s].st = Superseded /\ vs[t].st = Superseder
       \/ vs[t].st = Superseded /\ vs[s].st = Superseder
  /\ \A s \in Slot : s[1] = id /\ vs[s].st = Superseded => vs[s].dir
  /\ id \in DOMAIN D => \A s \in Slot : s[1] = id =>
       /\ Real(vs[s]) => vs[s].dir
       /\ vs[s].st = Superseder => \E t \in Slot : t[1] = id /\ vs[t].st = Superseded

(* A call leaves the versions of the other objects alone. *)
LEMMA StableKept ==
  ASSUME NEW D, NEW vs, NEW ve, NEW id, Stable(vs, D), StableAt(ve, id, D),
         \A s \in Slot : s[1] # id => ve[s] = vs[s]
  PROVE  Stable(ve, D)
<1>1. \A s \in Slot : ve[s].st = Superseded => ve[s].dir
  BY DEF Stable, StableAt
<1>2. ASSUME NEW s \in Slot, NEW t \in Slot, s # t, s[1] = t[1], Real(ve[s]), Real(ve[t])
      PROVE  \/ ve[s].st = Superseded /\ ve[t].st = Superseder
             \/ ve[t].st = Superseded /\ ve[s].st = Superseder
  BY <1>2 DEF Stable, StableAt
<1>3. ASSUME NEW s \in Slot, s[1] \in DOMAIN D
      PROVE  /\ Real(ve[s]) => ve[s].dir
             /\ ve[s].st = Superseder => \E t \in Slot : t[1] = s[1] /\ ve[t].st = Superseded
  <2>1. CASE s[1] = id
    BY <1>3, <2>1 DEF StableAt
  <2>2. CASE s[1] # id
    <3>1. /\ Real(vs[s]) => vs[s].dir
          /\ vs[s].st = Superseder => \E t \in Slot : t[1] = s[1] /\ vs[t].st = Superseded
      BY <1>3 DEF Stable
    <3> QED BY <2>2, <3>1
  <2> QED BY <2>1, <2>2
<1> QED BY <1>1, <1>2, <1>3 DEF Stable

(* A call that begins: its writes will leave the store stable, with a        *)
(* tracker that knows what they change.                                      *)
LEMMA ModifyStep ==
  ASSUME TypeOK, NEW D, Between(D), NEW id, NEW w \in Seq(Write(id)),
         NEW track \in Seq(Id), NEW hold \in BOOLEAN, NEW ve \in OpenSet(D),
         Path(OpenSet(D), versions, w, ve), Stable(ve, D),
         Noted(ve, D, track, trackerLocked \/ hold), Modify(w, track, hold)
  PROVE  TypeOK' /\ InCallOn(D, id)'
<1>1. TypeOK'
  BY DEF TypeOK, Modify, flash
<1>2. /\ phase' = "call" /\ needsRepair' = FALSE /\ inTxn' = TRUE
      /\ versions' = versions /\ record' = record
      /\ tracker' = track /\ trackerLocked' = (trackerLocked \/ hold)
  BY BetweenIs DEF Modify, flash, Idle
<1>3. /\ inTxn => record = "open" /\ writes' = w
      /\ ~inTxn => /\ record = "none" /\ writes' = Record("open") \o w
                   /\ Settled(versions, D) /\ Stable(versions, D)
  <2>1. CASE inTxn
    <3>1. writes' = <<>> \o w
      BY <2>1 DEF Modify, Begin
    <3> QED BY <2>1, <3>1, ConcatEmptySeq DEF Open, Between
  <2>2. CASE ~inTxn
    BY <2>2 DEF Modify, Begin, Rest, Between
  <2> QED BY <2>1, <2>2
<1>4. ve \in Versions /\ inTxn \in BOOLEAN
  BY DEF OpenSet, TypeOK
<1> QED BY <1>1, <1>2, <1>3, <1>4 DEF InCall, InCallOn

(* newObject, with or without content. *)
LEMMA NewObjectStep ==
  ASSUME TypeOK, NEW D, Between(D), NEW id \in Id,
         \/ NewObject(id, <<>>)
         \/ \E v \in Val : NewObject(id, Data(FreeSlot(id), v))
  PROVE  TypeOK' /\ InCallOn(D, id)'
<1> DEFINE t == FreeSlot(id)
<1>0. versions \in Versions /\ versions \in OpenSet(D) /\ Stable(versions, D)
      /\ Noted(versions, D, tracker, trackerLocked) /\ tracker \in Seq(Id)
  BY BetweenIs DEF TypeOK
<1>1. \A s \in Slot : s[1] = id => versions[s].st = 0
  <2>1. Of(id, State) = {}
    BY DEF NewObject
  <2> QED BY <1>0, <2>1, InUseIs DEF Of
<1>2. t \in Places(id) /\ versions[t].st = 0
  <2>1. <<id, 1>> \in Slot /\ <<id, 1>>[1] = id /\ 1 \in 1 .. MaxVersion
    BY FlashAssumption DEF Slot
  <2>2. HasRoom(id)
    BY <1>0, <1>1, <2>1, InUseIs DEF HasRoom
  <2> QED BY <1>0, <2>2, FreeSlotIs
<1> HIDE DEF t
<1>3. t \in Slot /\ t[1] = id /\ Created \in State \ {Committed}
  BY <1>2 DEF Places, State
<1>4. PICK v1 \in OpenSet(D) : /\ Changes(OpenSet(D), versions, Add(t, Created), t, v1)
                               /\ Has(v1[t], Created, TRUE, Blank)
  BY <1>0, <1>2, <1>3, OpenAdd
<1>5. Add(t, Created) \in Seq(Write(id))
  BY <1>2, <1>3, WritesAre
<1>6. ASSUME NEW w \in Seq(Write(id)), NEW ve \in OpenSet(D),
             Path(OpenSet(D), versions, w, ve), Others(t, versions, ve),
             ve[t].st = Created, ve[t].dir, Modify(w, Track(id), FALSE)
      PROVE  TypeOK' /\ InCallOn(D, id)'
  <2>1. \A s \in Slot : s # t => ve[s] = versions[s]
    BY <1>6 DEF Others
  <2>2. \A s \in Slot : s[1] # id => ve[s] = versions[s]
    BY <1>3, <2>1
  <2>3. StableAt(ve, id, D)
    BY <1>1, <1>6, <2>1 DEF StableAt, Real
  <2>4. Stable(ve, D)
    BY <1>0, <2>2, <2>3, StableKept
  <2>5. Noted(ve, D, Track(id), trackerLocked) /\ Track(id) \in Seq(Id)
    BY <1>0, <2>2, NotedTracked
  <2>6. (trackerLocked \/ FALSE) = trackerLocked
    BY DEF TypeOK
  <2> QED BY <1>0, <1>6, <2>4, <2>5, <2>6, ModifyStep
<1>7. CASE NewObject(id, <<>>)
  <2>1. Modify(Add(t, Created) \o <<>>, Track(id), FALSE)
    BY <1>7 DEF NewObject, t
  <2>2. Add(t, Created) \o <<>> = Add(t, Created)
    BY <1>5, ConcatEmptySeq
  <2> QED BY <1>4, <1>5, <1>6, <2>1, <2>2 DEF Changes, Has
<1>8. ASSUME NEW v \in Val, NewObject(id, Data(t, v)) PROVE TypeOK' /\ InCallOn(D, id)'
  <2>1. Modify(Add(t, Created) \o Data(t, v), Track(id), FALSE)
    BY <1>8 DEF NewObject, t
  <2>2. v1[t].st # 0 /\ ~Base(v1[t]) /\ v \in Val \cup {Blank}
    BY <1>4 DEF Has, Base
  <2>3. PICK ve \in OpenSet(D) : /\ Changes(OpenSet(D), v1, Data(t, v), t, ve)
                                 /\ Has(ve[t], v1[t].st, v1[t].dir, v)
    BY <1>3, <2>2, OpenData
  <2>4. Data(t, v) \in Seq(Write(id))
    BY <1>2, <1>3, <2>2, WritesAre
  <2>5. /\ Path(OpenSet(D), versions, Add(t, Created) \o Data(t, v), ve)
        /\ Add(t, Created) \o Data(t, v) \in Seq(Write(id))
    BY <1>4, <1>5, <2>3, <2>4, PathConcat, ConcatProperties DEF Changes
  <2>6. Others(t, versions, ve) /\ ve[t].st = Created /\ ve[t].dir
    BY <1>4, <2>3 DEF Changes, Others, Has
  <2> QED BY <1>6, <2>1, <2>5, <2>6
<1> QED BY <1>7, <1>8 DEF t

(* One list of writes after another. *)
LEMMA PathThen ==
  ASSUME NEW S, NEW W, NEW w \in Seq(W), NEW u \in Seq(W), NEW a, NEW b, NEW c,
         Path(S, a, w, b), Path(S, b, u, c)
  PROVE  Path(S, a, w \o u, c) /\ w \o u \in Seq(W)
BY PathConcat, ConcatProperties

(* clone: a copy that no repair would take. *)
LEMMA CloneIs ==
  ASSUME NEW D, NEW vs \in OpenSet(D), NEW id \in Id, NEW t \in Places(id), vs[t].st = 0,
         NEW x \in State, x \in {Replacing, Rewriting}, NEW v \in Val \cup {Blank}
  PROVE  /\ Clone(t, x, v) \in Seq(Write(id))
         /\ \E ve \in OpenSet(D) : /\ Changes(OpenSet(D), vs, Clone(t, x, v), t, ve)
                                   /\ Has(ve[t], x, TRUE, v)
<1>1. t \in Slot
  BY DEF Places
<1>2. PICK v1 \in OpenSet(D) : /\ Changes(OpenSet(D), vs, Add(t, x), t, v1)
                               /\ Has(v1[t], x, TRUE, Blank)
  BY <1>1, OpenAdd
<1>3. v1[t].st # 0 /\ ~Base(v1[t])
  BY <1>2 DEF Has, Base
<1>4. PICK ve \in OpenSet(D) : /\ Changes(OpenSet(D), v1, Data(t, v), t, ve)
                               /\ Has(ve[t], v1[t].st, v1[t].dir, v)
  BY <1>1, <1>3, OpenData
<1>5. Add(t, x) \in Seq(Write(id)) /\ Data(t, v) \in Seq(Write(id))
  <2>1. x \in State \ {Committed}
    OBVIOUS
  <2> QED BY <2>1, WritesAre
<1>6. Path(OpenSet(D), vs, Clone(t, x, v), ve) /\ Clone(t, x, v) \in Seq(Write(id))
  BY <1>2, <1>4, <1>5, PathThen DEF Changes, Clone
<1>7. Others(t, vs, ve) /\ Has(ve[t], x, TRUE, v)
  BY <1>2, <1>4 DEF Changes, Others, Has
<1> QED BY <1>6, <1>7 DEF Changes

(* write into a version nobody has written yet. *)
LEMMA FillStep ==
  ASSUME TypeOK, NEW D, Between(D), NEW id \in Id, NEW v \in Val \cup {Blank},
         NEW s \in Readable(id), versions[s].st # Committed, Modify(Data(s, v), tracker, FALSE)
  PROVE  TypeOK' /\ InCallOn(D, id)'
<1>0. versions \in Versions /\ versions \in OpenSet(D) /\ Stable(versions, D)
      /\ Noted(versions, D, tracker, trackerLocked) /\ tracker \in Seq(Id)
  BY BetweenIs DEF TypeOK
<1>1. s \in Places(id) /\ s \in Slot /\ s[1] = id /\ versions[s].st \in {Created, Superseder}
      /\ versions[s].dir
  BY <1>0, ReadableIs DEF Places
<1>2. versions[s].st # 0 /\ ~Base(versions[s])
  BY <1>1 DEF Base
<1>3. PICK ve \in OpenSet(D) : /\ Changes(OpenSet(D), versions, Data(s, v), s, ve)
                               /\ Has(ve[s], versions[s].st, versions[s].dir, v)
  BY <1>0, <1>1, <1>2, OpenData
<1>4. \A t \in Slot : ve[t].st = versions[t].st /\ ve[t].dir = versions[t].dir
  BY <1>3 DEF Changes, Others, Has
<1>5. Stable(ve, D) /\ Noted(ve, D, tracker, trackerLocked)
  BY <1>0, <1>4 DEF Stable, Noted, Real
<1>6. Data(s, v) \in Seq(Write(id)) /\ (trackerLocked \/ FALSE) = trackerLocked
  <2>1. Created \in State \ {Committed}
    BY DEF State
  <2> QED BY <1>1, <2>1, WritesAre DEF TypeOK
<1> QED BY <1>0, <1>3, <1>5, <1>6, ModifyStep DEF Changes

(* A version of this transaction is rewritten: its copy takes its place. *)
LEMMA CopyPath ==
  ASSUME TypeOK, NEW D, Between(D), NEW id \in Id, NEW v \in Val \cup {Blank}, HasRoom(id),
         NEW s \in Readable(id), versions[s].st # Committed
  PROVE  /\ Replace(s, v) \in Seq(Write(id))
         /\ \E ve \in OpenSet(D) :
              /\ Path(OpenSet(D), versions, Replace(s, v), ve)
              /\ Stable(ve, D) /\ Noted(ve, D, tracker, trackerLocked)
         /\ \E b \in OpenSet(D), x \in {Replacing, Rewriting} :
              LET t == FreeSlot(id)
                  w == Clone(t, x, v) \o Dlete(s)
              IN  /\ Replace(s, v) = Clone(t, x, v) \o (Dlete(s) \o SetState(t, versions[s].st))
                  /\ Path(OpenSet(D), versions, w, b) /\ w \in Seq(Write(id)) /\ Stable(b, D)
<1> DEFINE t == FreeSlot(id)
<1>0. versions \in Versions /\ versions \in OpenSet(D) /\ Stable(versions, D)
      /\ Noted(versions, D, tracker, trackerLocked) /\ tracker \in Seq(Id)
  BY BetweenIs DEF TypeOK
<1>1. s \in Places(id) /\ s \in Slot /\ s[1] = id /\ versions[s].st \in {Created, Superseder}
      /\ versions[s].dir
  BY <1>0, ReadableIs DEF Places
<1>2. t \in Places(id) /\ t \in Slot /\ t[1] = id /\ versions[t].st = 0 /\ t # s
  BY <1>0, <1>1, FreeSlotIs DEF Places
<1>3. PICK y \in State \ {Committed} : y = versions[s].st
  BY <1>1 DEF State
<1>4. PICK x \in State :
        /\ x \in {Replacing, Rewriting}
        /\ Replace(s, v) = Clone(t, x, v) \o (Dlete(s) \o SetState(t, y))
  <2>1. PICK x \in State : x = IF versions[s].st = Created THEN Rewriting ELSE Replacing
    BY DEF State
  <2> HIDE DEF Rewriting, Replacing, Committed, Created
  <2>2. x \in {Replacing, Rewriting}
    BY <2>1
  <2>3. Replace(s, v) = Clone(t, x, v) \o (Dlete(s) \o SetState(t, y))
    BY <1>1, <1>3, <2>1 DEF Replace
  <2> QED BY <2>2, <2>3
<1> HIDE DEF t
<1>5. Clone(t, x, v) \in Seq(Write(id))
  BY <1>0, <1>2, <1>4, CloneIs
<1>6. PICK v1 \in OpenSet(D) : /\ Changes(OpenSet(D), versions, Clone(t, x, v), t, v1)
                               /\ Has(v1[t], x, TRUE, v)
  BY <1>0, <1>2, <1>4, CloneIs
<1>7. v1[s].st # 0 /\ ~Base(v1[s])
  BY <1>1, <1>2, <1>6 DEF Changes, Others, Base
<1>8. PICK v2 \in OpenSet(D) : Changes(OpenSet(D), v1, Dlete(s), s, v2) /\ v2[s] = Free
  BY <1>1, <1>7, OpenDlete
<1>9. v2[t] = v1[t] /\ v2[t].st # 0 /\ ~Base(v2[t])
  BY <1>2, <1>4, <1>6, <1>8 DEF Changes, Others, Base, Has
<1>10. y \in State \ {Committed} /\ Base(v2[t]) = (y \in {Superseded, Deleted})
  BY <1>1, <1>3, <1>9 DEF Base
<1>11. PICK ve \in OpenSet(D) : /\ Changes(OpenSet(D), v2, SetState(t, y), t, ve)
                                /\ Has(ve[t], y, v2[t].dir, v2[t].val)
  BY <1>2, <1>9, <1>10, OpenState
<1>12. Dlete(s) \in Seq(Write(id)) /\ SetState(t, y) \in Seq(Write(id))
  BY <1>1, <1>2, WritesAre
<1>13. /\ Path(OpenSet(D), versions, Clone(t, x, v) \o Dlete(s), v2)
       /\ Clone(t, x, v) \o Dlete(s) \in Seq(Write(id))
       /\ Path(OpenSet(D), versions, Replace(s, v), ve) /\ Replace(s, v) \in Seq(Write(id))
  <2>1. /\ Path(OpenSet(D), versions, Clone(t, x, v) \o Dlete(s), v2)
        /\ Clone(t, x, v) \o Dlete(s) \in Seq(Write(id))
    BY <1>5, <1>6, <1>8, <1>12, PathThen DEF Changes
  <2>2. /\ Path(OpenSet(D), v1, Dlete(s) \o SetState(t, y), ve)
        /\ Dlete(s) \o SetState(t, y) \in Seq(Write(id))
    BY <1>8, <1>11, <1>12, PathThen DEF Changes
  <2>3. /\ Path(OpenSet(D), versions, Replace(s, v), ve)
        /\ Replace(s, v) \in Seq(Write(id))
    <3>1. Path(OpenSet(D), versions, Clone(t, x, v), v1)
      BY <1>6 DEF Changes
    <3>2. LET w == Clone(t, x, v) \o (Dlete(s) \o SetState(t, y))
          IN  Path(OpenSet(D), versions, w, ve) /\ w \in Seq(Write(id))
      BY ONLY <1>5, <2>2, <3>1, PathThen
    <3> QED BY ONLY <1>4, <3>2
  <2> QED BY <2>1, <2>3
<1>14. /\ ve[t].st = versions[s].st /\ ve[t].dir /\ ve[s].st = 0
       /\ \A u \in Slot : u # s /\ u # t => ve[u] = versions[u]
  BY <1>1, <1>2, <1>3, <1>6, <1>8, <1>9, <1>11, FreeIs DEF Changes, Others, Has
<1>15. \A u \in Slot : u[1] # id => ve[u] = versions[u]
  BY <1>1, <1>2, <1>14
<1>16. StableAt(ve, id, D)
  <2>1. ~Real(ve[s]) /\ ~Real(versions[t]) /\ Real(versions[s])
    BY <1>1, <1>2, <1>14 DEF Real
  <2>2. ASSUME NEW u \in Slot, NEW q \in Slot, u[1] = id, q[1] = id, u # q, Real(ve[u]), Real(ve[q])
        PROVE  \/ ve[u].st = Superseded /\ ve[q].st = Superseder
               \/ ve[q].st = Superseded /\ ve[u].st = Superseder
    <3>1. PICK u1 \in Slot : /\ u1[1] = id /\ u1 = IF u = t THEN s ELSE u
                            /\ versions[u1].st = ve[u].st
      BY <1>1, <1>14, <2>1, <2>2
    <3>2. PICK q1 \in Slot : /\ q1[1] = id /\ q1 = IF q = t THEN s ELSE q
                            /\ versions[q1].st = ve[q].st
      BY <1>1, <1>14, <2>1, <2>2
    <3>3. u1 # q1 /\ Real(versions[u1]) /\ Real(versions[q1])
      BY <2>1, <2>2, <3>1, <3>2 DEF Real
    <3> QED BY <1>0, <3>1, <3>2, <3>3 DEF Stable
  <2>3. ASSUME NEW u \in Slot, u[1] = id, ve[u].st = Superseded PROVE ve[u].dir
    BY <1>0, <1>14, <2>3 DEF Stable
  <2>4. ASSUME id \in DOMAIN D, NEW u \in Slot, u[1] = id, Real(ve[u]) PROVE ve[u].dir
    BY <1>0, <1>14, <2>1, <2>4 DEF Stable
  <2>5. ASSUME id \in DOMAIN D, NEW u \in Slot, u[1] = id, ve[u].st = Superseder
        PROVE  \E q \in Slot : q[1] = id /\ ve[q].st = Superseded
    <3>1. \E r \in Slot : r[1] = id /\ versions[r].st = Superseder
      BY <1>1, <1>14, <2>5
    <3>2. PICK q \in Slot : q[1] = id /\ versions[q].st = Superseded
      BY <1>0, <2>5, <3>1 DEF Stable
    <3>3. q # s /\ q # t
      BY <1>1, <1>2, <3>2
    <3> QED BY <1>14, <3>2, <3>3
  <2> QED BY <2>2, <2>3, <2>4, <2>5 DEF StableAt
<1>17. Stable(ve, D)
  BY <1>0, <1>15, <1>16, StableKept
<1>18. Noted(ve, D, tracker, trackerLocked)
  <2>1. ASSUME NEW u \in Slot, ve[u].st \in {Created, Superseded, Superseder}
        PROVE  \E q \in Slot : q[1] = u[1] /\ versions[q].st \in {Created, Superseded, Superseder}
    BY <1>1, <1>2, <1>14, <2>1
  <2> QED BY <1>0, <2>1, NotedKept
<1>19. Stable(v2, D)
  <2>1. /\ v2[s].st = 0 /\ v2[t].st \in {Replacing, Rewriting}
        /\ \A u \in Slot : u # s /\ u # t => v2[u] = versions[u]
    BY <1>1, <1>2, <1>4, <1>6, <1>8, <1>9, FreeIs DEF Changes, Others, Has
  <2>2. \A u \in Slot : Real(v2[u]) => u # s /\ v2[u] = versions[u]
    BY <2>1 DEF Real
  <2>3. StableAt(v2, id, D)
    <3>1. ASSUME NEW u \in Slot, v2[u].st \in {Superseded, Superseder} PROVE Real(v2[u])
      BY <3>1 DEF Real
    <3>2. ASSUME id \in DOMAIN D, NEW u \in Slot, u[1] = id, v2[u].st = Superseder
          PROVE  \E q \in Slot : q[1] = id /\ v2[q].st = Superseded
      <4>1. u # s /\ versions[u].st = Superseder
        BY <2>2, <3>1, <3>2
      <4>2. PICK q \in Slot : q[1] = id /\ versions[q].st = Superseded
        BY <1>0, <3>2, <4>1 DEF Stable
      <4>3. q # s /\ q # t
        BY <1>1, <1>2, <4>2
      <4> QED BY <2>1, <4>2, <4>3
    <3>3. \A u \in Slot : u[1] = id /\ v2[u].st = Superseded => v2[u].dir
      BY <1>0, <2>2, <3>1 DEF Stable
    <3>4. id \in DOMAIN D => \A u \in Slot : u[1] = id /\ Real(v2[u]) => v2[u].dir
      BY <1>0, <2>2 DEF Stable
    <3>5. ASSUME NEW u \in Slot, NEW q \in Slot, u[1] = id, q[1] = id, u # q, Real(v2[u]), Real(v2[q])
          PROVE  \/ v2[u].st = Superseded /\ v2[q].st = Superseder
                 \/ v2[q].st = Superseded /\ v2[u].st = Superseder
      BY <1>0, <2>2, <3>5 DEF Stable
    <3> QED BY <3>2, <3>3, <3>4, <3>5 DEF StableAt
  <2>4. \A u \in Slot : u[1] # id => v2[u] = versions[u]
    BY <1>1, <1>2, <2>1
  <2> QED BY <1>0, <2>3, <2>4, StableKept
<1>20. Replace(s, v) = Clone(FreeSlot(id), x, v) \o (Dlete(s) \o SetState(FreeSlot(id), versions[s].st))
  BY <1>3, <1>4 DEF t
<1> QED BY <1>4, <1>13, <1>17, <1>18, <1>19, <1>20 DEF t

(* A committed version is replaced: it stays until the commit. *)
LEMMA SwapPath ==
  ASSUME TypeOK, NEW D, Between(D), NEW id \in Id, NEW v \in Val \cup {Blank}, HasRoom(id),
         NEW s \in Readable(id), versions[s].st = Committed
  PROVE  /\ Replace(s, v) \in Seq(Write(id))
         /\ \E ve \in OpenSet(D) :
              /\ Path(OpenSet(D), versions, Replace(s, v), ve)
              /\ Stable(ve, D) /\ Noted(ve, D, Track(id), trackerLocked)
         /\ \E b \in OpenSet(D) :
              LET t == FreeSlot(id)
                  w == Clone(t, Replacing, v) \o SetState(s, Superseded)
              IN  /\ Replace(s, v) = Clone(t, Replacing, v) \o (SetState(s, Superseded) \o SetState(t, Superseder))
                  /\ Path(OpenSet(D), versions, w, b) /\ w \in Seq(Write(id)) /\ Stable(b, D)
<1> DEFINE t == FreeSlot(id)
<1>0. versions \in Versions /\ versions \in OpenSet(D) /\ Stable(versions, D)
      /\ Noted(versions, D, tracker, trackerLocked) /\ tracker \in Seq(Id)
  BY BetweenIs DEF TypeOK
<1>1. s \in Places(id) /\ s \in Slot /\ s[1] = id /\ versions[s].dir
  BY <1>0, ReadableIs DEF Places
<1>2. t \in Places(id) /\ t \in Slot /\ t[1] = id /\ versions[t].st = 0 /\ t # s
  BY <1>0, <1>1, FreeSlotIs DEF Places
<1>3. PICK x \in State, y \in State \ {Committed}, z \in State \ {Committed} : x = Replacing /\ y = Superseded /\ z = Superseder
  BY DEF State
<1>4. Replace(s, v) = Clone(t, x, v) \o (SetState(s, y) \o SetState(t, z))
  <2>1. Committed # Created
    OBVIOUS
  <2> HIDE DEF Rewriting, Replacing, Committed, Created, Superseded, Superseder
  <2> QED BY <1>1, <1>3, <2>1 DEF Replace
<1> HIDE DEF t
<1>5. Clone(t, x, v) \in Seq(Write(id))
  BY <1>0, <1>2, <1>3, CloneIs
<1>6. PICK v1 \in OpenSet(D) : /\ Changes(OpenSet(D), versions, Clone(t, x, v), t, v1)
                               /\ Has(v1[t], x, TRUE, v)
  BY <1>0, <1>2, <1>3, CloneIs
<1>7. v1[s].st # 0 /\ y \in State \ {Committed} /\ Base(v1[s]) = (y \in {Superseded, Deleted})
  BY <1>1, <1>2, <1>3, <1>6 DEF Changes, Others, Base
<1>8. PICK v2 \in OpenSet(D) : /\ Changes(OpenSet(D), v1, SetState(s, y), s, v2)
                               /\ Has(v2[s], y, v1[s].dir, v1[s].val)
  BY <1>1, <1>7, OpenState
<1>9. v2[t] = v1[t] /\ v2[t].st # 0 /\ z \in State \ {Committed}
      /\ Base(v2[t]) = (z \in {Superseded, Deleted})
  BY <1>2, <1>3, <1>6, <1>8 DEF Changes, Others, Base, Has
<1>11. PICK ve \in OpenSet(D) : /\ Changes(OpenSet(D), v2, SetState(t, z), t, ve)
                                /\ Has(ve[t], z, v2[t].dir, v2[t].val)
  BY <1>2, <1>9, OpenState
<1>12. SetState(s, y) \in Seq(Write(id)) /\ SetState(t, z) \in Seq(Write(id))
  BY <1>1, <1>2, WritesAre
<1>13. /\ Path(OpenSet(D), versions, Clone(t, x, v) \o SetState(s, y), v2)
       /\ Clone(t, x, v) \o SetState(s, y) \in Seq(Write(id))
       /\ Path(OpenSet(D), versions, Replace(s, v), ve) /\ Replace(s, v) \in Seq(Write(id))
  <2>1. /\ Path(OpenSet(D), versions, Clone(t, x, v) \o SetState(s, y), v2)
        /\ Clone(t, x, v) \o SetState(s, y) \in Seq(Write(id))
    BY <1>5, <1>6, <1>8, <1>12, PathThen DEF Changes
  <2>2. /\ Path(OpenSet(D), v1, SetState(s, y) \o SetState(t, z), ve)
        /\ SetState(s, y) \o SetState(t, z) \in Seq(Write(id))
    BY <1>8, <1>11, <1>12, PathThen DEF Changes
  <2>3. /\ Path(OpenSet(D), versions, Replace(s, v), ve)
        /\ Replace(s, v) \in Seq(Write(id))
    <3>1. Path(OpenSet(D), versions, Clone(t, x, v), v1)
      BY <1>6 DEF Changes
    <3>2. LET w == Clone(t, x, v) \o (SetState(s, y) \o SetState(t, z))
          IN  Path(OpenSet(D), versions, w, ve) /\ w \in Seq(Write(id))
      BY ONLY <1>5, <2>2, <3>1, PathThen
    <3> QED BY ONLY <1>4, <3>2
  <2> QED BY <2>1, <2>3
<1>14. /\ ve[t].st = Superseder /\ ve[t].dir /\ ve[s].st = Superseded /\ ve[s].dir
       /\ \A u \in Slot : u # s /\ u # t => ve[u] = versions[u]
  BY <1>1, <1>2, <1>3, <1>6, <1>8, <1>9, <1>11 DEF Changes, Others, Has
<1>15. \A u \in Slot : u[1] # id => ve[u] = versions[u]
  BY <1>1, <1>2, <1>14
<1>16. \A u \in Slot : u[1] = id /\ u # s => ~Real(versions[u])
  BY <1>0, <1>1 DEF Stable, Real
<1>17. Stable(ve, D)
  <2>1. \A u \in Slot : u[1] = id /\ Real(ve[u]) => u = s \/ u = t
    BY <1>14, <1>16
  <2>2. StableAt(ve, id, D)
    <3>1. ASSUME NEW u \in Slot, u[1] = id, ve[u].st = Superseded PROVE ve[u].dir
      BY <1>14, <2>1, <3>1 DEF Real
    <3> QED BY <1>1, <1>14, <2>1, <3>1 DEF StableAt
  <2> QED BY <1>0, <1>15, <2>2, StableKept
<1>18. Noted(ve, D, Track(id), trackerLocked)
  BY <1>0, <1>15, NotedTracked
<1>19. Stable(v2, D)
  <2>1. /\ v2[s].st = Superseded /\ v2[s].dir /\ v2[t].st = Replacing
        /\ \A u \in Slot : u # s /\ u # t => v2[u] = versions[u]
    BY <1>1, <1>2, <1>3, <1>6, <1>8, <1>9 DEF Changes, Others, Has
  <2>2. \A u \in Slot : u[1] = id /\ Real(v2[u]) => u = s
    BY <1>16, <2>1 DEF Real
  <2>3. StableAt(v2, id, D)
    <3>1. ASSUME NEW u \in Slot, u[1] = id, v2[u].st \in {Superseded, Superseder} PROVE u = s
      BY <2>2, <3>1 DEF Real
    <3> QED BY <2>1, <2>2, <3>1 DEF StableAt
  <2>4. \A u \in Slot : u[1] # id => v2[u] = versions[u]
    BY <1>1, <1>2, <2>1
  <2> QED BY <1>0, <2>3, <2>4, StableKept
<1> QED BY <1>3, <1>4, <1>13, <1>17, <1>18, <1>19 DEF t

(* A list of two. *)
LEMMA TwoIs ==
  ASSUME NEW W, NEW a \in W, NEW b \in W
  PROVE  <<a>> \o <<b>> = <<a, b>>
<1> DEFINE p == <<a>>
           q == <<b>>
           r == <<a, b>>
<1>1. p \in Seq(W) /\ q \in Seq(W) /\ r \in Seq(W) /\ Len(p) = 1 /\ Len(q) = 1 /\ Len(r) = 2
      /\ p[1] = a /\ q[1] = b /\ r[1] = a /\ r[2] = b
  OBVIOUS
<1> HIDE DEF p, q, r
<1>2. p \o q \in Seq(W) /\ Len(p \o q) = 1 + 1
      /\ \A i \in 1 .. 1 + 1 : (p \o q)[i] = IF i <= 1 THEN p[i] ELSE q[i - 1]
  <2>1. p \o q \in Seq(W) /\ Len(p \o q) = Len(p) + Len(q)
        /\ \A i \in 1 .. Len(p) + Len(q) : (p \o q)[i] = IF i <= Len(p) THEN p[i] ELSE q[i - Len(p)]
    BY <1>1, ConcatProperties
  <2> QED BY <1>1, <2>1
<1>3. \A i \in 1 .. 2 : (p \o q)[i] = r[i]
  <2>1. (p \o q)[1] = a /\ (p \o q)[2] = b
    BY <1>1, <1>2
  <2>2. \A i \in 1 .. 2 : i = 1 \/ i = 2
    OBVIOUS
  <2> QED BY <1>1, <2>1, <2>2
<1>4. Len(p \o q) = Len(r) /\ \A i \in 1 .. Len(p \o q) : (p \o q)[i] = r[i]
  BY <1>1, <1>2, <1>3
<1>5. p \o q = r
  BY <1>1, <1>2, <1>4, SeqEqual
<1> QED BY <1>5 DEF p, q, r

(* Writes after writes, as an operator of its own. *)
Cat(a, b) == a \o b

(* Writes after writes are writes. *)
LEMMA CatIs ==
  ASSUME NEW W, NEW s \in Seq(W), NEW t \in Seq(W)
  PROVE  Cat(s, t) \in Seq(W)
BY ConcatProperties DEF Cat

(* Writes may be put together from either end. *)
LEMMA CatAssoc ==
  ASSUME NEW W, NEW s \in Seq(W), NEW t \in Seq(W), NEW u \in Seq(W)
  PROVE  Cat(Cat(s, t), u) = Cat(s, Cat(t, u))
BY ConcatAssociative DEF Cat

(* The last two writes of four parts, taken together. *)
LEMMA Recut ==
  ASSUME NEW W, NEW w \in Seq(W), NEW p \in Seq(W), NEW q \in Seq(W), NEW r \in Seq(W)
  PROVE  Cat(Cat(w, Cat(p, q)), r) = Cat(Cat(w, p), Cat(q, r))
<1>1. Cat(w, p) \in Seq(W)
  BY CatIs
<1>2. Cat(Cat(w, p), q) = Cat(w, Cat(p, q))
  BY CatAssoc
<1>3. Cat(Cat(Cat(w, p), q), r) = Cat(Cat(w, p), Cat(q, r))
  BY <1>1, CatAssoc
<1> QED BY ONLY <1>2, <1>3

(* The first part of a list. *)
LEMMA PrefixIs ==
  ASSUME NEW W, NEW w \in Seq(W), NEW u \in Seq(W)
  PROVE  SubSeq(Cat(w, u), 1, Len(w)) = w /\ Len(Cat(w, u)) = Len(w) + Len(u)
<1> DEFINE x == w \o u
           n == Len(w)
           y == SubSeq(x, 1, n)
<1>1. x \in Seq(W) /\ Len(x) = n + Len(u) /\ n \in Nat /\ Len(u) \in Nat
  BY ConcatProperties, LenProperties
<1>2. \A i \in 1 .. n : x[i] = w[i] /\ w[i] \in W
  BY <1>1, ConcatProperties, ElementOfSeq
<1> HIDE DEF x, n
<1>3. y \in Seq(W) /\ Len(y) = n /\ \A i \in 1 .. n : y[i] = x[i]
  <2>1. 1 \in Int /\ n \in Int /\ \A i \in 1 .. n : x[i] \in W
    BY <1>1, <1>2
  <2>2. /\ y \in Seq(W) /\ Len(y) = IF 1 <= n THEN n - 1 + 1 ELSE 0
        /\ \A i \in 1 .. n - 1 + 1 : y[i] = x[1 + i - 1]
    BY <2>1, SubSeqProperties
  <2>3. n - 1 + 1 = n /\ \A i \in 1 .. n : 1 + i - 1 = i
    BY <1>1
  <2> QED BY <1>1, <2>2, <2>3
<1> HIDE DEF y
<1>4. y = w
  BY <1>2, <1>3, SeqEqual DEF n
<1> QED BY <1>1, <1>4 DEF x, y, n, Cat

(* addObject gets no further than the object itself. *)
LEMMA OpenPlace ==
  ASSUME NEW D, NEW vs \in OpenSet(D), NEW t \in Slot, vs[t].st = 0,
         NEW x \in State, x \in {Replacing, Rewriting, Created}
  PROVE  \E ve \in OpenSet(D) :
           /\ Changes(OpenSet(D), vs, <<[do |-> "add", at |-> t, st |-> x]>>, t, ve)
           /\ Has(ve[t], x, FALSE, Blank)
<1> DEFINE a == [do |-> "add", at |-> t, st |-> x]
           ve == Written(vs, a)
<1>1. ve \in Versions /\ Others(t, vs, ve) /\ Has(ve[t], x, FALSE, Blank)
  <2>1. vs \in Versions
    BY DEF OpenSet
  <2> QED BY <2>1, AddIs
<1>2. ve = Written(vs, a)
  OBVIOUS
<1> HIDE DEF a, ve
<1>3. ve \in OpenSet(D)
  BY <1>1, OpenKeeps DEF Base, Has
<1>4. Changes(OpenSet(D), vs, <<a>>, t, ve)
  BY <1>1, <1>2, <1>3, PathOne DEF Changes
<1> QED BY <1>1, <1>3, <1>4 DEF a

(* A half-written copy that comes disturbs nobody, nor does a version that   *)
(* goes, unless another replaces it.                                         *)
LEMMA StableLess ==
  ASSUME NEW D, NEW vs, Stable(vs, D), NEW ve, NEW t \in Slot, Others(t, vs, ve),
         vs[t].st # Superseded, ~Real(ve[t])
  PROVE  Stable(ve, D)
<1>1. \A u \in Slot : Real(ve[u]) \/ vs[u].st = Superseded => ve[u] = vs[u]
  BY DEF Others
<1>2. \A u \in Slot : ve[u].st \in {Superseded, Superseder} => Real(ve[u])
  BY DEF Real
<1>3. ASSUME NEW u \in Slot, u[1] \in DOMAIN D, ve[u].st = Superseder
      PROVE  \E q \in Slot : q[1] = u[1] /\ ve[q].st = Superseded
  <2>1. vs[u].st = Superseder
    BY <1>1, <1>2, <1>3
  <2>2. PICK q \in Slot : q[1] = u[1] /\ vs[q].st = Superseded
    BY <1>3, <2>1 DEF Stable
  <2> QED BY <1>1, <2>2
<1> HIDE DEF Real
<1>4. \A u \in Slot : ve[u].st = Superseded => ve[u].dir
  BY <1>1, <1>2 DEF Stable
<1>5. \A u \in Slot : u[1] \in DOMAIN D /\ Real(ve[u]) => ve[u].dir
  BY <1>1 DEF Stable
<1>6. ASSUME NEW u \in Slot, NEW q \in Slot, u # q, u[1] = q[1], Real(ve[u]), Real(ve[q])
      PROVE  \/ ve[u].st = Superseded /\ ve[q].st = Superseder
             \/ ve[q].st = Superseded /\ ve[u].st = Superseder
  BY <1>1, <1>6 DEF Stable
<1> QED BY <1>3, <1>4, <1>5, <1>6 DEF Stable

(* The writes of a replacement, in the parts an error may leave it after. *)
LEMMA ReplaceParts ==
  ASSUME TypeOK, NEW D, Between(D), NEW id \in Id, NEW v \in Val \cup {Blank}, HasRoom(id),
         NEW s \in Readable(id)
  PROVE  \E x \in State, u1 \in Seq(Write(id)), u2 \in Seq(Write(id)), b \in OpenSet(D) :
           LET w == Clone(FreeSlot(id), x, v) IN
           /\ x \in {Replacing, Rewriting}
           /\ Replace(s, v) = Cat(w, Cat(u1, u2)) /\ Len(u2) = 1
           /\ Len(u1) = 1 \/ (Len(u1) = 2 /\ u1[1].do = "unlink")
           /\ Path(OpenSet(D), versions, Cat(w, u1), b) /\ Stable(b, D)
<1> DEFINE t == FreeSlot(id)
<1>0. versions \in Versions
  BY DEF TypeOK
<1>1. s \in Places(id) /\ t \in Places(id)
  BY <1>0, ReadableIs, FreeSlotIs
<1>2. CASE versions[s].st # Committed
  <2>1. PICK b \in OpenSet(D), x \in {Replacing, Rewriting} :
              LET w == Clone(t, x, v) \o Dlete(s)
              IN  /\ Replace(s, v) = Clone(t, x, v) \o (Dlete(s) \o SetState(t, versions[s].st))
                  /\ Path(OpenSet(D), versions, w, b) /\ w \in Seq(Write(id)) /\ Stable(b, D)
    BY <1>2, CopyPath
  <2>2. PICK y \in State \ {Committed} : y = versions[s].st
    BY <1>0, <1>2, ReadableIs DEF State
  <2>3. Dlete(s) \in Seq(Write(id)) /\ SetState(t, y) \in Seq(Write(id))
    BY <1>1, WritesAre
  <2>4. Len(Dlete(s)) = 2 /\ Dlete(s)[1].do = "unlink" /\ Len(SetState(t, y)) = 1
    BY DEF Dlete, SetState
  <2>5. x \in State
    BY DEF State
  <2> HIDE DEF t
  <2> QED BY <2>1, <2>2, <2>3, <2>4, <2>5 DEF Cat, t
<1>3. CASE versions[s].st = Committed
  <2>1. PICK b \in OpenSet(D) :
              LET w == Clone(t, Replacing, v) \o SetState(s, Superseded)
              IN  /\ Replace(s, v) = Clone(t, Replacing, v) \o (SetState(s, Superseded) \o SetState(t, Superseder))
                  /\ Path(OpenSet(D), versions, w, b) /\ w \in Seq(Write(id)) /\ Stable(b, D)
    BY <1>3, SwapPath
  <2>2. PICK x \in State, y \in State \ {Committed}, z \in State \ {Committed} :
               x = Replacing /\ y = Superseded /\ z = Superseder
    BY DEF State
  <2>3. SetState(s, y) \in Seq(Write(id)) /\ SetState(t, z) \in Seq(Write(id))
    BY <1>1, WritesAre
  <2>4. Len(SetState(s, y)) = 1 /\ Len(SetState(t, z)) = 1
    BY DEF SetState
  <2> HIDE DEF t
  <2> QED BY <2>1, <2>2, <2>3, <2>4 DEF Cat, t
<1> QED BY <1>2, <1>3

(* Where a replacement may be cut off. *)
LEMMA CutOff ==
  ASSUME NEW W, NEW a \in Seq(W), NEW l \in Seq(W), NEW d \in Seq(W), NEW u \in Seq(W), NEW r \in Seq(W),
         Len(a) = 1, Len(l) = 1, Len(d) = 1, Len(r) = 1,
         Len(u) = 1 \/ (Len(u) = 2 /\ u[1].do = "unlink"),
         NEW R, R = Cat(Cat(Cat(a, l), d), Cat(u, r)),
         NEW n \in 1 .. Len(R) - 1, R[n].do # "unlink"
  PROVE  SubSeq(R, 1, n) \in {a, Cat(a, l), Cat(Cat(a, l), d), Cat(Cat(Cat(a, l), d), u)}
<1> DEFINE b == Cat(a, l)
           c == Cat(b, d)
           e == Cat(c, u)
           r1 == Cat(u, r)
           r2 == Cat(d, r1)
           r3 == Cat(l, r2)
<1>1. b \in Seq(W) /\ r1 \in Seq(W)
  BY CatIs
<1>2. c \in Seq(W) /\ r2 \in Seq(W)
  BY <1>1, CatIs
<1>3. e \in Seq(W) /\ r3 \in Seq(W)
  BY <1>2, CatIs
<1>4. R = Cat(c, r1)
  OBVIOUS
<1>5. R = Cat(e, r)
  BY <1>2, CatAssoc
<1>6. R = Cat(b, r2)
  BY <1>1, CatAssoc
<1>7. R = Cat(a, r3)
  <2>1. Cat(Cat(a, l), r2) = Cat(a, Cat(l, r2))
    BY <1>2, CatAssoc
  <2> QED BY <1>6, <2>1
<1>8. Len(b) = Len(a) + Len(l) /\ Len(r1) = Len(u) + Len(r)
  BY PrefixIs
<1>9. Len(c) = Len(b) + Len(d)
  BY <1>1, PrefixIs
<1>10. Len(e) = Len(c) + Len(u)
  BY <1>2, PrefixIs
<1> HIDE DEF b, c, e, r1, r2, r3
<1>11. SubSeq(R, 1, Len(a)) = a
  BY ONLY <1>3, <1>7, a \in Seq(W), PrefixIs
<1>12. SubSeq(R, 1, Len(b)) = b
  BY ONLY <1>1, <1>2, <1>6, PrefixIs
<1>13. SubSeq(R, 1, Len(c)) = c
  BY ONLY <1>1, <1>2, <1>4, PrefixIs
<1>14. SubSeq(R, 1, Len(e)) = e /\ Len(R) = Len(e) + Len(r)
  BY ONLY <1>3, <1>5, r \in Seq(W), PrefixIs
<1>15. Len(b) = 2 /\ Len(c) = 3 /\ Len(e) = 3 + Len(u) /\ Len(R) = 4 + Len(u)
  BY <1>8, <1>9, <1>10, <1>14
<1>16. n = 1 \/ n = 2 \/ n = 3 \/ n = 3 + Len(u)
  <2>1. CASE Len(u) = 1
    BY <1>15, <2>1
  <2>2. CASE Len(u) = 2 /\ u[1].do = "unlink"
    <3>1. Len(r1) = 3 /\ n \in 1 .. 5
      BY <1>8, <1>15, <2>2
    <3>2. r1 = u \o r
      BY DEF r1, Cat
    <3>3. r1[1] = u[1]
      <4>1. \A i \in 1 .. Len(u) + Len(r) : (u \o r)[i] = IF i <= Len(u) THEN u[i] ELSE r[i - Len(u)]
        BY ConcatProperties
      <4>2. 1 \in 1 .. Len(u) + Len(r) /\ 1 <= Len(u)
        BY <2>2
      <4> QED BY <3>2, <4>1, <4>2
    <3>4. R[4] = r1[1]
      <4>1. R = c \o r1
        BY <1>4 DEF Cat
      <4>2. \A i \in 1 .. Len(c) + Len(r1) : (c \o r1)[i] = IF i <= Len(c) THEN c[i] ELSE r1[i - Len(c)]
        BY <1>1, <1>2, ConcatProperties
      <4>3. 4 \in 1 .. Len(c) + Len(r1) /\ ~(4 <= Len(c)) /\ 4 - Len(c) = 1
        BY <1>15, <3>1
      <4> QED BY <4>1, <4>2, <4>3
    <3>5. n # 4
      BY <2>2, <3>3, <3>4
    <3> QED BY <2>2, <3>1, <3>5
  <2> QED BY <2>1, <2>2
<1>17. SubSeq(R, 1, n) \in {a, b, c, e}
  <2>1. CASE n = 1
    BY <1>11, <2>1
  <2>2. CASE n = 2
    BY <1>12, <1>15, <2>2
  <2>3. CASE n = 3
    BY <1>13, <1>15, <2>3
  <2>4. CASE n = 3 + Len(u)
    BY <1>14, <1>15, <2>4
  <2> QED BY <1>16, <2>1, <2>2, <2>3, <2>4
<1> QED BY <1>17 DEF b, c, e

(* What an error leaves of a replacement. *)
LEMMA ReplacePrefix ==
  ASSUME TypeOK, NEW D, Between(D), NEW id \in Id, NEW v \in Val \cup {Blank}, HasRoom(id),
         NEW s \in Readable(id), NEW n \in 1 .. Len(Replace(s, v)) - 1,
         Replace(s, v)[n].do # "unlink"
  PROVE  \E w \in Seq(Write(id)), b \in OpenSet(D) :
           /\ SubSeq(Replace(s, v), 1, n) = w
           /\ Path(OpenSet(D), versions, w, b) /\ Stable(b, D)
<1> DEFINE t == FreeSlot(id)
           R == Replace(s, v)
<1>1. versions \in Versions /\ versions \in OpenSet(D) /\ Stable(versions, D)
  BY BetweenIs DEF TypeOK
<1>2. t \in Places(id) /\ t \in Slot /\ versions[t].st = 0 /\ ~Real(versions[t])
  BY <1>1, FreeSlotIs DEF Places, Real
<1>3. PICK x \in State, u1 \in Seq(Write(id)), u2 \in Seq(Write(id)), b \in OpenSet(D) :
           /\ x \in {Replacing, Rewriting}
           /\ R = Cat(Clone(t, x, v), Cat(u1, u2)) /\ Len(u2) = 1
           /\ Len(u1) = 1 \/ (Len(u1) = 2 /\ u1[1].do = "unlink")
           /\ Path(OpenSet(D), versions, Cat(Clone(t, x, v), u1), b) /\ Stable(b, D)
  BY ReplaceParts
<1>0. n \in 1 .. Len(R) - 1 /\ R[n].do # "unlink"
  OBVIOUS
<1> HIDE DEF t, R
<1> DEFINE W == Write(id)
           a == <<[do |-> "add", at |-> t, st |-> x]>>
           l == <<[do |-> "link", at |-> t]>>
           d == Data(t, v)
<1>4. /\ a \in Seq(W) /\ l \in Seq(W) /\ d \in Seq(W)
      /\ Len(a) = 1 /\ Len(l) = 1 /\ Len(d) = 1
  <2>1. x \in State \ {Committed}
    BY <1>3
  <2>2. [do |-> "add", at |-> t, st |-> x] \in W /\ [do |-> "link", at |-> t] \in W
        /\ [do |-> "data", at |-> t, val |-> v] \in W
    BY <1>2, <2>1 DEF Write
  <2>3. Len(a) = 1 /\ Len(l) = 1 /\ Len(d) = 1
    BY DEF Data
  <2> QED BY <2>2, <2>3 DEF Data
<1>5. Clone(t, x, v) = Cat(Cat(a, l), d) /\ Add(t, x) = Cat(a, l)
  <2>1. [do |-> "add", at |-> t, st |-> x] \in {[do |-> "add", at |-> t, st |-> x], [do |-> "link", at |-> t]}
        /\ [do |-> "link", at |-> t] \in {[do |-> "add", at |-> t, st |-> x], [do |-> "link", at |-> t]}
    OBVIOUS
  <2>2. Add(t, x) = Cat(a, l)
    BY <2>1, TwoIs DEF Add, Cat
  <2> QED BY <2>2 DEF Clone, Cat
<1>6. u1 \in Seq(W) /\ u2 \in Seq(W)
  OBVIOUS
<1> HIDE DEF a, l, d, W
<1>7. SubSeq(R, 1, n) \in {a, Cat(a, l), Cat(Cat(a, l), d), Cat(Cat(Cat(a, l), d), u1)}
  <2>1. R = Cat(Cat(Cat(a, l), d), Cat(u1, u2))
    BY <1>3, <1>5
  <2>2. /\ Len(a) = 1 /\ Len(l) = 1 /\ Len(d) = 1 /\ Len(u2) = 1
        /\ Len(u1) = 1 \/ (Len(u1) = 2 /\ u1[1].do = "unlink")
        /\ a \in Seq(W) /\ l \in Seq(W) /\ d \in Seq(W) /\ u1 \in Seq(W) /\ u2 \in Seq(W)
    BY <1>3, <1>4, <1>6
  <2> QED BY ONLY <1>0, <2>1, <2>2, CutOff, Zenon
<1>8. Cat(a, l) \in Seq(W) /\ Cat(Cat(a, l), d) \in Seq(W) /\ Cat(Cat(Cat(a, l), d), u1) \in Seq(W)
  <2>1. Cat(a, l) \in Seq(W)
    BY <1>4, CatIs
  <2>2. Cat(Cat(a, l), d) \in Seq(W)
    BY <1>4, <2>1, CatIs
  <2> QED BY <1>6, <2>1, <2>2, CatIs
<1>9. ASSUME NEW c \in OpenSet(D), NEW w, Changes(OpenSet(D), versions, w, t, c),
             c[t].st = x
      PROVE  Path(OpenSet(D), versions, w, c) /\ Stable(c, D)
  <2>1. ~Real(c[t])
    BY <1>3, <1>9 DEF Real
  <2> QED BY <1>1, <1>2, <1>9, <2>1, StableLess DEF Changes
<1>10. CASE SubSeq(R, 1, n) = a
  <2>1. PICK c \in OpenSet(D) : Changes(OpenSet(D), versions, a, t, c) /\ Has(c[t], x, FALSE, Blank)
    BY <1>1, <1>2, <1>3, OpenPlace DEF a
  <2> QED BY <1>4, <1>9, <1>10, <2>1 DEF Has, R, W
<1>11. CASE SubSeq(R, 1, n) = Cat(a, l)
  <2>1. PICK c \in OpenSet(D) : Changes(OpenSet(D), versions, Add(t, x), t, c) /\ Has(c[t], x, TRUE, Blank)
    BY <1>1, <1>2, <1>3, OpenAdd
  <2> QED BY <1>5, <1>8, <1>9, <1>11, <2>1 DEF Has, R, W
<1>12. CASE SubSeq(R, 1, n) = Cat(Cat(a, l), d)
  <2>1. PICK c \in OpenSet(D) : Changes(OpenSet(D), versions, Clone(t, x, v), t, c) /\ Has(c[t], x, TRUE, v)
    BY <1>1, <1>2, <1>3, CloneIs
  <2> QED BY <1>5, <1>8, <1>9, <1>12, <2>1 DEF Has, R, W
<1>13. CASE SubSeq(R, 1, n) = Cat(Cat(Cat(a, l), d), u1)
  BY <1>3, <1>5, <1>8, <1>13 DEF R, W
<1> QED BY <1>7, <1>10, <1>11, <1>12, <1>13

(* write and setObjectSize. *)
LEMMA RewriteStep ==
  ASSUME TypeOK, NEW D, Between(D), NEW id \in Id, NEW v \in Val \cup {Blank},
         NEW inPlace \in BOOLEAN, Rewrite(id, v, inPlace)
  PROVE  TypeOK' /\ InCallOn(D, id)'
<1>1. PICK s \in Readable(id) :
        \/ versions[s].st # Committed /\ Modify(Data(s, v), tracker, FALSE)
        \/ HasRoom(id) /\ Modify(Replace(s, v), ReplaceTracks(s), FALSE)
  BY DEF Rewrite
<1>2. CASE versions[s].st # Committed /\ Modify(Data(s, v), tracker, FALSE)
  BY <1>2, FillStep
<1>3. CASE HasRoom(id) /\ Modify(Replace(s, v), ReplaceTracks(s), FALSE)
  <2>0. tracker \in Seq(Id) /\ (trackerLocked \/ FALSE) = trackerLocked /\ versions \in Versions
    BY DEF TypeOK
  <2>1. Noted(versions, D, tracker, trackerLocked)
    BY BetweenIs
  <2>2. s[1] = id
    BY <2>0, ReadableIs DEF Places
  <2>3. Replace(s, v) \in Seq(Write(id)) /\ \E ve \in OpenSet(D) :
              /\ Path(OpenSet(D), versions, Replace(s, v), ve)
              /\ Stable(ve, D) /\ Noted(ve, D, ReplaceTracks(s), trackerLocked)
    <3>1. CASE versions[s].st = Committed
      <4>1. ReplaceTracks(s) = Track(id)
        BY <2>2, <3>1 DEF ReplaceTracks
      <4>2. HasRoom(id)
        BY <1>3
      <4>3. Replace(s, v) \in Seq(Write(id)) /\ \E ve \in OpenSet(D) :
              /\ Path(OpenSet(D), versions, Replace(s, v), ve)
              /\ Stable(ve, D) /\ Noted(ve, D, Track(id), trackerLocked)
        BY <3>1, <4>2, SwapPath
      <4> HIDE DEF Committed
      <4> QED BY ONLY <4>1, <4>3
    <3>2. CASE versions[s].st # Committed
      <4>1. ReplaceTracks(s) = tracker
        BY <3>2 DEF ReplaceTracks
      <4> QED BY <1>3, <3>2, <4>1, CopyPath
    <3> QED BY <3>1, <3>2
  <2>4. ReplaceTracks(s) \in Seq(Id)
    BY <2>0, <2>1, <2>2, NotedTracked DEF ReplaceTracks
  <2> QED BY <1>3, <2>0, <2>3, <2>4, ModifyStep
<1> QED BY <1>1, <1>2, <1>3

(* A write or a new size that ends on an error. *)
LEMMA RewriteFailsStep ==
  ASSUME TypeOK, NEW D, Between(D), NEW id \in Id, NEW v \in Val, RewriteFails(id, v)
  PROVE  TypeOK' /\ InCallOn(D, id)'
<1>1. PICK s, w :
        /\ s \in Readable(id) /\ Modify(w, ReplaceTracks(s), TRUE)
        /\ \/ w = <<>>
           \/ /\ HasRoom(id)
              /\ \E n \in 1 .. Len(Replace(s, v)) - 1 :
                   Replace(s, v)[n].do # "unlink" /\ w = SubSeq(Replace(s, v), 1, n)
  BY DEF RewriteFails
<1>2. versions \in Versions /\ versions \in OpenSet(D) /\ Stable(versions, D) /\ tracker \in Seq(Id)
      /\ Noted(versions, D, tracker, trackerLocked)
  BY BetweenIs DEF TypeOK
<1>3. w \in Seq(Write(id)) /\ \E ve \in OpenSet(D) : Path(OpenSet(D), versions, w, ve) /\ Stable(ve, D)
  <2>1. CASE w = <<>>
    <3>1. <<>> \in Seq(Write(id))
      OBVIOUS
    <3> QED BY <1>2, <2>1, <3>1, PathEmpty
  <2>2. CASE w # <<>>
    BY <1>1, <2>2, ReplacePrefix
  <2> QED BY <2>1, <2>2
<1>4. ReplaceTracks(s) \in Seq(Id)
  <2>1. s[1] = id
    BY <1>1, <1>2, ReadableIs DEF Places
  <2> QED BY <1>2, <2>1, NotedTracked DEF ReplaceTracks
<1>5. \A ve : Noted(ve, D, ReplaceTracks(s), trackerLocked \/ TRUE)
  BY DEF Noted
<1> QED BY <1>1, <1>3, <1>4, <1>5, ModifyStep

(* newObject that fails leaves an object nobody knows. *)
LEMMA NewObjectFailsStep ==
  ASSUME TypeOK, NEW D, Between(D), NEW id \in Id, id \notin DOMAIN D, NewObjectFails(id)
  PROVE  TypeOK' /\ InCallOn(D, id)'
<1> DEFINE t == FreeSlot(id)
           a == <<[do |-> "add", at |-> t, st |-> Created]>>
           l == <<[do |-> "link", at |-> t]>>
<1>0. versions \in Versions /\ versions \in OpenSet(D) /\ Stable(versions, D)
      /\ Noted(versions, D, tracker, trackerLocked) /\ tracker \in Seq(Id)
  BY BetweenIs DEF TypeOK
<1>1. \A s \in Slot : s[1] = id => versions[s].st = 0
  <2>1. Of(id, State) = {}
    BY DEF NewObjectFails
  <2> QED BY <1>0, <2>1, InUseIs DEF Of
<1>2. t \in Places(id) /\ versions[t].st = 0
  <2>1. <<id, 1>> \in Slot /\ <<id, 1>>[1] = id /\ 1 \in 1 .. MaxVersion
    BY FlashAssumption DEF Slot
  <2>2. HasRoom(id)
    BY <1>0, <1>1, <2>1, InUseIs DEF HasRoom
  <2> QED BY <1>0, <2>2, FreeSlotIs
<1>3. PICK n \in {1, 2} : Modify(SubSeq(Add(t, Created), 1, n), tracker, FALSE)
  BY DEF NewObjectFails
<1> HIDE DEF t
<1>4. t \in Slot /\ t[1] = id /\ Created \in State \ {Committed}
  BY <1>2 DEF Places, State
<1>5. a \in Seq(Write(id)) /\ l \in Seq(Write(id)) /\ Len(a) = 1 /\ Len(l) = 1
  <2>1. [do |-> "add", at |-> t, st |-> Created] \in Write(id) /\ [do |-> "link", at |-> t] \in Write(id)
    BY <1>2, <1>4 DEF Write
  <2> QED BY <2>1
<1>6. Add(t, Created) = Cat(a, l)
  <2>1. [do |-> "add", at |-> t, st |-> Created] \in Write(id) /\ [do |-> "link", at |-> t] \in Write(id)
    BY <1>2, <1>4 DEF Write
  <2> QED BY <2>1, TwoIs DEF Add, Cat
<1> HIDE DEF a, l
<1>7. SubSeq(Cat(a, l), 1, 1) = a /\ SubSeq(Cat(a, l), 1, 2) = Cat(a, l) /\ Cat(a, l) \in Seq(Write(id))
  <2> DEFINE b == Cat(a, l)
  <2>1. b \in Seq(Write(id)) /\ <<>> \in Seq(Write(id))
    BY <1>5, CatIs
  <2>2. SubSeq(b, 1, Len(a)) = a /\ Len(b) = Len(a) + Len(l)
    BY ONLY <1>5, PrefixIs
  <2> HIDE DEF b
  <2>5. SubSeq(b, 1, 1) = a /\ Len(b) = 2
    BY <1>5, <2>2
  <2>3. SubSeq(Cat(b, <<>>), 1, Len(b)) = b
    BY <2>1, PrefixIs
  <2>4. Cat(b, <<>>) = b
    BY <2>1, ConcatEmptySeq DEF Cat
  <2> QED BY <2>1, <2>5, <2>3, <2>4 DEF b
<1>8. ASSUME NEW w \in Seq(Write(id)), NEW ve \in OpenSet(D), NEW x,
             Changes(OpenSet(D), versions, w, t, ve), Has(ve[t], Created, x, Blank),
             Modify(w, tracker, FALSE)
      PROVE  TypeOK' /\ InCallOn(D, id)'
  <2>1. \A s \in Slot : s # t => ve[s] = versions[s]
    BY <1>8 DEF Changes, Others
  <2>2. \A s \in Slot : s[1] # id => ve[s] = versions[s]
    BY <1>4, <2>1
  <2>3. StableAt(ve, id, D)
    BY <1>1, <1>8, <2>1 DEF StableAt, Real, Has
  <2>4. Stable(ve, D)
    BY <1>0, <2>2, <2>3, StableKept
  <2>5. Noted(ve, D, tracker, trackerLocked)
    <3>1. \A s \in Slot : s[1] \in DOMAIN D => ve[s] = versions[s]
      BY <2>2
    <3> QED BY <1>0, <3>1 DEF Noted
  <2>6. (trackerLocked \/ FALSE) = trackerLocked
    BY DEF TypeOK
  <2> QED BY <1>0, <1>8, <2>4, <2>5, <2>6, ModifyStep DEF Changes
<1>9. CASE n = 1
  <2>1. PICK ve \in OpenSet(D) : /\ Changes(OpenSet(D), versions, a, t, ve)
                                 /\ Has(ve[t], Created, FALSE, Blank)
    BY <1>0, <1>2, <1>4, OpenPlace DEF a
  <2>2. Modify(a, tracker, FALSE)
    BY <1>3, <1>6, <1>7, <1>9
  <2> QED BY <1>5, <1>8, <2>1, <2>2
<1>10. CASE n = 2
  <2>1. PICK ve \in OpenSet(D) : /\ Changes(OpenSet(D), versions, Add(t, Created), t, ve)
                                 /\ Has(ve[t], Created, TRUE, Blank)
    BY <1>0, <1>2, <1>4, OpenAdd
  <2>2. Modify(Add(t, Created), tracker, FALSE)
    BY <1>3, <1>6, <1>7, <1>10
  <2> QED BY <1>6, <1>7, <1>8, <2>1, <2>2
<1> QED BY <1>9, <1>10

(* A version that is all there is of its object is marked as deleted.  One   *)
(* of this transaction is then what a repair would take for the object.      *)
LEMMA DeleteState ==
  ASSUME TypeOK, NEW D, Between(D), NEW id \in Id, NEW s \in Readable(id),
         versions[s].st \in {Created, Committed}, versions[s].st = Created => id \notin DOMAIN D
  PROVE  /\ SetState(s, Deleted) \in Seq(Write(id))
         /\ \E ve \in OpenSet(D) : /\ Changes(OpenSet(D), versions, SetState(s, Deleted), s, ve)
                                   /\ Has(ve[s], Deleted, versions[s].dir, versions[s].val)
<1> DEFINE w == [do |-> "state", at |-> s, st |-> Deleted]
           ve == Written(versions, w)
<1>0. versions \in Versions /\ versions \in OpenSet(D) /\ Stable(versions, D)
  BY BetweenIs DEF TypeOK
<1>1. s \in Places(id) /\ s \in Slot /\ s[1] = id /\ versions[s].st # 0
  BY <1>0, ReadableIs DEF Places
<1>2. PICK x \in State \ {Committed} : x = Deleted
  BY DEF State
<1>3. SetState(s, x) = <<w>> /\ SetState(s, x) \in Seq(Write(id))
  BY <1>1, <1>2, WritesAre DEF SetState
<1>4. ve \in Versions /\ Others(s, versions, ve) /\ Has(ve[s], Deleted, versions[s].dir, versions[s].val)
  <2>1. LET vx == Written(versions, [do |-> "state", at |-> s, st |-> x])
        IN  vx \in Versions /\ Others(s, versions, vx) /\ Has(vx[s], x, versions[s].dir, versions[s].val)
    BY <1>0, <1>1, StateIs
  <2> QED BY <1>2, <2>1
<1>5. ve = Written(versions, w)
  OBVIOUS
<1> HIDE DEF w, ve
<1>6. \A u \in Slot : u # s /\ u[1] = s[1] => ~Base(versions[u])
  BY <1>0, <1>1 DEF Stable, Real, Base
<1>7. ve \in OpenSet(D)
  <2>0. OpenIs(versions, D)
    BY <1>0 DEF OpenSet
  <2>1. CASE Base(versions[s])
    BY <1>0, <1>1, <1>4, <2>1, OpenKeeps DEF Base, Has
  <2>2. CASE ~Base(versions[s])
    <3>1. id \notin DOMAIN D
      BY <2>2 DEF Base
    <3>2. \A u \in Slot : u # s => ve[u] = versions[u]
      BY <1>4 DEF Others
    <3>3. \A u, q \in Slot : Base(ve[u]) /\ Base(ve[q]) /\ u[1] = q[1] => u = q
      BY <1>6, <2>0, <3>2 DEF OpenIs
    <3>4. \A u \in Slot : u[1] \in DOMAIN D => ve[u] = versions[u]
      BY <1>1, <3>1, <3>2
    <3>5. OpenIs(ve, D)
      BY <2>0, <3>3, <3>4 DEF OpenIs
    <3> QED BY <1>4, <3>5 DEF OpenSet
  <2> QED BY <2>1, <2>2
<1>8. Changes(OpenSet(D), versions, SetState(s, x), s, ve)
  BY <1>0, <1>3, <1>4, <1>5, <1>7, PathOne DEF Changes
<1> QED BY <1>2, <1>3, <1>4, <1>7, <1>8

(* deleteObject. *)
LEMMA DeleteObjectStep ==
  ASSUME TypeOK, NEW D, Between(D), NEW id \in Id, DeleteObject(id),
         id \in DOMAIN D => \A s \in Readable(id) : versions[s].st # Created
  PROVE  TypeOK' /\ InCallOn(D, id)'
<1>0. versions \in Versions /\ versions \in OpenSet(D) /\ Stable(versions, D)
      /\ Noted(versions, D, tracker, trackerLocked) /\ tracker \in Seq(Id)
      /\ (trackerLocked \/ FALSE) = trackerLocked
  BY BetweenIs DEF TypeOK
<1>1. PICK s \in Readable(id) :
        \/ /\ versions[s].st = Superseder
           /\ \E r \in Linked(id, {Superseded}) : \E w \in {<<>>, SetState(r, Deleted)} :
                Modify(Dlete(s) \o w, tracker, FALSE)
        \/ versions[s].st # Superseder /\ Modify(SetState(s, Deleted), tracker, FALSE)
  BY DEF DeleteObject
<1>2. s \in Places(id) /\ s \in Slot /\ s[1] = id /\ versions[s].st \in {Created, Committed, Superseder}
      /\ versions[s].dir
  BY <1>0, ReadableIs DEF Places
<1>3. CASE versions[s].st # Superseder /\ Modify(SetState(s, Deleted), tracker, FALSE)
  <2>1. /\ SetState(s, Deleted) \in Seq(Write(id))
        /\ \E ve \in OpenSet(D) : /\ Changes(OpenSet(D), versions, SetState(s, Deleted), s, ve)
                                  /\ Has(ve[s], Deleted, versions[s].dir, versions[s].val)
    BY <1>2, <1>3, DeleteState
  <2>2. PICK ve \in OpenSet(D) : /\ Changes(OpenSet(D), versions, SetState(s, Deleted), s, ve)
                                 /\ Has(ve[s], Deleted, versions[s].dir, versions[s].val)
    BY <2>1
  <2>3. ve[s].st = Deleted /\ ve[s].dir /\ \A u \in Slot : u # s => ve[u] = versions[u]
    BY <1>2, <2>2 DEF Changes, Others, Has
  <2>4. \A u \in Slot : u # s /\ u[1] = id => ~Real(ve[u])
    BY <1>0, <1>2, <1>3, <2>3 DEF Stable, Real
  <2>5. StableAt(ve, id, D)
    BY <1>2, <2>3, <2>4 DEF StableAt, Real
  <2>6. Stable(ve, D)
    BY <1>0, <1>2, <2>3, <2>5, StableKept
  <2>7. Noted(ve, D, tracker, trackerLocked)
    BY <1>0, <2>3, NotedKept
  <2> QED BY <1>0, <1>3, <2>1, <2>2, <2>6, <2>7, ModifyStep DEF Changes
<1>4. ASSUME versions[s].st = Superseder, NEW r \in Linked(id, {Superseded}),
             NEW w \in {<<>>, SetState(r, Deleted)}, Modify(Dlete(s) \o w, tracker, FALSE)
      PROVE  TypeOK' /\ InCallOn(D, id)'
  <2>1. r \in Places(id) /\ r \in Slot /\ r[1] = id /\ versions[r].st = Superseded /\ versions[r].dir /\ r # s
    BY <1>0, <1>4, InUseIs DEF Linked, Of, Places
  <2>2. versions[s].st # 0 /\ ~Base(versions[s])
    BY <1>4 DEF Base
  <2>3. PICK v1 \in OpenSet(D) : Changes(OpenSet(D), versions, Dlete(s), s, v1) /\ v1[s] = Free
    BY <1>0, <1>2, <2>2, OpenDlete
  <2>4. \A u \in Slot : u # s => v1[u] = versions[u]
    BY <2>3 DEF Changes, Others
  <2>5. Stable(v1, D)
    <3>1. versions[s].st # Superseded /\ ~Real(v1[s])
      BY <1>4, <2>3, FreeIs DEF Real
    <3> QED BY <1>0, <1>2, <2>3, <3>1, StableLess DEF Changes
  <2>6. PICK y \in State \ {Committed} : y = Deleted
    BY DEF State
  <2>7. Dlete(s) \in Seq(Write(id)) /\ SetState(r, y) \in Seq(Write(id))
    BY <1>2, <2>1, WritesAre
  <2>8. ASSUME NEW u \in Slot, u[1] = id, Real(v1[u]) PROVE u = r
    <3>1. u # s
      BY <2>3, <2>8, FreeIs DEF Real
    <3>2. Real(versions[u]) /\ Real(versions[s]) /\ Real(versions[r])
      BY <1>4, <2>1, <2>4, <2>8, <3>1 DEF Real
    <3>3. \/ versions[u].st = Superseded /\ versions[s].st = Superseder
          \/ versions[s].st = Superseded /\ versions[u].st = Superseder
      BY <1>0, <1>2, <2>8, <3>1, <3>2 DEF Stable
    <3>4. versions[u].st = Superseded
      BY <1>4, <3>3
    <3>5. ASSUME u # r PROVE FALSE
      <4>1. \/ versions[u].st = Superseded /\ versions[r].st = Superseder
            \/ versions[r].st = Superseded /\ versions[u].st = Superseder
        BY <1>0, <2>1, <2>8, <3>2, <3>5 DEF Stable
      <4> QED BY <2>1, <3>4, <4>1
    <3> QED BY <3>5
  <2>9. CASE w = <<>>
    <3>1. Dlete(s) \o w = Dlete(s)
      BY <2>7, <2>9, ConcatEmptySeq
    <3>2. Noted(v1, D, tracker, trackerLocked)
      <4>1. \A u \in Slot : v1[u].st \in {Created, Superseded, Superseder} => v1[u] = versions[u]
        BY <2>3, <2>4, FreeIs
      <4> QED BY <1>0, <4>1, NotedKept
    <3> QED BY <1>0, <1>4, <2>3, <2>5, <2>7, <3>1, <3>2, ModifyStep DEF Changes
  <2>10. CASE w = SetState(r, Deleted)
    <3>1. v1[r].st # 0 /\ Base(v1[r]) = (y \in {Superseded, Deleted})
      BY <2>1, <2>4, <2>6 DEF Base
    <3>2. PICK ve \in OpenSet(D) : /\ Changes(OpenSet(D), v1, SetState(r, y), r, ve)
                                   /\ Has(ve[r], y, v1[r].dir, v1[r].val)
      BY <2>1, <3>1, OpenState
    <3>3. /\ Path(OpenSet(D), versions, Dlete(s) \o SetState(r, y), ve)
          /\ Dlete(s) \o SetState(r, y) \in Seq(Write(id))
      BY <2>3, <2>7, <3>2, PathThen DEF Changes
    <3>4. ve[r].st = Deleted /\ ve[r].dir /\ \A u \in Slot : u # r => ve[u] = v1[u]
      BY <2>1, <2>4, <2>6, <3>2 DEF Changes, Others, Has
    <3>5. \A u \in Slot : u[1] = id /\ Real(ve[u]) => u = r
      BY <2>8, <3>4
    <3>6. StableAt(ve, id, D)
      <4>1. \A u \in Slot : ve[u].st \in {Superseded, Superseder} => Real(ve[u])
        BY DEF Real
      <4>2. ve[r].st \notin {Superseded, Superseder}
        BY <3>4
      <4> HIDE DEF Real
      <4> QED BY <2>1, <3>4, <3>5, <4>1, <4>2 DEF StableAt
    <3>7. \A u \in Slot : u[1] # id => ve[u] = v1[u]
      BY <2>1, <3>4
    <3>8. Stable(ve, D)
      BY <2>5, <3>6, <3>7, StableKept
    <3>9. Noted(ve, D, tracker, trackerLocked)
      <4>1. \A u \in Slot : ve[u].st \in {Created, Superseded, Superseder} => ve[u] = versions[u]
        BY <2>3, <2>4, <3>4, FreeIs
      <4> QED BY <1>0, <4>1, NotedKept
    <3>10. Modify(Dlete(s) \o SetState(r, y), tracker, FALSE)
      BY <1>4, <2>6, <2>10
    <3> QED BY <1>0, <3>2, <3>3, <3>8, <3>9, <3>10, ModifyStep
  <2> QED BY <2>9, <2>10
<1> QED BY <1>1, <1>3, <1>4

(* A call that changes nothing. *)
LEMMA CallFailsStep ==
  ASSUME TypeOK, NEW D, Between(D), NEW id, CallFails
  PROVE  TypeOK' /\ InCallOn(D, id)'
<1>1. versions \in OpenSet(D) /\ Stable(versions, D) /\ tracker \in Seq(Id)
      /\ Noted(versions, D, tracker, trackerLocked) /\ (trackerLocked \/ FALSE) = trackerLocked
  BY BetweenIs DEF TypeOK
<1>2. <<>> \in Seq(Write(id)) /\ Path(OpenSet(D), versions, <<>>, versions)
  BY <1>1, PathEmpty
<1> QED BY <1>1, <1>2, ModifyStep DEF CallFails

-----------------------------------------------------------------------------
(* The locks, the commit and the abort. *)

(* Modes says what D is about. *)
LEMMA ModesAre ==
  ASSUME NEW D, Modes(D)
  PROVE  DOMAIN D = Kept /\ D = Cut(D, Kept) /\ Mode(D)
<1>1. D = Cut(D, Kept) /\ Mode(D)
  BY DEF Modes
<1>2. DOMAIN Cut(D, Kept) = Kept
  BY DEF Cut
<1> QED BY ONLY <1>1, <1>2

(* D cut down is cut down. *)
LEMMA CutCut ==
  ASSUME NEW D, NEW L
  PROVE  Cut(D, L) = Cut(Cut(D, L), L)
BY DEF Cut

(* The last lock goes: what the iterator is given covers every version the   *)
(* transaction has to settle, of the objects it does not pass over.          *)
LEMMA ChosenIs ==
  ASSUME versions \in Versions, NEW D, Stable(versions, D), tracker \in Seq(Id), trackerLocked \in BOOLEAN,
         Noted(versions, D, tracker, trackerLocked), NEW T \in Chosen,
         NEW L, L \subseteq DOMAIN D, L \cap PassedOver = {}
  PROVE  Pending(versions, Cut(D, L), T) /\ T \subseteq Slot
<1> DEFINE E == Cut(D, L)
<1>0. DOMAIN E = L
  BY DEF Cut
<1> HIDE DEF E
<1>1. CASE TrackerFull \/ trackerLocked
  <2>1. T = InUse
    BY <1>1 DEF Chosen
  <2>2. \A s \in Slot : versions[s].st # 0 => s \in T
    BY <2>1, InUseIs
  <2>3. Pending(versions, E, T)
    BY <2>2 DEF Pending
  <2> QED BY <2>1, <2>3, InUseIs DEF E
<1>2. CASE ~TrackerFull /\ ~trackerLocked
  <2>1. /\ T \subseteq InUse
        /\ \A s \in T : versions[s].dir
        /\ \A id \in Tracked : LET P1 == T \cap Linked(id, State)
                               IN  IF Linked(id, State) = {} THEN P1 = {} ELSE Cardinality(P1) = 1
    BY <1>2 DEF Chosen
  <2>2. PassedOver = {id \in Id : IF id \in Tracked THEN Linked(id, {Replacing, Rewriting}) # {}
                                  ELSE Of(id, {Deleted}) # {}}
    BY <1>2 DEF PassedOver
  <2>3. ASSUME NEW s \in Slot, s[1] \in L, Real(versions[s]), versions[s].st # Committed
        PROVE  \E t \in Slot : t \in T /\ t[1] = s[1] /\ Real(versions[t])
    <3>0. s[1] \in Id /\ s \in InUse /\ versions[s].st \in State /\ s[1] \notin PassedOver
      BY <2>3, InUseIs DEF Real
    <3>1. s[1] \in Tracked
      <4>1. CASE versions[s].st = Deleted
        <5>1. s \in Of(s[1], {Deleted})
          BY <3>0, <4>1 DEF Of
        <5> QED BY <2>2, <3>0, <5>1
      <4>2. CASE versions[s].st # Deleted
        <5>1. versions[s].st \in {Created, Superseded, Superseder}
          BY <2>3, <3>0, <4>2 DEF Real, State
        <5>2. PICK i \in 1 .. Len(tracker) : tracker[i] = s[1]
          BY <1>2, <2>3, <5>1 DEF Noted, TrackerFull
        <5> QED BY <5>2 DEF Tracked
      <4> QED BY <4>1, <4>2
    <3>2. s \in Linked(s[1], State)
      BY <2>3, <3>0 DEF Linked, Of, Stable
    <3> DEFINE P1 == T \cap Linked(s[1], State)
    <3>3. Cardinality(P1) = 1
      BY <2>1, <3>1, <3>2
    <3> HIDE DEF P1
    <3>4. P1 # {}
      <4>1. Cardinality({}) = 0
        BY FS_EmptySet
      <4>2. ASSUME P1 = {} PROVE FALSE
        <5>1. Cardinality(P1) = Cardinality({})
          BY <4>2, Zenon
        <5> QED BY <4>1, <5>1, <3>3
      <4> QED BY <4>2
    <3>5. PICK t \in P1 : TRUE
      BY <3>4
    <3>6. t \in T /\ t \in InUse /\ t[1] = s[1] /\ versions[t].dir
      BY <3>5 DEF P1, Linked, Of
    <3>7. versions[t].st \notin {Replacing, Rewriting}
      <4>1. Linked(s[1], {Replacing, Rewriting}) = {}
        BY <2>2, <3>0, <3>1
      <4> QED BY <3>6, <4>1 DEF Linked, Of
    <3> QED BY <3>6, <3>7, InUseIs DEF Real
  <2>4. \A s, t \in Slot : s # t /\ s[1] = t[1] /\ Real(versions[s]) /\ Real(versions[t]) =>
          \/ versions[s].st = Superseded /\ versions[t].st = Superseder
          \/ versions[t].st = Superseded /\ versions[s].st = Superseder
    BY DEF Stable
  <2>5. \A s \in Slot : versions[s].st \in {Created, Superseded, Superseder, Deleted} => Real(versions[s])
    BY DEF Real
  <2>6. ASSUME NEW s \in Slot, s[1] \in L, versions[s].st \in {Created, Deleted} PROVE s \in T
    <3>1. PICK t \in Slot : t \in T /\ t[1] = s[1] /\ Real(versions[t])
      BY <2>3, <2>5, <2>6
    <3>2. t = s
      BY <2>4, <2>5, <2>6, <3>1
    <3> QED BY <3>1, <3>2
  <2>7. \A s \in Slot : versions[s].st = Superseded => versions[s].dir
    BY DEF Stable
  <2>8. ASSUME NEW s \in Slot, s[1] \in L, versions[s].st = Superseded, s \notin T
        PROVE  versions[s].dir /\ \E t \in Slot : t \in T /\ t[1] = s[1] /\ versions[t].st = Superseder
    <3>1. PICK t \in Slot : t \in T /\ t[1] = s[1] /\ Real(versions[t])
      BY <2>3, <2>5, <2>8
    <3>2. versions[t].st = Superseder
      BY <2>4, <2>5, <2>8, <3>1
    <3> QED BY <2>7, <2>8, <3>1, <3>2
  <2>9. ASSUME NEW s \in Slot, s[1] \in L, versions[s].st = Superseder, s \notin T
        PROVE  \E t \in Slot : t \in T /\ t[1] = s[1] /\ versions[t].st = Superseded
    <3>1. PICK t \in Slot : t \in T /\ t[1] = s[1] /\ Real(versions[t])
      BY <2>3, <2>5, <2>9
    <3>2. versions[t].st = Superseded
      BY <2>4, <2>5, <2>9, <3>1
    <3> QED BY <3>1, <3>2
  <2>10. ASSUME NEW s \in Slot, NEW t \in Slot, s[1] = t[1],
                versions[s].st = Superseded, versions[t].st = Committed
         PROVE  FALSE
    <3>1. s # t /\ Real(versions[s]) /\ Real(versions[t])
      BY <2>10 DEF Real
    <3>2. \/ versions[s].st = Superseded /\ versions[t].st = Superseder
          \/ versions[t].st = Superseded /\ versions[s].st = Superseder
      BY <2>4, <2>10, <3>1
    <3> QED BY <2>10, <3>2
  <2>11. Pending(versions, E, T)
    <3> HIDE DEF Replacing, Rewriting, Created, Committed, Superseded, Superseder, Deleted
    <3> QED BY <1>0, <2>6, <2>7, <2>8, <2>9, <2>10 DEF Pending
  <2> QED BY <2>1, <2>11, InUseIs DEF E
<1> QED BY <1>1, <1>2

(* A lock is given up between calls or at the end of one. *)
LEMMA UnlockStep ==
  ASSUME TypeOK, NEW D, DOMAIN D = Kept, versions \in OpenSet(D), Stable(versions, D),
         ~needsRepair, writes = <<>>, Noted(versions, D, tracker, trackerLocked),
         IF inTxn THEN record = "open" ELSE record = "none" /\ Settled(versions, D),
         Unlock, UNCHANGED <<flash, inTxn, needsRepair, tracker, trackerLocked, unborn>>,
         NEW E, E = Cut(D, Kept')
  PROVE  TypeOK' /\ Mode(E)'
<1> DEFINE L == Kept'
<1>0. L \subseteq DOMAIN D
  BY DEF Unlock, Kept, Known
<1>3. E = Cut(D, L)
  OBVIOUS
<1>1. CASE lockCount = 1 /\ inTxn
  <2>1. /\ writes' = Record("commit") /\ phase' = "commit" /\ lockCount' = 0
        /\ versions' = versions /\ record' = "open" /\ needsRepair' = FALSE
        /\ spoiled' = spoiled \cup PassedOver /\ unborn' = unborn
    BY <1>1 DEF Unlock, flash, TypeOK
  <2>2. todo' \in Chosen
    BY <1>1 DEF Unlock
  <2>3. L \cap PassedOver = {}
    BY <2>1 DEF Kept, Known
  <2> HIDE DEF L
  <2>4. Pending(versions, E, todo') /\ todo' \subseteq Slot
    BY <1>0, <1>3, <2>2, <2>3, ChosenIs DEF TypeOK
  <2>5. versions \in OpenSet(E) /\ Stable(versions, E)
    BY <1>0, <1>3, CutIs
  <2>6. Marking(E)'
    BY <2>1, <2>4, <2>5 DEF Marking
  <2>7. Mode(E)'
    BY <2>6 DEF Mode
  <2>8. TypeOK'
    BY <2>1, <2>4 DEF TypeOK, flash
  <2> QED BY <2>7, <2>8
<1>2. CASE ~(lockCount = 1 /\ inTxn)
  <2>1. /\ phase' = "idle" /\ writes' = <<>> /\ todo' = todo /\ lockCount' \in Nat
        /\ needsRepair' = FALSE /\ inTxn' = inTxn
        /\ versions' = versions /\ record' = record
        /\ tracker' = tracker /\ trackerLocked' = trackerLocked
    BY <1>2 DEF Unlock, TypeOK, flash
  <2> HIDE DEF L
  <2>2. versions \in OpenSet(E) /\ Stable(versions, E) /\ Noted(versions, E, tracker, trackerLocked)
        /\ (Settled(versions, D) => Settled(versions, E))
    BY <1>0, <1>3, CutIs
  <2>3. Rest(E)' \/ Open(E)'
    BY <2>1, <2>2 DEF TypeOK, Rest, Open, Quiet
  <2>4. Mode(E)'
    BY <2>3 DEF Mode
  <2>5. TypeOK'
    BY <2>1 DEF TypeOK
  <2> QED BY <2>4, <2>5
<1> QED BY <1>1, <1>2

(* unlockStore between calls. *)
LEMMA UnlockStoreStep ==
  ASSUME TypeOK, NEW D, Modes(D), UnlockStore, NEW E, E = Cut(D, Kept')
  PROVE  TypeOK' /\ Mode(E)'
<1>1. Idle /\ Unlock /\ UNCHANGED <<flash, inTxn, needsRepair, tracker, trackerLocked, unborn>>
  BY DEF UnlockStore
<1>2. Between(D) /\ DOMAIN D = Kept
  BY <1>1, IdleIs, ModesAre
<1>3. IF inTxn THEN record = "open" ELSE record = "none" /\ Settled(versions, D)
  BY <1>2 DEF Between, Open, Rest
<1>4. /\ ~needsRepair /\ writes = <<>> /\ versions \in OpenSet(D) /\ Stable(versions, D)
      /\ Noted(versions, D, tracker, trackerLocked)
  BY <1>2, BetweenIs DEF Quiet
<1> QED BY <1>1, <1>2, <1>3, <1>4, UnlockStep

(* The first write of a transaction is that of its record. *)
LEMMA RecordFirst ==
  ASSUME NEW W, NEW w \in Seq(W), NEW r
  PROVE  LET x == Record(r) \o w
         IN  /\ x # <<>> /\ Head(x) = [do |-> "record", to |-> r]
             /\ Tail(x) = w /\ Len(x) = Len(w) + 1
             /\ \A i \in 1 .. Len(w) : x[i + 1] = w[i]
             /\ x[1] = [do |-> "record", to |-> r] /\ DOMAIN x = 1 .. Len(x)
<1> DEFINE h == [do |-> "record", to |-> r]
           X == W \cup {h}
           x == <<h>> \o w
<1>1. h \in X /\ w \in Seq(X)
  OBVIOUS
<1> HIDE DEF h, X
<1>2. <<h>> \in Seq(X) /\ Len(<<h>>) = 1 /\ <<h>>[1] = h
  BY <1>1
<1>3. Len(w) \in Nat
  BY LenProperties
<1>4. /\ x \in Seq(X) /\ Len(x) = Len(w) + 1 /\ x[1] = h
      /\ \A i \in 1 .. Len(w) : x[i + 1] = w[i]
      /\ DOMAIN x = 1 .. Len(x)
  <2>1. x \in Seq(X) /\ Len(x) = 1 + Len(w)
        /\ \A i \in 1 .. 1 + Len(w) : x[i] = IF i <= 1 THEN <<h>>[i] ELSE w[i - 1]
    BY <1>1, <1>2, ConcatProperties
  <2> QED BY <1>2, <1>3, <2>1
<1> HIDE DEF x
<1>5. x # <<>> /\ Head(x) = h
  BY <1>3, <1>4, EmptySeq
<1>6. Tail(x) = w
  <2> DEFINE u == Tail(x)
  <2>1. u \in Seq(X) /\ Len(u) = Len(x) - 1 /\ \A i \in 1 .. Len(u) : u[i] = x[i + 1]
    BY <1>4, <1>5, HeadTailProperties
  <2> HIDE DEF u
  <2>2. Len(u) = Len(w) /\ \A i \in 1 .. Len(u) : u[i] = w[i]
    BY <1>3, <1>4, <2>1
  <2>3. u = w
    BY <1>1, <2>1, <2>2, SeqEqual
  <2> QED BY <2>3 DEF u
<1> QED BY <1>4, <1>5, <1>6 DEF x, h, Record

(* The call under way has written everything. *)
LEMMA ReturnStep ==
  ASSUME TypeOK, NEW D, Modes(D), Return, NEW E, E = Cut(D, Kept')
  PROVE  TypeOK' /\ Mode(E)'
<1>1. /\ phase = "call" /\ writes = <<>> /\ Unlock
      /\ UNCHANGED <<flash, inTxn, needsRepair, tracker, trackerLocked, unborn>>
  BY DEF Return
<1>2. InCall(D)
  BY <1>1 DEF Modes, Mode, Rest, Open, Quiet, Marking, Committing, CommitCut, OpenCut, Undoing, Restoring
<1>3. PICK id : InCallOn(D, id)
  BY <1>2 DEF InCall
<1>4. PICK w \in Seq(Write(id)), ve \in Versions :
       /\ Path(OpenSet(D), versions, w, ve)
       /\ Stable(ve, D) /\ Noted(ve, D, tracker, trackerLocked)
       /\ \/ record = "open" /\ writes = w
          \/ record = "none" /\ writes = Record("open") \o w
  BY <1>3 DEF InCallOn
<1>5. record = "open" /\ w = <<>> /\ versions = ve
  <2>1. Record("open") \o w # <<>>
    BY RecordFirst
  <2>2. record = "open" /\ writes = w
    BY <1>1, <1>4, <2>1
  <2>3. w = <<>>
    BY <1>1, <2>2
  <2>4. versions = ve
    <3>1. Path(OpenSet(D), versions, w, ve) /\ w \in Seq(Write(id))
      BY <1>4
    <3>2. w = <<>> => ve = versions
      BY ONLY <3>1, PathEnds
    <3> QED BY ONLY <2>3, <3>2
  <2> QED BY <2>2, <2>3, <2>4
<1>6. versions \in OpenSet(D) /\ Stable(versions, D) /\ Noted(versions, D, tracker, trackerLocked)
  BY <1>4, <1>5, PathEnds
<1>7. inTxn /\ ~needsRepair /\ DOMAIN D = Kept
  BY <1>3, ModesAre DEF InCallOn
<1> QED BY <1>1, <1>5, <1>6, <1>7, UnlockStep

(* Nested locks. *)
LEMMA LockStoreStep ==
  ASSUME TypeOK, NEW D, Modes(D), LockStore
  PROVE  TypeOK' /\ Mode(D)'
<1>1. Between(D)
  BY IdleIs DEF LockStore
<1>2. TypeOK' /\ (Rest(D)' \/ Open(D)')
  BY <1>1 DEF LockStore, flash, TypeOK, Rest, Open, Quiet, Between
<1> QED BY <1>2 DEF Mode

(* A pass over everything begins. *)
LEMMA StartUndoStep ==
  ASSUME TypeOK, NEW D, versions \in OpenSet(D), record = "open", writes = <<>>,
         StartUndo, writes' = writes, UNCHANGED flash
  PROVE  Undoing(D)' /\ todo' \subseteq Slot
<1>1. UndoLeft(versions, InUse) /\ InUse \subseteq Slot
  BY InUseIs DEF UndoLeft, TypeOK
<1>2. Path(OpenSet(D), versions, <<>>, versions) /\ <<>> \in Seq(CallWrite) /\ versions \in Versions
  BY PathEmpty DEF TypeOK
<1> QED BY <1>1, <1>2 DEF Undoing, StartUndo, flash

(* abort. *)
LEMMA AbortStep ==
  ASSUME TypeOK, NEW D, Modes(D), Abort
  PROVE  TypeOK' /\ Mode(D)'
<1>0. Between(D)
  BY IdleIs DEF Abort
<1>1. Quiet /\ versions \in OpenSet(D)
  BY <1>0, BetweenIs
<1>2. CASE inTxn
  <2>1. record = "open" /\ writes = <<>> /\ StartUndo
    BY <1>0, <1>1, <1>2 DEF Open, Quiet, Abort, Between
  <2>2. Undoing(D)' /\ todo' \subseteq Slot
    BY <1>1, <2>1, StartUndoStep DEF Abort, flash
  <2> QED BY <2>2 DEF Abort, TypeOK, flash, Mode
<1>3. CASE ~inTxn
  <2>1. Rest(D)
    BY <1>0, <1>3 DEF Between
  <2>2. TypeOK' /\ Rest(D)'
    BY <1>3, <2>1 DEF Abort, TypeOK, Rest, Quiet, flash
  <2> QED BY <2>2 DEF Mode
<1> QED BY <1>2, <1>3

-----------------------------------------------------------------------------
(* The power fails, the store is repaired, a commit or an abort ends. *)

(* The power fails. *)
LEMMA CrashStep ==
  ASSUME TypeOK, NEW D, Modes(D), Crash, NEW E, E = Cut(D, Kept')
  PROVE  TypeOK' /\ Mode(E)'
<1>0. DOMAIN D = Kept
  BY ModesAre
<1>1. /\ phase' = "idle" /\ writes' = <<>> /\ inTxn' = FALSE /\ needsRepair' = (record # "none")
      /\ versions' = versions /\ record' = record
      /\ Kept' = Kept \ BetweenVersions
  BY DEF Crash, flash, Kept, Known
<1>2. TypeOK'
  <2>1. <<>> \in Seq(Id) /\ {} \in SUBSET Slot
    OBVIOUS
  <2> QED BY <2>1 DEF TypeOK, Crash, flash
<1>3. PICK L : L = Kept'
  OBVIOUS
<1>4. L \subseteq DOMAIN D /\ E = Cut(D, L)
  BY <1>0, <1>1, <1>3
<1>5. /\ OpenSet(D) \subseteq OpenSet(E) /\ CommitSet(D) \subseteq CommitSet(E)
      /\ Stable(versions, D) => Stable(versions, E)
      /\ Settled(versions, D) => Settled(versions, E)
  BY <1>4, CutIs
<1>6. CASE record = "none"
  <2>1. versions \in OpenSet(D) /\ Settled(versions, D) /\ Stable(versions, D)
    BY <1>6, FlashIs DEF Restoring
  <2>2. Rest(E)'
    BY <1>1, <1>5, <1>6, <2>1 DEF Rest, Quiet
  <2> QED BY <1>2, <2>2 DEF Mode
<1>7. CASE record = "commit"
  <2>1. CommitCut(E)'
    BY <1>1, <1>5, <1>7, FlashIs DEF CommitCut
  <2> QED BY <1>2, <2>1 DEF Mode
<1>8. CASE record = "open"
  <2>1. versions \in OpenSet(E)
    <3>1. CASE ~Restoring(D)
      BY <1>5, <1>8, <3>1, FlashIs
    <3>2. CASE Restoring(D)
      <4>1. CASE versions \in OpenSet(D)
        BY <1>5, <4>1
      <4>2. ASSUME NEW t \in Slot, writes = <<CommitAt(t)>>, NEW ve, Bringing(D, versions, t, ve)
            PROVE  versions \in OpenSet(E)
        <5>1. phase = "restore" /\ Len(writes) = 1 /\ writes[1].at = t
          BY <3>2, <4>2 DEF Restoring, CommitAt
        <5>2. BetweenVersions = {t[1]}
          BY <5>1 DEF BetweenVersions
        <5>3. E = Cut(D, DOMAIN D \ {t[1]})
          BY <1>0, <1>1, <1>3, <1>4, <5>2
        <5> QED BY <4>2, <5>3 DEF Bringing
      <4> QED BY <3>2, <4>1, <4>2, PathEnds DEF Restoring
    <3> QED BY <3>1, <3>2
  <2>2. OpenCut(E)'
    BY <1>1, <1>8, <2>1 DEF OpenCut
  <2> QED BY <1>2, <2>2 DEF Mode
<1> QED BY <1>6, <1>7, <1>8 DEF TypeOK

(* recoveryCheck. *)
LEMMA RepairStep ==
  ASSUME TypeOK, NEW D, Modes(D), Repair
  PROVE  TypeOK' /\ Mode(D)'
<1>1. CASE CommitCut(D)
  <2>1. Pending(versions, D, InUse) /\ InUse \subseteq Slot
    BY InUseIs DEF Pending, TypeOK
  <2>2. Path(CommitSet(D), versions, <<>>, versions) /\ <<>> \in Seq(AnyWrite) /\ versions \in Versions
    BY <1>1, PathEmpty DEF TypeOK, CommitCut
  <2>3. /\ phase' = "commit" /\ todo' = InUse /\ writes' = <<>> /\ versions' = versions
        /\ record' = "commit" /\ TypeOK'
    BY <1>1, <2>1 DEF CommitCut, Repair, TypeOK, flash, memory
  <2>4. Settles(<<>>)
    BY DEF Settles
  <2>5. Committing(D)'
    BY <2>1, <2>2, <2>3, <2>4 DEF Committing
  <2> QED BY <2>3, <2>5 DEF Mode
<1>2. CASE OpenCut(D)
  <2>1. record = "open" /\ writes = <<>> /\ StartUndo /\ versions \in OpenSet(D)
    BY <1>2 DEF OpenCut, Repair
  <2>2. Undoing(D)' /\ todo' \subseteq Slot
    BY <2>1, StartUndoStep DEF Repair, flash
  <2> QED BY <2>2 DEF Repair, TypeOK, flash, memory, Mode
<1> QED BY <1>1, <1>2 DEF Modes, Mode, Repair, Rest, Open, Quiet, InCall, InCallOn, Marking, Committing, Undoing, Restoring

(* The first pass of doAbort, between two of its versions. *)
LEMMA UndoingIs ==
  ASSUME NEW D, Undoing(D), writes = <<>>
  PROVE  versions \in OpenSet(D) /\ UndoLeft(versions, todo)
<1>1. PICK ve \in Versions : Path(OpenSet(D), versions, writes, ve) /\ UndoLeft(ve, todo)
  BY DEF Undoing
<1>2. writes \in Seq(CallWrite)
  BY DEF Undoing
<1>3. ve \in OpenSet(D) /\ (writes = <<>> => ve = versions)
  BY ONLY <1>1, <1>2, PathEnds
<1> QED BY <1>1, <1>3

(* The commit loop, between two of its versions. *)
LEMMA CommittingIs ==
  ASSUME NEW D, Committing(D), writes = <<>>
  PROVE  versions \in CommitSet(D) /\ Pending(versions, D, todo)
<1>1. PICK ve \in Versions : Path(CommitSet(D), versions, writes, ve) /\ Pending(ve, D, todo)
  BY DEF Committing
<1>2. writes \in Seq(AnyWrite)
  BY DEF Committing
<1>3. ve \in CommitSet(D) /\ (writes = <<>> => ve = versions)
  BY ONLY <1>1, <1>2, PathEnds
<1> QED BY <1>1, <1>3

(* The first pass of doAbort is over: what is left is committed, replaced    *)
(* or deleted.                                                               *)
LEMMA SecondPassStep ==
  ASSUME TypeOK, NEW D, Modes(D), SecondPass
  PROVE  TypeOK' /\ Mode(D)'
<1>1. Undoing(D)
  BY DEF SecondPass, Modes, Mode, Rest, Open, Quiet, InCall, InCallOn, Marking, Committing, CommitCut, OpenCut, Restoring
<1>2. writes = <<>> /\ phase' = "restore" /\ todo' = InUse
      /\ versions' = versions /\ record' = record /\ writes' = writes
  BY DEF SecondPass, flash
<1>3. versions \in OpenSet(D) /\ UndoLeft(versions, todo) /\ record = "open"
  BY <1>1, <1>2, UndoingIs DEF Undoing
<1>4. ASSUME NEW s \in Slot, versions[s].st \in {Replacing, Rewriting, Created, Superseder}
      PROVE  FALSE
  <2>1. s \in todo
    BY <1>3, <1>4 DEF UndoLeft
  <2>2. UndoWrites(s) = Dlete(s)
    BY <1>4 DEF UndoWrites
  <2>3. Dlete(s) # <<>>
    BY DEF Dlete
  <2> QED BY <2>1, <2>2, <2>3 DEF SecondPass
<1>5. RestoreLeft(versions, InUse) /\ InUse \subseteq Slot
  BY <1>4, InUseIs DEF RestoreLeft, TypeOK
<1>6. Restoring(D)'
  BY <1>2, <1>3, <1>5 DEF Restoring
<1>7. TypeOK'
  BY <1>2, <1>5 DEF TypeOK, SecondPass, flash, memory
<1> QED BY <1>6, <1>7 DEF Mode

(* A list that ends in two writes. *)
LEMMA EndsInTwo ==
  ASSUME NEW w \in Seq(CallWrite), NEW z1 \in AnyWrite, NEW z2 \in AnyWrite
  PROVE  /\ w \o <<z1, z2>> \in Seq(AnyWrite) /\ w \o <<z1, z2>> # <<>>
         /\ Len(w \o <<z1, z2>>) = Len(w) + 2
         /\ w = <<>> => w \o <<z1, z2>> = <<z1, z2>>
         /\ w # <<>> => LET x == w \o <<z1, z2>>
                         IN  /\ Head(x) = Head(w) /\ Head(w) \in CallWrite
                             /\ Tail(w) \in Seq(CallWrite)
                             /\ Tail(x) = Tail(w) \o <<z1, z2>>
<1> DEFINE X == AnyWrite
           Y == CallWrite
           z == <<z1, z2>>
           x == w \o z
<1>1. Y \subseteq X
  BY DEF AnyWrite
<1>2. w \in Seq(Y) /\ z \in Seq(X) /\ Len(z) = 2
  OBVIOUS
<1> HIDE DEF X, Y, z
<1>3. w \in Seq(X) /\ Len(w) \in Nat
  BY <1>1, <1>2, LenProperties
<1>4. /\ x \in Seq(X) /\ Len(x) = Len(w) + 2
      /\ \A i \in 1 .. Len(w) + 2 : x[i] = IF i <= Len(w) THEN w[i] ELSE z[i - Len(w)]
  <2>1. /\ x \in Seq(X) /\ Len(x) = Len(w) + Len(z)
        /\ \A i \in 1 .. Len(w) + Len(z) : x[i] = IF i <= Len(w) THEN w[i] ELSE z[i - Len(w)]
    <3>1. w \in Seq(X) /\ z \in Seq(X)
      BY <1>2, <1>3
    <3> QED BY ONLY <3>1, ConcatProperties
  <2> HIDE DEF x
  <2> QED BY <1>2, <2>1
<1>5. w = <<>> => x = z
  BY <1>2, ConcatEmptySeq
<1> HIDE DEF x
<1>6. x # <<>>
  BY <1>3, <1>4, EmptySeq
<1>7. ASSUME w # <<>>
      PROVE  /\ Head(x) = Head(w) /\ Head(w) \in Y
             /\ Tail(w) \in Seq(Y)
             /\ Tail(x) = Tail(w) \o z
  <2> DEFINE u == Tail(w)
             y == Tail(x)
  <2>1. /\ Head(w) \in Y /\ Head(w) = w[1] /\ u \in Seq(Y) /\ Len(u) = Len(w) - 1
        /\ \A i \in 1 .. Len(w) - 1 : u[i] = w[i + 1]
    <3>1. Head(w) \in Y /\ Tail(w) \in Seq(Y) /\ Len(Tail(w)) = Len(w) - 1
          /\ \A i \in 1 .. Len(Tail(w)) : Tail(w)[i] = w[i + 1]
      BY <1>2, <1>7, HeadTailProperties
    <3>2. Head(w) = w[1]
      BY <1>2, <1>7
    <3> QED BY <3>1, <3>2
  <2>2. /\ Head(x) = x[1] /\ y \in Seq(X) /\ Len(y) = Len(x) - 1
        /\ \A i \in 1 .. Len(x) - 1 : y[i] = x[i + 1]
    BY <1>4, <1>6, HeadTailProperties
  <2>3. Len(w) # 0
    BY <1>3, <1>7, EmptySeq
  <2>4. x[1] = w[1]
    BY <1>3, <1>4, <2>3
  <2> HIDE DEF u, y
  <2>5. u \in Seq(X)
    BY <1>1, <2>1
  <2>6. /\ u \o z \in Seq(X) /\ Len(u \o z) = Len(w) + 1
        /\ \A i \in 1 .. Len(w) + 1 : (u \o z)[i] = IF i <= Len(w) - 1 THEN u[i] ELSE z[i - (Len(w) - 1)]
    <3>1. /\ u \o z \in Seq(X) /\ Len(u \o z) = Len(u) + Len(z)
          /\ \A i \in 1 .. Len(u) + Len(z) : (u \o z)[i] = IF i <= Len(u) THEN u[i] ELSE z[i - Len(u)]
      BY <1>2, <2>5, ConcatProperties
    <3>2. Len(u) = Len(w) - 1 /\ Len(u) + Len(z) = Len(w) + 1
      BY <1>2, <1>3, <2>1
    <3> QED BY <3>1, <3>2
  <2>7. ASSUME NEW i \in 1 .. Len(w) + 1 PROVE y[i] = (u \o z)[i]
    <3>1. y[i] = x[i + 1] /\ i + 1 \in 1 .. Len(w) + 2
      BY <1>3, <1>4, <2>2
    <3>2. CASE i <= Len(w) - 1
      BY <1>3, <1>4, <2>1, <2>6, <3>1, <3>2
    <3>3. CASE ~(i <= Len(w) - 1)
      <4>1. (i + 1) - Len(w) = i - (Len(w) - 1) /\ ~(i + 1 <= Len(w))
        BY <1>3, <3>3
      <4> QED BY <1>4, <2>6, <3>1, <3>3, <4>1
    <3> QED BY <3>2, <3>3
  <2>8. y = u \o z
    <3>1. Len(y) = Len(u \o z) /\ Len(y) = Len(w) + 1
      BY <1>3, <1>4, <2>2, <2>6
    <3>2. \A i \in 1 .. Len(y) : y[i] = (u \o z)[i]
      BY <2>7, <3>1
    <3> QED BY <2>2, <2>6, <3>1, <3>2, SeqEqual
  <2>9. Head(x) = Head(w) /\ Head(w) \in Y
    BY <2>1, <2>2, <2>4
  <2>10. u \in Seq(Y)
    BY <2>1
  <2> QED BY ONLY <2>8, <2>9, <2>10 DEF u, y
<1> QED BY <1>4, <1>5, <1>6, <1>7 DEF X, Y, z, x

(* The last two writes that bring a version back are writes. *)
LEMMA LastTwo ==
  ASSUME NEW s \in Slot, NEW t \in Slot
  PROVE  ZapAt(s) \in CallWrite /\ ZapAt(s) \in AnyWrite /\ CommitAt(t) \in AnyWrite
<1>1. s[1] \in Id /\ s \in Places(s[1])
  BY DEF Slot, Places
<1>2. ZapAt(s) \in Write(s[1])
  BY <1>1 DEF Write, ZapAt
<1> QED BY <1>1, <1>2 DEF AnyWrite, CallWrite

(* The second pass of doAbort, between two of its versions. *)
LEMMA RestoringIs ==
  ASSUME NEW D, Restoring(D), writes = <<>>
  PROVE  versions \in OpenSet(D) /\ RestoreLeft(versions, todo)
<1>1. \A w \in Seq(CallWrite) : \A s, t \in Slot : w \o <<ZapAt(s), CommitAt(t)>> # <<>>
  <2> SUFFICES ASSUME NEW w \in Seq(CallWrite), NEW s \in Slot, NEW t \in Slot
               PROVE  w \o <<ZapAt(s), CommitAt(t)>> # <<>>
    OBVIOUS
  <2>1. ZapAt(s) \in AnyWrite /\ CommitAt(t) \in AnyWrite
    BY LastTwo
  <2> HIDE DEF ZapAt, CommitAt
  <2> QED BY ONLY <2>1, w \in Seq(CallWrite), EndsInTwo
<1>2. \A t : <<CommitAt(t)>> # <<>>
  OBVIOUS
<1> QED BY <1>1, <1>2 DEF Restoring

(* doCommit does something about these versions. *)
LEMMA CommitDoes ==
  ASSUME NEW s, versions[s].st \in {Created, Superseded, Superseder, Deleted}
  PROVE  CommitWrites(s) # <<>>
<1> DEFINE newer == Linked(s[1], {Superseder})
           older == Linked(s[1], {Superseded})
           r == CHOOSE r1 \in newer : TRUE
           o == CHOOSE r1 \in older : TRUE
           w == IF newer = {} THEN <<>> ELSE SetState(r, Committed)
           u == IF older = {} THEN <<>> ELSE Dlete(o)
<1>1. CommitWrites(s) \in {SetState(s, Committed), Dlete(s), w \o Dlete(s), u \o SetState(s, Committed)}
  BY DEF CommitWrites
<1> DEFINE X(t) == {[do |-> "state", at |-> t, st |-> Committed],
                    [do |-> "unlink", at |-> t], [do |-> "zap", at |-> t]}
           W == X(r) \cup X(s) \cup X(o)
<1> HIDE DEF r, o, newer, older
<1>2. /\ w \in Seq(W) /\ u \in Seq(W) /\ SetState(s, Committed) \in Seq(W) /\ Dlete(s) \in Seq(W)
      /\ SetState(s, Committed) # <<>> /\ Dlete(s) # <<>>
  <2>1. \A t : SetState(t, Committed) \in Seq(X(t)) /\ Dlete(t) \in Seq(X(t))
    BY DEF SetState, Dlete
  <2>2. \A t : SetState(t, Committed) # <<>> /\ Dlete(t) # <<>>
    BY DEF SetState, Dlete
  <2> DEFINE Y(t) == X(t)
  <2>3. W = Y(r) \cup Y(s) \cup Y(o) /\ \A t : SetState(t, Committed) \in Seq(Y(t)) /\ Dlete(t) \in Seq(Y(t))
    BY <2>1
  <2> HIDE DEF Y, W
  <2>4. \A S \in {Y(r), Y(s), Y(o)} : \A x \in Seq(S) : x \in Seq(W)
    BY <2>3
  <2>5. SetState(s, Committed) \in Seq(W) /\ Dlete(s) \in Seq(W)
        /\ SetState(r, Committed) \in Seq(W) /\ Dlete(o) \in Seq(W) /\ <<>> \in Seq(W)
    BY <2>3, <2>4
  <2> QED BY <2>2, <2>5
<1> HIDE DEF w, u, W
<1>3. w \o Dlete(s) # <<>> /\ u \o SetState(s, Committed) # <<>>
  BY <1>2, ConcatEqualIffEmpty
<1> QED BY <1>1, <1>2, <1>3

(* doAbort does something about these. *)
LEMMA RestoreDoes ==
  ASSUME NEW s, versions[s].st \in {Superseded, Deleted}
  PROVE  RestoreWrites(s) # <<>>
<1> DEFINE t == FreeSlot(s[1])
           c == Clone(t, Replacing, versions[s].val)
           d == SetState(t, Committed)
           W == {Add(t, Replacing)[1], Add(t, Replacing)[2], Data(t, versions[s].val)[1],
                 Dlete(s)[1], Dlete(s)[2], d[1]}
<1>1. RestoreWrites(s) = c \o Dlete(s) \o d
  BY DEF RestoreWrites
<1>2. c \in Seq(W) /\ Dlete(s) \in Seq(W) /\ d \in Seq(W) /\ d # <<>>
  BY DEF Clone, Add, Data, Dlete, SetState
<1> HIDE DEF c, d, W
<1>3. c \o Dlete(s) \o d # <<>>
  BY <1>2, ConcatProperties, ConcatEqualIffEmpty
<1> QED BY <1>1, <1>3

(* A commit with nothing left to settle. *)
LEMMA CommitEnds ==
  ASSUME TypeOK, NEW D, versions \in CommitSet(D), Pending(versions, D, todo),
         \A s \in todo : CommitWrites(s) = <<>>
  PROVE  versions \in OpenSet(D) /\ Settled(versions, D) /\ Stable(versions, D)
<1>0. CommitIs(versions, D) /\ versions \in Versions
  BY DEF CommitSet
<1>1. \A s \in todo : versions[s].st \notin {Created, Superseded, Superseder, Deleted}
  BY CommitDoes
<1>2. ASSUME NEW s \in Slot, s[1] \in DOMAIN D PROVE versions[s].st \in {0, Replacing, Rewriting, Committed}
  <2>1. versions[s].st \in State \cup {0}
    BY <1>0, InUseIs
  <2>2. versions[s].st \notin {Created, Superseded, Superseder, Deleted}
    BY <1>1, <1>2 DEF Pending
  <2> QED BY <2>1, <2>2 DEF State
<1>3. \A s, t \in Slot : ~(s[1] = t[1] /\ versions[s].st = Superseded /\ versions[t].st = Committed)
  BY <1>1 DEF Pending
<1>4. \A s \in Slot : versions[s].st = Superseded => versions[s].dir
  BY <1>1 DEF Pending
<1>5. ASSUME NEW s \in Slot, NEW t \in Slot, s # t, s[1] = t[1], Real(versions[s]), Real(versions[t])
      PROVE  \/ versions[s].st = Superseded /\ versions[t].st = Superseder
             \/ versions[t].st = Superseded /\ versions[s].st = Superseder
  <2>1. \/ versions[s].st = Superseded /\ versions[t].st \in {Superseder, Committed}
        \/ versions[t].st = Superseded /\ versions[s].st \in {Superseder, Committed}
    BY <1>0, <1>5 DEF CommitIs
  <2> QED BY <1>3, <1>5, <2>1
<1>6. \A s \in Slot : s[1] \in DOMAIN D => /\ Real(versions[s]) => IsLive(versions[s])
                                           /\ Base(versions[s]) = IsLive(versions[s])
                                           /\ versions[s].st # Superseder
  BY <1>2 DEF Real, IsLive, Live, Base
<1>7. \A s \in Slot : s[1] \in DOMAIN D /\ Real(versions[s]) => versions[s].dir
  BY <1>0, <1>6 DEF CommitIs
<1>8. Stable(versions, D)
  BY <1>4, <1>5, <1>6, <1>7 DEF Stable
<1>9. ASSUME NEW s \in Slot, NEW t \in Slot, Base(versions[s]), Base(versions[t]), s[1] = t[1]
      PROVE  s = t
  <2>1. Real(versions[s]) /\ Real(versions[t])
        /\ versions[s].st # Superseder /\ versions[t].st # Superseder
    BY <1>9 DEF Real, Base
  <2> QED BY <1>5, <1>9, <2>1
<1>10. OpenIs(versions, D)
  <2>1. \A s \in Slot : s[1] \in DOMAIN D =>
          /\ versions[s].st = Committed => versions[s].dir
          /\ Base(versions[s]) => versions[s].val = D[s[1]]
    <3>1. \A s \in Slot : versions[s].st = Committed => Real(versions[s])
      BY DEF Real
    <3> QED BY <1>0, <1>6, <1>7, <3>1 DEF CommitIs
  <2>2. \A id \in DOMAIN D : D[id] # None => \E s \in Slot : s[1] = id /\ Base(versions[s])
    BY <1>0, <1>6 DEF CommitIs
  <2> QED BY <1>9, <2>1, <2>2 DEF OpenIs
<1> QED BY <1>0, <1>2, <1>8, <1>10 DEF Settled, OpenSet

(* An abort with nothing left to bring back. *)
LEMMA RestoreEnds ==
  ASSUME TypeOK, NEW D, versions \in OpenSet(D), RestoreLeft(versions, todo),
         \A s \in todo : RestoreWrites(s) = <<>>
  PROVE  Settled(versions, D) /\ Stable(versions, D)
<1>0. OpenIs(versions, D) /\ versions \in Versions
  BY DEF OpenSet
<1>1. \A s \in todo : versions[s].st \notin {Superseded, Deleted}
  BY RestoreDoes
<1>2. ASSUME NEW s \in Slot PROVE versions[s].st \in {0, Committed}
  <2>1. versions[s].st \in State \cup {0}
    BY <1>0, InUseIs
  <2>2. versions[s].st \notin {Replacing, Rewriting, Created, Superseder, Superseded, Deleted}
    BY <1>1 DEF RestoreLeft
  <2> QED BY <2>1, <2>2 DEF State
<1>3. \A s \in Slot : Real(versions[s]) => Base(versions[s]) /\ versions[s].st = Committed
  BY <1>2 DEF Real, Base
<1>4. \A s \in Slot : versions[s].st \notin {Superseded, Superseder}
  BY <1>2
<1>5. \A s, t \in Slot : s[1] = t[1] /\ Real(versions[s]) /\ Real(versions[t]) => s = t
  BY <1>0, <1>3 DEF OpenIs
<1>6. \A s \in Slot : s[1] \in DOMAIN D /\ Real(versions[s]) => versions[s].dir
  BY <1>0, <1>3 DEF OpenIs
<1> QED BY <1>2, <1>4, <1>5, <1>6 DEF Settled, Stable

(* The transaction record goes when nothing is left to settle. *)
LEMMA EndTransactionStep ==
  ASSUME TypeOK, NEW D, Modes(D), EndTransaction
  PROVE  TypeOK' /\ Mode(D)'
<1>1. /\ writes = <<>> /\ record' = "none" /\ inTxn' = FALSE /\ needsRepair' = FALSE
      /\ phase' = "idle" /\ versions' = versions /\ writes' = writes
  BY DEF EndTransaction
<1>2. versions \in OpenSet(D) /\ Settled(versions, D) /\ Stable(versions, D)
  <2>1. CASE Committing(D)
    <3>1. \A s \in todo : CommitWrites(s) = <<>>
      BY <2>1 DEF EndTransaction, Committing
    <3>2. versions \in CommitSet(D) /\ Pending(versions, D, todo)
      BY <1>1, <2>1, CommittingIs
    <3> QED BY <3>1, <3>2, CommitEnds
  <2>2. CASE Restoring(D)
    <3>1. \A s \in todo : RestoreWrites(s) = <<>>
      BY <2>2 DEF EndTransaction, Restoring
    <3>2. versions \in OpenSet(D) /\ RestoreLeft(versions, todo)
      BY <1>1, <2>2, RestoringIs
    <3> QED BY <3>1, <3>2, RestoreEnds
  <2> QED BY <2>1, <2>2 DEF EndTransaction, Modes, Mode, Rest, Open, Quiet, InCall, InCallOn, Marking, CommitCut, OpenCut, Undoing, Record
<1>3. Rest(D)'
  BY <1>1, <1>2 DEF Rest, Quiet
<1>4. <<>> \in Seq(Id) /\ {} \in SUBSET Slot
  OBVIOUS
<1>5. TypeOK'
  BY <1>4 DEF TypeOK, EndTransaction
<1> QED BY <1>3, <1>5 DEF Mode

-----------------------------------------------------------------------------
(* The iterators of doCommit and doAbort come to a version. *)

(* doCommit writes no state but the committed one. *)
LEMMA SettlesIs ==
  /\ Settles(<<>>)
  /\ \A t : Settles(SetState(t, Committed)) /\ Settles(Dlete(t))
  /\ \A W : \A w, u \in Seq(W) : Settles(w) /\ Settles(u) => Settles(w \o u)
<1>1. Settles(<<>>)
  BY DEF Settles
<1>2. ASSUME NEW t PROVE Settles(SetState(t, Committed)) /\ Settles(Dlete(t))
  <2>1. Len(SetState(t, Committed)) = 1 /\ SetState(t, Committed)[1].st = Committed
    BY DEF SetState
  <2>2. Len(Dlete(t)) = 2 /\ Dlete(t)[1].do # "state" /\ Dlete(t)[2].do # "state"
    BY DEF Dlete
  <2>3. \A i \in 1 .. 1 : i = 1
    OBVIOUS
  <2>4. \A i \in 1 .. 2 : i = 1 \/ i = 2
    OBVIOUS
  <2> HIDE DEF Committed
  <2> QED BY <2>1, <2>2, <2>3, <2>4 DEF Settles
<1>3. ASSUME NEW W, NEW w \in Seq(W), NEW u \in Seq(W), Settles(w), Settles(u)
      PROVE  Settles(w \o u)
  <2>1. Len(w) \in Nat /\ Len(u) \in Nat
    BY LenProperties
  <2>2. Len(w \o u) = Len(w) + Len(u)
        /\ \A i \in 1 .. Len(w) + Len(u) : (w \o u)[i] = IF i <= Len(w) THEN w[i] ELSE u[i - Len(w)]
    BY ConcatProperties
  <2>3. ASSUME NEW i \in 1 .. Len(w) + Len(u), (w \o u)[i].do = "state"
        PROVE  (w \o u)[i].st = Committed
    <3>1. CASE i <= Len(w)
      <4>1. i \in 1 .. Len(w) /\ (w \o u)[i] = w[i]
        BY <2>1, <2>2, <3>1
      <4> QED BY <1>3, <2>3, <4>1 DEF Settles
    <3>2. CASE ~(i <= Len(w))
      <4>1. i - Len(w) \in 1 .. Len(u) /\ (w \o u)[i] = u[i - Len(w)]
        BY <2>1, <2>2, <3>2
      <4> QED BY <1>3, <2>3, <4>1 DEF Settles
    <3> QED BY <3>1, <3>2
  <2> QED BY <2>2, <2>3 DEF Settles
<1> QED BY <1>1, <1>2, <1>3

(* The writes about one place are writes. *)
LEMMA CommitListsAre ==
  ASSUME NEW t \in Slot
  PROVE  SetState(t, Committed) \in Seq(AnyWrite) /\ Dlete(t) \in Seq(AnyWrite)
<1>1. t[1] \in Id /\ t \in Places(t[1])
  BY DEF Slot, Places
<1>2. [do |-> "unlink", at |-> t] \in Write(t[1]) /\ [do |-> "zap", at |-> t] \in Write(t[1])
  BY <1>1 DEF Write
<1>3. /\ [do |-> "unlink", at |-> t] \in AnyWrite /\ [do |-> "zap", at |-> t] \in AnyWrite
      /\ [do |-> "state", at |-> t, st |-> Committed] \in AnyWrite
  BY <1>1, <1>2 DEF AnyWrite, CallWrite, CommitAt
<1> HIDE DEF AnyWrite
<1> QED BY <1>3 DEF SetState, Dlete

(* What is done about a version, with what is left to settle after it. *)
CommitGoal(D, s, w) ==
  /\ w \in Seq(AnyWrite) /\ Settles(w)
  /\ \E ve \in CommitSet(D) : Path(CommitSet(D), versions, w, ve) /\ Pending(ve, D, todo \ {s})

(* What is left to settle when the versions of T have been: none that is     *)
(* left relied on one of them.                                               *)
LEMMA PendingLess ==
  ASSUME NEW D, Pending(versions, D, todo), NEW s, NEW T, NEW ve, s \in T,
         \A u \in Slot : u \in T => ve[u].st \in {0, Committed},
         \A u \in Slot : u \notin T => ve[u] = versions[u],
         \A u \in Slot, t \in Slot :
           u \notin T /\ t \in T /\ t[1] = u[1] =>
             /\ u[1] \in DOMAIN D /\ versions[u].st = Superseded => u \in todo \/ versions[t].st # Superseder
             /\ u[1] \in DOMAIN D /\ versions[u].st = Superseder => u \in todo \/ versions[t].st # Superseded
             /\ versions[u].st = Superseded /\ ve[t].st = Committed => u \in todo
  PROVE  Pending(ve, D, todo \ {s})
<1>1. \A u \in Slot : ve[u].st \in {Created, Deleted, Superseded, Superseder} => u \notin T /\ u # s /\ ve[u] = versions[u]
  OBVIOUS
<1>2. ASSUME NEW u \in Slot, u[1] \in DOMAIN D, ve[u].st \in {Created, Deleted} PROVE u \in todo \ {s}
  BY <1>1, <1>2 DEF Pending
<1>3. ASSUME NEW u \in Slot, u[1] \in DOMAIN D, ve[u].st = Superseded, u \notin todo \ {s}
      PROVE  ve[u].dir /\ \E t \in Slot : t \in todo \ {s} /\ t[1] = u[1] /\ ve[t].st = Superseder
  <2>1. u \notin T /\ ve[u] = versions[u] /\ u \notin todo
    BY <1>1, <1>3
  <2>2. versions[u].dir /\ \E t \in Slot : t \in todo /\ t[1] = u[1] /\ versions[t].st = Superseder
    BY <1>3, <2>1 DEF Pending
  <2>3. PICK t \in Slot : t \in todo /\ t[1] = u[1] /\ versions[t].st = Superseder
    BY <2>2
  <2>4. t \notin T
    BY <1>3, <2>1, <2>3
  <2> QED BY <2>1, <2>2, <2>3, <2>4
<1>4. ASSUME NEW u \in Slot, u[1] \in DOMAIN D, ve[u].st = Superseder, u \notin todo \ {s}
      PROVE  \E t \in Slot : t \in todo \ {s} /\ t[1] = u[1] /\ ve[t].st = Superseded
  <2>1. u \notin T /\ ve[u] = versions[u] /\ u \notin todo
    BY <1>1, <1>4
  <2>2. PICK t \in Slot : t \in todo /\ t[1] = u[1] /\ versions[t].st = Superseded
    BY <1>4, <2>1 DEF Pending
  <2>3. t \notin T
    BY <1>4, <2>1, <2>2
  <2> QED BY <2>2, <2>3
<1>5. ASSUME NEW u \in Slot, ve[u].st = Superseded PROVE u \in todo \ {s} \/ ve[u].dir
  BY <1>1, <1>5 DEF Pending
<1>6. ASSUME NEW u \in Slot, NEW t \in Slot, u[1] = t[1], ve[u].st = Superseded, ve[t].st = Committed
      PROVE  u \in todo \ {s}
  <2>1. u \notin T /\ u # s /\ ve[u] = versions[u]
    BY <1>1, <1>6
  <2>2. CASE t \in T
    BY <1>6, <2>1, <2>2
  <2>3. CASE t \notin T
    BY <1>6, <2>1, <2>3 DEF Pending
  <2> QED BY <2>2, <2>3
<1> HIDE DEF Replacing, Rewriting, Created, Committed, Superseded, Superseder, Deleted
<1> QED BY <1>2, <1>3, <1>4, <1>5, <1>6 DEF Pending

(* The same of one version. *)
LEMMA PendingOne ==
  ASSUME NEW D, Pending(versions, D, todo), NEW s \in Slot, NEW ve,
         ve[s].st \in {0, Committed}, \A u \in Slot : u # s => ve[u] = versions[u],
         \A u \in Slot : u # s /\ u[1] = s[1] =>
           /\ u[1] \in DOMAIN D /\ versions[u].st = Superseded => u \in todo \/ versions[s].st # Superseder
           /\ u[1] \in DOMAIN D /\ versions[u].st = Superseder => u \in todo \/ versions[s].st # Superseded
           /\ versions[u].st = Superseded /\ ve[s].st = Committed => u \in todo
  PROVE  Pending(ve, D, todo \ {s})
<1> DEFINE T == {s}
<1>1. \A u : (u \in T) = (u = s)
  OBVIOUS
<1> HIDE DEF T
<1>2. s \in T /\ \A u \in Slot : u \in T => ve[u].st \in {0, Committed}
  BY <1>1
<1>3. \A u \in Slot : u \notin T => ve[u] = versions[u]
  BY <1>1
<1>4. \A u \in Slot, t \in Slot :
        u \notin T /\ t \in T /\ t[1] = u[1] =>
          /\ u[1] \in DOMAIN D /\ versions[u].st = Superseded => u \in todo \/ versions[t].st # Superseder
          /\ u[1] \in DOMAIN D /\ versions[u].st = Superseder => u \in todo \/ versions[t].st # Superseded
          /\ versions[u].st = Superseded /\ ve[t].st = Committed => u \in todo
  BY <1>1
<1> QED BY <1>2, <1>3, <1>4, PendingLess

(* Of one object, the versions after the commit point. *)
LEMMA PairIs ==
  ASSUME NEW D, versions \in CommitSet(D), NEW u \in Slot, NEW t \in Slot, u # t, u[1] = t[1],
         versions[u].st \notin {0, Replacing, Rewriting}, versions[t].st \notin {0, Replacing, Rewriting}
  PROVE  \/ versions[u].st = Superseded /\ versions[t].st \in {Superseder, Committed}
         \/ versions[t].st = Superseded /\ versions[u].st \in {Superseder, Committed}
BY DEF CommitSet, CommitIs, Real

(* A version new in this transaction is committed. *)
LEMMA CommitCreated ==
  ASSUME TypeOK, NEW D, versions \in CommitSet(D), Pending(versions, D, todo), NEW s \in Slot,
         versions[s].st = Created
  PROVE  CommitGoal(D, s, SetState(s, Committed))
<1>1. PICK ve \in CommitSet(D) : /\ Changes(CommitSet(D), versions, SetState(s, Committed), s, ve)
                                 /\ Has(ve[s], Committed, versions[s].dir, versions[s].val)
  BY CommitState DEF IsLive, Live
<1>2. Pending(ve, D, todo \ {s})
  <2>1. ve[s].st = Committed /\ \A u \in Slot : u # s => ve[u] = versions[u]
    BY <1>1 DEF Changes, Others, Has
  <2>2. \A u \in Slot : u # s /\ u[1] = s[1] => versions[u].st # Superseded
    BY PairIs
  <2> QED BY <2>1, <2>2, PendingOne
<1> QED BY <1>1, <1>2, CommitListsAre, SettlesIs DEF CommitGoal, Changes

(* A deleted version is erased. *)
LEMMA CommitDeleted ==
  ASSUME TypeOK, NEW D, versions \in CommitSet(D), Pending(versions, D, todo), NEW s \in Slot,
         versions[s].st = Deleted
  PROVE  CommitGoal(D, s, Dlete(s))
<1>1. PICK ve \in CommitSet(D) : Changes(CommitSet(D), versions, Dlete(s), s, ve) /\ ve[s] = Free
  BY CommitDlete DEF IsLive, Live
<1>2. Pending(ve, D, todo \ {s})
  <2>1. ve[s].st = 0 /\ \A u \in Slot : u # s => ve[u] = versions[u]
    BY <1>1, FreeIs DEF Changes, Others
  <2> QED BY <2>1, PendingOne
<1> QED BY <1>1, <1>2, CommitListsAre, SettlesIs DEF CommitGoal, Changes

(* A replaced version and its replacement are both settled. *)
LEMMA PairPending ==
  ASSUME NEW D, versions \in CommitSet(D), Pending(versions, D, todo),
         NEW o \in Slot, NEW n \in Slot, o[1] = n[1],
         versions[o].st = Superseded, versions[n].st = Superseder,
         NEW s \in {o, n}, NEW ve, ve[o].st = 0, ve[n].st = Committed,
         \A u \in Slot : u # o /\ u # n => ve[u] = versions[u]
  PROVE  Pending(ve, D, todo \ {s})
<1>1. \A u \in Slot : u # o /\ u[1] = o[1] => versions[u].st # Superseded
  BY PairIs
<1>2. \A u \in Slot : u # n /\ u[1] = n[1] => versions[u].st # Superseder
  BY PairIs
<1> DEFINE T == {o, n}
<1>3. s \in T /\ \A u \in Slot : u \in T => ve[u].st \in {0, Committed}
  OBVIOUS
<1>4. \A u \in Slot : u \notin T => ve[u] = versions[u]
  OBVIOUS
<1>5. \A u \in Slot, t \in Slot : u \notin T /\ t \in T /\ t[1] = u[1] =>
        versions[u].st # Superseded /\ versions[u].st # Superseder
  BY <1>1, <1>2
<1> HIDE DEF T
<1> QED BY <1>3, <1>4, <1>5, PendingLess

(* One of the pair is settled that has no other. *)
LEMMA OnePending ==
  ASSUME NEW D, versions \in CommitSet(D), Pending(versions, D, todo), NEW s \in Slot, NEW ve,
         \/ versions[s].st = Superseded /\ Linked(s[1], {Superseder}) = {} /\ ve[s].st = 0
         \/ versions[s].st = Superseder /\ Linked(s[1], {Superseded}) = {} /\ ve[s].st = Committed,
         \A u \in Slot : u # s => ve[u] = versions[u]
  PROVE  Pending(ve, D, todo \ {s})
<1>0. versions \in Versions
  BY DEF CommitSet
<1>1. CASE versions[s].st = Superseded /\ Linked(s[1], {Superseder}) = {} /\ ve[s].st = 0
  <2>1. ASSUME NEW u \in Slot, u[1] = s[1], u[1] \in DOMAIN D, versions[u].st = Superseder PROVE FALSE
    <3>1. versions[u].dir
      BY <2>1 DEF CommitSet, CommitIs, IsLive, Live
    <3>2. u \in Linked(s[1], {Superseder})
      BY <1>0, <2>1, <3>1, InUseIs DEF Linked, Of
    <3> QED BY <1>1, <3>2
  <2> QED BY <1>1, <2>1, PendingOne
<1>2. CASE versions[s].st = Superseder /\ Linked(s[1], {Superseded}) = {} /\ ve[s].st = Committed
  <2>1. ASSUME NEW u \in Slot, u[1] = s[1], versions[u].st = Superseded PROVE u \in todo
    <3>1. u \in todo \/ versions[u].dir
      BY <2>1 DEF Pending
    <3>2. ASSUME versions[u].dir PROVE FALSE
      <4>1. u \in Linked(s[1], {Superseded})
        BY <1>0, <2>1, <3>2, InUseIs DEF Linked, Of
      <4> QED BY <1>2, <4>1
    <3> QED BY <3>1, <3>2
  <2>2. versions[s].st # Superseded /\ ve[s].st \in {0, Committed}
    BY <1>2
  <2> HIDE DEF Replacing, Rewriting, Created, Committed, Superseded, Superseder, Deleted
  <2> QED BY <2>1, <2>2, PendingOne
<1> QED BY <1>1, <1>2

(* A replaced version is reached first: the replacement is committed, and    *)
(* the old one erased.                                                       *)
LEMMA CommitSuperseded ==
  ASSUME TypeOK, NEW D, versions \in CommitSet(D), Pending(versions, D, todo), NEW s \in Slot,
         versions[s].st = Superseded
  PROVE  /\ Linked(s[1], {Superseder}) = {} => CommitGoal(D, s, Dlete(s))
         /\ \A n \in Linked(s[1], {Superseder}) : CommitGoal(D, s, SetState(n, Committed) \o Dlete(s))
<1>0. versions \in Versions /\ s[1] \in Id
  BY InUseIs DEF TypeOK
<1>1. ASSUME Linked(s[1], {Superseder}) = {} PROVE CommitGoal(D, s, Dlete(s))
  <2>1. PICK ve \in CommitSet(D) : Changes(CommitSet(D), versions, Dlete(s), s, ve) /\ ve[s] = Free
    BY CommitDlete DEF IsLive, Live
  <2>2. Pending(ve, D, todo \ {s})
    BY <1>1, <2>1, FreeIs, OnePending DEF Changes, Others, Has
  <2>3. Dlete(s) \in Seq(AnyWrite)
    BY <1>0, CommitListsAre
  <2> QED BY <2>1, <2>2, <2>3, SettlesIs DEF CommitGoal, Changes
<1>2. ASSUME NEW n \in Linked(s[1], {Superseder})
      PROVE  CommitGoal(D, s, SetState(n, Committed) \o Dlete(s))
  <2>1. n \in Slot /\ n[1] = s[1] /\ versions[n].st = Superseder /\ n # s
    BY <1>0, <1>2, InUseIs DEF Linked, Of
  <2>2. PICK v1 \in CommitSet(D) : /\ Changes(CommitSet(D), versions, SetState(n, Committed), n, v1)
                                   /\ Has(v1[n], Committed, versions[n].dir, versions[n].val)
    BY <2>1, CommitState DEF IsLive, Live
  <2>3. v1[s] = versions[s] /\ v1[s].st # 0 /\ ~IsLive(v1[s])
    BY <2>1, <2>2 DEF Changes, Others, IsLive, Live
  <2>4. PICK ve \in CommitSet(D) : Changes(CommitSet(D), v1, Dlete(s), s, ve) /\ ve[s] = Free
    BY <2>3, CommitDlete
  <2>5. /\ ve[s].st = 0 /\ ve[n].st = Committed
        /\ \A u \in Slot : u # s /\ u # n => ve[u] = versions[u]
    BY <2>1, <2>2, <2>4, FreeIs DEF Changes, Others, Has
  <2>6. Pending(ve, D, todo \ {s})
    BY <2>1, <2>5, PairPending
  <2>7. SetState(n, Committed) \in Seq(AnyWrite) /\ Dlete(s) \in Seq(AnyWrite)
    BY <1>0, <2>1, CommitListsAre
  <2>8. /\ Path(CommitSet(D), versions, SetState(n, Committed) \o Dlete(s), ve)
        /\ SetState(n, Committed) \o Dlete(s) \in Seq(AnyWrite)
    BY <2>2, <2>4, <2>7, PathThen DEF Changes
  <2>9. Settles(SetState(n, Committed) \o Dlete(s))
    BY <2>7, SettlesIs
  <2> QED BY <2>6, <2>8, <2>9 DEF CommitGoal
<1> QED BY <1>1, <1>2

(* The replacement is reached first: the old version is erased, and the      *)
(* replacement committed.                                                    *)
LEMMA CommitSuperseder ==
  ASSUME TypeOK, NEW D, versions \in CommitSet(D), Pending(versions, D, todo), NEW s \in Slot,
         versions[s].st = Superseder
  PROVE  /\ Linked(s[1], {Superseded}) = {} => CommitGoal(D, s, SetState(s, Committed))
         /\ \A o \in Linked(s[1], {Superseded}) : CommitGoal(D, s, Dlete(o) \o SetState(s, Committed))
<1>0. versions \in Versions /\ s[1] \in Id
  BY InUseIs DEF TypeOK
<1>1. ASSUME Linked(s[1], {Superseded}) = {} PROVE CommitGoal(D, s, SetState(s, Committed))
  <2>1. PICK ve \in CommitSet(D) : /\ Changes(CommitSet(D), versions, SetState(s, Committed), s, ve)
                                   /\ Has(ve[s], Committed, versions[s].dir, versions[s].val)
    BY CommitState DEF IsLive, Live
  <2>2. Pending(ve, D, todo \ {s})
    BY <1>1, <2>1, OnePending DEF Changes, Others, Has
  <2>3. SetState(s, Committed) \in Seq(AnyWrite)
    BY <1>0, CommitListsAre
  <2> QED BY <2>1, <2>2, <2>3, SettlesIs DEF CommitGoal, Changes
<1>2. ASSUME NEW o \in Linked(s[1], {Superseded})
      PROVE  CommitGoal(D, s, Dlete(o) \o SetState(s, Committed))
  <2>1. o \in Slot /\ o[1] = s[1] /\ versions[o].st = Superseded /\ o # s
    BY <1>0, <1>2, InUseIs DEF Linked, Of
  <2>2. PICK v1 \in CommitSet(D) : Changes(CommitSet(D), versions, Dlete(o), o, v1) /\ v1[o] = Free
    BY <2>1, CommitDlete DEF IsLive, Live
  <2>3. v1[s] = versions[s] /\ IsLive(v1[s])
    BY <2>1, <2>2 DEF Changes, Others, IsLive, Live
  <2>4. PICK ve \in CommitSet(D) : /\ Changes(CommitSet(D), v1, SetState(s, Committed), s, ve)
                                   /\ Has(ve[s], Committed, v1[s].dir, v1[s].val)
    BY <2>3, CommitState
  <2>5. /\ ve[o].st = 0 /\ ve[s].st = Committed
        /\ \A u \in Slot : u # s /\ u # o => ve[u] = versions[u]
    BY <2>1, <2>2, <2>4, FreeIs DEF Changes, Others, Has
  <2>6. Pending(ve, D, todo \ {s})
    BY <2>1, <2>5, PairPending
  <2>7. Dlete(o) \in Seq(AnyWrite) /\ SetState(s, Committed) \in Seq(AnyWrite)
    BY <1>0, <2>1, CommitListsAre
  <2>8. /\ Path(CommitSet(D), versions, Dlete(o) \o SetState(s, Committed), ve)
        /\ Dlete(o) \o SetState(s, Committed) \in Seq(AnyWrite)
    BY <2>2, <2>4, <2>7, PathThen DEF Changes
  <2>9. Settles(Dlete(o) \o SetState(s, Committed))
    BY <2>7, SettlesIs
  <2> QED BY <2>6, <2>8, <2>9 DEF CommitGoal
<1> QED BY <1>1, <1>2

(* The iterator of doCommit comes to a version. *)
LEMMA CommitVisitStep ==
  ASSUME TypeOK, NEW D, Modes(D), CommitVisit
  PROVE  TypeOK' /\ Mode(D)'
<1>1. Committing(D) /\ writes = <<>>
  BY DEF CommitVisit, Modes, Mode, Rest, Open, Quiet, InCall, InCallOn, Marking, CommitCut, OpenCut, Undoing,
         Restoring, Record
<1>2. versions \in CommitSet(D) /\ Pending(versions, D, todo)
  BY <1>1, CommittingIs
<1>3. PICK s \in todo : Reach(s, CommitWrites(s))
  BY DEF CommitVisit
<1>4. s \in Slot /\ s[1] \in Id
  BY InUseIs DEF TypeOK
<1>5. CommitGoal(D, s, CommitWrites(s))
  <2> DEFINE newer == Linked(s[1], {Superseder})
             older == Linked(s[1], {Superseded})
  <2>1. CASE versions[s].st = Created
    BY <1>2, <1>4, <2>1, CommitCreated DEF CommitWrites
  <2>2. CASE versions[s].st = Deleted
    BY <1>2, <1>4, <2>2, CommitDeleted DEF CommitWrites
  <2>3. CASE versions[s].st = Superseded
    <3>1. CASE newer = {}
      <4>1. CommitWrites(s) = <<>> \o Dlete(s)
        BY <2>3, <3>1 DEF CommitWrites
      <4>2. Dlete(s) \in Seq(AnyWrite)
        BY <1>4, CommitListsAre DEF TypeOK
      <4>3. CommitWrites(s) = Dlete(s)
        BY <4>1, <4>2, ConcatEmptySeq
      <4> QED BY <1>2, <1>4, <2>3, <3>1, <4>3, CommitSuperseded
    <3>2. CASE newer # {}
      <4> DEFINE n == CHOOSE r \in newer : TRUE
      <4>1. n \in newer
        BY <3>2
      <4> DEFINE w == IF newer = {} THEN <<>> ELSE SetState(n, Committed)
      <4>3. CommitWrites(s) = w \o Dlete(s)
        BY <2>3 DEF CommitWrites
      <4>4. w = SetState(n, Committed)
        BY <3>2
      <4>2. CommitWrites(s) = SetState(n, Committed) \o Dlete(s)
        BY <4>3, <4>4
      <4> HIDE DEF n
      <4> QED BY <1>2, <1>4, <2>3, <4>1, <4>2, CommitSuperseded
    <3> QED BY <3>1, <3>2
  <2>4. CASE versions[s].st = Superseder
    <3>1. CASE older = {}
      <4>1. CommitWrites(s) = <<>> \o SetState(s, Committed)
        BY <2>4, <3>1 DEF CommitWrites
      <4>2. SetState(s, Committed) \in Seq(AnyWrite)
        BY <1>4, CommitListsAre DEF TypeOK
      <4>3. CommitWrites(s) = SetState(s, Committed)
        BY <4>1, <4>2, ConcatEmptySeq
      <4> QED BY <1>2, <1>4, <2>4, <3>1, <4>3, CommitSuperseder
    <3>2. CASE older # {}
      <4> DEFINE o == CHOOSE r \in older : TRUE
      <4>1. o \in older
        BY <3>2
      <4> DEFINE w == IF older = {} THEN <<>> ELSE Dlete(o)
      <4>3. CommitWrites(s) = w \o SetState(s, Committed)
        BY <2>4 DEF CommitWrites
      <4>4. w = Dlete(o)
        BY <3>2
      <4>2. CommitWrites(s) = Dlete(o) \o SetState(s, Committed)
        BY <4>3, <4>4
      <4> HIDE DEF o
      <4> QED BY <1>2, <1>4, <2>4, <4>1, <4>2, CommitSuperseder
    <3> QED BY <3>1, <3>2
  <2>5. CASE versions[s].st \notin {Created, Deleted, Superseded, Superseder}
    <3>1. CommitWrites(s) = <<>>
      BY <2>5 DEF CommitWrites
    <3> QED BY <1>3, <3>1 DEF Reach
  <2> QED BY <2>1, <2>2, <2>3, <2>4, <2>5
<1>6. /\ writes' = CommitWrites(s) /\ todo' = todo \ {s} /\ phase' = "commit"
      /\ record' = "commit" /\ versions' = versions
  BY <1>1, <1>3 DEF Reach, Committing, flash
<1>7. CommitWrites(s) \in Seq(AnyWrite)
  BY <1>5 DEF CommitGoal
<1>8. Committing(D)'
  <2>1. PICK ve \in CommitSet(D) : /\ Path(CommitSet(D), versions, CommitWrites(s), ve)
                                   /\ Pending(ve, D, todo \ {s})
    BY <1>5 DEF CommitGoal
  <2>2. ve \in Versions
    BY DEF CommitSet
  <2>3. Settles(CommitWrites(s))
    BY <1>5 DEF CommitGoal
  <2> QED BY <1>6, <1>7, <2>1, <2>2, <2>3 DEF Committing
<1>9. TypeOK'
  BY <1>3 DEF TypeOK, Reach, flash, memory
<1> QED BY <1>8, <1>9 DEF Mode

(* The first pass of doAbort comes to a version of the transaction. *)
LEMMA UndoVisitStep ==
  ASSUME TypeOK, NEW D, Modes(D), UndoVisit
  PROVE  TypeOK' /\ Mode(D)'
<1>1. Undoing(D) /\ writes = <<>>
  BY DEF UndoVisit, Modes, Mode, Rest, Open, Quiet, InCall, InCallOn, Marking, Committing, CommitCut, OpenCut, Restoring
<1>2. versions \in OpenSet(D) /\ UndoLeft(versions, todo)
  BY <1>1, UndoingIs
<1>3. PICK s \in todo : Reach(s, UndoWrites(s))
  BY DEF UndoVisit
<1>4. s \in Slot /\ s[1] \in Id /\ s \in Places(s[1])
  BY InUseIs DEF TypeOK
<1>5. UndoWrites(s) = Dlete(s) /\ versions[s].st # 0 /\ ~Base(versions[s])
  BY <1>3 DEF Reach, UndoWrites, Base
<1>6. PICK ve \in OpenSet(D) : Changes(OpenSet(D), versions, Dlete(s), s, ve) /\ ve[s] = Free
  BY <1>2, <1>4, <1>5, OpenDlete
<1>7. UndoLeft(ve, todo \ {s}) /\ ve \in Versions
  BY <1>2, <1>6, FreeIs DEF UndoLeft, Changes, Others, OpenSet
<1>8. Dlete(s) \in Seq(CallWrite)
  <2>1. [do |-> "unlink", at |-> s] \in Write(s[1]) /\ [do |-> "zap", at |-> s] \in Write(s[1])
    BY <1>4 DEF Write
  <2>2. [do |-> "unlink", at |-> s] \in CallWrite /\ [do |-> "zap", at |-> s] \in CallWrite
    BY <1>4, <2>1 DEF CallWrite
  <2> HIDE DEF CallWrite
  <2> QED BY <2>2 DEF Dlete
<1>9. /\ writes' = Dlete(s) /\ todo' = todo \ {s} /\ phase' = "undo"
      /\ record' = "open" /\ versions' = versions
  BY <1>1, <1>3, <1>5 DEF Reach, Undoing, flash
<1>10. Undoing(D)'
  BY <1>6, <1>7, <1>8, <1>9 DEF Undoing, Changes
<1>11. TypeOK'
  BY <1>3 DEF TypeOK, Reach, flash, memory
<1> QED BY <1>10, <1>11 DEF Mode

(* Before the last two writes that bring the version in s back as the copy   *)
(* in t, and after them.                                                     *)
ToBring(vm, s, t) == /\ s # t /\ s[1] = t[1] /\ Base(vm[s]) /\ vm[s].st # Committed
                     /\ Has(vm[t], Replacing, TRUE, vm[s].val)
Brought(D, vm, s, t, ve) ==
  /\ Bringing(D, Written(vm, ZapAt(s)), t, ve) /\ ve \in OpenSet(D)
  /\ ve[s] = Free /\ ve[t].st = Committed
  /\ \A u \in Slot : u # s /\ u # t => ve[u] = vm[u]

(* The last two writes that bring a version back: the old one goes, and its  *)
(* copy is what a repair finds.                                              *)
LEMMA BroughtBack ==
  ASSUME NEW D, NEW vm \in OpenSet(D), NEW s \in Slot, NEW t \in Slot, ToBring(vm, s, t)
  PROVE  \E ve \in Versions : Brought(D, vm, s, t, ve)
<1> USE DEF ToBring
<1> DEFINE vz == Written(vm, [do |-> "zap", at |-> s])
           ve == Written(vz, [do |-> "state", at |-> t, st |-> Committed])
           E == Cut(D, DOMAIN D \ {t[1]})
<1>1. vz \in Versions /\ Others(s, vm, vz) /\ vz[s] = Free
  BY ZapIs DEF OpenSet
<1>2. vz[t] = vm[t] /\ vz[t].st = Replacing /\ vz[t].st # 0 /\ vz[t].dir = TRUE /\ vz[t].val = vm[s].val
  BY <1>1 DEF Others, Has
<1>3. ve \in Versions /\ Others(t, vz, ve) /\ Has(ve[t], Committed, vz[t].dir, vz[t].val)
  <2> HIDE DEF vz
  <2>1. PICK x \in State : x = Committed
    BY DEF State
  <2> DEFINE vx == Written(vz, [do |-> "state", at |-> t, st |-> x])
  <2>2. vx \in Versions /\ Others(t, vz, vx) /\ Has(vx[t], x, vz[t].dir, vz[t].val)
    BY <1>1, <1>2, StateIs
  <2>3. vx = ve
    BY <2>1
  <2> HIDE DEF vx, ve
  <2> QED BY <2>1, <2>2, <2>3
<1>4. vz = Written(vm, ZapAt(s)) /\ ve = Written(vz, CommitAt(t))
  BY DEF ZapAt, CommitAt
<1> HIDE DEF vz, ve
<1>5. OpenIs(vm, D)
  BY DEF OpenSet
<1>6. \A u \in Slot : u # s => vz[u] = vm[u]
  BY <1>1 DEF Others
<1>7. vz \in OpenSet(E)
  <2>1. DOMAIN E = DOMAIN D \ {t[1]} /\ \A id \in DOMAIN E : E[id] = D[id]
    BY DEF Cut
  <2> HIDE DEF E
  <2>2. \A u \in Slot : Base(vz[u]) => u # s /\ Base(vm[u])
    BY <1>1, <1>6, FreeIs DEF Base
  <2>3. \A u \in Slot : u[1] \in DOMAIN E => vz[u] = vm[u] /\ u[1] \in DOMAIN D
    BY <1>6, <2>1
  <2>4. \A u \in Slot, q \in Slot : Base(vz[u]) /\ Base(vz[q]) /\ u[1] = q[1] => u = q
    BY <1>5, <2>2 DEF OpenIs
  <2>5. \A u \in Slot : u[1] \in DOMAIN E =>
          /\ vz[u].st = Committed => vz[u].dir
          /\ Base(vz[u]) => vz[u].val = E[u[1]]
    BY <1>5, <2>1, <2>3 DEF OpenIs
  <2>6. \A id \in DOMAIN E : E[id] # None => \E u \in Slot : u[1] = id /\ Base(vz[u])
    BY <1>5, <2>1, <2>3 DEF OpenIs
  <2> QED BY <1>1, <2>4, <2>5, <2>6 DEF OpenSet, OpenIs
<1>8. /\ ve[s] = Free /\ ve[t].st = Committed /\ ve[t].dir /\ ve[t].val = vm[s].val
      /\ \A u \in Slot : u # s /\ u # t => ve[u] = vm[u]
  BY <1>1, <1>2, <1>3, <1>6 DEF Others, Has
<1>9. ve \in OpenSet(D)
  <2>1. \A u \in Slot : Base(ve[u]) => u = t \/ (u # s /\ u # t /\ Base(vm[u]))
    BY <1>8, FreeIs DEF Base
  <2>2. \A u \in Slot : u[1] \in DOMAIN D /\ ve[u].st = Committed => ve[u].dir
    BY <1>5, <1>8, FreeIs DEF OpenIs
  <2>3. \A u \in Slot : u[1] \in DOMAIN D /\ Base(ve[u]) => ve[u].val = D[u[1]]
    BY <1>5, <1>8, <2>1 DEF OpenIs
  <2>4. ASSUME NEW u \in Slot, NEW q \in Slot, Base(ve[u]), Base(ve[q]), u[1] = q[1]
        PROVE  u = q
    BY <1>5, <2>1, <2>4 DEF OpenIs
  <2>5. ASSUME NEW id \in DOMAIN D, D[id] # None
        PROVE  \E u \in Slot : u[1] = id /\ Base(ve[u])
    <3>1. PICK u \in Slot : u[1] = id /\ Base(vm[u])
      BY <1>5, <2>5 DEF OpenIs
    <3>2. Base(ve[t])
      BY <1>8 DEF Base
    <3>3. u # t
      BY <3>1 DEF Base, Has
    <3>4. CASE u = s
      BY <3>1, <3>2, <3>4
    <3>5. CASE u # s
      BY <1>8, <3>1, <3>3, <3>5
    <3> QED BY <3>4, <3>5
  <2> QED BY <1>3, <2>2, <2>3, <2>4, <2>5 DEF OpenSet, OpenIs
<1>10. Bringing(D, vz, t, ve)
  BY <1>2, <1>4, <1>7 DEF Bringing
<1> QED BY <1>3, <1>4, <1>8, <1>9, <1>10 DEF Brought

(* The second pass of doAbort comes to a version that was replaced or        *)
(* deleted, and brings it back.                                              *)
LEMMA RestoreVisitStep ==
  ASSUME TypeOK, NEW D, Modes(D), RestoreVisit
  PROVE  TypeOK' /\ Mode(D)'
<1>1. Restoring(D) /\ writes = <<>>
  BY DEF RestoreVisit, Modes, Mode, Rest, Open, Quiet, InCall, InCallOn, Marking, Committing, CommitCut, OpenCut, Undoing
<1>2. versions \in OpenSet(D) /\ RestoreLeft(versions, todo) /\ versions \in Versions
  BY <1>1, RestoringIs DEF OpenSet
<1>3. PICK s \in todo : Reach(s, RestoreWrites(s))
  BY DEF RestoreVisit
<1> DEFINE id == s[1]
           t == FreeSlot(id)
           v == versions[s].val
<1>4. s \in Slot /\ id \in Id /\ s \in Places(id)
  BY InUseIs DEF TypeOK
<1>5. /\ RestoreWrites(s) = Clone(t, Replacing, v) \o Dlete(s) \o SetState(t, Committed)
      /\ versions[s].st \in {Superseded, Deleted}
  BY <1>3 DEF Reach, RestoreWrites
<1>6. Base(versions[s]) /\ versions[s].st # 0 /\ v \in Val \cup {Blank}
  <2>1. s \in InUse
    BY <1>2, <1>4, <1>5, InUseIs
  <2>2. versions[s] \in Version
    BY <1>2, <2>1, InUseIs
  <2> QED BY <1>5, <2>2 DEF Base, Version
<1>7. \A u \in Slot : u[1] = id /\ u # s => versions[u].st = 0
  <2> SUFFICES ASSUME NEW u \in Slot, u[1] = id, u # s, versions[u].st # 0 PROVE FALSE
    OBVIOUS
  <2>1. versions[u].st \in State
    BY <1>2, InUseIs
  <2>2. versions[u].st \notin {Replacing, Rewriting, Created, Superseder}
    BY <1>2 DEF RestoreLeft
  <2>3. Base(versions[u])
    BY <2>1, <2>2 DEF Base, State
  <2> QED BY <1>2, <1>4, <1>6, <2>3 DEF OpenSet, OpenIs
<1>8. t \in Places(id) /\ t \in Slot /\ t[1] = id /\ versions[t].st = 0 /\ t # s
  <2>1. \A n \in 1 .. MaxVersion : <<id, n>> \in Slot /\ <<id, n>>[1] = id
    BY <1>4 DEF Slot
  <2>2. 1 \in 1 .. MaxVersion /\ 2 \in 1 .. MaxVersion /\ <<id, 1>> # <<id, 2>>
    BY FlashAssumption
  <2>3. <<id, 1>> # s \/ <<id, 2>> # s
    BY <2>2
  <2>4. HasRoom(id)
    BY <1>2, <1>7, <2>1, <2>2, <2>3, InUseIs DEF HasRoom
  <2>5. t \in Places(id) /\ versions[t].st = 0
    BY <1>2, <1>4, <2>4, FreeSlotIs
  <2> QED BY <1>6, <2>5 DEF Places
<1> HIDE DEF id, t, v
<1>10. PICK x \in State \ {Committed} : x = Replacing
  BY DEF State
<1>11. PICK v1 \in OpenSet(D) : /\ Changes(OpenSet(D), versions, Clone(t, x, v), t, v1)
                                /\ Has(v1[t], x, TRUE, v)
  BY <1>2, <1>4, <1>6, <1>8, <1>10, CloneIs
<1> DEFINE l == [do |-> "unlink", at |-> s]
           z1 == ZapAt(s)
           z2 == CommitAt(t)
           c == Clone(t, x, v)
           w == c \o <<l>>
           vm == Written(v1, l)
<1>12. v1[s] = versions[s] /\ v1[s].st # 0
  BY <1>4, <1>6, <1>8, <1>11 DEF Changes, Others
<1>13. vm \in Versions /\ Others(s, v1, vm) /\ vm[s].st = v1[s].st /\ vm[s].val = v1[s].val
  BY <1>4, <1>12, UnlinkIs DEF OpenSet, Has
<1>14. /\ l \in CallWrite /\ c \in Seq(CallWrite)
       /\ z1 \in AnyWrite /\ z2 \in AnyWrite
  <2>1. c \in Seq(Write(id))
    BY <1>2, <1>4, <1>6, <1>8, <1>10, CloneIs
  <2>2. l \in Write(id)
    BY <1>4 DEF Write, id
  <2>3. Write(id) \subseteq CallWrite
    BY <1>4 DEF CallWrite
  <2> HIDE DEF c, l, z1, z2, CallWrite
  <2>4. c \in Seq(CallWrite)
    BY <2>1, <2>3
  <2> QED BY <1>4, <1>8, <2>2, <2>3, <2>4, LastTwo DEF z1, z2
<1>15. RestoreWrites(s) = w \o <<z1, z2>>
  <2>1. RestoreWrites(s) = c \o <<l, z1>> \o <<z2>>
    BY <1>5, <1>10 DEF Dlete, SetState, ZapAt, CommitAt
  <2> HIDE DEF l, z1, z2, c
  <2>2. CallWrite \subseteq AnyWrite
    BY DEF AnyWrite
  <2> HIDE DEF AnyWrite, CallWrite
  <2>3. l \in AnyWrite /\ z1 \in AnyWrite /\ z2 \in AnyWrite /\ c \in Seq(AnyWrite)
    BY <1>14, <2>2
  <2> DEFINE p == <<l>>
             q == <<z1>>
             r == <<z2>>
  <2>4. p \in Seq(AnyWrite) /\ q \in Seq(AnyWrite) /\ r \in Seq(AnyWrite)
    BY <2>3
  <2>5. p \o q = <<l, z1>> /\ q \o r = <<z1, z2>>
    BY <2>3, TwoIs
  <2> HIDE DEF p, q, r
  <2>6. Cat(Cat(c, Cat(p, q)), r) = Cat(Cat(c, p), Cat(q, r))
    BY <2>3, <2>4, Recut
  <2>7. RestoreWrites(s) = Cat(Cat(c, Cat(p, q)), r)
    BY <2>1, <2>5 DEF r, Cat
  <2> QED BY <2>5, <2>6, <2>7 DEF p, Cat
<1>16. vm = Written(v1, l)
  OBVIOUS
<1> HIDE DEF vm
<1>17. /\ Base(vm[s]) /\ vm[s].st # Committed /\ vm[s].val = v
       /\ Has(vm[t], Replacing, TRUE, vm[s].val)
       /\ \A u \in Slot : u # s /\ u # t => vm[u] = versions[u]
  BY <1>4, <1>5, <1>6, <1>8, <1>10, <1>11, <1>12, <1>13 DEF Changes, Others, Has, Base, v
<1>18. vm \in OpenSet(D)
  <2>1. Base(vm[s]) = Base(v1[s]) /\ vm[s].val = v1[s].val /\ vm[s].st # Committed
    BY <1>13, <1>17 DEF Base
  <2> QED BY <1>4, <1>13, <2>1, OpenKeeps
<1>19. PICK ve \in Versions : Brought(D, vm, s, t, ve)
  <2>1. s[1] = t[1]
    BY <1>8 DEF id
  <2>2. ToBring(vm, s, t)
    BY <1>8, <1>17, <2>1 DEF ToBring
  <2>3. s \in Slot /\ t \in Slot
    BY <1>4, <1>8
  <2> HIDE DEF z1, z2, l, w, c
  <2> QED BY <1>18, <2>2, <2>3, BroughtBack
<1>20. Path(OpenSet(D), versions, w, vm) /\ w \in Seq(CallWrite)
  <2> HIDE DEF l, c
  <2>1. Path(OpenSet(D), v1, <<l>>, vm)
    BY <1>16, <1>18, PathOne
  <2>2. Path(OpenSet(D), versions, c, v1)
    BY <1>11 DEF Changes, c
  <2> HIDE DEF CallWrite
  <2>3. <<l>> \in Seq(CallWrite) /\ c \in Seq(CallWrite)
    BY <1>14
  <2> QED BY <2>1, <2>2, <2>3, PathConcat, ConcatProperties
<1>21. RestoreLeft(ve, todo \ {s})
  <2>1. ASSUME NEW u \in Slot
        PROVE  /\ ve[u].st \notin {Replacing, Rewriting, Created, Superseder}
               /\ ve[u].st \in {Superseded, Deleted} => u \in todo \ {s}
    <3>1. CASE u = s \/ u = t
      BY <1>19, <3>1, FreeIs DEF Brought
    <3>2. CASE u # s /\ u # t
      <4>1. ve[u] = versions[u]
        BY <1>17, <1>19, <3>2 DEF Brought
      <4> QED BY <1>2, <3>2, <4>1 DEF RestoreLeft
    <3> QED BY <3>1, <3>2
  <2> QED BY <2>1 DEF RestoreLeft
<1>22. /\ writes' = w \o <<z1, z2>> /\ todo' = todo \ {s} /\ phase' = "restore"
       /\ record' = "open" /\ versions' = versions
  BY <1>1, <1>3, <1>15 DEF Reach, Restoring, flash
<1>23. Bringing(D, Written(vm, ZapAt(s)), t, ve) /\ ve \in OpenSet(D)
  BY <1>19 DEF Brought
<1> HIDE DEF w
<1>24. s \in Slot /\ t \in Slot
  BY <1>4, <1>8
<1>25. \E w1 \in Seq(CallWrite) : \E s1, t1 \in Slot : \E v3 \in OpenSet(D) :
          /\ writes' = w1 \o <<ZapAt(s1), CommitAt(t1)>>
          /\ Path(OpenSet(D), versions', w1, v3)
          /\ Bringing(D, Written(v3, ZapAt(s1)), t1, ve)
  BY ONLY <1>18, <1>20, <1>22, <1>23, <1>24 DEF z1, z2
<1>26. Restoring(D)'
  BY <1>21, <1>22, <1>23, <1>25 DEF Restoring
<1>27. TypeOK'
  BY <1>3 DEF TypeOK, Reach, flash, memory
<1> QED BY <1>26, <1>27 DEF Mode

-----------------------------------------------------------------------------
(* WriteFlash. *)

(* Nothing in the list of a call, a commit or an abort is a write to the     *)
(* record.                                                                   *)
LEMMA NoRecord ==
  /\ \A z \in AnyWrite : z.do # "record"
  /\ CallWrite \subseteq AnyWrite
  /\ \A id : Write(id) \subseteq CallWrite
<1>1. ASSUME NEW z \in CallWrite PROVE z.do # "record"
  BY DEF CallWrite, Write
<1>2. \A t \in Slot : CommitAt(t).do # "record"
  BY DEF CommitAt
<1>3. CallWrite \subseteq AnyWrite
  BY DEF AnyWrite
<1>4. ASSUME NEW id PROVE Write(id) \subseteq CallWrite
  <2>1. CASE id \in Id
    BY <2>1 DEF CallWrite
  <2>2. CASE id \notin Id
    <3>1. Places(id) = {}
      BY <2>2 DEF Places, Slot
    <3>2. \A z \in Write(id) : z.at \in Places(id)
      BY DEF Write
    <3> QED BY <3>1, <3>2
  <2> QED BY <2>1, <2>2
<1> HIDE DEF CallWrite
<1> QED BY <1>1, <1>2, <1>3, <1>4 DEF AnyWrite

(* One write of a list over W. *)
LEMMA WriteOne ==
  ASSUME NEW W, writes \in Seq(W), WriteFlash
  PROVE  /\ writes # <<>> /\ Head(writes) \in W
         /\ versions' = Written(versions, Head(writes))
         /\ record' = IF Head(writes).do = "record" THEN Head(writes).to ELSE record
         /\ writes' = Tail(writes) /\ writes' \in Seq(W)
         /\ UNCHANGED <<memory, phase, todo, unborn, spoiled>>
<1>1. writes # <<>>
  BY DEF WriteFlash
<1>2. Head(writes) \in W /\ Tail(writes) \in Seq(W)
  BY <1>1, HeadTailProperties
<1> QED BY <1>1, <1>2 DEF WriteFlash

(* One more write of a list that leads from the versions to ve. *)
LEMMA WriteNext ==
  ASSUME NEW S, NEW ve, NEW W, W \subseteq AnyWrite, writes \in Seq(W), Path(S, versions, writes, ve), WriteFlash
  PROVE  /\ Path(S, versions', writes', ve) /\ versions' \in S /\ record' = record
         /\ writes' \in Seq(W) /\ writes # <<>> /\ writes' = Tail(writes)
         /\ UNCHANGED <<memory, phase, todo, unborn, spoiled>>
<1>1. /\ writes # <<>> /\ Head(writes) \in W
      /\ versions' = Written(versions, Head(writes))
      /\ record' = IF Head(writes).do = "record" THEN Head(writes).to ELSE record
      /\ writes' = Tail(writes) /\ writes' \in Seq(W)
      /\ UNCHANGED <<memory, phase, todo, unborn, spoiled>>
  BY WriteOne
<1>2. record' = record
  BY <1>1, NoRecord
<1>3. Path(S, Written(versions, Head(writes)), Tail(writes), ve)
  BY <1>1, PathStep
<1>4. Path(S, versions', writes', ve)
  BY <1>1, <1>3
<1>5. versions' \in S
  <2> DEFINE w == writes'
             vs == versions'
  <2>1. w \in Seq(W) /\ Path(S, vs, w, ve)
    BY <1>1, <1>4
  <2> HIDE DEF w, vs
  <2>2. vs \in S
    BY ONLY <2>1, PathEnds
  <2> QED BY <2>2 DEF vs
<1> QED BY <1>1, <1>2, <1>4, <1>5

(* A write of a call. *)
LEMMA WriteCall ==
  ASSUME TypeOK, NEW D, NEW id, InCallOn(D, id), WriteFlash
  PROVE  TypeOK' /\ InCallOn(D, id)'
<1>1. phase = "call" /\ ~needsRepair /\ inTxn
  BY DEF InCallOn
<1>2. PICK w \in Seq(Write(id)) : \E ve \in Versions :
       /\ Path(OpenSet(D), versions, w, ve)
       /\ Stable(ve, D) /\ Noted(ve, D, tracker, trackerLocked)
       /\ \/ record = "open" /\ writes = w
          \/ /\ record = "none" /\ writes = Record("open") \o w
             /\ Settled(versions, D) /\ Stable(versions, D)
  BY DEF InCallOn
<1>3. PICK ve \in Versions :
       /\ Path(OpenSet(D), versions, w, ve)
       /\ Stable(ve, D) /\ Noted(ve, D, tracker, trackerLocked)
       /\ \/ record = "open" /\ writes = w
          \/ /\ record = "none" /\ writes = Record("open") \o w
             /\ Settled(versions, D) /\ Stable(versions, D)
  BY <1>2
<1>4. CASE record = "open" /\ writes = w
  <2>1. Write(id) \subseteq AnyWrite
    BY NoRecord
  <2>2. /\ Path(OpenSet(D), versions', writes', ve) /\ versions' \in OpenSet(D) /\ record' = record
        /\ writes' \in Seq(Write(id)) /\ UNCHANGED <<memory, phase, todo, unborn, spoiled>>
    <3>1. writes \in Seq(Write(id)) /\ Path(OpenSet(D), versions, writes, ve)
      BY <1>3, <1>4
    <3> QED BY ONLY <2>1, <3>1, WriteFlash, WriteNext
  <2>4. InCallOn(D, id)'
    BY <1>1, <1>3, <1>4, <2>2 DEF InCallOn, memory
  <2>5. TypeOK'
    BY <2>2 DEF TypeOK, memory, OpenSet
  <2> QED BY <2>4, <2>5
<1>5. CASE record = "none" /\ writes = Record("open") \o w
  <2>1. /\ writes # <<>> /\ Head(writes) = [do |-> "record", to |-> "open"]
        /\ Tail(writes) = w
    BY <1>5, RecordFirst
  <2>2. Written(versions, Head(writes)) = versions /\ Head(writes).do = "record" /\ Head(writes).to = "open"
    BY <2>1 DEF Written
  <2>3. versions' = versions /\ record' = "open" /\ writes' = w /\ UNCHANGED <<memory, phase, todo>>
    BY <2>1, <2>2 DEF WriteFlash
  <2>4. InCallOn(D, id)'
    BY <1>1, <1>3, <2>3 DEF InCallOn, memory
  <2> QED BY <2>3, <2>4 DEF TypeOK, memory
<1> QED BY <1>3, <1>4, <1>5

(* After the commit point: a write of the iterator. *)
LEMMA WriteCommit ==
  ASSUME TypeOK, NEW D, Committing(D), WriteFlash
  PROVE  TypeOK' /\ Committing(D)'
<1>1. phase = "commit" /\ record = "commit" /\ writes \in Seq(AnyWrite) /\ Settles(writes)
  BY DEF Committing
<1>2. PICK ve \in Versions : Path(CommitSet(D), versions, writes, ve) /\ Pending(ve, D, todo)
  BY DEF Committing
<1>3. /\ Path(CommitSet(D), versions', writes', ve) /\ versions' \in CommitSet(D) /\ record' = record
      /\ writes' \in Seq(AnyWrite) /\ writes # <<>> /\ writes' = Tail(writes)
      /\ UNCHANGED <<memory, phase, todo, unborn, spoiled>>
  <2> HIDE DEF AnyWrite
  <2> QED BY ONLY <1>1, <1>2, WriteFlash, WriteNext
<1>4. Settles(writes')
  <2> DEFINE u == Tail(writes)
  <2>1. Len(writes) \in Nat
    BY <1>1, LenProperties
  <2>2. Len(u) = Len(writes) - 1 /\ \A i \in 1 .. Len(u) : u[i] = writes[i + 1]
    BY <1>1, <1>3, HeadTailProperties
  <2> HIDE DEF u
  <2>3. \A i \in 1 .. Len(u) : i + 1 \in 1 .. Len(writes)
    BY <2>1, <2>2
  <2>4. Settles(u)
    BY <1>1, <2>2, <2>3 DEF Settles
  <2> QED BY <1>3, <2>4 DEF u
<1>5. Committing(D)'
  BY <1>1, <1>2, <1>3, <1>4 DEF Committing
<1> QED BY <1>3, <1>5 DEF TypeOK, memory, CommitSet

(* A write of the first pass of doAbort. *)
LEMMA WriteUndo ==
  ASSUME TypeOK, NEW D, Undoing(D), WriteFlash
  PROVE  TypeOK' /\ Undoing(D)'
<1>1. phase = "undo" /\ record = "open" /\ writes \in Seq(CallWrite) /\ CallWrite \subseteq AnyWrite
  BY NoRecord DEF Undoing
<1>2. PICK ve \in Versions : Path(OpenSet(D), versions, writes, ve) /\ UndoLeft(ve, todo)
  BY DEF Undoing
<1>3. /\ Path(OpenSet(D), versions', writes', ve) /\ versions' \in OpenSet(D) /\ record' = record
      /\ writes' \in Seq(CallWrite)
      /\ UNCHANGED <<memory, phase, todo, unborn, spoiled>>
  BY ONLY <1>1, <1>2, WriteFlash, WriteNext
<1>5. Undoing(D)'
  BY <1>1, <1>2, <1>3 DEF Undoing
<1> QED BY <1>3, <1>5 DEF TypeOK, memory, OpenSet

(* A write of the second pass of doAbort. *)
LEMMA WriteRestore ==
  ASSUME TypeOK, NEW D, Restoring(D), WriteFlash
  PROVE  TypeOK' /\ Restoring(D)'
<1>1. phase = "restore" /\ record = "open" /\ versions \in Versions
  BY DEF Restoring, TypeOK
<1>2. PICK ve \in OpenSet(D) :
       /\ RestoreLeft(ve, todo)
       /\ \/ \E w \in Seq(CallWrite) : \E s, t \in Slot : \E vm \in OpenSet(D) :
               /\ writes = w \o <<ZapAt(s), CommitAt(t)>>
               /\ Path(OpenSet(D), versions, w, vm)
               /\ Bringing(D, Written(vm, ZapAt(s)), t, ve)
          \/ \E t \in Slot : writes = <<CommitAt(t)>> /\ Bringing(D, versions, t, ve)
          \/ writes = <<>> /\ versions = ve
  BY DEF Restoring
<1>3. writes # <<>>
  BY DEF WriteFlash
<1>4. ASSUME NEW t \in Slot, writes = <<CommitAt(t)>>, Bringing(D, versions, t, ve)
      PROVE  TypeOK' /\ Restoring(D)'
  <2>1. Head(writes) = CommitAt(t) /\ Tail(writes) = <<>>
    BY <1>4
  <2>2. CommitAt(t).do # "record"
    BY DEF CommitAt
  <2>3. versions' = ve /\ record' = record /\ writes' = <<>> /\ UNCHANGED <<memory, phase, todo>>
    BY <1>4, <2>1, <2>2 DEF WriteFlash, Bringing
  <2>4. Restoring(D)'
    BY <1>1, <1>2, <2>3 DEF Restoring
  <2> QED BY <2>3, <2>4 DEF TypeOK, memory, OpenSet
<1>5. ASSUME NEW w \in Seq(CallWrite), NEW s \in Slot, NEW t \in Slot, NEW vm \in OpenSet(D),
             writes = w \o <<ZapAt(s), CommitAt(t)>>, Path(OpenSet(D), versions, w, vm),
             Bringing(D, Written(vm, ZapAt(s)), t, ve)
      PROVE  TypeOK' /\ Restoring(D)'
  <2> DEFINE z1 == ZapAt(s)
             z2 == CommitAt(t)
  <2>0. z1 \in AnyWrite /\ z2 \in AnyWrite /\ z1.do # "record"
    BY LastTwo DEF ZapAt
  <2>1. /\ writes \in Seq(AnyWrite)
        /\ w = <<>> => writes = <<z1, z2>>
        /\ w # <<>> => /\ Head(writes) = Head(w) /\ Head(w) \in CallWrite
                       /\ Tail(w) \in Seq(CallWrite)
                       /\ Tail(writes) = Tail(w) \o <<z1, z2>>
    <3> DEFINE x == w \o <<z1, z2>>
    <3>1. writes = x
      BY <1>5
    <3> HIDE DEF z1, z2
    <3>2. /\ x \in Seq(AnyWrite)
          /\ w = <<>> => x = <<z1, z2>>
          /\ w # <<>> => /\ Head(x) = Head(w) /\ Head(w) \in CallWrite
                         /\ Tail(w) \in Seq(CallWrite)
                         /\ Tail(x) = Tail(w) \o <<z1, z2>>
      BY ONLY <2>0, w \in Seq(CallWrite), EndsInTwo
    <3> HIDE DEF x
    <3> QED BY <3>1, <3>2
  <2>2. w = <<>> => vm = versions
    BY ONLY w \in Seq(CallWrite), Path(OpenSet(D), versions, w, vm), PathEnds
  <2>3. CASE w # <<>>
    <3>1. Head(writes) \in CallWrite /\ Head(writes).do # "record"
      BY <2>1, <2>3, NoRecord
    <3>2. /\ versions' = Written(versions, Head(w)) /\ record' = record
          /\ writes' = Tail(w) \o <<z1, z2>>
          /\ UNCHANGED <<memory, phase, todo>>
      BY <2>1, <2>3, <3>1 DEF WriteFlash
    <3> DEFINE u == Tail(w)
               vs == Written(versions, Head(w))
    <3>3. Path(OpenSet(D), vs, u, vm) /\ u \in Seq(CallWrite)
      BY <1>5, <2>1, <2>3, PathStep
    <3> HIDE DEF u, vs
    <3>4. vs \in OpenSet(D)
      BY ONLY <3>3, PathEnds
    <3>5. versions' = vs /\ writes' = u \o <<ZapAt(s), CommitAt(t)>>
      BY <3>2 DEF u, vs
    <3>6. \E w1 \in Seq(CallWrite) : \E s1, t1 \in Slot : \E v1 \in OpenSet(D) :
            /\ writes' = w1 \o <<ZapAt(s1), CommitAt(t1)>>
            /\ Path(OpenSet(D), versions', w1, v1)
            /\ Bringing(D, Written(v1, ZapAt(s1)), t1, ve)
      BY ONLY <1>5, <3>3, <3>5
    <3>7. Restoring(D)'
      BY <1>1, <1>2, <3>2, <3>6 DEF Restoring
    <3> QED BY <3>2, <3>4, <3>5, <3>7 DEF TypeOK, memory, OpenSet
  <2>4. CASE w = <<>>
    <3>1. writes = <<z1, z2>> /\ Head(writes) = z1
      BY <2>1, <2>4
    <3>2. Tail(writes) = <<z2>>
      <4> HIDE DEF z1, z2
      <4> QED BY <3>1
    <3>3. /\ versions' = Written(vm, ZapAt(s)) /\ record' = record /\ writes' = <<CommitAt(t)>>
          /\ UNCHANGED <<memory, phase, todo>>
      BY <2>0, <2>2, <2>4, <3>1, <3>2 DEF WriteFlash
    <3>4. Bringing(D, versions', t, ve)
      BY <1>5, <3>3
    <3>5. Restoring(D)'
      BY <1>1, <1>2, <3>3, <3>4 DEF Restoring
    <3>6. versions' \in Versions
      BY <3>4 DEF Bringing, OpenSet
    <3> QED BY <3>3, <3>5, <3>6 DEF TypeOK, memory
  <2> QED BY <2>3, <2>4
<1> QED BY <1>2, <1>3, <1>4, <1>5

(* What Value finds when all agree. *)
LEMMA ValueIs ==
  ASSUME NEW S, NEW d, \A s \in S : versions[s].val = d, S = {} => d = None
  PROVE  Value(S) = d
<1>1. S # {} => (CHOOSE s \in S : TRUE) \in S
  OBVIOUS
<1> QED BY <1>1 DEF Value

(* Reading goes by what a lookup finds. *)
LEMMA ReadIs ==
  ASSUME ~needsRepair, phase \notin {"undo", "restore"}, NEW id, Becoming(id, {Created, Superseder}) = {}
  PROVE  Read(id) = Value(Readable(id))
<1>1. CASE Readable(id) # {}
  BY <1>1 DEF Read
<1>2. CASE Readable(id) = {}
  BY <1>2 DEF Read
<1> QED BY <1>1, <1>2

(* Nothing is to come of a list of no writes, or of one to the record. *)
LEMMA NoneToCome ==
  ASSUME NEW id, NEW states, writes = <<>> \/ \E r : writes = Record(r)
  PROVE  Becoming(id, states) = {}
<1>1. \A i \in DOMAIN writes : writes[i].do = "record"
  BY DEF Record
<1> QED BY <1>1 DEF Becoming

(* The commit point: from here on a repair takes every object to what its    *)
(* readers see now.                                                          *)
LEMMA CommitPoint ==
  ASSUME TypeOK, NEW D, DOMAIN D = Kept, Marking(D)
  PROVE  versions \in CommitSet([id \in Kept |-> Read(id)])
<1> DEFINE E == [id \in Kept |-> Read(id)]
<1>0. /\ phase = "commit" /\ ~needsRepair /\ writes = Record("commit")
      /\ versions \in OpenSet(D) /\ Stable(versions, D) /\ versions \in Versions
  BY DEF Marking, TypeOK
<1>1. DOMAIN E = Kept /\ \A id \in Kept : E[id] = Value(Readable(id))
  BY <1>0, ReadIs, NoneToCome
<1> HIDE DEF E
<1>2. \A s \in Slot : s[1] \in Kept /\ IsLive(versions[s]) => versions[s].dir
  BY <1>0 DEF Stable, IsLive, Live, Real
<1>3. \A s, t \in Slot : IsLive(versions[s]) /\ IsLive(versions[t]) /\ s[1] = t[1] => s = t
  <2>1. \A s \in Slot : IsLive(versions[s]) => Real(versions[s]) /\ versions[s].st # Superseded
    BY DEF IsLive, Live, Real
  <2> QED BY <1>0, <2>1 DEF Stable
<1>4. \A s \in Slot : s[1] \in Kept /\ IsLive(versions[s]) => s \in Readable(s[1])
  BY <1>0, <1>2, InUseIs DEF Readable, Linked, Of, IsLive, Live
<1>5. \A id \in Kept : \A s \in Readable(id) : s \in Slot /\ s[1] = id /\ IsLive(versions[s])
  BY <1>0, InUseIs DEF Readable, Linked, Of, IsLive
<1>6. ASSUME NEW s \in Slot, s[1] \in Kept, IsLive(versions[s])
      PROVE  versions[s].val = E[s[1]]
  <2>1. \A t \in Readable(s[1]) : t = s
    BY <1>3, <1>5, <1>6
  <2>2. Readable(s[1]) # {}
    BY <1>4, <1>6
  <2>3. Value(Readable(s[1])) = versions[s].val
    <3>1. \A t \in Readable(s[1]) : versions[t].val = versions[s].val
      BY <2>1
    <3> QED BY <3>1, <2>2, ValueIs
  <2> QED BY <1>1, <1>6, <2>3
<1>7. ASSUME NEW id \in Kept, E[id] # None PROVE \E s \in Slot : s[1] = id /\ IsLive(versions[s])
  <2>1. Readable(id) # {}
    BY <1>1, <1>7 DEF Value
  <2> QED BY <1>5, <2>1
<1>8. \A s, t \in Slot : s # t /\ s[1] = t[1] /\ Real(versions[s]) /\ Real(versions[t]) =>
        \/ versions[s].st = Superseded /\ versions[t].st \in {Superseder, Committed}
        \/ versions[t].st = Superseded /\ versions[s].st \in {Superseder, Committed}
  BY <1>0 DEF Stable
<1>9. CommitIs(versions, E)
  BY <1>1, <1>2, <1>6, <1>7, <1>8 DEF CommitIs
<1> QED BY <1>0, <1>9 DEF CommitSet, E

(* The record is marked. *)
LEMMA WriteMark ==
  ASSUME TypeOK, NEW D, DOMAIN D = Kept, Marking(D), WriteFlash
  PROVE  TypeOK' /\ \E E : E = [id \in Kept |-> Read(id)] /\ Committing(E)'
<1>1. phase = "commit" /\ writes = Record("commit") /\ Pending(versions, D, todo)
  BY DEF Marking
<1>3. /\ writes # <<>> /\ Head(writes) = [do |-> "record", to |-> "commit"] /\ Tail(writes) = <<>>
  BY <1>1 DEF Record
<1>4. Written(versions, Head(writes)) = versions /\ Head(writes).do = "record" /\ Head(writes).to = "commit"
  BY <1>3 DEF Written
<1>5. versions' = versions /\ record' = "commit" /\ writes' = <<>> /\ UNCHANGED <<memory, phase, todo>>
  BY <1>3, <1>4 DEF WriteFlash
<1>6. PICK E : E = [id \in Kept |-> Read(id)] /\ versions \in CommitSet(E)
  BY CommitPoint
<1>7. Path(CommitSet(E), versions, <<>>, versions) /\ versions \in Versions
  BY <1>6, PathEmpty DEF TypeOK
<1>8. Settles(<<>>) /\ <<>> \in Seq(AnyWrite)
  BY SettlesIs
<1>9. Pending(versions, E, todo)
  <2>1. DOMAIN E = DOMAIN D
    BY <1>6
  <2> QED BY <1>1, <2>1 DEF Pending
<1>10. Committing(E)'
  BY <1>1, <1>5, <1>7, <1>8, <1>9 DEF Committing
<1> QED BY <1>5, <1>6, <1>10 DEF TypeOK, memory

(* Every write. *)
LEMMA WriteFlashStep ==
  ASSUME TypeOK, NEW D, Modes(D), WriteFlash
  PROVE  TypeOK' /\ \E E : /\ DOMAIN E = Kept /\ E = Cut(E, Kept) /\ Mode(E)'
                           /\ E = IF Marking(D) THEN [id \in Kept |-> Read(id)] ELSE D
<1>0. writes # <<>> /\ DOMAIN D = Kept /\ D = Cut(D, Kept)
  BY ModesAre DEF WriteFlash
<1>1. CASE Marking(D)
  <2>1. PICK E : E = [id \in Kept |-> Read(id)] /\ Committing(E)'
    BY <1>0, <1>1, WriteMark
  <2>2. DOMAIN E = Kept /\ E = Cut(E, Kept)
    BY <2>1 DEF Cut
  <2>3. Mode(E)'
    BY <2>1 DEF Mode
  <2>4. TypeOK'
    BY <1>0, <1>1, WriteMark
  <2> QED BY <1>1, <2>1, <2>2, <2>3, <2>4
<1>2. ASSUME ~Marking(D) PROVE TypeOK' /\ Mode(D)'
  <2>1. CASE InCall(D)
    <3>1. PICK id : InCallOn(D, id)
      BY <2>1 DEF InCall
    <3> QED BY <3>1, WriteCall DEF InCall, Mode
  <2>2. CASE Committing(D)
    BY <2>2, WriteCommit DEF Mode
  <2>3. CASE Undoing(D)
    BY <2>3, WriteUndo DEF Mode
  <2>4. CASE Restoring(D)
    BY <2>4, WriteRestore DEF Mode
  <2> QED BY <1>0, <1>2, <2>1, <2>2, <2>3, <2>4 DEF Modes, Mode, Rest, Open, Quiet, CommitCut, OpenCut
<1> QED BY <1>0, <1>1, <1>2

-----------------------------------------------------------------------------
(* The theorems. *)

(* Nothing is on the flash at first. *)
LEMMA InitInv ==
  Init => Inv
<1> SUFFICES ASSUME Init PROVE Inv
  OBVIOUS
<1> DEFINE D == [id \in Kept |-> None]
<1>1. versions \in Versions /\ \A s \in Slot : versions[s].st = 0
  BY FreeIs DEF Init, Versions
<1>2. TypeOK
  <2>1. <<>> \in Seq(Id) /\ {} \in SUBSET Slot
    OBVIOUS
  <2> QED BY <1>1, <2>1 DEF Init, TypeOK
<1>3. DOMAIN D = Kept /\ D = Cut(D, Kept) /\ \A id \in DOMAIN D : D[id] = None
  BY DEF Cut
<1> HIDE DEF D
<1>4. versions \in OpenSet(D)
  BY <1>1, <1>3 DEF OpenIs, Base, OpenSet
<1>5. Settled(versions, D) /\ Stable(versions, D)
  BY <1>1 DEF Settled, Stable, Real
<1>6. Rest(D)
  BY <1>4, <1>5 DEF Rest, Quiet, Init
<1> QED BY <1>2, <1>3, <1>6 DEF Inv, Modes, Mode

(* One version of an object is readable between calls. *)
LEMMA OneReadable ==
  ASSUME versions \in Versions, NEW D, Stable(versions, D), NEW id \in Id,
         NEW s \in Readable(id), NEW t \in Readable(id)
  PROVE  s = t
<1>1. /\ s \in Slot /\ s[1] = id /\ versions[s].st \in {Created, Committed, Superseder}
      /\ t \in Slot /\ t[1] = id /\ versions[t].st \in {Created, Committed, Superseder}
  BY ReadableIs DEF Places
<1>2. Real(versions[s]) /\ Real(versions[t]) /\ versions[s].st # Superseded /\ versions[t].st # Superseded
  BY <1>1 DEF Real
<1> QED BY <1>1, <1>2 DEF Stable

(* The calls on an object. *)
CallOn(id) ==
  \/ NewObject(id, <<>>)
  \/ \E v \in Val : NewObject(id, Data(FreeSlot(id), v))
  \/ \E v \in Val : Rewrite(id, v, TRUE)
  \/ \E v \in Val \cup {Blank} : Rewrite(id, v, FALSE)
  \/ \E v \in Val : RewriteFails(id, v)
  \/ NewObjectFails(id)
  \/ DeleteObject(id)

(* A call that begins. *)
LEMMA CallStep ==
  ASSUME TypeOK, NEW D, Modes(D), NEW id \in Id, CallOn(id), NEW E, E = Cut(D, Kept')
  PROVE  TypeOK' /\ InCallOn(E, id)'
<1>0. DOMAIN D = Kept /\ D = Cut(D, Kept)
  BY ModesAre
<1>1. Between(D)
  <2>1. Idle
    BY DEF CallOn, NewObject, Rewrite, RewriteFails, NewObjectFails, DeleteObject
  <2> QED BY <2>1, IdleIs
<1>2. ASSUME Kept' = Kept PROVE E = D
  BY <1>0, <1>2
<1>3. CASE NewObject(id, <<>>) \/ \E v \in Val : NewObject(id, Data(FreeSlot(id), v))
  <2>1. Kept' = Kept
    BY <1>3 DEF NewObject, Kept, Known
  <2> QED BY <1>1, <1>2, <1>3, <2>1, NewObjectStep
<1>4. ASSUME NEW v \in Val \cup {Blank}, NEW b \in BOOLEAN, Rewrite(id, v, b)
      PROVE  TypeOK' /\ InCallOn(E, id)'
  <2>1. Kept' = Kept
    BY <1>4 DEF Rewrite, Kept, Known
  <2> QED BY <1>1, <1>2, <1>4, <2>1, RewriteStep
<1>5. ASSUME NEW v \in Val, RewriteFails(id, v) PROVE TypeOK' /\ InCallOn(E, id)'
  <2>1. Kept' = Kept
    BY <1>5 DEF RewriteFails, Kept, Known
  <2> QED BY <1>1, <1>2, <1>5, <2>1, RewriteFailsStep
<1>6. CASE NewObjectFails(id)
  <2>1. Kept' = Kept \ {id}
    BY <1>6 DEF NewObjectFails, Kept, Known
  <2>2. Kept \ {id} \subseteq DOMAIN D /\ E = Cut(D, Kept \ {id})
    BY <1>0, <2>1
  <2>3. Between(E) /\ DOMAIN E = Kept \ {id}
    BY <1>1, <2>2, CutBetween, CutIs
  <2> QED BY <1>6, <2>3, NewObjectFailsStep
<1>7. CASE DeleteObject(id)
  <2>1. PICK s \in Readable(id) :
          spoiled' = spoiled \cup (IF versions[s].st = Created THEN {id} ELSE {})
    BY <1>7 DEF DeleteObject
  <2>2. PICK L : L = Kept'
    OBVIOUS
  <2>3. L \subseteq Kept /\ (id \in L => versions[s].st # Created)
    BY <1>7, <2>1, <2>2 DEF DeleteObject, Kept, Known
  <2>4. Between(E) /\ DOMAIN E = L
    BY <1>0, <1>1, <2>2, <2>3, CutBetween, CutIs
  <2>5. \A r \in Readable(id) : r = s
    BY <1>1, BetweenIs, OneReadable DEF TypeOK
  <2>6. id \in DOMAIN E => \A r \in Readable(id) : versions[r].st # Created
    BY <2>3, <2>4, <2>5
  <2> QED BY <1>7, <2>4, <2>6, DeleteObjectStep
<1>8. Val \subseteq Val \cup {Blank} /\ TRUE \in BOOLEAN /\ FALSE \in BOOLEAN
  OBVIOUS
<1> QED BY <1>3, <1>4, <1>5, <1>6, <1>7, <1>8 DEF CallOn

(* Every step but the commit point keeps D, cut down to what is kept. *)
LEMMA NextMode ==
  ASSUME TypeOK, NEW D, Modes(D), Next, ~(WriteFlash /\ Marking(D)), NEW E, E = Cut(D, Kept')
  PROVE  TypeOK' /\ Mode(E)'
<1>0. DOMAIN D = Kept /\ D = Cut(D, Kept)
  BY ModesAre
<1>1. ASSUME Kept' = Kept PROVE E = D
  BY <1>0, <1>1
<1>2. ASSUME UNCHANGED <<unborn, spoiled>> PROVE E = D
  BY <1>1, <1>2 DEF Kept, Known
<1>3. CASE Call
  <2>1. ASSUME NEW id \in Id, CallOn(id) PROVE TypeOK' /\ Mode(E)'
    BY <2>1, CallStep DEF Mode, InCall
  <2>2. CASE CallFails
    <3>1. Between(D) /\ E = D
      BY <1>2, <2>2, IdleIs DEF CallFails
    <3>2. ASSUME NEW id PROVE TypeOK' /\ InCallOn(D, id)'
      BY <2>2, <3>1, CallFailsStep
    <3> QED BY <3>1, <3>2 DEF Mode, InCall
  <2>3. CASE LockStore
    BY <1>2, <2>3, LockStoreStep DEF LockStore
  <2>4. CASE UnlockStore
    BY <2>4, UnlockStoreStep
  <2>5. CASE Abort
    BY <1>2, <2>5, AbortStep DEF Abort
  <2>6. (\E id \in Id : CallOn(id)) \/ CallFails \/ LockStore \/ UnlockStore \/ Abort
    BY <1>3 DEF Call, CallOn
  <2> QED BY <2>1, <2>2, <2>3, <2>4, <2>5, <2>6
<1>4. CASE WriteFlash
  <2>1. TypeOK' /\ Mode(D)'
    BY <1>4, WriteFlashStep
  <2> QED BY <1>2, <1>4, <2>1 DEF WriteFlash
<1>5. CASE Return
  BY <1>5, ReturnStep
<1>6. CASE CommitVisit
  BY <1>2, <1>6, CommitVisitStep DEF CommitVisit, Reach
<1>7. CASE UndoVisit
  BY <1>2, <1>7, UndoVisitStep DEF UndoVisit, Reach
<1>8. CASE SecondPass
  BY <1>2, <1>8, SecondPassStep DEF SecondPass
<1>9. CASE RestoreVisit
  BY <1>2, <1>9, RestoreVisitStep DEF RestoreVisit, Reach
<1>10. CASE EndTransaction
  BY <1>2, <1>10, EndTransactionStep DEF EndTransaction
<1>11. CASE Repair
  BY <1>2, <1>11, RepairStep DEF Repair
<1>12. CASE Crash
  BY <1>12, CrashStep
<1> QED BY <1>3, <1>4, <1>5, <1>6, <1>7, <1>8, <1>9, <1>10, <1>11, <1>12 DEF Next, Work

(* Nor does a step of something else change anything. *)
LEMMA StutterStep ==
  ASSUME TypeOK, NEW D, Modes(D), UNCHANGED vars
  PROVE  TypeOK' /\ Modes(D)'
<1>1. /\ versions' = versions /\ record' = record /\ inTxn' = inTxn /\ needsRepair' = needsRepair
      /\ lockCount' = lockCount /\ tracker' = tracker /\ trackerLocked' = trackerLocked
      /\ phase' = phase /\ writes' = writes /\ todo' = todo
      /\ unborn' = unborn /\ spoiled' = spoiled
  BY DEF vars, flash, memory
<1>2. TypeOK' /\ Kept' = Kept
  BY <1>1 DEF TypeOK, Kept, Known
<1>3. Quiet => Quiet'
  BY <1>1 DEF Quiet
<1>4. /\ Rest(D) => Rest(D)'
      /\ Open(D) => Open(D)'
  BY <1>1, <1>3 DEF Rest, Open
<1>5. InCall(D) => InCall(D)'
  <2>1. ASSUME NEW id, InCallOn(D, id) PROVE InCallOn(D, id)'
    BY <1>1, <2>1 DEF InCallOn
  <2> QED BY <2>1 DEF InCall
<1>6. /\ Marking(D) => Marking(D)'
      /\ Committing(D) => Committing(D)'
  BY <1>1 DEF Marking, Committing
<1>7. /\ CommitCut(D) => CommitCut(D)'
      /\ OpenCut(D) => OpenCut(D)'
      /\ Undoing(D) => Undoing(D)'
  BY <1>1 DEF CommitCut, OpenCut, Undoing
<1>8. Restoring(D) => Restoring(D)'
  BY <1>1 DEF Restoring
<1> QED BY <1>2, <1>4, <1>5, <1>6, <1>7, <1>8 DEF Modes, Mode

(* What the step after D leaves: all steps but the commit point. *)
LEMMA StepModes ==
  ASSUME TypeOK, NEW D, Modes(D), [Next]_vars, ~(Next /\ WriteFlash /\ Marking(D))
  PROVE  TypeOK' /\ \E E : E = Cut(D, Kept') /\ Modes(E)'
<1>1. CASE Next
  <2>1. PICK L : L = Kept'
    OBVIOUS
  <2> DEFINE E == Cut(D, L)
  <2>2. E = Cut(E, L)
    BY CutCut
  <2> HIDE DEF E
  <2>3. E = Cut(D, Kept')
    BY <2>1 DEF E
  <2>4. TypeOK' /\ Mode(E)'
    BY <1>1, <2>3, NextMode
  <2> QED BY <2>1, <2>2, <2>3, <2>4 DEF Modes
<1>2. CASE UNCHANGED vars
  <2>1. TypeOK' /\ Modes(D)'
    BY <1>2, StutterStep
  <2>2. D = Cut(D, Kept')
    BY <2>1 DEF Modes
  <2> QED BY <2>1, <2>2
<1> QED BY <1>1, <1>2

(* And the commit point. *)
LEMMA MarkModes ==
  ASSUME TypeOK, NEW D, Modes(D), WriteFlash, Marking(D)
  PROVE  /\ TypeOK' /\ Kept' = Kept
         /\ \E E : E = [id \in Kept |-> Read(id)] /\ Modes(E)' /\ Committing(E)'
<1>1. PICK E : E = [id \in Kept |-> Read(id)] /\ Committing(E)'
  BY ModesAre, WriteMark
<1>2. TypeOK'
  BY ModesAre, WriteMark
<1>3. Kept' = Kept
  BY DEF WriteFlash, Kept, Known
<1>4. E = Cut(E, Kept)
  BY <1>1 DEF Cut
<1> QED BY <1>1, <1>2, <1>3, <1>4 DEF Modes, Mode

(* The invariant holds in every state that is reached. *)
LEMMA SpecInv ==
  Spec => []Inv
<1>1. Inv /\ [Next]_vars => Inv'
  <2> SUFFICES ASSUME Inv, [Next]_vars PROVE Inv'
    OBVIOUS
  <2>1. PICK D : Modes(D)
    BY DEF Inv
  <2>2. CASE WriteFlash /\ Marking(D)
    BY <2>1, <2>2, MarkModes DEF Inv
  <2>3. CASE ~(WriteFlash /\ Marking(D))
    BY <2>1, <2>3, StepModes DEF Inv
  <2> QED BY <2>2, <2>3
<1> QED BY InitInv, <1>1, PTL DEF Spec

(* A set of one member at most. *)
LEMMA OneAtMost ==
  ASSUME NEW S, \A s, t \in S : s = t
  PROVE  Cardinality(S) <= 1
<1>1. CASE S = {}
  BY <1>1, FS_EmptySet
<1>2. CASE S # {}
  <2>1. PICK s \in S : TRUE
    BY <1>2
  <2>2. S = {s}
    BY <2>1
  <2>3. Cardinality({s}) = 1
    BY FS_Singleton
  <2> QED BY <2>2, <2>3
<1> QED BY <1>1, <1>2

(* Between the calls of CFlashStore an object that is kept has one readable  *)
(* version at most, a replacement stands beside what it replaces, and        *)
(* between transactions there is nothing but the committed version and       *)
(* half-written copies: whatever the power failures, failing calls and       *)
(* aborts before.                                                            *)
THEOREM FlashOneVersion ==
  Spec => []OneVersion
<1>1. Inv => OneVersion
  <2> SUFFICES ASSUME Inv, Idle, NEW id \in Kept
               PROVE  /\ Cardinality(Readable(id)) <= 1
                      /\ Cardinality(Of(id, {Committed, Superseded, Deleted})) <= 1
                      /\ Of(id, {Superseder}) # {} => Of(id, {Superseded}) # {}
                      /\ Of(id, {Committed, Superseded, Superseder})
                           = Linked(id, {Committed, Superseded, Superseder})
                      /\ ~inTxn => Of(id, State) = Of(id, {Committed, Replacing, Rewriting})
    BY DEF OneVersion, Idle
  <2>1. PICK D : Modes(D)
    BY DEF Inv
  <2>2. Between(D) /\ id \in DOMAIN D /\ id \in Id /\ TypeOK /\ versions \in Versions
    BY <2>1, IdleIs, ModesAre DEF Inv, TypeOK, Kept, Known
  <2>3. OpenIs(versions, D) /\ Stable(versions, D) /\ (~inTxn => Settled(versions, D))
    BY <2>2, BetweenIs DEF OpenSet, Between, Rest
  <2>4. \A X : \A s \in Of(id, X) : s \in Slot /\ s[1] = id /\ versions[s].st \in X /\ versions[s].st \in State
    BY <2>2, InUseIs DEF Of
  <2>5. \A s, t \in Readable(id) : s = t
    BY <2>2, <2>3, OneReadable
  <2>6. \A s, t \in Of(id, {Committed, Superseded, Deleted}) : s = t
    BY <2>3, <2>4 DEF OpenIs, Base
  <2>7. Of(id, {Superseder}) # {} => Of(id, {Superseded}) # {}
    <3> SUFFICES ASSUME NEW s \in Of(id, {Superseder}) PROVE Of(id, {Superseded}) # {}
      OBVIOUS
    <3>1. s \in Slot /\ s[1] = id /\ versions[s].st = Superseder
      BY <2>4
    <3>2. PICK t \in Slot : t[1] = id /\ versions[t].st = Superseded
      BY <2>2, <2>3, <3>1 DEF Stable
    <3>3. t \in InUse
      BY <2>2, <3>2, InUseIs
    <3> QED BY <3>2, <3>3 DEF Of
  <2>8. Of(id, {Committed, Superseded, Superseder}) = Linked(id, {Committed, Superseded, Superseder})
    <3>1. \A s \in Of(id, {Committed, Superseded, Superseder}) : versions[s].dir
      BY <2>2, <2>3, <2>4 DEF Stable, Real
    <3> QED BY <3>1 DEF Linked
  <2>9. ~inTxn => Of(id, State) = Of(id, {Committed, Replacing, Rewriting})
    <3>1. ~inTxn => \A s \in Of(id, State) : versions[s].st \in {Committed, Replacing, Rewriting}
      <4>1. 0 \notin State
        BY DEF State
      <4> QED BY <2>2, <2>3, <2>4, <4>1 DEF Settled
    <3>2. Of(id, {Committed, Replacing, Rewriting}) \subseteq Of(id, State)
      BY DEF Of, State
    <3> QED BY <3>1, <3>2 DEF Of
  <2> QED BY <2>5, <2>6, <2>7, <2>8, <2>9, OneAtMost
<1> QED BY SpecInv, <1>1, PTL

(* Unless the tracker is full or locked, every version that the transaction  *)
(* has made or replaced, of an object that is kept, is of one that the       *)
(* tracker holds.                                                            *)
THEOREM FlashTrackerComplete ==
  Spec => []TrackerComplete
<1>1. Inv => TrackerComplete
  <2> SUFFICES ASSUME Inv, phase = "idle", inTxn, ~TrackerFull, ~trackerLocked,
                      NEW s \in InUse, s[1] \in Kept, versions[s].st \in {Created, Superseded, Superseder}
               PROVE  s[1] \in Tracked
    BY DEF TrackerComplete
  <2>1. PICK D : Modes(D)
    BY DEF Inv
  <2>2. Noted(versions, D, tracker, trackerLocked) /\ DOMAIN D = Kept
    BY <2>1, ModesAre DEF Modes, Mode, Rest, Open, Quiet, InCall, InCallOn, Marking, Committing,
                          CommitCut, OpenCut, Undoing, Restoring
  <2>3. versions \in Versions /\ tracker \in Seq(Id)
    BY DEF Inv, TypeOK
  <2>4. s \in Slot
    BY DEF InUse
  <2>5. PICK i \in 1 .. Len(tracker) : tracker[i] = s[1]
    BY <2>2, <2>4 DEF Noted, TrackerFull
  <2>6. DOMAIN tracker = 1 .. Len(tracker)
    BY <2>3
  <2> QED BY <2>5, <2>6 DEF Tracked
<1> QED BY SpecInv, <1>1, PTL

-----------------------------------------------------------------------------
(* The refinement.  What AtomicStore sees of a state: *)

Durable == [id \in Kept |-> AfterPowerFailure(id)]
Current == [id \in Kept |-> Read(id)]

(* No transaction is open, or it is decided what becomes of it. *)
Decided == \/ needsRepair \/ phase \in {"undo", "restore"}
           \/ record = "commit" \/ (record = "none" /\ phase = "idle")

(* Facts about a state that are needed of the next one, too. *)
NoneAll == \A id, states : writes = <<>> \/ (\E r : writes = Record(r)) => Becoming(id, states) = {}
ReadAll ==
  \A id : /\ ~needsRepair /\ phase \notin {"undo", "restore"}
          /\ Readable(id) # {} \/ Becoming(id, {Created, Superseder}) = {}
          => Read(id) = Value(Readable(id))
DurableAll == \A D : TypeOK /\ Modes(D) => \A id \in Kept : AfterPowerFailure(id) = D[id]
DecidedAll == \A D : TypeOK /\ Modes(D) /\ Decided => \A id \in Kept : Read(id) = AfterPowerFailure(id)
ContentAll == TypeOK => \A id \in Id : Read(id) \in Content
OthersAll == \A D, id, j : InCallOn(D, id) /\ j # id => Becoming(j, {Created, Superseder}) = {}

(* Reading is a lookup, now and after a step. *)
LEMMA ReadFacts ==
  NoneAll /\ NoneAll' /\ ReadAll /\ ReadAll'
<1>1. NoneAll
  BY NoneToCome DEF NoneAll
<1>2. ReadAll
  <2> SUFFICES ASSUME NEW id, ~needsRepair, phase \notin {"undo", "restore"},
                      Readable(id) # {} \/ Becoming(id, {Created, Superseder}) = {}
               PROVE  Read(id) = Value(Readable(id))
    BY DEF ReadAll
  <2>1. CASE Becoming(id, {Created, Superseder}) = {}
    BY <2>1, ReadIs
  <2>2. CASE Readable(id) # {}
    BY <2>2 DEF Read
  <2> QED BY <2>1, <2>2
<1> QED BY <1>1, <1>2, PTL

(* With the transaction open, what a repair finds of an object. *)
LEMMA BaseIs ==
  ASSUME versions \in Versions, record = "open", NEW E, NEW id \in DOMAIN E, OpenIs(versions, E),
         E[id] = None => Becoming(id, {Committed}) = {}
  PROVE  AfterPowerFailure(id) = E[id]
<1> DEFINE S == Of(id, {Committed, Superseded, Deleted})
<1>1. \A s \in S : versions[s].val = E[id]
  BY InUseIs DEF Of, OpenIs, Base
<1>2. S = {} => E[id] = None
  <2> SUFFICES ASSUME E[id] # None PROVE S # {}
    OBVIOUS
  <2>1. PICK s \in Slot : s[1] = id /\ Base(versions[s])
    BY DEF OpenIs
  <2>2. s \in InUse
    BY <2>1, InUseIs DEF Base
  <2> QED BY <2>1, <2>2 DEF Of, Base
<1>3. AfterPowerFailure(id) = Value(IF S # {} THEN S ELSE Becoming(id, {Committed}))
  BY DEF AfterPowerFailure
<1> HIDE DEF S
<1>4. CASE S # {}
  BY <1>1, <1>3, <1>4, ValueIs
<1>5. CASE S = {}
  BY <1>2, <1>3, <1>5 DEF Value
<1> QED BY <1>4, <1>5

(* No version is to be committed but by the second pass of doAbort. *)
LEMMA NoneCommitted ==
  ASSUME NEW D, Modes(D), record = "open", NEW id, NEW s \in Becoming(id, {Committed})
  PROVE  /\ Restoring(D) /\ s \in InUse /\ s[1] = id
         /\ \E w \in Seq(CallWrite) : \E r \in Slot :
              writes = w \o <<ZapAt(r), CommitAt(s)>> \/ writes = <<CommitAt(s)>>
<1>0. PICK i \in DOMAIN writes : writes[i].do = "state" /\ writes[i].at = s /\ writes[i].st = Committed
  BY DEF Becoming
<1>1. s \in InUse /\ s[1] = id
  BY DEF Becoming
<1>2. \A z \in CallWrite : z.do = "state" => z.st # Committed
  BY DEF CallWrite, Write
<1>3. \A w \in Seq(CallWrite) : \A k \in DOMAIN w : w[k] \in CallWrite
  OBVIOUS
<1> HIDE DEF CallWrite
<1>4. ASSUME NEW j, InCallOn(D, j) PROVE FALSE
  <2>1. PICK w \in Seq(Write(j)) : writes = w
    BY <1>4 DEF InCallOn
  <2>2. Write(j) \subseteq CallWrite
    BY NoRecord
  <2>3. w \in Seq(CallWrite)
    BY <2>1, <2>2
  <2> QED BY <1>0, <1>2, <1>3, <2>1, <2>3
<1>5. ~Undoing(D)
  BY <1>0, <1>2, <1>3 DEF Undoing
<1>6. ~(Quiet \/ Marking(D) \/ CommitCut(D) \/ OpenCut(D) \/ Committing(D))
  BY <1>0 DEF Quiet, Marking, Record, CommitCut, OpenCut, Committing
<1>7. Restoring(D)
  BY <1>4, <1>5, <1>6 DEF Modes, Mode, Rest, Open, InCall
<1>8. ASSUME NEW w \in Seq(CallWrite), NEW r \in Slot, NEW t \in Slot,
             writes = w \o <<ZapAt(r), CommitAt(t)>>
      PROVE  t = s
  <2> DEFINE z1 == ZapAt(r)
             z2 == CommitAt(t)
             z == <<z1, z2>>
             x == w \o z
  <2>1. z1 \in AnyWrite /\ z2 \in AnyWrite /\ w \in Seq(AnyWrite)
    <3>1. CallWrite \subseteq AnyWrite
      BY NoRecord
    <3> HIDE DEF AnyWrite
    <3> QED BY <3>1, LastTwo
  <2>2. z1.do = "zap" /\ z2.at = t
    BY DEF ZapAt, CommitAt
  <2> HIDE DEF z1, z2
  <2>3. z \in Seq(AnyWrite) /\ Len(z) = 2 /\ z[1] = z1 /\ z[2] = z2
    BY <2>1
  <2> HIDE DEF z, AnyWrite
  <2>4. /\ DOMAIN x = 1 .. Len(w) + 2 /\ Len(w) \in Nat
        /\ \A k \in 1 .. Len(w) + 2 : x[k] = IF k <= Len(w) THEN w[k] ELSE z[k - Len(w)]
    <3>1. /\ x \in Seq(AnyWrite) /\ Len(x) = Len(w) + Len(z)
          /\ \A k \in 1 .. Len(w) + Len(z) : x[k] = IF k <= Len(w) THEN w[k] ELSE z[k - Len(w)]
      BY ONLY <2>1, <2>3, ConcatProperties
    <3> HIDE DEF x
    <3>2. DOMAIN x = 1 .. Len(x) /\ Len(w) \in Nat
      BY ONLY <2>1, <3>1, LenProperties
    <3> QED BY <2>3, <3>1, <3>2
  <2>5. writes = x
    BY <1>8 DEF x, z, z1, z2
  <2> HIDE DEF x
  <2>6. i \in 1 .. Len(w) + 2
    BY <1>0, <2>4, <2>5
  <2>7. CASE i <= Len(w)
    <3>1. i \in DOMAIN w /\ x[i] = w[i]
      BY <2>1, <2>4, <2>6, <2>7
    <3> QED BY <1>0, <1>2, <1>3, <2>5, <3>1
  <2>8. CASE i = Len(w) + 1
    <3>1. ~(i <= Len(w)) /\ i - Len(w) = 1
      BY <2>4, <2>8
    <3>2. x[i] = z1
      BY <2>3, <2>4, <2>6, <3>1
    <3> QED BY <1>0, <2>2, <2>5, <3>2
  <2>9. CASE i = Len(w) + 2
    <3>1. ~(i <= Len(w)) /\ i - Len(w) = 2
      BY <2>4, <2>9
    <3>2. x[i] = z2
      BY <2>3, <2>4, <2>6, <3>1
    <3> QED BY <1>0, <2>2, <2>5, <3>2
  <2> QED BY <2>4, <2>6, <2>7, <2>8, <2>9
<1>9. ASSUME NEW t \in Slot, writes = <<CommitAt(t)>> PROVE t = s
  BY <1>0, <1>9 DEF CommitAt
<1>10. writes # <<>>
  BY <1>0
<1>11. <<>> \in Seq(CallWrite)
  OBVIOUS
<1> QED BY <1>1, <1>7, <1>8, <1>9, <1>10, <1>11 DEF Restoring

(* The last write of a list that ends in bringing a version back. *)
LEMMA LastIs ==
  ASSUME NEW w \in Seq(CallWrite), NEW s \in Slot, NEW t \in Slot, NEW x,
         x = w \o <<ZapAt(s), CommitAt(t)>> \/ x = <<CommitAt(t)>>
  PROVE  x[Len(x)] = CommitAt(t)
<1>1. CASE x = <<CommitAt(t)>>
  BY <1>1
<1>2. CASE x = w \o <<ZapAt(s), CommitAt(t)>>
  <2> DEFINE z1 == ZapAt(s)
             z2 == CommitAt(t)
             z == <<z1, z2>>
  <2>1. z1 \in AnyWrite /\ z2 \in AnyWrite /\ w \in Seq(AnyWrite)
    <3>1. CallWrite \subseteq AnyWrite
      BY NoRecord
    <3> HIDE DEF AnyWrite, CallWrite
    <3> QED BY <3>1, LastTwo
  <2> HIDE DEF z1, z2
  <2>2. z \in Seq(AnyWrite) /\ Len(z) = 2 /\ z[2] = z2
    BY <2>1
  <2>3. x = w \o z
    BY <1>2 DEF z1, z2
  <2> HIDE DEF z, AnyWrite
  <2>4. /\ Len(x) = Len(w) + 2 /\ Len(w) \in Nat
        /\ x[Len(w) + 2] = z[2]
    <3> DEFINE y == w \o z
    <3>1. /\ Len(y) = Len(w) + Len(z) /\ Len(w) \in Nat
          /\ \A k \in 1 .. Len(w) + Len(z) : y[k] = IF k <= Len(w) THEN w[k] ELSE z[k - Len(w)]
      BY ONLY <2>1, <2>2, ConcatProperties, LenProperties
    <3> HIDE DEF y
    <3>2. Len(w) + 2 \in 1 .. Len(w) + Len(z) /\ ~(Len(w) + 2 <= Len(w)) /\ (Len(w) + 2) - Len(w) = 2
      BY <2>2, <3>1
    <3> QED BY <2>2, <2>3, <3>1, <3>2 DEF y
  <2> QED BY <2>2, <2>4 DEF z2
<1> QED BY <1>1, <1>2

(* The copy in t holds what is to be brought back. *)
LEMMA BringingIs ==
  ASSUME NEW D, NEW vz, NEW t \in Slot, NEW ve \in OpenSet(D), Bringing(D, vz, t, ve), t[1] \in DOMAIN D
  PROVE  /\ vz[t].val = D[t[1]] /\ D[t[1]] # None
         /\ \A s \in Slot : s[1] = t[1] => ~Base(vz[s])
<1>1. vz \in Versions /\ vz[t].st # 0 /\ ~Base(vz[t]) /\ ve = Written(vz, CommitAt(t))
  BY DEF Bringing, OpenSet, Base
<1>2. Others(t, vz, ve) /\ Has(ve[t], Committed, vz[t].dir, vz[t].val)
  <2>1. PICK x \in State : x = Committed
    BY DEF State
  <2> DEFINE vx == Written(vz, [do |-> "state", at |-> t, st |-> x])
  <2>2. Others(t, vz, vx) /\ Has(vx[t], x, vz[t].dir, vz[t].val)
    BY <1>1, StateIs
  <2>3. vx = ve
    BY <1>1, <2>1 DEF CommitAt
  <2> HIDE DEF vx
  <2> QED BY <2>1, <2>2, <2>3
<1>3. OpenIs(ve, D) /\ Base(ve[t])
  BY <1>2 DEF OpenSet, Has, Base
<1>4. vz[t].val = D[t[1]]
  BY <1>2, <1>3 DEF OpenIs, Has
<1>5. vz[t].val # None
  <2>1. vz[t] \in Version
    BY <1>1, FreeIs DEF Versions
  <2> QED BY <2>1, FlashAssumption DEF Version
<1>6. \A s \in Slot : s[1] = t[1] /\ s # t => ~Base(vz[s])
  BY <1>2, <1>3 DEF OpenIs, Others
<1> QED BY <1>1, <1>4, <1>5, <1>6

(* Also while the second pass of doAbort is at work, a repair, or the rest   *)
(* of the abort, takes an object to D.                                       *)
LEMMA RestoreDurable ==
  ASSUME TypeOK, NEW D, DOMAIN D = Kept, Modes(D), Restoring(D), NEW id \in Kept
  PROVE  AfterPowerFailure(id) = D[id]
<1>0. versions \in Versions /\ record = "open"
  BY DEF TypeOK, Restoring
<1>1. PICK ve \in OpenSet(D) :
       \/ \E w \in Seq(CallWrite) : \E s, t \in Slot : \E vm \in OpenSet(D) :
             /\ writes = w \o <<ZapAt(s), CommitAt(t)>>
             /\ Path(OpenSet(D), versions, w, vm)
             /\ Bringing(D, Written(vm, ZapAt(s)), t, ve)
       \/ \E t \in Slot : writes = <<CommitAt(t)>> /\ Bringing(D, versions, t, ve)
       \/ writes = <<>> /\ versions = ve
  BY DEF Restoring
<1>2. ASSUME versions \in OpenSet(D),
             \A s \in Becoming(id, {Committed}) : D[id] # None
      PROVE  AfterPowerFailure(id) = D[id]
  BY <1>0, <1>2, BaseIs DEF OpenSet
<1>3. ASSUME NEW w \in Seq(CallWrite), NEW s \in Slot, NEW t \in Slot, NEW vm \in OpenSet(D),
             writes = w \o <<ZapAt(s), CommitAt(t)>>, Path(OpenSet(D), versions, w, vm),
             Bringing(D, Written(vm, ZapAt(s)), t, ve)
      PROVE  AfterPowerFailure(id) = D[id]
  <2>1. versions \in OpenSet(D)
    BY <1>3, PathEnds
  <2>2. ASSUME NEW u \in Becoming(id, {Committed}) PROVE D[id] # None
    <3>1. u[1] = id
      BY DEF Becoming
    <3>2. u = t
      <4> DEFINE z1 == ZapAt(s)
                 z2 == CommitAt(t)
                 x == w \o <<z1, z2>>
      <4>1. \E w1 \in Seq(CallWrite) : \E r \in Slot :
              writes = w1 \o <<ZapAt(r), CommitAt(u)>> \/ writes = <<CommitAt(u)>>
        BY <1>0, <2>2, NoneCommitted
      <4>2. PICK w1 \in Seq(CallWrite) : \E r \in Slot :
              writes = w1 \o <<ZapAt(r), CommitAt(u)>> \/ writes = <<CommitAt(u)>>
        BY <4>1
      <4>3. PICK r \in Slot : writes = w1 \o <<ZapAt(r), CommitAt(u)>> \/ writes = <<CommitAt(u)>>
        BY <4>2
      <4>4. u \in Slot
        BY DEF Becoming, InUse
      <4>5. writes[Len(writes)] = CommitAt(t)
        BY <1>3, LastIs
      <4>6. writes[Len(writes)] = CommitAt(u)
        BY <4>3, <4>4, LastIs
      <4> QED BY <4>5, <4>6 DEF CommitAt
    <3> QED BY <1>0, <1>3, <3>1, <3>2, BringingIs
  <2> QED BY <1>2, <2>1, <2>2
<1>4. ASSUME NEW t \in Slot, writes = <<CommitAt(t)>>, Bringing(D, versions, t, ve)
      PROVE  AfterPowerFailure(id) = D[id]
  <2>1. \A u : (u \in Becoming(id, {Committed})) = (u = t /\ t \in InUse /\ t[1] = id)
    <3>1. DOMAIN writes = {1} /\ writes[1] = CommitAt(t)
      BY <1>4
    <3> QED BY <3>1 DEF Becoming, CommitAt
  <2>2. CASE t[1] # id
    <3> DEFINE E == Cut(D, DOMAIN D \ {t[1]})
    <3>1. id \in DOMAIN E /\ E[id] = D[id]
      BY <2>2 DEF Cut
    <3>2. OpenIs(versions, E)
      BY <1>4 DEF Bringing, OpenSet
    <3>3. Becoming(id, {Committed}) = {}
      BY <2>1, <2>2
    <3> HIDE DEF E
    <3> QED BY <1>0, <3>1, <3>2, <3>3, BaseIs
  <2>3. CASE t[1] = id
    <3>1. versions[t].val = D[id] /\ \A s \in Slot : s[1] = id => ~Base(versions[s])
      BY <1>4, <2>3, BringingIs
    <3>2. Of(id, {Committed, Superseded, Deleted}) = {}
      BY <3>1 DEF Of, InUse, Base
    <3>3. t \in InUse
      <4>1. versions[t].st # 0
        BY <1>4 DEF Bringing
      <4> QED BY <1>0, <4>1, InUseIs
    <3>4. Becoming(id, {Committed}) = {t}
      BY <2>1, <2>3, <3>3
    <3>5. AfterPowerFailure(id) = Value({t})
      BY <1>0, <3>2, <3>4 DEF AfterPowerFailure
    <3>6. Value({t}) = D[id]
      BY <3>1, ValueIs
    <3> QED BY <3>5, <3>6
  <2> QED BY <2>2, <2>3
<1>5. CASE writes = <<>> /\ versions = ve
  <2>1. Becoming(id, {Committed}) = {}
    BY <1>5, NoneToCome
  <2> QED BY <1>2, <1>5, <2>1
<1> QED BY <1>1, <1>3, <1>4, <1>5

(* A repair takes every object that is kept to D. *)
LEMMA DurableFacts ==
  DurableAll /\ DurableAll'
<1>1. DurableAll
  <2> SUFFICES ASSUME NEW D, TypeOK, Modes(D), NEW id \in Kept
               PROVE  AfterPowerFailure(id) = D[id]
    BY DEF DurableAll
  <2>0. versions \in Versions /\ record \in {"none", "open", "commit"} /\ id \in DOMAIN D /\ DOMAIN D = Kept
    BY ModesAre DEF TypeOK
  <2>1. CASE record = "commit"
    <3> DEFINE S == Of(id, Live)
    <3>1. CommitIs(versions, D)
      BY <2>1, FlashIs DEF CommitSet
    <3>2. \A s \in S : s \in Slot /\ s[1] = id /\ IsLive(versions[s])
      BY <2>0, InUseIs DEF Of, IsLive
    <3>3. \A s \in S : versions[s].val = D[id]
      BY <2>0, <3>1, <3>2 DEF CommitIs
    <3>4. S = {} => D[id] = None
      <4> SUFFICES ASSUME D[id] # None PROVE S # {}
        OBVIOUS
      <4>1. PICK s \in Slot : s[1] = id /\ IsLive(versions[s])
        BY <2>0, <3>1 DEF CommitIs
      <4>2. versions[s].st # 0
        BY <4>1 DEF IsLive, Live
      <4> QED BY <2>0, <4>1, <4>2, InUseIs DEF Of, IsLive
    <3> HIDE DEF S
    <3>5. Value(S) = D[id]
      BY <3>3, <3>4, ValueIs
    <3> QED BY <2>1, <3>5 DEF AfterPowerFailure, S
  <2>2. CASE record = "open" /\ Restoring(D)
    BY <2>0, <2>2, RestoreDurable
  <2>3. CASE record = "open" /\ ~Restoring(D)
    <3>1. OpenIs(versions, D)
      BY <2>3, FlashIs DEF OpenSet
    <3>2. Becoming(id, {Committed}) = {}
      BY <2>3, NoneCommitted
    <3> QED BY <2>0, <2>3, <3>1, <3>2, BaseIs
  <2>4. CASE record = "none"
    <3> DEFINE S == Readable(id)
    <3>0. OpenIs(versions, D) /\ Settled(versions, D)
      BY <2>4, FlashIs DEF OpenSet, Restoring
    <3>1. \A s \in Slot : s[1] = id => /\ versions[s].st \in {0, Replacing, Rewriting, Committed}
                                       /\ Base(versions[s]) => versions[s].st = Committed
                                       /\ versions[s].st = Committed => Base(versions[s])
      BY <2>0, <3>0 DEF Settled, Base
    <3>2. \A s \in S : s \in Slot /\ s[1] = id /\ versions[s].st \in {Created, Committed, Superseder}
      BY <2>0, InUseIs DEF Readable, Linked, Of, Live
    <3>3. ASSUME NEW s \in S PROVE versions[s].val = D[id]
      <4>1. s \in Slot /\ s[1] = id /\ versions[s].st \in {Created, Committed, Superseder}
        BY <3>2
      <4>2. versions[s].st = Committed /\ Base(versions[s])
        BY <3>1, <4>1
      <4> QED BY <2>0, <3>0, <4>1, <4>2 DEF OpenIs
    <3>4. S = {} => D[id] = None
      <4> SUFFICES ASSUME D[id] # None PROVE S # {}
        OBVIOUS
      <4>1. PICK s \in Slot : s[1] = id /\ Base(versions[s])
        BY <2>0, <3>0 DEF OpenIs
      <4>2. versions[s].st = Committed /\ versions[s].dir /\ s \in InUse
        BY <2>0, <3>0, <3>1, <4>1, InUseIs DEF OpenIs
      <4> QED BY <4>1, <4>2 DEF Readable, Linked, Of, Live
    <3> HIDE DEF S
    <3>5. Value(S) = D[id]
      BY <3>3, <3>4, ValueIs
    <3> QED BY <2>4, <3>5 DEF AfterPowerFailure, S
  <2> QED BY <2>0, <2>1, <2>2, <2>3, <2>4
<1> QED BY <1>1, PTL

(* With no transaction open, or once it is decided, what is read is durable. *)
LEMMA DecidedFacts ==
  DecidedAll /\ DecidedAll'
<1>1. DecidedAll
  <2> SUFFICES ASSUME NEW D, TypeOK, Modes(D), Decided, NEW id \in Kept
               PROVE  Read(id) = AfterPowerFailure(id)
    BY DEF DecidedAll
  <2>0. versions \in Versions /\ id \in DOMAIN D
    BY ModesAre DEF TypeOK
  <2>1. CASE needsRepair \/ phase \in {"undo", "restore"}
    BY <2>1 DEF Read
  <2>2. CASE record = "none" /\ phase = "idle" /\ ~needsRepair
    <3>1. writes = <<>>
      BY <2>2 DEF Modes, Mode, Rest, Open, Quiet, InCall, InCallOn, Marking, Committing, CommitCut, OpenCut,
                  Undoing, Restoring
    <3>2. Read(id) = Value(Readable(id))
      BY <2>2, <3>1, NoneToCome, ReadIs
    <3> QED BY <2>2, <3>2 DEF AfterPowerFailure
  <2>3. CASE record = "commit" /\ ~needsRepair
    <3>1. phase = "commit" /\ writes \in Seq(AnyWrite) /\ Settles(writes)
      BY <2>3 DEF Modes, Mode, Rest, Open, InCall, InCallOn, Marking, Committing, CommitCut, OpenCut,
                  Undoing, Restoring
    <3>2. Becoming(id, {Created, Superseder}) = {}
      <4>1. DOMAIN writes = 1 .. Len(writes)
        BY <3>1
      <4> QED BY <3>1, <4>1 DEF Becoming, Settles
    <3>3. Read(id) = Value(Readable(id))
      BY <2>3, <3>1, <3>2, ReadIs
    <3>4. Readable(id) = Of(id, Live)
      <4>1. CommitIs(versions, D)
        BY <2>3, FlashIs DEF CommitSet
      <4>2. \A s \in Of(id, Live) : s \in Slot /\ s[1] = id /\ IsLive(versions[s])
        BY <2>0, InUseIs DEF Of, IsLive
      <4>3. \A s \in Of(id, Live) : versions[s].dir
        BY <2>0, <4>1, <4>2 DEF CommitIs
      <4> QED BY <4>3 DEF Readable, Linked
    <3> QED BY <2>3, <3>3, <3>4 DEF AfterPowerFailure
  <2> QED BY <2>1, <2>2, <2>3 DEF Decided
<1> QED BY <1>1, PTL

(* A caller reads a content, or that there is no object. *)
LEMMA ContentFacts ==
  ContentAll /\ ContentAll'
<1>1. ContentAll
  <2> SUFFICES ASSUME TypeOK, NEW id \in Id PROVE Read(id) \in Content
    BY DEF ContentAll
  <2>1. versions \in Versions /\ record \in {"none", "open", "commit"}
    BY DEF TypeOK
  <2>2. ASSUME NEW S \in SUBSET InUse PROVE Value(S) \in Content
    <3>1. CASE S = {}
      BY <3>1 DEF Value, Content
    <3>2. CASE S # {}
      <4> DEFINE s == CHOOSE t \in S : TRUE
      <4>1. s \in S
        BY <3>2
      <4> HIDE DEF s
      <4>2. versions[s].val \in Val \cup {Blank}
        BY <2>1, <4>1, InUseIs DEF Version
      <4> QED BY <3>2, <4>2 DEF Value, Content, s
    <3> QED BY <3>1, <3>2
  <2>3. /\ \A X : Of(id, X) \subseteq InUse
        /\ \A X : Becoming(id, X) \subseteq InUse
        /\ Readable(id) \subseteq InUse
    BY DEF Of, Readable, Linked, Becoming
  <2> DEFINE base == Of(id, {Committed, Superseded, Deleted})
             coming == Becoming(id, {Committed})
             found == Readable(id)
             next == Becoming(id, {Created, Superseder})
             live == Of(id, Live)
             either(S, T) == IF S # {} THEN S ELSE T
  <2>4. base \in SUBSET InUse /\ coming \in SUBSET InUse /\ found \in SUBSET InUse
        /\ next \in SUBSET InUse /\ live \in SUBSET InUse
    BY <2>3
  <2>5. AfterPowerFailure(id) \in {Value(live), Value(either(base, coming)), Value(found)}
    BY <2>1 DEF AfterPowerFailure
  <2>6. Read(id) \in {AfterPowerFailure(id), Value(either(found, next))}
    BY DEF Read
  <2> HIDE DEF base, coming, found, next, live
  <2>7. either(base, coming) \in SUBSET InUse /\ either(found, next) \in SUBSET InUse
    BY <2>4
  <2> HIDE DEF either
  <2> QED BY <2>2, <2>4, <2>5, <2>6, <2>7
<1> QED BY <1>1, PTL

(* A call writes versions of its own object only. *)
LEMMA OthersFacts ==
  OthersAll /\ OthersAll'
<1>1. OthersAll
  <2> SUFFICES ASSUME NEW D, NEW id, NEW j, InCallOn(D, id), j # id,
                      NEW s \in Becoming(j, {Created, Superseder})
               PROVE  FALSE
    BY DEF OthersAll
  <2>1. PICK w \in Seq(Write(id)) : writes = w \/ writes = Record("open") \o w
    BY DEF InCallOn
  <2>2. \A k \in 1 .. Len(w) : w[k] \in Write(id) /\ w[k].at[1] = id
    BY <2>1 DEF Write, Places
  <2>3. PICK i \in DOMAIN writes : writes[i].do = "state" /\ writes[i].at = s
    BY DEF Becoming
  <2>4. s[1] = j
    BY DEF Becoming
  <2>5. CASE writes = w
    <3>1. i \in 1 .. Len(w)
      BY <2>1, <2>5
    <3> QED BY <2>2, <2>3, <2>4, <2>5, <3>1
  <2>6. CASE writes = Record("open") \o w
    <3>1. /\ Len(writes) = Len(w) + 1 /\ writes[1] = [do |-> "record", to |-> "open"]
          /\ DOMAIN writes = 1 .. Len(writes)
          /\ \A k \in 1 .. Len(w) : writes[k + 1] = w[k]
      <4> DEFINE y == Record("open") \o w
      <4>1. w \in Seq(Write(id))
        BY <2>1
      <4>2. /\ Len(y) = Len(w) + 1 /\ y[1] = [do |-> "record", to |-> "open"]
            /\ DOMAIN y = 1 .. Len(y)
            /\ \A k \in 1 .. Len(w) : y[k + 1] = w[k]
        BY ONLY <4>1, RecordFirst
      <4> QED BY <2>6, <4>2
    <3>2. i # 1
      BY <2>3, <3>1
    <3>3. Len(w) \in Nat
      BY <2>1, LenProperties
    <3>4. i - 1 \in 1 .. Len(w) /\ writes[i] = w[i - 1]
      BY <3>1, <3>2, <3>3
    <3> QED BY <2>2, <2>3, <2>4, <3>4
  <2> QED BY <2>1, <2>5, <2>6
<1> QED BY <1>1, PTL

(* A step that moves no version and makes none readable: reading stays.      *)
LEMMA SameRead ==
  ASSUME versions' = versions, ~needsRepair, ~needsRepair',
         phase \notin {"undo", "restore"}, phase' \notin {"undo", "restore"}, NEW id,
         Readable(id) # {} \/ Becoming(id, {Created, Superseder}) = {},
         Readable(id) # {} \/ Becoming(id, {Created, Superseder})' = {}
  PROVE  Read(id)' = Read(id)
<1>1. Readable(id)' = Readable(id)
  BY DEF Readable, Linked, Of, InUse
<1>2. Value(Readable(id))' = Value(Readable(id))
  BY <1>1 DEF Value
<1>3. Read(id) = Value(Readable(id))
  BY ReadFacts DEF ReadAll
<1>4. Read(id)' = Value(Readable(id))'
  BY <1>1, ReadFacts DEF ReadAll
<1> QED BY <1>2, <1>3, <1>4

(* What is durable is the same as long as D is. *)
LEMMA SameDurable ==
  ASSUME TypeOK, TypeOK', NEW D, Modes(D), NEW E, E = Cut(D, Kept'), Modes(E)', Kept' \subseteq Kept
  PROVE  Durable' = Cut(Durable, Kept')
<1>1. ASSUME NEW j \in Kept' PROVE AfterPowerFailure(j)' = AfterPowerFailure(j)
  <2>1. AfterPowerFailure(j) = D[j] /\ AfterPowerFailure(j)' = E[j]
    BY DurableFacts DEF DurableAll
  <2>2. E[j] = D[j]
    BY DEF Cut
  <2> QED BY <2>1, <2>2
<1>2. \A j \in Kept' : Durable[j] = AfterPowerFailure(j)
  BY DEF Durable
<1> QED BY <1>1, <1>2 DEF Durable, Cut

(* What AtomicStore makes of a step. *)
Refined ==
  \/ Kept' \subseteq Kept /\ Durable' = Cut(Durable, Kept') /\ Current' = Cut(Current, Kept')
  \/ Durable' = Current /\ Current' = Current
  \/ Durable' = Durable /\ Current' = Durable
  \/ /\ Durable' = Durable
     /\ \E id \in Kept : \E c \in Content : Current' = [Current EXCEPT ![id] = c]

(* Nothing is read anew. *)
LEMMA SameRef ==
  ASSUME TypeOK, TypeOK', NEW D, Modes(D), NEW E, E = Cut(D, Kept'), Modes(E)', Kept' \subseteq Kept,
         \A j \in Kept' : Read(j)' = Read(j)
  PROVE  Refined
<1>1. Durable' = Cut(Durable, Kept')
  BY SameDurable
<1>2. \A j \in Kept' : Current[j] = Read(j)
  BY DEF Current
<1>3. Current' = Cut(Current, Kept')
  BY <1>2 DEF Current, Cut
<1> QED BY <1>1, <1>3 DEF Refined

(* After the step, what is read is durable. *)
LEMMA DecidedRef ==
  ASSUME TypeOK, TypeOK', NEW D, Modes(D), NEW E, E = Cut(D, Kept'), Modes(E)', Kept' = Kept, Decided'
  PROVE  Refined
<1>1. Durable' = Cut(Durable, Kept')
  BY SameDurable
<1>2. Durable' = Durable
  BY <1>1 DEF Durable, Cut
<1>3. \A j \in Kept' : Read(j)' = AfterPowerFailure(j)'
  BY DecidedFacts DEF DecidedAll
<1>4. Current' = Durable'
  BY <1>3 DEF Current, Durable
<1> QED BY <1>2, <1>4 DEF Refined

(* Only these calls, the end of the outermost one and a power failure give   *)
(* objects up.                                                               *)
LEMMA KeptLess ==
  ASSUME Next
  PROVE  /\ Kept' \subseteq Kept
         /\ ~((\E id \in Id : CallOn(id)) \/ UnlockStore \/ Return \/ Crash) => Kept' = Kept
<1>1. ASSUME NEW id \in Id, CallOn(id) PROVE Kept' \subseteq Kept
  BY <1>1 DEF CallOn, NewObject, NewObjectFails, Rewrite, RewriteFails, DeleteObject, Kept, Known
<1>2. CASE UnlockStore \/ Return \/ Crash
  BY <1>2 DEF UnlockStore, Return, Unlock, Crash, Kept, Known
<1>3. CASE CallFails \/ LockStore \/ Abort
  BY <1>3 DEF CallFails, LockStore, Abort, Kept, Known
<1>4. CASE WriteFlash \/ CommitVisit \/ UndoVisit \/ RestoreVisit \/ SecondPass \/ EndTransaction \/ Repair
  BY <1>4 DEF WriteFlash, CommitVisit, UndoVisit, RestoreVisit, Reach, SecondPass, EndTransaction, Repair, Kept, Known
<1> QED BY <1>1, <1>2, <1>3, <1>4 DEF Next, Call, CallOn, Work

(* A call begins on an object that is there, or that is not there at all.    *)
LEMMA CallOnIs ==
  ASSUME NEW id \in Id, CallOn(id)
  PROVE  Idle /\ UNCHANGED flash /\ (Of(id, State) = {} \/ Readable(id) # {})
<1>1. ASSUME NEW w, NewObject(id, w) PROVE Idle /\ UNCHANGED flash /\ Of(id, State) = {}
  BY <1>1 DEF NewObject, Modify
<1>2. ASSUME NEW v, NEW inPlace, Rewrite(id, v, inPlace)
      PROVE  Idle /\ UNCHANGED flash /\ Readable(id) # {}
  <2>1. Idle /\ \E s \in Readable(id) : \E w, track : Modify(w, track, FALSE)
    BY <1>2 DEF Rewrite
  <2> QED BY <2>1 DEF Modify
<1>3. ASSUME NEW v, RewriteFails(id, v) PROVE Idle /\ UNCHANGED flash /\ Readable(id) # {}
  <2>1. Idle /\ \E s \in Readable(id) : \E w, track : Modify(w, track, TRUE)
    BY <1>3 DEF RewriteFails
  <2> QED BY <2>1 DEF Modify
<1>4. CASE DeleteObject(id)
  <2>1. Idle /\ \E s \in Readable(id) : \E w, track : Modify(w, track, FALSE)
    BY <1>4 DEF DeleteObject
  <2> QED BY <2>1 DEF Modify
<1>5. CASE NewObjectFails(id)
  BY <1>5 DEF NewObjectFails, Modify
<1> QED BY <1>1, <1>2, <1>3, <1>4, <1>5 DEF CallOn

(* A call that begins has changed nothing yet. *)
LEMMA CallRef ==
  ASSUME TypeOK, NEW D, Modes(D), NEW id \in Id, CallOn(id), NEW E, E = Cut(D, Kept'), Modes(E)',
         Kept' \subseteq Kept
  PROVE  Refined
<1>1. TypeOK' /\ InCallOn(E, id)'
  BY CallStep
<1>2. Idle /\ UNCHANGED flash
  BY CallOnIs
<1>3. Readable(id) # {} \/ \A s \in InUse : s[1] # id
  <2>1. versions \in Versions
    BY DEF TypeOK
  <2>2. CASE Of(id, State) = {}
    BY <2>1, <2>2, InUseIs DEF Of
  <2>3. CASE Readable(id) # {}
    BY <2>3
  <2> QED BY <2>2, <2>3, CallOnIs
<1>4. /\ versions' = versions /\ ~needsRepair /\ ~needsRepair'
      /\ phase = "idle" /\ phase' = "call" /\ writes = <<>>
  <2>1. Quiet
    BY <1>2, IdleIs, BetweenIs
  <2> QED BY <1>1, <1>2, <2>1 DEF Quiet, InCallOn, flash
<1>5. ASSUME NEW j PROVE Read(j)' = Read(j)
  <2>1. Becoming(j, {Created, Superseder}) = {}
    BY <1>4, NoneToCome
  <2>2. Readable(j) # {} \/ Becoming(j, {Created, Superseder})' = {}
    <3>1. CASE j # id
      BY <1>1, <3>1, OthersFacts DEF OthersAll
    <3>2. CASE j = id
      <4>1. InUse' = InUse
        BY <1>4 DEF InUse
      <4> QED BY <1>3, <3>2, <4>1 DEF Becoming
    <3> QED BY <3>1, <3>2
  <2>3. phase \notin {"undo", "restore"} /\ phase' \notin {"undo", "restore"}
    BY <1>4
  <2> QED BY ONLY <1>4, <2>1, <2>2, <2>3, SameRead
<1> QED BY <1>1, <1>5, SameRef

(* Nor has a call that fails, and between calls and when a call ends nothing *)
(* is read anew.                                                             *)
LEMMA UnlockRef ==
  ASSUME TypeOK, TypeOK', NEW D, Modes(D), CallFails \/ LockStore \/ UnlockStore \/ Return,
         NEW E, E = Cut(D, Kept'), Modes(E)', Kept' \subseteq Kept
  PROVE  Refined
<1>1. /\ versions' = versions /\ needsRepair' = needsRepair
      /\ phase' \in {"idle", "call", "commit"}
  BY DEF CallFails, Modify, LockStore, UnlockStore, Return, Unlock, flash, Idle
<1>2. writes = <<>> /\ ~needsRepair /\ phase \in {"idle", "call"}
  <2>1. CASE CallFails \/ LockStore \/ UnlockStore
    <3>1. Idle
      BY <2>1 DEF CallFails, LockStore, UnlockStore
    <3> QED BY <3>1, IdleIs, BetweenIs DEF Quiet
  <2>2. CASE Return
    BY <2>2 DEF Return, Modes, Mode, Rest, Open, Quiet, InCall, InCallOn, Marking, Committing, CommitCut,
                OpenCut, Undoing, Restoring
  <2> QED BY <2>1, <2>2
<1>3. writes' = <<>> \/ \E r : writes' = Record(r)
  <2>1. CASE CallFails
    <3>1. writes' = Begin \o <<>>
      BY <2>1 DEF CallFails, Modify
    <3>2. Record("open") \o <<>> = Record("open")
      BY DEF Record
    <3>3. <<>> \o <<>> = <<>>
      OBVIOUS
    <3> QED BY <3>1, <3>2, <3>3 DEF Begin
  <2>2. CASE LockStore
    BY <1>2, <2>2 DEF LockStore
  <2>3. CASE UnlockStore \/ Return
    BY <1>2, <2>3 DEF UnlockStore, Return, Unlock
  <2> QED BY <2>1, <2>2, <2>3
<1>4. ASSUME NEW j PROVE Read(j)' = Read(j)
  <2>1. Becoming(j, {Created, Superseder}) = {} /\ Becoming(j, {Created, Superseder})' = {}
    BY <1>2, <1>3, ReadFacts DEF NoneAll
  <2>2. /\ ~needsRepair /\ ~needsRepair'
        /\ phase \notin {"undo", "restore"} /\ phase' \notin {"undo", "restore"}
    BY <1>1, <1>2
  <2>3. versions' = versions
    BY <1>1
  <2> QED BY ONLY <2>1, <2>2, <2>3, SameRead
<1> QED BY <1>4, SameRef

(* A call goes from one write to the next: only its object is read anew.     *)
LEMMA WriteCallRef ==
  ASSUME TypeOK, TypeOK', NEW D, Modes(D), Modes(D)', NEW id, InCallOn(D, id), WriteFlash
  PROVE  Refined
<1>1. InCallOn(D, id)'
  BY WriteCall
<1>2. Kept' = Kept /\ D = Cut(D, Kept') /\ versions \in Versions
  BY ModesAre DEF WriteFlash, Kept, Known, TypeOK
<1>3. /\ phase = "call" /\ phase' = "call" /\ ~needsRepair /\ ~needsRepair'
  BY <1>1 DEF InCallOn
<1>4. \A s \in Slot : s[1] # id => versions'[s] = versions[s]
  <2>1. PICK w \in Seq(Write(id)) : writes = w \/ writes = Record("open") \o w
    BY DEF InCallOn
  <2>2. CASE writes = w
    <3>1. Head(writes) \in Write(id) /\ versions' = Written(versions, Head(writes))
      BY <2>1, <2>2, WriteOne
    <3> QED BY <1>2, <3>1, WriteIs
  <2>3. CASE writes = Record("open") \o w
    <3>1. Head(writes) = [do |-> "record", to |-> "open"]
      BY <2>1, <2>3, RecordFirst
    <3> QED BY <3>1 DEF WriteFlash, Written
  <2> QED BY <2>1, <2>2, <2>3
<1>5. ASSUME NEW j, j # id PROVE Read(j)' = Read(j)
  <2>1. Readable(j)' = Readable(j)
    BY <1>4, <1>5 DEF Readable, Linked, Of, InUse
  <2>2. \A s \in Readable(j) : versions'[s] = versions[s]
    BY <1>4, <1>5 DEF Readable, Linked, Of, InUse
  <2>3. Value(Readable(j))' = Value(Readable(j))
    <3>1. CASE Readable(j) = {}
      BY <2>1, <3>1 DEF Value
    <3>2. CASE Readable(j) # {}
      <4>1. (CHOOSE s \in Readable(j) : TRUE) \in Readable(j)
        BY <3>2
      <4> QED BY <2>1, <2>2, <3>2, <4>1 DEF Value
    <3> QED BY <3>1, <3>2
  <2>4. Becoming(j, {Created, Superseder}) = {} /\ Becoming(j, {Created, Superseder})' = {}
    BY <1>1, <1>5, OthersFacts DEF OthersAll
  <2>5. Read(j) = Value(Readable(j))
    BY <1>3, <2>4, ReadFacts DEF ReadAll
  <2>6. Read(j)' = Value(Readable(j))'
    BY <1>3, <2>4, ReadFacts DEF ReadAll
  <2> QED BY <2>3, <2>5, <2>6
<1>6. CASE id \notin Kept
  <2>1. \A j \in Kept' : Read(j)' = Read(j)
    BY <1>2, <1>5, <1>6
  <2> QED BY <1>2, <2>1, SameRef
<1>7. CASE id \in Kept
  <2>1. Read(id)' \in Content
    <3>1. id \in Id
      BY <1>7 DEF Kept, Known
    <3> QED BY <3>1, ContentFacts DEF ContentAll
  <2>2. Current' = [Current EXCEPT ![id] = Read(id)']
    BY <1>2, <1>5, <1>7 DEF Current
  <2>3. Durable' = Cut(Durable, Kept')
    BY <1>2, SameDurable
  <2>4. Durable' = Durable
    BY <1>2, <2>3 DEF Durable, Cut
  <2> QED BY <1>7, <2>1, <2>2, <2>4 DEF Refined
<1> QED BY <1>6, <1>7

(* The power fails. *)
LEMMA CrashRef ==
  ASSUME TypeOK, TypeOK', NEW D, Modes(D), Crash, NEW E, E = Cut(D, Kept'), Modes(E)', Kept' \subseteq Kept
  PROVE  Refined
<1>1. Decided'
  <2>1. record' = record /\ phase' = "idle" /\ needsRepair' = (record # "none")
    BY DEF Crash, flash
  <2> QED BY <2>1 DEF Decided
<1>2. CASE BetweenVersions = {}
  <2>1. Kept' = Kept
    BY <1>2 DEF Crash, Kept, Known
  <2> QED BY <1>1, <2>1, DecidedRef
<1>3. CASE BetweenVersions # {}
  <2>1. Decided
    BY <1>3 DEF BetweenVersions, Decided
  <2>2. ASSUME NEW j \in Kept' PROVE Read(j)' = Read(j)
    <3>1. Read(j) = AfterPowerFailure(j) /\ Read(j)' = AfterPowerFailure(j)'
      BY <1>1, <2>1, DecidedFacts DEF DecidedAll
    <3>2. AfterPowerFailure(j) = D[j] /\ AfterPowerFailure(j)' = E[j]
      BY DurableFacts DEF DurableAll
    <3>3. E[j] = D[j]
      BY DEF Cut
    <3> QED BY <3>1, <3>2, <3>3
  <2> QED BY <2>2, SameRef
<1> QED BY <1>2, <1>3

(* The commit point. *)
LEMMA MarkRef ==
  ASSUME TypeOK, NEW D, Modes(D), Marking(D), WriteFlash
  PROVE  Refined
<1>1. TypeOK' /\ Kept' = Kept
  BY MarkModes
<1>2. PICK E : E = [id \in Kept |-> Read(id)] /\ Modes(E)' /\ Committing(E)'
  BY MarkModes
<1>3. Decided'
  BY <1>2 DEF Committing, Decided
<1>4. ASSUME NEW j \in Kept PROVE AfterPowerFailure(j)' = Read(j) /\ Read(j)' = Read(j)
  <2>1. AfterPowerFailure(j)' = E[j]
    BY <1>1, <1>2, DurableFacts DEF DurableAll
  <2>2. Read(j)' = AfterPowerFailure(j)'
    BY <1>1, <1>2, <1>3, DecidedFacts DEF DecidedAll
  <2>3. E[j] = Read(j)
    BY <1>2
  <2> QED BY <2>1, <2>2, <2>3
<1>5. Durable' = Current /\ Current' = Current
  BY <1>1, <1>4 DEF Durable, Current
<1> QED BY <1>5 DEF Refined

(* Every step is a step of AtomicStore, or none. *)
LEMMA NextRef ==
  ASSUME Inv, Next
  PROVE  Refined
<1>1. PICK D : Modes(D)
  BY DEF Inv
<1>2. TypeOK
  BY DEF Inv
<1>3. CASE WriteFlash /\ Marking(D)
  BY <1>1, <1>2, <1>3, MarkRef
<1>4. CASE ~(WriteFlash /\ Marking(D))
  <2>1. TypeOK'
    BY <1>1, <1>2, <1>4, StepModes
  <2>2. PICK E : E = Cut(D, Kept') /\ Modes(E)'
    BY <1>1, <1>2, <1>4, StepModes
  <2>3. Kept' \subseteq Kept
    BY KeptLess
  <2>4. CASE \E id \in Id : CallOn(id)
    BY <1>1, <1>2, <2>2, <2>3, <2>4, CallRef
  <2>5. CASE CallFails \/ LockStore \/ UnlockStore \/ Return
    BY <1>1, <1>2, <2>1, <2>2, <2>3, <2>5, UnlockRef
  <2>6. CASE Crash
    BY <1>1, <1>2, <2>1, <2>2, <2>3, <2>6, CrashRef
  <2>7. ASSUME Kept' = Kept, Decided' PROVE Refined
    BY <1>1, <1>2, <2>1, <2>2, <2>7, DecidedRef
  <2>8. ASSUME Kept' = Kept PROVE Modes(D)'
    <3>1. E = D
      BY <1>1, <2>2, <2>8, ModesAre
    <3> QED BY <2>2, <3>1
  <2>9. CASE Abort
    <3>1. Kept' = Kept
      BY <2>9 DEF Abort, Kept, Known
    <3>2. CASE inTxn
      BY <2>7, <2>9, <3>1, <3>2 DEF Abort, StartUndo, Decided
    <3>3. CASE ~inTxn
      <4>1. Rest(D)
        BY <1>1, <1>2, <2>9, <3>3, IdleIs DEF Abort, Between
      <4> QED BY <2>7, <2>9, <3>1, <3>3, <4>1 DEF Abort, Rest, Quiet, Decided, flash
    <3> QED BY <3>2, <3>3
  <2>10. CASE WriteFlash
    <3>1. Kept' = Kept
      BY <2>10 DEF WriteFlash, Kept, Known
    <3>2. ASSUME NEW id, InCallOn(D, id) PROVE Refined
      BY <1>1, <1>2, <2>1, <2>8, <2>10, <3>1, <3>2, WriteCallRef
    <3>3. CASE Committing(D)
      <4>1. Committing(D)'
        BY <1>2, <2>10, <3>3, WriteCommit
      <4> QED BY <2>7, <3>1, <4>1 DEF Committing, Decided
    <3>4. CASE Undoing(D) \/ Restoring(D)
      BY <2>7, <2>10, <3>1, <3>4 DEF WriteFlash, Undoing, Restoring, Decided
    <3>5. writes # <<>>
      BY <2>10 DEF WriteFlash
    <3> QED BY <1>1, <1>4, <2>10, <3>2, <3>3, <3>4, <3>5
            DEF Modes, Mode, InCall, Rest, Open, Quiet, CommitCut, OpenCut
  <2>11. CASE CommitVisit
    <3>1. record = "commit"
      BY <1>1, <2>11 DEF CommitVisit, Modes, Mode, Rest, Open, Quiet, InCall, InCallOn, Marking, Committing,
                         CommitCut, OpenCut, Undoing, Restoring, Record
    <3> QED BY <2>7, <2>11, <3>1 DEF CommitVisit, Reach, Kept, Known, Decided, flash
  <2>12. CASE UndoVisit \/ RestoreVisit \/ SecondPass
    BY <2>7, <2>12 DEF UndoVisit, RestoreVisit, SecondPass, Reach, Kept, Known, Decided
  <2>13. CASE EndTransaction
    BY <2>7, <2>13 DEF EndTransaction, Kept, Known, Decided
  <2>14. CASE Repair
    BY <2>7, <2>14 DEF Repair, StartUndo, Kept, Known, Decided, flash
  <2> QED BY <2>4, <2>5, <2>6, <2>9, <2>10, <2>11, <2>12, <2>13, <2>14 DEF Next, Work, Call, CallOn
<1> QED BY <1>3, <1>4

(* At first there is no object, durably so. *)
LEMMA InitRef ==
  ASSUME Init
  PROVE  Kept = Id /\ Durable \in [Id -> Content] /\ Current = Durable
<1>1. versions \in Versions /\ \A s \in Slot : versions[s].st = 0
  BY FreeIs DEF Init, Versions
<1>2. InUse = {}
  BY <1>1, InUseIs
<1>3. ASSUME NEW id PROVE AfterPowerFailure(id) = None /\ Read(id) = None
  <2>1. Readable(id) = {} /\ Becoming(id, {Created, Superseder}) = {}
    BY <1>2 DEF Readable, Linked, Of, Becoming
  <2>2. AfterPowerFailure(id) = None
    BY <2>1 DEF AfterPowerFailure, Value, Init
  <2>3. Read(id) = Value(Readable(id))
    BY <2>1, ReadIs DEF Init
  <2> QED BY <2>1, <2>2, <2>3 DEF Value
<1>4. Kept = Id
  BY DEF Init, Kept, Known
<1> QED BY <1>3, <1>4 DEF Durable, Current, Content

(* Commit and abort of CFlashStore are atomic over all the objects that are  *)
(* kept, whatever the power failures, those during a repair included, and    *)
(* whatever calls fail: for them the store implements AtomicStore.           *)
THEOREM FlashIsAtomicStore ==
  Spec => Atomic
<1>1. Init => A!Init
  <2> SUFFICES ASSUME Init PROVE A!Init
    OBVIOUS
  <2> QED BY InitRef DEF A!Init, Durable, Current, Content
<1>2. Inv /\ [Next]_vars => [A!Next]_(A!vars)
  <2> SUFFICES ASSUME Inv, [Next]_vars PROVE [A!Next]_(A!vars)
    OBVIOUS
  <2>1. CASE Next
    <3>1. Refined
      BY <2>1, NextRef
    <3>2. CASE Kept' \subseteq Kept /\ Durable' = Cut(Durable, Kept') /\ Current' = Cut(Current, Kept')
      <4>1. PICK L : L = Kept'
        OBVIOUS
      <4>2. L \in SUBSET DOMAIN Durable
        BY <3>2, <4>1 DEF Durable
      <4>3. Durable' = [id \in L |-> Durable[id]] /\ Current' = [id \in L |-> Current[id]]
        BY <3>2, <4>1 DEF Cut
      <4>4. A!Lose
        BY <4>2, <4>3 DEF A!Lose, Durable, Current
      <4> QED BY <4>4 DEF A!Next
    <3>3. CASE Durable' = Current /\ Current' = Current
      BY <3>3 DEF Durable, Current, A!Next, A!Commit
    <3>4. CASE Durable' = Durable /\ Current' = Durable
      BY <3>4 DEF Durable, Current, A!Next, A!GiveUp
    <3>5. ASSUME Durable' = Durable, NEW id \in Kept, NEW c \in Content, Current' = [Current EXCEPT ![id] = c]
          PROVE  A!Next
      <4>1. id \in Id /\ id \in DOMAIN Current
        BY <3>5 DEF Kept, Known, Current
      <4>2. A!Change(id)
        BY <3>5, <4>1 DEF A!Change, Durable, Current, Content
      <4> QED BY <4>1, <4>2 DEF A!Next
    <3> QED BY <3>1, <3>2, <3>3, <3>4, <3>5 DEF Refined
  <2>2. CASE UNCHANGED vars
    <3>1. Durable' = Durable /\ Current' = Current
      BY <2>2 DEF vars, flash, memory, Durable, Current, AfterPowerFailure, Read, Value, Readable,
                  Linked, Of, InUse, Becoming, Kept, Known
    <3> QED BY <3>1 DEF Durable, Current, A!vars
  <2> QED BY <2>1, <2>2
<1> QED BY <1>1, <1>2, SpecInv, PTL DEF Spec, Atomic, A!Spec

=============================================================================
