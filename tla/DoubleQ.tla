------------------------------ MODULE DoubleQ ------------------------------
(***************************************************************************)
(* CDoubleQContainer of src/UtilityClasses/Queues.cc: doubly linked queues *)
(* of items that carry their own links.  An item has one pair of links, so *)
(* it is in one of the containers that use them at a time.  Each operation *)
(* takes and gives back the record of all heads, tails and links.          *)
(***************************************************************************)
EXTENDS Naturals, Sequences, FiniteSets

CONSTANTS Item, Container, NULL

Empty ==
  [fHead |-> [c \in Container |-> NULL], fTail |-> [c \in Container |-> NULL],
   fNext |-> [x \in Item |-> NULL], fPrev |-> [x \in Item |-> NULL],
   fContainer |-> [x \in Item |-> NULL]]

peek(d, c) == d.fHead[c]

getNext(d, c, x) == IF x # NULL /\ d.fContainer[x] = c THEN d.fNext[x] ELSE NULL

Add(d, c, x) ==
  LET tail == d.fTail[c]
      u == [d EXCEPT !.fNext[x] = NULL, !.fTail[c] = x, !.fContainer[x] = c]
  IN  IF d.fHead[c] = NULL THEN [u EXCEPT !.fHead[c] = x, !.fPrev[x] = NULL]
      ELSE [u EXCEPT !.fNext[tail] = x, !.fPrev[x] = tail]

AddToFront(d, c, x) ==
  LET head == d.fHead[c]
      u == [d EXCEPT !.fPrev[x] = NULL, !.fHead[c] = x, !.fContainer[x] = c]
  IN  IF head = NULL THEN [u EXCEPT !.fTail[c] = x, !.fNext[x] = NULL]
      ELSE [u EXCEPT !.fPrev[head] = x, !.fNext[x] = head]

AddBefore(d, c, before, x) ==
  IF d.fHead[c] \in {NULL, before} THEN AddToFront(d, c, x)
  ELSE [d EXCEPT !.fNext[x] = before, !.fPrev[x] = d.fPrev[before],
                 !.fPrev[before] = x, !.fNext[d.fPrev[before]] = x,
                 !.fContainer[x] = c]

Unlinked(d, x) ==
  [d EXCEPT !.fNext[x] = NULL, !.fPrev[x] = NULL, !.fContainer[x] = NULL]

Remove(d, c) ==
  LET x == d.fHead[c]
      u == [d EXCEPT !.fHead[c] = d.fNext[x]]
  IN  CASE x = NULL -> d
        [] x # NULL /\ d.fNext[x] # NULL -> Unlinked([u EXCEPT !.fPrev[d.fNext[x]] = NULL], x)
        [] x # NULL /\ d.fNext[x] = NULL -> Unlinked([u EXCEPT !.fTail[c] = NULL], x)

\* mutant: the tail is not moved back
RemoveKeepsTail(d, c, x) ==
  LET next == d.fNext[x]
      prev == d.fPrev[x]
      u == CASE x = d.fHead[c] /\ x = d.fTail[c] -> [d EXCEPT !.fHead[c] = NULL, !.fTail[c] = NULL]
             [] x = d.fHead[c] /\ x # d.fTail[c] -> [d EXCEPT !.fHead[c] = next]
             [] x # d.fHead[c] /\ x = d.fTail[c] -> [d EXCEPT !.fNext[prev] = next]
             [] OTHER -> [d EXCEPT !.fNext[prev] = next, !.fPrev[next] = prev]
  IN  IF d.fContainer[x] = c THEN Unlinked(u, x) ELSE d

(* Taking out the head clears the links of the item that leaves, and not the *)
(* fPrev of the new head, which goes on to name it.                          *)
RemoveFromQueue(d, c, x) ==
  LET next == d.fNext[x]
      prev == d.fPrev[x]
      u == CASE x = d.fHead[c] /\ x = d.fTail[c] -> [d EXCEPT !.fHead[c] = NULL, !.fTail[c] = NULL]
             [] x = d.fHead[c] /\ x # d.fTail[c] -> [d EXCEPT !.fHead[c] = next]
             [] x # d.fHead[c] /\ x = d.fTail[c] -> [d EXCEPT !.fNext[prev] = next, !.fTail[c] = prev]
             [] OTHER -> [d EXCEPT !.fNext[prev] = next, !.fPrev[next] = prev]
  IN  IF d.fContainer[x] = c THEN Unlinked(u, x) ELSE d
-----------------------------------------------------------------------------
(* The items of a container from head to tail, as peek and getNext find them *)
(* (one item too many if the links go round).                                *)
Items(d, c) ==
  LET next == [x \in Item \cup {NULL} |-> getNext(d, c, x)]
      places == 1 .. Cardinality(Item) + 1
      at[n \in places] == IF n = 1 THEN peek(d, c) ELSE next[at[n - 1]]
      met == {n \in places : at[n] # NULL}
  IN  [n \in met |-> at[n]]

(* A container threads its own items: the walk meets each of them once and   *)
(* ends at fTail, and back links are right except that of the head.          *)
Threads(d, c) ==
  LET s == Items(d, c)
  IN  /\ {s[i] : i \in DOMAIN s} = {x \in Item : d.fContainer[x] = c}
      /\ Len(s) = Cardinality({x \in Item : d.fContainer[x] = c})
      /\ d.fTail[c] = IF s = <<>> THEN NULL ELSE s[Len(s)]
      /\ \A i \in 2 .. Len(s) : d.fPrev[s[i]] = s[i - 1]
=============================================================================
