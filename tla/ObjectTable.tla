---------------------------- MODULE ObjectTable ----------------------------
(***************************************************************************)
(* The kernel's object table (CObjectTable in src/OS/KernelObjects.cc): a  *)
(* hash table with chains, the scavenging of objects whose owner is gone,  *)
(* and the ownership that tasks accept and bequeath.                       *)
(*                                                                         *)
(* The object manager serves one request at a time, and scavenges object   *)
(* by object after a request that destroyed a task; meanwhile tasks go on  *)
(* and change who owns what.  Deleting an object deletes its parts by      *)
(* calls of remove, in the middle of the walk.  An id stands for its one   *)
(* object: the 28 bits of the id counter do not wrap.  Monitors in use and *)
(* tasks in monitors, which cannot be deleted, are in module Monitor.      *)
(***************************************************************************)
EXTENDS Naturals, Sequences, FiniteSets, SequencesExt

CONSTANTS
  Obj,          \* ids of objects
  Kind,         \* "task", "monitor", "leaf", or "kept" (environments, domains)
  Parts,        \* the objects that an object's init creates, in order
  System,       \* tasks the system boots with, which are never destroyed
  KeptOwners,   \* tasks that create environments and domains
  TableSize,    \* kObjectTableSize
  Hash,         \* tableIndex
  None

Part == UNION {ToSet(Parts[o]) : o \in Obj}

(* An init creates the parts of its object anew: a task has memory, a monitor  *)
(* has a task and messages.                                                    *)
ASSUME TableAssumption ==
  /\ IsFiniteSet(Obj)
  /\ TableSize \in Nat \ {0}
  /\ Hash \in [Obj -> 0 .. TableSize - 1]
  /\ Kind \in [Obj -> {"task", "monitor", "leaf", "kept"}]
  /\ Parts \in [Obj -> Seq(Obj)]
  /\ System \subseteq {o \in Obj : Kind[o] = "task" /\ Parts[o] = <<>>}
  /\ System \cap Part = {}
  /\ \A o \in Obj : \A p \in ToSet(Parts[o]) :
       \/ Kind[o] = "task" /\ Kind[p] = "leaf"
       \/ Kind[o] = "monitor" /\ Kind[p] \in {"task", "leaf"}
  /\ \A o, w \in Obj : \A i \in DOMAIN Parts[o], j \in DOMAIN Parts[w] :
       Parts[o][i] = Parts[w][j] => o = w /\ i = j
  /\ None \notin Obj

VARIABLES
  t,      \* the table and the objects in it
  pass,   \* entries that scavengeAll has yet to finish
  used    \* ids given out so far

vars == <<t, pass, used>>

Whole == [o \in Obj |->
            {o} \cup ToSet(Parts[o]) \cup UNION {ToSet(Parts[p]) : p \in ToSet(Parts[o])}]
-----------------------------------------------------------------------------
(* Chains. *)

From(s, first) ==
  LET reach[n \in 0 .. Cardinality(Obj)] ==
        IF n = 0 THEN {first} ELSE UNION {{o, s.fNext[o]} : o \in reach[n - 1]}
  IN  reach[Cardinality(Obj)] \ {None}

Linked(s, b) == From(s, s.fObject[b])

Exists(s, o) == o # None /\ o \in Linked(s, Hash[o])

Add(s, o, owner) ==
  [s EXCEPT !.fNext[o] = s.fObject[Hash[o]],
            !.fObject[Hash[o]] = o,
            !.fOwnerId[o] = owner,
            !.fAssignedOwnerId[o] = owner]

\* mutant: the place of the walk is not adjusted
UnlinkForgetsWalk(s, o) ==
  LET before == {p \in Linked(s, Hash[o]) : s.fNext[p] = o}
  IN  IF before = {} THEN [s EXCEPT !.fObject[Hash[o]] = s.fNext[o]]
      ELSE [s EXCEPT !.fNext[CHOOSE p \in before : TRUE] = s.fNext[o]]

(* An object leaves its chain; the walk of the scavenger must not lose its   *)
(* place.                                                                    *)
Unlink(s, o) ==
  LET before == {p \in Linked(s, Hash[o]) : s.fNext[p] = o}
      prev == IF before = {} THEN None ELSE CHOOSE p \in before : TRUE
      u == IF prev = None THEN [s EXCEPT !.fObject[Hash[o]] = s.fNext[o]]
           ELSE [s EXCEPT !.fNext[prev] = s.fNext[o]]
  IN  CASE s.fThisObj = o -> [u EXCEPT !.fThisObj = s.fNext[o]]
        [] s.fThisObj # o /\ s.fPrevObj = o -> [u EXCEPT !.fPrevObj = prev]
        [] OTHER -> u

Free(s, o) ==
  [s EXCEPT !.fNext[o] = None, !.fOwnerId[o] = None, !.fAssignedOwnerId[o] = None,
            !.fBequeathId[o] = None, !.fInheritedId[o] = None]

SetBequeathId(s, o, heir) ==
  LET u == [s EXCEPT !.fBequeathId[o] = heir]
  IN  IF Exists(s, heir) /\ Kind[heir] = "task" THEN [u EXCEPT !.fInheritedId[heir] = o] ELSE u

ReassignOwnership(s, o, heir) ==
  IF Exists(s, heir)
  THEN [s EXCEPT !.fOwnerId = [x \in Obj |-> IF @[x] = o THEN heir ELSE @[x]]]
  ELSE s
-----------------------------------------------------------------------------
(* Removal.  Each of these finds its object no longer linked. *)

DeleteLeaf(s, o) == Free(s, o)

RemoveLeaf(s, o) == IF Exists(s, o) THEN DeleteLeaf(Unlink(s, o), o) ELSE s

\* mutant: the dead task stays in the chain of heirs
DeleteTaskHooked(s, o) ==
  LET v == FoldLeft(RemoveLeaf, Free(s, o), Parts[o])
  IN  [ReassignOwnership(v, o, s.fBequeathId[o]) EXCEPT !.destroyed = TRUE]

(* Who bequeaths to the task now bequeaths to its heir. *)
DeleteTask(s, o) ==
  LET heir == s.fBequeathId[o]
      from == s.fInheritedId[o]
      u == IF Exists(s, from) /\ s.fBequeathId[from] = o THEN SetBequeathId(s, from, heir) ELSE s
      v == FoldLeft(RemoveLeaf, Free(u, o), Parts[o])
  IN  [ReassignOwnership(v, o, heir) EXCEPT !.destroyed = TRUE]

RemoveTask(s, o) == IF Exists(s, o) THEN DeleteTask(Unlink(s, o), o) ELSE s

RemovePart(s, p) == IF Kind[p] = "task" THEN RemoveTask(s, p) ELSE RemoveLeaf(s, p)

DeleteMonitor(s, o) == FoldLeft(RemovePart, Free(s, o), Parts[o])

Delete(s, o) == CASE Kind[o] = "task" -> DeleteTask(s, o)
                  [] Kind[o] = "monitor" -> DeleteMonitor(s, o)
                  [] Kind[o] = "leaf" -> DeleteLeaf(s, o)

(* ObjectScavenger has no function that deletes what must be kept. *)
Kept(o) == Kind[o] = "kept"

RemoveObject(s, o) ==
  LET u == [s EXCEPT !.fOwnerId[o] = o]
  IN  CASE ~Exists(s, o) -> s
        [] Exists(s, o) /\ Kept(o) -> u
        [] Exists(s, o) /\ ~Kept(o) -> Delete(Unlink(u, o), o)
-----------------------------------------------------------------------------
(* Requests to the object manager, while it is not scavenging. *)

Tasks == {o \in Obj : Kind[o] = "task" /\ Exists(t, o)}
Running == Tasks \ (Part \cup {t.fDeferredId})

Serving == pass = 0 /\ t.fDeferredId = None

(* monitorProc ends with a walk over the table if a task has been destroyed. *)
EndRequest(s) ==
  IF s.destroyed
  THEN /\ pass' = TableSize
       /\ t' = [s EXCEPT !.destroyed = FALSE, !.fThisObj = s.fObject[0], !.fPrevObj = None]
  ELSE t' = s /\ pass' = pass

(* What an init creates belongs to the object, a monitor's task to itself.   *)
AddLeaves(s, o) == FoldLeft(LAMBDA acc, x : Add(acc, x, o), s, Parts[o])

AddPart(s, p, o) == AddLeaves(Add(s, p, IF Kind[p] = "task" THEN p ELSE o), p)

(* A task is its own owner until its creator accepts it.                     *)
Created(o, creator) ==
  LET u == Add(t, o, IF Kind[o] = "task" THEN o ELSE creator)
      v == FoldLeft(LAMBDA acc, p : AddPart(acc, p, o), u, Parts[o])
  IN  IF Kind[o] = "task" THEN [v EXCEPT !.fAssignedOwnerId[o] = creator] ELSE v

(* ObjectAlloc; when the init of a task, a monitor or a domain fails, it is   *)
(* removed again, and a domain stays.  Other objects are added after theirs.  *)
Create(creator, o, fails) ==
  /\ Serving /\ o \notin Part \cup used
  /\ fails => Kind[o] # "leaf"
  /\ Kept(o) => creator \in KeptOwners
  /\ EndRequest(IF fails THEN RemoveObject(Created(o, creator), o) ELSE Created(o, creator))
  /\ used' = used \cup Whole[o]

(* ObjectDestroy, of an object the caller owns. *)
Destroy(caller, o) ==
  /\ Serving /\ o \notin Part \cup {caller}
  /\ Exists(t, o) /\ t.fOwnerId[o] = caller
  /\ EndRequest(RemoveObject(t, o))
  /\ UNCHANGED used

TaskKillSelf(a) ==
  /\ Serving /\ a \notin System
  /\ t' = [t EXCEPT !.fDeferredId = a]
  /\ UNCHANGED <<pass, used>>

(* What the next request does first. *)
RemoveDeferred ==
  /\ t.fDeferredId # None
  /\ t' = [RemoveObject(t, t.fDeferredId) EXCEPT !.fDeferredId = None]
  /\ UNCHANGED <<pass, used>>
-----------------------------------------------------------------------------
(* CObjectTable::scavenge, called for one entry after the other. *)

Orphan(s, o) == s.fOwnerId[o] # o /\ ~Exists(s, s.fOwnerId[o])

\* mutant: the objects before the dead one are forgotten
ScavengeFromHead ==
  /\ pass # 0 /\ t.fThisObj # None /\ Orphan(t, t.fThisObj)
  /\ LET dead == t.fThisObj
         s == [t EXCEPT !.fThisObj = t.fNext[dead], !.fOwnerId[dead] = dead]
         u == [s EXCEPT !.fObject[Hash[dead]] = s.fNext[dead]]
     IN  t' = IF Kept(dead) THEN s ELSE Delete(u, dead)
  /\ UNCHANGED <<pass, used>>

ScavengeObject ==
  /\ pass # 0 /\ t.fThisObj # None /\ Orphan(t, t.fThisObj)
  /\ LET dead == t.fThisObj
         s == [t EXCEPT !.fThisObj = t.fNext[dead], !.fOwnerId[dead] = dead]
         u == IF s.fPrevObj # None THEN [s EXCEPT !.fNext[s.fPrevObj] = s.fNext[dead]]
              ELSE [s EXCEPT !.fObject[Hash[dead]] = s.fNext[dead]]
     IN  t' = IF Kept(dead) THEN s ELSE Delete(u, dead)
  /\ UNCHANGED <<pass, used>>

PassObject ==
  /\ pass # 0 /\ t.fThisObj # None /\ ~Orphan(t, t.fThisObj)
  /\ t' = [t EXCEPT !.fPrevObj = t.fThisObj, !.fThisObj = t.fNext[t.fThisObj]]
  /\ UNCHANGED <<pass, used>>

\* mutant: gTaskDestroyed is reset after the walk as well
NextEntryResets ==
  /\ pass # 0 /\ t.fThisObj = None
  /\ pass' = pass - 1
  /\ t' = [t EXCEPT !.fPrevObj = None, !.destroyed = FALSE,
                    !.fThisObj = IF pass = 1 THEN None ELSE t.fObject[TableSize - pass + 1]]
  /\ UNCHANGED used

NextEntry ==
  /\ pass # 0 /\ t.fThisObj = None
  /\ pass' = pass - 1
  /\ t' = [t EXCEPT !.fPrevObj = None,
                    !.fThisObj = IF pass = 1 THEN None ELSE t.fObject[TableSize - pass + 1]]
  /\ UNCHANGED used
-----------------------------------------------------------------------------
(* Calls that tasks make at any time. *)

AcceptObject(a, o) ==
  /\ Exists(t, o) /\ t.fAssignedOwnerId[o] = a
  /\ t' = [t EXCEPT !.fOwnerId[o] = a]
  /\ UNCHANGED <<pass, used>>

(* A fork names the task it has created, everybody else a system task. *)
Bequeath(a, heir) ==
  /\ a \notin System /\ heir \in Tasks \ {a}
  /\ heir \in System \/ t.fAssignedOwnerId[heir] = a
  /\ t' = SetBequeathId(t, a, heir)
  /\ UNCHANGED <<pass, used>>
-----------------------------------------------------------------------------
NoObjects ==
  [fObject |-> [b \in 0 .. TableSize - 1 |-> None],
   fNext |-> [o \in Obj \cup {None} |-> None],
   fOwnerId |-> [o \in Obj |-> None],
   fAssignedOwnerId |-> [o \in Obj |-> None],
   fBequeathId |-> [o \in Obj |-> None],
   fInheritedId |-> [o \in Obj |-> None],
   fThisObj |-> None, fPrevObj |-> None,
   fDeferredId |-> None,
   destroyed |-> FALSE]                          \* gTaskDestroyed

Booted(tasks) == FoldLeft(LAMBDA acc, o : Add(acc, o, o), NoObjects, tasks)

Init ==
  /\ t = Booted(SetToSeq(System))
  /\ pass = 0 /\ used = System

Request(a) ==
  \/ \E o \in Obj : Create(a, o, TRUE) \/ Create(a, o, FALSE) \/ Destroy(a, o)
  \/ TaskKillSelf(a)

Walk == ScavengeObject \/ PassObject \/ NextEntry

Next ==
  \/ \E a \in Running : Request(a) \/ \E o \in Obj : AcceptObject(a, o) \/ Bequeath(a, o)
  \/ RemoveDeferred \/ Walk

Spec == Init /\ [][Next]_vars
-----------------------------------------------------------------------------
(* Properties. *)

Alive == UNION {Linked(t, b) : b \in 0 .. TableSize - 1}

(* Every chain ends and holds objects of its entry only, and the scavenger   *)
(* stands between two neighbours of the chain it walks, whatever has been    *)
(* removed under it (remove adjusts fThisObj and fPrevObj).                  *)
WalkInChain ==
  LET entry == TableSize - pass
  IN  /\ \A b \in 0 .. TableSize - 1 :
           /\ \A o \in Linked(t, b) : Hash[o] = b
           /\ Linked(t, b) = {} \/ \E o \in Linked(t, b) : t.fNext[o] = None
      /\ pass # 0 =>
           /\ {t.fThisObj, t.fPrevObj} \ {None} \subseteq Linked(t, entry)
           /\ t.fThisObj = IF t.fPrevObj = None THEN t.fObject[entry] ELSE t.fNext[t.fPrevObj]

(* An object without owner is met by the walk under way, or asks for one.    *)
OrphansAhead ==
  \A o \in Alive : Orphan(t, o) =>
    \/ t.destroyed
    \/ pass # 0 /\ (Hash[o] > TableSize - pass \/ o \in From(t, t.fThisObj))

(* When its heir dies, a task bequeaths to the heir of that one (DeleteTask  *)
(* unhooks the dead task by fInheritedId), so that what it leaves finds an   *)
(* owner; this holds while no two tasks name the same mortal heir.           *)
HeirsAlive == \A a \in Tasks : t.fBequeathId[a] = None \/ Exists(t, t.fBequeathId[a])

(* The table is a set of objects with owners: a removal takes away one       *)
(* object with its parts and no other, in the middle of a walk too.          *)
Set == INSTANCE ObjectSet WITH
         alive <- Alive, owner <- [o \in Alive |-> t.fOwnerId[o]],
         Parts <- [o \in Obj |-> ToSet(Parts[o])], Immortal <- System
IsSet == Set!Spec

=============================================================================
