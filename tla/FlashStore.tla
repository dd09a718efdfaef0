----------------------------- MODULE FlashStore -----------------------------
(***************************************************************************)
(* Objects and transactions of the flash store (src/Stores/FlashStore.cc,  *)
(* StoreObjRef.cc, FlashTracker.cc, FlashIterator.cc).                     *)
(*                                                                         *)
(* A flash cell can only be cleared, so an object is never overwritten: a  *)
(* change writes a new version of it, and the state bits of the header say *)
(* what each version is worth.  A transaction record on the flash says     *)
(* whether a transaction is open and whether it reached its commit point.  *)
(* Every call is modelled as the list of writes it makes to the flash; the *)
(* power may fail between any two of them, and what is not on the flash    *)
(* (lock count, tracker, flags) is then lost.  Blocks, directory buckets,  *)
(* garbage collection and the lookup cache are abstracted: a version is in *)
(* some slot, and a lookup finds any version of the object in the states   *)
(* it asks for, in no particular order.  Separate transactions (x2 = 2)    *)
(* and the SRAM variant, which keeps its objects in place, are left out,   *)
(* and so are errors inside doCommit and doAbort.                          *)
(*                                                                         *)
(* The code does not keep its promises for every object.  The history      *)
(* variable spoiled, which no action reads, collects those it breaks them  *)
(* for, at the step where it does: the properties are about the others.    *)
(***************************************************************************)
EXTENDS Naturals, Sequences, FiniteSets

CONSTANTS
  Id,            \* object ids
  Val,           \* contents a caller writes
  Blank,         \* the content of an object nobody has written
  None,          \* what reading an id that is not there returns
  MaxVersion,    \* versions of an object the flash has room for (bound)
  TrackerSize,   \* entries of the tracker (128 in the code)
  MaxLock        \* nesting of lockStore (bound)

(* A committed version and the one that replaces it are there together.    *)
ASSUME FlashAssumption ==
  /\ MaxVersion \in Nat \ {0, 1} /\ TrackerSize \in Nat
  /\ None \notin Val \cup {Blank}

(* Where a version lies; only whose it is matters. *)
Slot == Id \X (1 .. MaxVersion)

(* gObjectStateToTransBits, the states of a version on flash. *)
Replacing  == 8    \* copy being written for a committed object
Rewriting  == 9    \* copy being written for an object of this transaction
Created    == 10   \* new in this transaction
Committed  == 11
Superseded == 12   \* committed, and replaced in this transaction
Superseder == 13   \* its replacement
Deleted    == 14   \* deleted in this transaction
State == Replacing .. Deleted

VARIABLES
  \* on the flash
  versions,      \* the version in each slot
  record,        \* transaction record: "none", "open" or "commit"
  \* in memory
  inTxn,         \* fIsInTransaction
  needsRepair,   \* f17: the record has to be acted on before the next access
  lockCount,     \* fLockCount
  tracker,       \* fTracker->fList, ids changed by the transaction
  trackerLocked, \* fTracker->fLockCount # 0
  phase,         \* "idle", "call" (one that changes an object, up to its
                 \* unlockStore), "commit", "undo" or "restore" (doAbort's passes)
  writes,        \* the flash writes left of the current call
  todo,          \* slots the iterator of doCommit or doAbort has not reached
  \* of the callers
  unborn,        \* ids of objects newObject failed to make, which nobody was told
  \* history
  spoiled        \* objects whose fate is no longer what the callers asked for

flash == <<versions, record>>
memory == <<inTxn, needsRepair, lockCount, tracker, trackerLocked>>
vars == <<flash, memory, phase, writes, todo, unborn, spoiled>>

Free == [st |-> 0, dir |-> FALSE, val |-> None]

InUse == {s \in Slot : versions[s] # Free}
Of(id, states) == {s \in InUse : s[1] = id /\ versions[s].st \in states}
HasRoom(id) == \E n \in 1 .. MaxVersion : <<id, n>> \notin InUse
FreeSlot(id) == <<id, CHOOSE n \in 1 .. MaxVersion :
                        /\ <<id, n>> \notin InUse
                        /\ \A m \in 1 .. n - 1 : <<id, m>> \in InUse>>

(* lookup(id, state): a version its directory entry leads to. *)
Linked(id, states) == {s \in Of(id, states) : versions[s].dir}
Live == {Created, Committed, Superseder}
Readable(id) == Linked(id, Live)
-----------------------------------------------------------------------------
(* The writes a call makes, in order. *)

Add(t, st) == <<[do |-> "add", at |-> t, st |-> st], [do |-> "link", at |-> t]>>
Data(t, v) == <<[do |-> "data", at |-> t, val |-> v]>>
SetState(s, st) == <<[do |-> "state", at |-> s, st |-> st]>>
Dlete(s) == <<[do |-> "unlink", at |-> s], [do |-> "zap", at |-> s]>>
Record(r) == <<[do |-> "record", to |-> r]>>

(* clone: a version in slot t, holding v once its data is copied. *)
Clone(t, st, v) == Add(t, st) \o Data(t, v)

(* One write reaches the flash. *)
Written(vs, w) ==
  CASE w.do = "add"      -> [vs EXCEPT ![w.at] = [st |-> w.st, dir |-> FALSE, val |-> Blank]]
    [] w.do = "link"     -> [vs EXCEPT ![w.at].dir = TRUE]
    [] w.do = "data"     -> [vs EXCEPT ![w.at].val = w.val]
    [] w.do = "state"    -> [vs EXCEPT ![w.at].st = w.st]
    [] w.do = "unlink"   -> [vs EXCEPT ![w.at].dir = FALSE]
    [] w.do = "zap"      -> [vs EXCEPT ![w.at] = Free]
    [] OTHER             -> vs

WriteFlash ==
  /\ writes # <<>>
  /\ LET w == Head(writes)
     IN  /\ versions' = Written(versions, w)
         /\ record' = IF w.do = "record" THEN w.to ELSE record
  /\ writes' = Tail(writes)
  /\ UNCHANGED <<memory, phase, todo, unborn, spoiled>>
-----------------------------------------------------------------------------
(* The tracker. *)

Track(id) == IF Len(tracker) < TrackerSize THEN Append(tracker, id) ELSE tracker
TrackerFull == Len(tracker) >= TrackerSize
Tracked == {tracker[i] : i \in DOMAIN tracker}
-----------------------------------------------------------------------------
(* Calls.  setupForModify starts the transaction of the first change. *)

Idle == phase = "idle" /\ ~needsRepair
Begin == IF inTxn THEN <<>> ELSE Record("open")

(* A call between lockStore and unlockStore, in the current transaction. *)
Modify(w, track, hold) ==
  /\ lockCount < MaxLock
  /\ lockCount' = lockCount + 1
  /\ inTxn' = TRUE
  /\ writes' = Begin \o w
  /\ phase' = "call"
  /\ tracker' = track
  /\ trackerLocked' = (trackerLocked \/ hold)
  /\ UNCHANGED <<flash, needsRepair, todo>>

NewObject(id, w) ==
  /\ Idle
  /\ Of(id, State) = {}
  /\ Modify(Add(FreeSlot(id), Created) \o w, Track(id), FALSE)
  /\ UNCHANGED <<unborn, spoiled>>

(* addObject or the first write fails: what is on the flash stays there, but *)
(* neither the caller nor the tracker has its id.                            *)
NewObjectFails(id) ==
  /\ Idle
  /\ Of(id, State) = {}
  /\ \E n \in {1, 2} : Modify(SubSeq(Add(FreeSlot(id), Created), 1, n), tracker, FALSE)
  /\ unborn' = unborn \cup {id}
  /\ UNCHANGED spoiled

(* write and setObjectSize: the new content goes into a new version, and the *)
(* version it was made from is marked as replaced, or goes if it was of this *)
(* transaction.                                                              *)
Replace(s, v) ==
  LET st == versions[s].st
      t == FreeSlot(s[1])
  IN  Clone(t, IF st = Created THEN Rewriting ELSE Replacing, v)
        \o (IF st = Committed THEN SetState(s, Superseded) \o SetState(t, Superseder)
                              ELSE Dlete(s) \o SetState(t, st))

\* mutant: a replaced object is not tracked
ReplaceUntracked(s) == tracker

ReplaceTracks(s) == IF versions[s].st = Committed THEN Track(s[1]) ELSE tracker

(* A new size keeps the content or, when it cuts all of it, leaves a blank;  *)
(* write fills in place what this transaction made and nobody has written.   *)
Rewrite(id, v, inPlace) ==
  /\ Idle
  /\ \E s \in Readable(id) :
       IF inPlace /\ versions[s].st # Committed /\ versions[s].val = Blank
       THEN Modify(Data(s, v), tracker, FALSE)
       ELSE HasRoom(id) /\ Modify(Replace(s, v), ReplaceTracks(s), FALSE)
  /\ UNCHANGED <<unborn, spoiled>>

(* An error ends the call after some of these writes, with the tracker       *)
(* locked (dlete, which unlinks and zaps, reports none).                     *)
RewriteFails(id, v) ==
  /\ Idle
  /\ \E s \in Readable(id) :
       \/ Modify(<<>>, ReplaceTracks(s), TRUE)
       \/ /\ HasRoom(id)
          /\ \E n \in 1 .. Len(Replace(s, v)) - 1 :
               /\ Replace(s, v)[n].do # "unlink"
               /\ Modify(SubSeq(Replace(s, v), 1, n), ReplaceTracks(s), TRUE)
  /\ UNCHANGED <<unborn, spoiled>>

(* The tests for a separate transaction are the wrong way round: an object   *)
(* new in this transaction is not erased at once, and a committed one is not *)
(* tracked.  A new one, once it is marked as deleted, is one that an abort   *)
(* brings back.                                                              *)
DeleteObject(id) ==
  /\ Idle
  /\ \E s \in Readable(id) :
       /\ IF versions[s].st = Superseder
          THEN \E r \in Linked(id, {Superseded}) : \E w \in {<<>>, SetState(r, Deleted)} :
                 Modify(Dlete(s) \o w, tracker, FALSE)
          ELSE Modify(SetState(s, Deleted), tracker, FALSE)
       /\ spoiled' = spoiled \cup (IF versions[s].st = Created THEN {id} ELSE {})
  /\ UNCHANGED unborn

(* The call is refused or fails before it changes an object. *)
CallFails == Idle /\ Modify(<<>>, tracker, FALSE) /\ UNCHANGED <<unborn, spoiled>>
-----------------------------------------------------------------------------
(* lockStore, unlockStore, doCommit. *)

LockStore ==
  /\ Idle /\ lockCount + 1 < MaxLock
  /\ lockCount' = lockCount + 1
  /\ UNCHANGED <<flash, inTxn, needsRepair, tracker, trackerLocked, phase, writes, todo, unborn, spoiled>>

(* What doCommit(true) visits: one version of each tracked id, or, when the *)
(* tracker may have missed one, everything.                                 *)
Chosen == IF TrackerFull \/ trackerLocked THEN {InUse}
          ELSE {P \in SUBSET InUse :
                  /\ \A s \in P : s[1] \in Tracked /\ versions[s].dir
                  /\ \A id \in Tracked : LET P1 == P \cap Linked(id, State)
                                         IN  IF Linked(id, State) = {} THEN P1 = {} ELSE Cardinality(P1) = 1}

(* The objects a commit that goes by the tracker does not settle: deleted    *)
(* ones that are not tracked, and tracked ones with a copy that a failed call*)
(* of an earlier transaction left, which may be found in their place.        *)
PassedOver ==
  IF TrackerFull \/ trackerLocked THEN {}
  ELSE {id \in Id : IF id \in Tracked THEN Linked(id, {Replacing, Rewriting}) # {}
                                     ELSE Of(id, {Deleted}) # {}}

\* mutant: the commit does not mark its point first
UnlockWithoutMark ==
  IF lockCount = 1 /\ inTxn
  THEN writes' = <<>> /\ todo' \in Chosen /\ phase' = "commit" /\ lockCount' = 0
       /\ spoiled' = spoiled \cup PassedOver
  ELSE /\ phase' = "idle"
       /\ lockCount' = (IF lockCount > 0 THEN lockCount - 1 ELSE 0)
       /\ UNCHANGED <<writes, todo, spoiled>>

Unlock ==
  IF lockCount = 1 /\ inTxn
  THEN /\ writes' = Record("commit")
       /\ todo' \in Chosen
       /\ phase' = "commit"
       /\ lockCount' = 0
       /\ spoiled' = spoiled \cup PassedOver
  ELSE /\ phase' = "idle"
       /\ lockCount' = IF lockCount > 0 THEN lockCount - 1 ELSE 0
       /\ UNCHANGED <<writes, todo, spoiled>>

UnlockStore ==
  /\ Idle /\ lockCount > 0
  /\ Unlock
  /\ UNCHANGED <<flash, inTxn, needsRepair, tracker, trackerLocked, unborn>>

Return ==
  /\ writes = <<>>
  /\ phase = "call"
  /\ Unlock
  /\ UNCHANGED <<flash, inTxn, needsRepair, tracker, trackerLocked, unborn>>

\* mutant: the version that was replaced is left behind
CommitKeepsOlder(s) ==
  CASE versions[s].st \in {Created, Superseder} -> SetState(s, Committed)
    [] versions[s].st = Deleted                 -> Dlete(s)
    [] OTHER                                    -> <<>>

CommitWrites(s) ==
  LET o == versions[s]
      newer == Linked(s[1], {Superseder})
      older == Linked(s[1], {Superseded})
      any(S) == CHOOSE r \in S : TRUE
  IN  CASE o.st = Created    -> SetState(s, Committed)
        [] o.st = Superseded -> (IF newer = {} THEN <<>> ELSE SetState(any(newer), Committed)) \o Dlete(s)
        [] o.st = Superseder -> (IF older = {} THEN <<>> ELSE Dlete(any(older))) \o SetState(s, Committed)
        [] o.st = Deleted    -> Dlete(s)
        [] OTHER             -> <<>>

(* The iterator reaches slot s, and w is what is done about the version      *)
(* there; slots with nothing to do are passed over.                          *)
Reach(s, w) ==
  /\ w # <<>>
  /\ todo' = todo \ {s}
  /\ writes' = w
  /\ UNCHANGED <<flash, memory, phase, unborn, spoiled>>

CommitVisit == phase = "commit" /\ writes = <<>> /\ \E s \in todo : Reach(s, CommitWrites(s))
-----------------------------------------------------------------------------
(* doAbort: first the versions of the transaction go, then what they        *)
(* replaced or deleted comes back as a fresh committed copy.                *)

UndoWrites(s) == IF versions[s].st \in {Replacing, Rewriting, Created, Superseder}
                 THEN Dlete(s) ELSE <<>>

RestoreWrites(s) == IF versions[s].st \in {Superseded, Deleted}
                    THEN Clone(FreeSlot(s[1]), Replacing, versions[s].val)
                           \o Dlete(s) \o SetState(FreeSlot(s[1]), Committed)
                    ELSE <<>>

UndoVisit == phase = "undo" /\ writes = <<>> /\ \E s \in todo : Reach(s, UndoWrites(s))
RestoreVisit == phase = "restore" /\ writes = <<>> /\ \E s \in todo : Reach(s, RestoreWrites(s))

StartUndo == phase' = "undo" /\ todo' = InUse

SecondPass ==
  /\ phase = "undo" /\ writes = <<>>
  /\ \A s \in todo : UndoWrites(s) = <<>>
  /\ phase' = "restore" /\ todo' = InUse
  /\ UNCHANGED <<flash, memory, writes, unborn, spoiled>>

Abort ==
  /\ Idle
  /\ lockCount' = 0
  /\ IF inTxn THEN StartUndo ELSE UNCHANGED <<phase, todo>>
  /\ UNCHANGED <<flash, inTxn, needsRepair, tracker, trackerLocked, writes, unborn, spoiled>>

(* deleteTransactionRecord, the last write of a commit and of an abort. *)
EndTransaction ==
  /\ writes = <<>>
  /\ \/ phase = "commit" /\ \A s \in todo : CommitWrites(s) = <<>>
     \/ phase = "restore" /\ \A s \in todo : RestoreWrites(s) = <<>>
  /\ record' = "none"
  /\ inTxn' = FALSE /\ needsRepair' = FALSE
  /\ tracker' = <<>> /\ trackerLocked' = FALSE
  /\ phase' = "idle" /\ todo' = {}
  /\ UNCHANGED <<versions, lockCount, writes, unborn, spoiled>>
-----------------------------------------------------------------------------
(* Power failure and mount. *)

(* The object of which doAbort has erased the old version and not yet        *)
(* committed the copy.                                                       *)
BetweenVersions == IF phase = "restore" /\ Len(writes) = 1 THEN {writes[1].at[1]} ELSE {}

Crash ==
  /\ phase' = "idle" /\ writes' = <<>> /\ todo' = {}
  /\ lockCount' = 0 /\ tracker' = <<>> /\ trackerLocked' = FALSE /\ inTxn' = FALSE
  /\ needsRepair' = (record # "none")
  /\ spoiled' = spoiled \cup BetweenVersions
  /\ UNCHANGED <<flash, unborn>>

\* mutant: a commit that was under way is not repeated
RepairOpenOnly ==
  /\ phase = "idle" /\ needsRepair /\ record = "open"
  /\ StartUndo
  /\ UNCHANGED <<flash, memory, writes, unborn, spoiled>>

(* recoveryCheck(true), from the first access after a mount that needs it. *)
Repair ==
  /\ phase = "idle" /\ needsRepair
  /\ IF record = "commit" THEN phase' = "commit" /\ todo' = InUse ELSE StartUndo
  /\ UNCHANGED <<flash, memory, writes, unborn, spoiled>>
-----------------------------------------------------------------------------
Init ==
  /\ versions = [s \in Slot |-> Free] /\ record = "none"
  /\ inTxn = FALSE /\ needsRepair = FALSE
  /\ lockCount = 0 /\ tracker = <<>> /\ trackerLocked = FALSE
  /\ phase = "idle" /\ writes = <<>> /\ todo = {}
  /\ unborn = {} /\ spoiled = {}

Call ==
  \/ \E id \in Id \ unborn :
       \/ NewObject(id, <<>>)
       \/ \E v \in Val : NewObject(id, Data(FreeSlot(id), v))
       \/ \E v \in Val : Rewrite(id, v, TRUE)
       \/ \E v \in Val \cup {Blank} : Rewrite(id, v, FALSE)
       \/ \E v \in Val : RewriteFails(id, v)
       \/ NewObjectFails(id) \/ DeleteObject(id)
  \/ CallFails \/ LockStore \/ UnlockStore \/ Abort

Work == \/ WriteFlash \/ Return \/ CommitVisit \/ UndoVisit \/ SecondPass
        \/ RestoreVisit \/ EndTransaction \/ Repair

Next == Call \/ Work \/ Crash

(* A call that was begun goes on, and a store that needs repair is used. *)
Spec == Init /\ [][Next]_vars /\ WF_vars(Work)
-----------------------------------------------------------------------------
(* Properties. *)

Value(S) == IF S = {} THEN None ELSE versions[CHOOSE s \in S : TRUE].val

(* What a pending write of this call or abort gives one of these states.    *)
Becoming(id, states) ==
  {s \in InUse : s[1] = id /\ \E i \in DOMAIN writes :
                    writes[i].do = "state" /\ writes[i].at = s /\ writes[i].st \in states}

(* What reading id returns after a power failure now, a mount and a repair;  *)
(* for BetweenVersions, after the abort under way.                           *)
AfterPowerFailure(id) ==
  LET base == Of(id, {Committed, Superseded, Deleted})
  IN  CASE record = "commit" -> Value(Of(id, Live))
        [] record = "open"   -> Value(IF base # {} THEN base ELSE Becoming(id, {Committed}))
        [] record = "none"   -> Value(Readable(id))

(* What reading id returns now, or once the call under way is over. *)
Read(id) ==
  IF needsRepair \/ phase \in {"undo", "restore"} THEN AfterPowerFailure(id)
  ELSE Value(IF Readable(id) # {} THEN Readable(id) ELSE Becoming(id, {Created, Superseder}))

(* Commit (doCommit) and abort (doAbort) are atomic over all the objects,    *)
(* whenever the power fails and however often the repair at the next mount   *)
(* is itself interrupted, but for the objects that are spoiled, from the step *)
(* on that spoils them: one deleted in the transaction that made it, one that *)
(* the commit passes over (PassedOver), and one of which a power failure      *)
(* finds neither version in place (BetweenVersions).  With these left out,    *)
(* and those nobody was told of, the store implements AtomicStore.            *)
Known == Id \ unborn
Kept == Known \ spoiled
A == INSTANCE AtomicStore WITH
       Content <- Val \cup {Blank, None},
       durable <- [id \in Kept |-> AfterPowerFailure(id)],
       current <- [id \in Kept |-> Read(id)]
Atomic == A!Spec

(* The same of every object a caller knows, which is false. *)
All == INSTANCE AtomicStore WITH
         Content <- Val \cup {Blank, None},
         durable <- [id \in Known |-> AfterPowerFailure(id)],
         current <- [id \in Known |-> Read(id)]
AtomicForAll == All!Spec

(* Between the calls of the store an object that is kept has one readable    *)
(* version at most, a replacement (write, setObjectSize) stands beside what  *)
(* it replaces, and between transactions nothing is left of one but a        *)
(* committed version and the copies that failed calls left half-written.     *)
OneVersion ==
  phase = "idle" /\ ~needsRepair =>
    \A id \in Kept :
      /\ Cardinality(Readable(id)) <= 1
      /\ Cardinality(Of(id, {Committed, Superseded, Deleted})) <= 1
      /\ Of(id, {Superseder}) # {} => Of(id, {Superseded}) # {}
      /\ Of(id, {Committed, Superseded, Superseder}) = Linked(id, {Committed, Superseded, Superseder})
      /\ ~inTxn => Of(id, State) = Of(id, {Committed, Replacing, Rewriting})

(* doCommit(true) visits only what the tracker holds: every version the      *)
(* transaction has to settle is of a tracked object, or everything is visited.*)
(* Left out are the deletion of a committed object, which is not tracked     *)
(* (deleteObject) and not carried out by such a commit, what a failing       *)
(* newObject leaves, and what an earlier commit passed over.                 *)
TrackerComplete ==
  phase = "idle" /\ inTxn /\ ~TrackerFull /\ ~trackerLocked =>
    \A s \in InUse : s[1] \in Kept /\ versions[s].st \in {Created, Superseded, Superseder}
                       => s[1] \in Tracked

(* Once the power stays on, a store mounted with a transaction record is     *)
(* repaired by recoveryCheck.                                                *)
RepairEnds == <>[][~Crash]_vars => (needsRepair ~> ~needsRepair)
=============================================================================
