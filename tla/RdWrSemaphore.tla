--------------------------- MODULE RdWrSemaphore ---------------------------
(***************************************************************************)
(* Readers and writers over a semaphore group: CURdWrSemaphore of          *)
(* OS/Semaphore.cc.  Its semaphore 0 counts the writers, its semaphore 1   *)
(* the readers.  The acquire functions return nothing: a task whose call fails *)
(* goes on as if it had succeeded.                                         *)
(***************************************************************************)
EXTENDS KernelSemaphore

CONSTANTS
  inBlocking,  \* the flag the clients pass to the acquire functions
  RdWrBase     \* where its two semaphores are in the group

Writers == RdWrBase
Readers == RdWrBase + 1

RdWrLabels == {"unlocked", "acquireRd", "acquireWr", "reading", "writing"}

\* mutant: a writer does not look at the readers
AcquireWrBlindly == <<SemListItem(Writers, 0), SemListItem(Writers, 1)>>

fAcquireWrOp == <<SemListItem(Writers, 0), SemListItem(Writers, 1), SemListItem(Readers, 0)>>
fReleaseWrOp == <<SemListItem(Writers, -1)>>
fAcquireRdOp == <<SemListItem(Writers, 0), SemListItem(Readers, 1)>>
fReleaseRdOp == <<SemListItem(Readers, -1)>>

acquireRd == Call(fAcquireRdOp, inBlocking, "reading", "reading")
acquireWr == Call(fAcquireWrOp, inBlocking, "writing", "writing")
releaseRd == Call(fReleaseRdOp, kWaitOnBlock, "unlocked", "unlocked")
releaseWr == Call(fReleaseWrOp, kWaitOnBlock, "unlocked", "unlocked")

RdWrProgram ==
  [l \in RdWrLabels \ {"unlocked"} |->
     CASE l = "acquireRd" -> acquireRd
       [] l = "acquireWr" -> acquireWr
       [] l = "reading" -> releaseRd
       [] l = "writing" -> releaseWr]

RdWrBranch == [l \in {"unlocked"} |-> {"acquireRd", "acquireWr"}]

\* The lock is an object of its own: nobody else names its semaphores, and only
\* its acquire calls lead to where it is held.
ASSUME RdWrAssumption ==
  LET Holding == {"reading", "writing"} IN
  /\ RdWrBase \in Nat /\ {Writers, Readers} \subseteq Sem
  /\ RdWrLabels \subseteq Label
  /\ \A l \in DOMAIN RdWrProgram : l \in DOMAIN Program /\ Program[l] = RdWrProgram[l]
  /\ \A l \in DOMAIN Program \ DOMAIN RdWrProgram :
       /\ {Program[l].ok, Program[l].fail} \cap Holding = {}
       /\ \A i \in DOMAIN Program[l].list :
            Program[l].list[i].num \notin {Writers, Readers}
  /\ \A l \in DOMAIN Branch : Branch[l] \cap Holding = {}
  /\ \A t \in Task : Entry[t] \cap Holding = {}

-----------------------------------------------------------------------------

\* The semaphores count the tasks that hold the lock: an acquire that had to
\* wait half way through its list has left nothing behind.  It is so on a
\* big-endian machine; on a little-endian one a release names no semaphore.
CountsAreHolders ==
  exists => fVal[Writers] = Cardinality(At({"writing"}))
         /\ fVal[Readers] = Cardinality(At({"reading"}))

\* A writer excludes the readers and the other writers, if all of them pass the
\* flag that makes them wait.  It is so for either byte order, although on a
\* little-endian machine the acquire lists come out different and the lock is
\* never free again.
WriterExcludes ==
  exists /\ At({"writing"}) # {} =>
    Cardinality(At({"writing", "reading"})) = 1

=============================================================================
