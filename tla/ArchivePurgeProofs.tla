------------------------- MODULE ArchivePurgeProofs -------------------------
(***************************************************************************)
(* What a purge leaves behind, for every archive: the journal against the  *)
(* records, the index, the objects and the ledger of acknowledged calls.   *)
(***************************************************************************)
EXTENDS ArchiveProofs

(* At most one process runs purge. With two, the second purge of an archive *)
(* overwrites the journal of an interrupted first one, and what the first   *)
(* had withdrawn is forgotten: the runs have one purger too.                *)
OnePurger == \A p, q \in Purgers : p = q

(* While there is a journal the only purger is dead, replaying it, or       *)
(* carrying it out: it is never about to write another one.                 *)
JournalOwned ==
  /\ journal # NoJournal => Purgers # {}
  /\ \A p \in Proc : pc[p] \in {"selected", "writeJournal"} => p \in Purgers
  /\ journal # NoJournal =>
       \A p \in Purgers : pc[p] = "closed" \/ work[p].task = "open" \/ pc[p] \in Removing

(* A purge or a replay that is removing has everything the journal names    *)
(* still to do in hand.                                                     *)
JournalInHand ==
  \A p \in Proc :
    /\ pc[p] \in Removing =>
         journal # NoJournal /\ journal.ids \cap observations \subseteq work[p].ids
    /\ pc[p] \in {"unindex", "removeRecord"} =>
         work[p].ids \subseteq journal.ids /\ work[p].refs = journal.refs
    /\ pc[p] = "removeObject" => work[p].ids = {}

(* Open finishes the journal before it returns, so a process that gets as   *)
(* far as purging finds none: only the journal of another purger could      *)
(* still be there.                                                          *)
THEOREM JournalOwnedCorrect ==
  ASSUME OnePurger
  PROVE  Spec => []JournalOwned
<1> USE DEF Removing
<1>1. Init => JournalOwned
  BY DEF Init, JournalOwned
<1>2. TypeInv /\ TaskFits /\ JournalOwned /\ [Next]_vars => JournalOwned'
  <2> SUFFICES ASSUME TypeInv, TaskFits, JournalOwned, [Next]_vars PROVE JournalOwned'
    OBVIOUS
  <2> USE ProcAssumption DEF disk
  <2>0. CASE UNCHANGED vars
    BY <2>0 DEF vars, JournalOwned
  <2>1. \A p \in Proc : Fits(pc[p], work[p].task)
    BY DEF TaskFits
  <2>2. ASSUME NEW p \in Proc, Opening(p) PROVE JournalOwned'
    <3>1. CASE OpenLock(p)
      BY <3>1, OpenLockMoves DEF Moves, JournalOwned, OpenLock
    <3>2. ASSUME NEW o \in Obs, ReplayTransaction(p, o) PROVE JournalOwned'
      BY <2>1, <3>2, ReplayTransactionMoves DEF Moves, JournalOwned, ReplayTransaction, Fits
    <3>3. CASE ReplayJournal(p)
      BY <2>1, <3>3, ReplayJournalMoves, ReplayJournalQuiet DEF Moves, JournalOwned, Fits
    <3>4. CASE OpenReturn(p)
      BY <3>4, OpenReturnMoves, OpenReturnQuiet DEF Moves, JournalOwned
    <3> QED BY <2>2, <3>1, <3>2, <3>3, <3>4 DEF Opening
  <2>3. ASSUME NEW p \in Proc, Importing(p) PROVE JournalOwned'
    <3> USE <2>1 DEF Fits, Committing
    <3>1. ASSUME NEW o \in Obs, StartImport(p, o) PROVE JournalOwned'
      BY <3>1, StartImportMoves DEF Moves, JournalOwned, StartImport
    <3>2. ASSUME NEW x \in Object, StoreComponent(p, x) PROVE JournalOwned'
      BY <3>2, StoreComponentMoves DEF Moves, JournalOwned, StoreComponent
    <3>3. CASE AddLock(p)
      BY <3>3, AddLockMoves DEF Moves, JournalOwned, AddLock
    <3>4. CASE WriteTransaction(p)
      BY <3>4, WriteTransactionMoves DEF Moves, JournalOwned, WriteTransaction
    <3>5. CASE CommitObservation(p)
      BY <3>5, CommitObservationMoves DEF Moves, JournalOwned, CommitObservation
    <3>6. CASE CommitIndex(p)
      BY <3>6, CommitIndexMoves DEF Moves, JournalOwned, CommitIndex
    <3>7. CASE RemoveTransaction(p)
      BY <3>7, RemoveTransactionMoves DEF Moves, JournalOwned, RemoveTransaction
    <3> QED BY <2>3, <3>1, <3>2, <3>3, <3>4, <3>5, <3>6, <3>7 DEF Importing
  <2>4. ASSUME NEW p \in Proc, Purging(p) PROVE JournalOwned'
    <3> USE <2>1 DEF Fits
    <3>1. ASSUME NEW S \in SUBSET Obs, SelectForPurge(p, S) PROVE JournalOwned'
      <4>1. Moves(p, "selected", "purge", NoObs, S, {})
        BY <3>1, SelectForPurgeMoves
      <4>2. p \in Purgers /\ pc[p] = "ready" /\ work[p].task = "none" /\ UNCHANGED journal
        BY <2>1, <3>1, SelectForPurgeQuiet DEF SelectForPurge
      <4>3. journal = NoJournal
        BY <4>2 DEF JournalOwned
      <4>4. \A q \in Proc : q # p => pc'[q] = pc[q]
        BY <4>1 DEF Moves
      <4> QED BY <4>2, <4>3, <4>4 DEF JournalOwned
    <3>2. CASE PurgeLock(p)
      <4>1. /\ work'[p].task = work[p].task /\ work'[p].ids = work[p].ids
            /\ pc'[p] = "writeJournal"
            /\ \A q \in Proc \ {p} : pc'[q] = pc[q] /\ work'[q] = work[q]
        BY <3>2, PurgeLockMoves DEF Moves
      <4>2. /\ pc[p] = "selected" /\ UNCHANGED <<objects, observations, transactions, journal>>
        BY <3>2, PurgeLockQuiet
      <4> QED BY <4>1, <4>2 DEF Moves, JournalOwned
    <3>3. CASE WriteJournal(p)
      BY <3>3, WriteJournalMoves DEF Moves, JournalOwned, WriteJournal, OnePurger
    <3>4. ASSUME NEW o \in Obs, Unindex(p, o) PROVE JournalOwned'
      <4>1. pc[p] = "unindex" /\ UNCHANGED journal
        BY <3>4 DEF Unindex
      <4> QED BY <3>4, <4>1, UnindexMoves DEF Moves, JournalOwned
    <3>5. CASE RemoveRecord(p)
      BY <3>5, RemoveRecordMoves DEF Moves, JournalOwned, RemoveRecord
    <3>6. CASE FindSurvivors(p)
      BY <3>6, FindSurvivorsMoves DEF Moves, JournalOwned, FindSurvivors
    <3>7. ASSUME NEW x \in Object, RemoveObject(p, x) PROVE JournalOwned'
      BY <3>7, RemoveObjectMoves DEF Moves, JournalOwned, RemoveObject
    <3>8. CASE RemoveJournal(p)
      BY <3>8, RemoveJournalMoves DEF Moves, JournalOwned, RemoveJournal
    <3> QED BY <2>4, <3>1, <3>2, <3>3, <3>4, <3>5, <3>6, <3>7, <3>8 DEF Purging
  <2>5. ASSUME NEW p \in Proc, Rebuilding(p) PROVE JournalOwned'
    <3> USE <2>1 DEF Fits
    <3>1. CASE RebuildLock(p)
      BY <3>1, RebuildLockMoves DEF Moves, JournalOwned, RebuildLock
    <3>2. ASSUME NEW c \in Chunk, ClearChunk(p, c) PROVE JournalOwned'
      BY <3>2 DEF JournalOwned, ClearChunk
    <3>3. CASE Cleared(p)
      BY <3>3, ClearedMoves DEF Moves, JournalOwned, Cleared
    <3>4. ASSUME NEW o \in Obs, Reindex(p, o) PROVE JournalOwned'
      BY <3>4, ReindexMoves DEF Moves, JournalOwned, Reindex
    <3>5. CASE RebuildReturn(p)
      <4>1. Moves(p, "closed", "none", NoObs, {}, {})
        BY <3>5, RebuildReturnMoves
      <4>2. /\ pc[p] = "reindex" /\ UNCHANGED <<objects, observations, transactions, journal>>
        BY <3>5, RebuildReturnQuiet
      <4> QED BY <4>1, <4>2 DEF Moves, JournalOwned
    <3> QED BY <2>5, <3>1, <3>2, <3>3, <3>4, <3>5 DEF Rebuilding
  <2>6. CASE \E p \in Proc : Crash(p)
    BY <2>6, CrashMoves DEF Moves, JournalOwned, Crash
  <2>7. ASSUME NEW p \in Proc, FailImport(p) PROVE JournalOwned'
    BY <2>1, <2>7, FailImportMoves DEF Moves, JournalOwned, FailImport, Fits
  <2> QED BY <2>0, <2>2, <2>3, <2>4, <2>5, <2>6, <2>7 DEF Next, Step
<1> QED BY <1>1, <1>2, TypeCorrect, TaskCorrect, PTL DEF Spec

-----------------------------------------------------------------------------
(* What a purge holds is what its journal says, less the records it has     *)
(* removed; the lock keeps everyone else from adding a record or a journal. *)
THEOREM JournalInHandCorrect == Spec => []JournalInHand
<1> USE DEF Removing
<1>1. Init => JournalInHand
  BY DEF Init, JournalInHand
<1>2. TypeInv /\ LockHeld /\ RecordInHand /\ JournalInHand /\ [Next]_vars => JournalInHand'
  <2> SUFFICES ASSUME TypeInv, LockHeld, RecordInHand, JournalInHand, [Next]_vars
               PROVE  JournalInHand'
    OBVIOUS
  <2> USE DEF disk
  <2>0. CASE UNCHANGED vars
    BY <2>0 DEF vars, JournalInHand
  <2>1. \A p, q \in Proc : pc[p] \in Locked /\ q # p => pc[q] \notin Removing
    BY DEF LockHeld, Locked
  <2>2. ASSUME NEW p \in Proc, Opening(p) PROVE JournalInHand'
    <3>1. CASE OpenLock(p)
      BY <3>1, OpenLockMoves DEF Moves, JournalInHand, OpenLock
    <3>2. ASSUME NEW o \in Obs, ReplayTransaction(p, o) PROVE JournalInHand'
      BY <3>2, ReplayTransactionMoves DEF Moves, JournalInHand, ReplayTransaction
    <3>3. CASE ReplayJournal(p)
      BY <3>3, ReplayJournalMoves, ReplayJournalQuiet DEF Moves, JournalInHand
    <3>4. CASE OpenReturn(p)
      BY <3>4, OpenReturnMoves, OpenReturnQuiet DEF Moves, JournalInHand
    <3> QED BY <2>2, <3>1, <3>2, <3>3, <3>4 DEF Opening
  <2>3. ASSUME NEW p \in Proc, Importing(p) PROVE JournalInHand'
    <3>1. ASSUME NEW o \in Obs, StartImport(p, o) PROVE JournalInHand'
      BY <3>1, StartImportMoves DEF Moves, JournalInHand, StartImport
    <3>2. ASSUME NEW x \in Object, StoreComponent(p, x) PROVE JournalInHand'
      BY <3>2, StoreComponentMoves DEF Moves, JournalInHand, StoreComponent
    <3>3. CASE AddLock(p)
      BY <3>3, AddLockMoves DEF Moves, JournalInHand, AddLock
    <3>4. CASE WriteTransaction(p)
      BY <3>4, WriteTransactionMoves DEF Moves, JournalInHand, WriteTransaction
    <3>5. CASE CommitObservation(p)
      BY <2>1, <3>5, CommitObservationMoves
      DEF Moves, JournalInHand, CommitObservation, Locked
    <3>6. CASE CommitIndex(p)
      BY <3>6, CommitIndexMoves DEF Moves, JournalInHand, CommitIndex
    <3>7. CASE RemoveTransaction(p)
      BY <3>7, RemoveTransactionMoves DEF Moves, JournalInHand, RemoveTransaction
    <3> QED BY <2>3, <3>1, <3>2, <3>3, <3>4, <3>5, <3>6, <3>7 DEF Importing
  <2>4. ASSUME NEW p \in Proc, Purging(p) PROVE JournalInHand'
    <3>1. ASSUME NEW S \in SUBSET Obs, SelectForPurge(p, S) PROVE JournalInHand'
      BY <3>1, SelectForPurgeMoves, SelectForPurgeQuiet DEF Moves, JournalInHand
    <3>2. CASE PurgeLock(p)
      <4>1. /\ work'[p].task = work[p].task /\ work'[p].ids = work[p].ids
            /\ pc'[p] = "writeJournal"
            /\ \A q \in Proc \ {p} : pc'[q] = pc[q] /\ work'[q] = work[q]
        BY <3>2, PurgeLockMoves DEF Moves
      <4>2. /\ pc[p] = "selected" /\ UNCHANGED <<objects, observations, transactions, journal>>
        BY <3>2, PurgeLockQuiet
      <4> QED BY <4>1, <4>2 DEF Moves, JournalInHand
    <3>3. CASE WriteJournal(p)
      <4>1. journal' \in Journal
        BY <3>3, WorkFields DEF WriteJournal, Journal, TypeInv, TypeOK
      <4>2. pc[p] \in Locked
        BY <3>3 DEF WriteJournal, Locked
      <4> QED BY <2>1, <3>3, <4>1, <4>2, WriteJournalMoves, JournalAssumption
          DEF Moves, JournalInHand, WriteJournal
    <3>4. ASSUME NEW o \in Obs, Unindex(p, o) PROVE JournalInHand'
      <4>1. pc[p] = "unindex" /\ UNCHANGED <<journal, observations>>
        BY <3>4 DEF Unindex
      <4> QED BY <3>4, <4>1, UnindexMoves DEF Moves, JournalInHand
    <3>5. CASE RemoveRecord(p)
      BY <3>5, RemoveRecordMoves DEF Moves, JournalInHand, RemoveRecord, RecordInHand
    <3>6. CASE FindSurvivors(p)
      BY <3>6, FindSurvivorsMoves DEF Moves, JournalInHand, FindSurvivors
    <3>7. ASSUME NEW x \in Object, RemoveObject(p, x) PROVE JournalInHand'
      BY <3>7, RemoveObjectMoves DEF Moves, JournalInHand, RemoveObject
    <3>8. CASE RemoveJournal(p)
      <4>1. pc[p] \in Locked
        BY <3>8 DEF RemoveJournal, Locked
      <4> QED BY <2>1, <3>8, <4>1, RemoveJournalMoves DEF Moves, JournalInHand
    <3> QED BY <2>4, <3>1, <3>2, <3>3, <3>4, <3>5, <3>6, <3>7, <3>8 DEF Purging
  <2>5. ASSUME NEW p \in Proc, Rebuilding(p) PROVE JournalInHand'
    <3>1. CASE RebuildLock(p)
      BY <3>1, RebuildLockMoves DEF Moves, JournalInHand, RebuildLock
    <3>2. ASSUME NEW c \in Chunk, ClearChunk(p, c) PROVE JournalInHand'
      BY <3>2 DEF JournalInHand, ClearChunk
    <3>3. CASE Cleared(p)
      BY <3>3, ClearedMoves DEF Moves, JournalInHand, Cleared
    <3>4. ASSUME NEW o \in Obs, Reindex(p, o) PROVE JournalInHand'
      BY <3>4, ReindexMoves DEF Moves, JournalInHand, Reindex
    <3>5. CASE RebuildReturn(p)
      <4>1. Moves(p, "closed", "none", NoObs, {}, {})
        BY <3>5, RebuildReturnMoves
      <4>2. /\ pc[p] = "reindex" /\ UNCHANGED <<objects, observations, transactions, journal>>
        BY <3>5, RebuildReturnQuiet
      <4> QED BY <4>1, <4>2 DEF Moves, JournalInHand
    <3> QED BY <2>5, <3>1, <3>2, <3>3, <3>4, <3>5 DEF Rebuilding
  <2>6. CASE \E p \in Proc : Crash(p)
    BY <2>6, CrashMoves DEF Moves, JournalInHand, Crash
  <2>7. ASSUME NEW p \in Proc, FailImport(p) PROVE JournalInHand'
    BY <2>7, FailImportMoves DEF Moves, JournalInHand, FailImport
  <2> QED BY <2>0, <2>2, <2>3, <2>4, <2>5, <2>6, <2>7 DEF Next, Step
<1>3. RecordInv => RecordInHand
  BY DEF RecordInv
<1> QED BY <1>1, <1>2, <1>3, TypeCorrect, LockCorrect, RecordsCorrect, PTL DEF Spec

(* UnlistedIsPending, with what keeps it: a transaction being carried out   *)
(* is on disk until its record is listed.                                   *)
ListInv ==
  /\ UnlistedIsPending
  /\ \A p \in Proc :
       /\ pc[p] \in Committing => work[p].at \in transactions
       /\ pc[p] = "removeTx" => Indexed(work[p].at)

(* Each step that takes a record off the list does so under a journal that  *)
(* names it, or in a rebuild that is marked, and each step that adds a      *)
(* record does so under its transaction.                                    *)
THEOREM ListedCorrect ==
  ASSUME OnePurger
  PROVE  Spec => []ListInv
<1> USE DEF Removing, Committing
<1>1. Init => ListInv
  BY DEF Init, ListInv, UnlistedIsPending
<1>2. TypeInv /\ LockHeld /\ TaskFits /\ RebuildInv /\ JournalOwned /\ JournalInHand
        /\ ListInv /\ [Next]_vars => ListInv'
  <2> SUFFICES ASSUME TypeInv, LockHeld, TaskFits, RebuildInv, JournalOwned, JournalInHand,
                      ListInv, [Next]_vars
               PROVE  ListInv'
    OBVIOUS
  <2> USE ObsAssumption
      DEF disk, history, Moves, ListInv, UnlistedIsPending, Pending, Journalled, Indexed
  <2>0. CASE UNCHANGED vars
    BY <2>0 DEF vars
  <2>1. \A p, q \in Proc : pc[p] \in Locked /\ q # p => pc[q] \notin Committing
    BY DEF LockHeld, Locked
  <2>2. ASSUME NEW p \in Proc, Opening(p) PROVE ListInv'
    <3>1. CASE OpenLock(p)
      BY <3>1, OpenLockMoves DEF OpenLock
    <3>2. ASSUME NEW o \in Obs, ReplayTransaction(p, o) PROVE ListInv'
      BY <3>2, ReplayTransactionMoves DEF ReplayTransaction
    <3>3. CASE ReplayJournal(p)
      BY <3>3, ReplayJournalMoves, ReplayJournalQuiet
    <3>4. CASE OpenReturn(p)
      BY <3>4, OpenReturnMoves, OpenReturnQuiet
    <3> QED BY <2>2, <3>1, <3>2, <3>3, <3>4 DEF Opening
  <2>3. ASSUME NEW p \in Proc, Importing(p) PROVE ListInv'
    <3>1. ASSUME NEW o \in Obs, StartImport(p, o) PROVE ListInv'
      BY <3>1, StartImportMoves DEF StartImport
    <3>2. ASSUME NEW x \in Object, StoreComponent(p, x) PROVE ListInv'
      BY <3>2, StoreComponentMoves DEF StoreComponent
    <3>3. CASE AddLock(p)
      BY <3>3, AddLockMoves DEF AddLock
    <3>4. CASE WriteTransaction(p)
      BY <3>4, WriteTransactionMoves DEF WriteTransaction
    <3>5. CASE CommitObservation(p)
      BY <3>5, CommitObservationMoves DEF CommitObservation
    <3>6. CASE CommitIndex(p)
      <4>1. work[p].at \in Obs /\ pc[p] \in Locked
        BY <3>6 DEF CommitIndex, TypeInv, InHand, Handling, Locked
      <4>2. Indexed(work[p].at)' /\ \A o \in Obs : Indexed(o) => Indexed(o)'
        BY <3>6, <4>1 DEF CommitIndex, Listed, TypeInv, TypeOK
      <4> QED BY <2>1, <3>6, <4>1, <4>2, CommitIndexMoves DEF CommitIndex, TypeInv, TypeOK
    <3>7. CASE RemoveTransaction(p)
      <4>1. pc[p] = "removeTx" /\ pc[p] \in Locked
        BY <3>7 DEF RemoveTransaction, Locked
      <4>2. /\ UNCHANGED <<observations, index, journal, halfRebuilt>>
            /\ transactions' = transactions \ {work[p].at}
        BY <3>7 DEF RemoveTransaction
      <4>3. \A q \in Proc : pc'[q] \notin Committing
        BY <2>1, <3>7, <4>1, RemoveTransactionMoves
      <4> QED BY <4>1, <4>2, <4>3
    <3> QED BY <2>3, <3>1, <3>2, <3>3, <3>4, <3>5, <3>6, <3>7 DEF Importing
  <2>4. ASSUME NEW p \in Proc, Purging(p) PROVE ListInv'
    <3>1. ASSUME NEW S \in SUBSET Obs, SelectForPurge(p, S) PROVE ListInv'
      BY <3>1, SelectForPurgeMoves, SelectForPurgeQuiet
    <3>2. CASE PurgeLock(p)
      BY <3>2, PurgeLockMoves, PurgeLockQuiet
    <3>3. CASE WriteJournal(p)
      <4>1. journal = NoJournal
        BY <3>3 DEF WriteJournal, JournalOwned, TaskFits, Fits
      <4> QED BY <3>3, <4>1, WriteJournalMoves DEF WriteJournal
    <3>4. ASSUME NEW o \in Obs, Unindex(p, o) PROVE ListInv'
      <4>1. /\ pc[p] = "unindex" /\ pc[p] \in Locked /\ o \in work[p].ids
            /\ UNCHANGED <<observations, transactions, journal, halfRebuilt>>
        BY <3>4 DEF Unindex, Locked
      <4>2. Journalled(o)
        BY <4>1 DEF JournalInHand
      <4>3. \A b \in Obs : Indexed(b) /\ b # o => Indexed(b)'
        BY <3>4 DEF Unindex, Unlisted, TypeInv, TypeOK
      <4>4. \A q \in Proc : pc'[q] \notin Committing
        BY <2>1, <3>4, <4>1, UnindexMoves
      <4> QED BY <4>1, <4>2, <4>3, <4>4 DEF TypeInv, TypeOK
    <3>5. CASE RemoveRecord(p)
      BY <3>5, RemoveRecordMoves DEF RemoveRecord
    <3>6. CASE FindSurvivors(p)
      BY <3>6, FindSurvivorsMoves DEF FindSurvivors
    <3>7. ASSUME NEW x \in Object, RemoveObject(p, x) PROVE ListInv'
      BY <3>7, RemoveObjectMoves DEF RemoveObject
    <3>8. CASE RemoveJournal(p)
      <4>1. pc[p] = "removeObject" /\ UNCHANGED <<observations, index, transactions, halfRebuilt>>
        BY <3>8 DEF RemoveJournal
      <4>2. \A o \in observations : ~Journalled(o)
        BY <4>1 DEF JournalInHand
      <4> QED BY <3>8, <4>1, <4>2, RemoveJournalMoves
    <3> QED BY <2>4, <3>1, <3>2, <3>3, <3>4, <3>5, <3>6, <3>7, <3>8 DEF Purging
  <2>5. ASSUME NEW p \in Proc, Rebuilding(p) PROVE ListInv'
    <3>1. CASE RebuildLock(p)
      BY <3>1, RebuildLockMoves DEF RebuildLock
    <3>2. ASSUME NEW c \in Chunk, ClearChunk(p, c) PROVE ListInv'
      BY <2>1, <3>2 DEF ClearChunk, Locked
    <3>3. CASE Cleared(p)
      BY <3>3, ClearedMoves DEF Cleared
    <3>4. ASSUME NEW o \in Obs, Reindex(p, o) PROVE ListInv'
      <4>1. \A b \in Obs : Indexed(b) => Indexed(b)'
        BY <3>4 DEF Reindex, Listed, TypeInv, TypeOK
      <4> QED BY <2>1, <3>4, <4>1, ReindexMoves DEF Reindex, Locked, TypeInv, TypeOK
    <3>5. CASE RebuildReturn(p)
      BY <3>5, RebuildReturnMoves, RebuildReturnQuiet DEF RebuildInv
    <3> QED BY <2>5, <3>1, <3>2, <3>3, <3>4, <3>5 DEF Rebuilding
  <2>6. CASE \E p \in Proc : Crash(p)
    BY <2>6, CrashMoves DEF Crash
  <2>7. ASSUME NEW p \in Proc, FailImport(p) PROVE ListInv'
    BY <2>7, FailImportMoves DEF FailImport
  <2> QED BY <2>0, <2>2, <2>3, <2>4, <2>5, <2>6, <2>7 DEF Next, Step
<1> QED BY <1>1, <1>2, TypeCorrect, LockCorrect, TaskCorrect, RebuildCorrect, JournalOwnedCorrect,
           JournalInHandCorrect, PTL DEF Spec

(* A record its chunk's index does not list is always one that a            *)
(* transaction, the journal or a rebuild that did not return accounts for   *)
(* (UnlistedIsPending).                                                     *)
THEOREM UnlistedIsPendingCorrect ==
  ASSUME OnePurger
  PROVE  Spec => []UnlistedIsPending
<1>1. ListInv => UnlistedIsPending
  BY DEF ListInv
<1> QED BY <1>1, ListedCorrect, PTL


-----------------------------------------------------------------------------
(* What is left of the withdrawn objects is referenced by a record that     *)
(* stays, or named in the journal; in the last part of a purge it is in     *)
(* hand.                                                                    *)
EraseInv ==
  /\ \A p \in Proc :
       /\ pc[p] = "writeJournal" =>
            work[p].refs = ReferencedBy(work[p].ids \cap observations)
       /\ pc[p] = "removeObject" =>
            withdrawn \cap objects \cap journal.refs
              \subseteq work[p].refs \cup ReferencedBy(observations)
  /\ journal = NoJournal => withdrawn \cap objects \subseteq ReferencedBy(observations)
  /\ journal # NoJournal =>
       withdrawn \cap objects \subseteq journal.refs \cup ReferencedBy(observations \ journal.ids)

(* What a set of records references, element by element.                    *)
LEMMA Referenced ==
  ASSUME NEW S, NEW x PROVE x \in ReferencedBy(S) <=> \E o \in S : x \in Refs[o]
BY DEF ReferencedBy

(* A purge takes off its list only objects a surviving record references    *)
(* and removes the rest before it removes the journal.                      *)
THEOREM EraseCorrect ==
  ASSUME OnePurger
  PROVE  Spec => []EraseInv
<1> USE DEF Removing
<1>1. Init => EraseInv
  BY DEF Init, EraseInv
<1>2. TypeInv /\ LockHeld /\ RecordInHand /\ TaskFits /\ JournalOwned /\ JournalInHand
        /\ EraseInv /\ [Next]_vars => EraseInv'
  <2> SUFFICES ASSUME TypeInv, LockHeld, RecordInHand, TaskFits, JournalOwned, JournalInHand,
                      EraseInv, [Next]_vars
               PROVE  EraseInv'
    OBVIOUS
  <2> USE DEF disk, history
  <2>0. CASE UNCHANGED vars
    BY <2>0 DEF vars, EraseInv, ReferencedBy
  <2>1. \A p, q \in Proc : pc[p] \in Locked /\ q # p => pc[q] \notin Locked
    BY DEF LockHeld
  <2>2. ASSUME NEW p \in Proc, Opening(p) PROVE EraseInv'
    <3>1. CASE OpenLock(p)
      BY <3>1, OpenLockMoves DEF EraseInv, Moves, ReferencedBy, OpenLock
    <3>2. ASSUME NEW o \in Obs, ReplayTransaction(p, o) PROVE EraseInv'
      BY <3>2, ReplayTransactionMoves DEF EraseInv, Moves, ReferencedBy, ReplayTransaction
    <3>3. CASE ReplayJournal(p)
      BY <3>3, ReplayJournalMoves, ReplayJournalQuiet DEF EraseInv, Moves, ReferencedBy
    <3>4. CASE OpenReturn(p)
      BY <3>4, OpenReturnMoves, OpenReturnQuiet DEF EraseInv, Moves, ReferencedBy
    <3> QED BY <2>2, <3>1, <3>2, <3>3, <3>4 DEF Opening
  <2>3. ASSUME NEW p \in Proc, Importing(p) PROVE EraseInv'
    <3>1. ASSUME NEW o \in Obs, StartImport(p, o) PROVE EraseInv'
      BY <3>1, StartImportMoves DEF EraseInv, Moves, ReferencedBy, StartImport
    <3>2. ASSUME NEW x \in Object, StoreComponent(p, x) PROVE EraseInv'
      <4>1. /\ pc[p] = "store" /\ UNCHANGED <<observations, journal>>
            /\ withdrawn' \cap objects' \subseteq withdrawn \cap objects
        BY <3>2 DEF StoreComponent
      <4>2. \A q \in Proc : pc'[q] \in Locked => pc'[q] = pc[q] /\ work'[q] = work[q]
        BY <3>2, <4>1, StoreComponentMoves DEF Moves, Locked
      <4> QED BY <4>1, <4>2 DEF EraseInv, ReferencedBy, Locked
    <3>3. CASE AddLock(p)
      BY <3>3, AddLockMoves DEF EraseInv, Moves, ReferencedBy, AddLock
    <3>4. CASE WriteTransaction(p)
      BY <3>4, WriteTransactionMoves DEF EraseInv, Moves, ReferencedBy, WriteTransaction
    <3>5. CASE CommitObservation(p)
      <4>1. /\ pc[p] = "commitObservation" /\ UNCHANGED <<objects, journal, withdrawn>>
            /\ observations \subseteq observations'
        BY <3>5 DEF CommitObservation
      <4>2. \A q \in Proc : pc'[q] \notin {"writeJournal", "removeObject"}
        BY <2>1, <3>5, <4>1, CommitObservationMoves DEF Moves, Locked
      <4> QED BY <4>1, <4>2, Referenced DEF EraseInv
    <3>6. CASE CommitIndex(p)
      BY <3>6, CommitIndexMoves DEF EraseInv, Moves, ReferencedBy, CommitIndex
    <3>7. CASE RemoveTransaction(p)
      <4>1. UNCHANGED <<objects, observations, journal, withdrawn>>
        BY <3>7 DEF RemoveTransaction
      <4> QED BY <3>7, <4>1, RemoveTransactionMoves DEF EraseInv, Moves, ReferencedBy
    <3> QED BY <2>3, <3>1, <3>2, <3>3, <3>4, <3>5, <3>6, <3>7 DEF Importing
  <2>4. ASSUME NEW p \in Proc, Purging(p) PROVE EraseInv'
    <3>1. ASSUME NEW S \in SUBSET Obs, SelectForPurge(p, S) PROVE EraseInv'
      BY <3>1, SelectForPurgeMoves, SelectForPurgeQuiet DEF EraseInv, Moves, ReferencedBy
    <3>2. CASE PurgeLock(p)
      <4>1. UNCHANGED <<objects, observations, journal, withdrawn>>
        BY <3>2 DEF PurgeLock
      <4> QED BY <3>2, <4>1, PurgeLockMoves DEF EraseInv, Moves, ReferencedBy
    <3>3. CASE WriteJournal(p)
      <4>1. /\ pc[p] = "writeJournal" /\ UNCHANGED <<objects, observations>>
            /\ withdrawn' = withdrawn \cup work[p].refs
            /\ journal' = [ids |-> work[p].ids, refs |-> work[p].refs]
        BY <3>3 DEF WriteJournal
      <4>2. journal = NoJournal
        BY <4>1 DEF JournalOwned, TaskFits, Fits
      <4>3. \A q \in Proc : pc'[q] \notin {"writeJournal", "removeObject"}
        BY <2>1, <3>3, <4>1, WriteJournalMoves DEF Moves, Locked
      <4>4. withdrawn \cap objects \subseteq ReferencedBy(observations)
        BY <4>2 DEF EraseInv
      <4>5. ReferencedBy(observations) \subseteq
              ReferencedBy(work[p].ids \cap observations)
                \cup ReferencedBy(observations \ work[p].ids)
        BY Referenced
      <4>6. work[p].refs = ReferencedBy(work[p].ids \cap observations)
        BY <4>1 DEF EraseInv
      <4>7. journal' \in Journal /\ journal'.ids = work[p].ids /\ journal'.refs = work[p].refs
        BY <4>1, WorkFields DEF Journal, TypeInv, TypeOK
      <4>8. journal' # NoJournal
        BY <4>7, JournalAssumption
      <4>9. withdrawn' \cap objects' \subseteq
               journal'.refs \cup ReferencedBy(observations' \ journal'.ids)
        BY <4>1, <4>4, <4>5, <4>6, <4>7
      <4> QED BY <4>3, <4>8, <4>9 DEF EraseInv, ReferencedBy
    <3>4. ASSUME NEW o \in Obs, Unindex(p, o) PROVE EraseInv'
      <4>1. pc[p] = "unindex" /\ UNCHANGED <<objects, observations, journal, withdrawn>>
        BY <3>4 DEF Unindex
      <4> QED BY <3>4, <4>1, UnindexMoves DEF EraseInv, Moves, ReferencedBy
    <3>5. CASE RemoveRecord(p)
      <4>1. /\ pc[p] = "removeRecord" /\ UNCHANGED <<objects, journal, withdrawn>>
            /\ observations' = observations \ {work[p].at}
        BY <3>5 DEF RemoveRecord
      <4>2. journal # NoJournal /\ work[p].at \in journal.ids
        BY <4>1 DEF JournalInHand, RecordInHand
      <4>3. \A q \in Proc : pc'[q] \notin {"writeJournal", "removeObject"}
        BY <2>1, <3>5, <4>1, RemoveRecordMoves DEF Moves, Locked
      <4>4. observations' \ journal'.ids = observations \ journal.ids
        BY <4>1, <4>2
      <4> QED BY <4>1, <4>2, <4>3, <4>4 DEF EraseInv, ReferencedBy
    <3>6. CASE FindSurvivors(p)
      <4>1. pc[p] = "unindex" /\ UNCHANGED <<objects, observations, journal, withdrawn>>
        BY <3>6 DEF FindSurvivors
      <4>2. work[p].refs = journal.refs /\ journal # NoJournal
        BY <4>1 DEF JournalInHand
      <4>3. \A q \in Proc \ {p} : pc'[q] \notin {"writeJournal", "removeObject"}
        BY <2>1, <3>6, <4>1, FindSurvivorsMoves DEF Moves, Locked
      <4>4. /\ pc'[p] = "removeObject"
            /\ work'[p].refs = journal.refs \ ReferencedBy(observations)
        BY <3>6, <4>2, FindSurvivorsMoves DEF Moves
      <4>5. ReferencedBy(observations)' = ReferencedBy(observations)
        BY <4>1 DEF ReferencedBy
      <4> QED BY <4>1, <4>2, <4>3, <4>4, <4>5 DEF EraseInv, ReferencedBy
    <3>7. ASSUME NEW x \in Object, RemoveObject(p, x) PROVE EraseInv'
      <4>1. /\ pc[p] = "removeObject" /\ UNCHANGED <<observations, journal, withdrawn>>
            /\ objects' = objects \ {x}
        BY <3>7 DEF RemoveObject
      <4>2. \A q \in Proc \ {p} : pc'[q] \notin {"writeJournal", "removeObject"}
        BY <2>1, <3>7, <4>1, RemoveObjectMoves DEF Moves, Locked
      <4>3. pc'[p] = "removeObject" /\ work'[p].refs = work[p].refs \ {x}
        BY <3>7, RemoveObjectMoves DEF Moves
      <4>4. ReferencedBy(observations)' = ReferencedBy(observations)
        BY <4>1 DEF ReferencedBy
      <4> QED BY <4>1, <4>2, <4>3, <4>4 DEF EraseInv, ReferencedBy
    <3>8. CASE RemoveJournal(p)
      <4>1. /\ pc[p] = "removeObject" /\ work[p].refs = {} /\ journal' = NoJournal
            /\ UNCHANGED <<objects, observations, withdrawn>>
        BY <3>8 DEF RemoveJournal
      <4>2. \A q \in Proc : pc'[q] \notin {"writeJournal", "removeObject"}
        BY <2>1, <3>8, <4>1, RemoveJournalMoves DEF Moves, Locked
      <4>3. journal # NoJournal
        BY <4>1 DEF JournalInHand
      <4>4. withdrawn \cap objects \subseteq ReferencedBy(observations)
        <5>1. withdrawn \cap objects \cap journal.refs \subseteq ReferencedBy(observations)
          BY <4>1 DEF EraseInv
        <5>2. ReferencedBy(observations \ journal.ids) \subseteq ReferencedBy(observations)
          BY Referenced
        <5> QED BY <4>3, <5>1, <5>2 DEF EraseInv
      <4> QED BY <4>1, <4>2, <4>4 DEF EraseInv, ReferencedBy
    <3> QED BY <2>4, <3>1, <3>2, <3>3, <3>4, <3>5, <3>6, <3>7, <3>8 DEF Purging
  <2>5. ASSUME NEW p \in Proc, Rebuilding(p) PROVE EraseInv'
    <3>1. CASE RebuildLock(p)
      BY <3>1, RebuildLockMoves DEF EraseInv, Moves, ReferencedBy, RebuildLock
    <3>2. ASSUME NEW c \in Chunk, ClearChunk(p, c) PROVE EraseInv'
      BY <3>2 DEF ClearChunk, EraseInv, ReferencedBy
    <3>3. CASE Cleared(p)
      BY <3>3, ClearedMoves DEF EraseInv, Moves, ReferencedBy, Cleared
    <3>4. ASSUME NEW o \in Obs, Reindex(p, o) PROVE EraseInv'
      BY <3>4, ReindexMoves DEF EraseInv, Moves, ReferencedBy, Reindex
    <3>5. CASE RebuildReturn(p)
      <4>1. Moves(p, "closed", "none", NoObs, {}, {})
        BY <3>5, RebuildReturnMoves
      <4>2. UNCHANGED <<objects, observations, journal, withdrawn>>
        BY <3>5, RebuildReturnQuiet
      <4>3. \A q \in Proc : pc'[q] \in {"writeJournal", "removeObject"} =>
                             pc'[q] = pc[q] /\ work'[q] = work[q]
        BY <4>1 DEF Moves
      <4> QED BY <4>2, <4>3 DEF EraseInv, ReferencedBy
    <3> QED BY <2>5, <3>1, <3>2, <3>3, <3>4, <3>5 DEF Rebuilding
  <2>6. CASE \E p \in Proc : Crash(p)
    BY <2>6, CrashMoves DEF EraseInv, Moves, ReferencedBy, Crash
  <2>7. ASSUME NEW p \in Proc, FailImport(p) PROVE EraseInv'
    BY <2>7, FailImportMoves DEF EraseInv, Moves, ReferencedBy, FailImport
  <2> QED BY <2>0, <2>2, <2>3, <2>4, <2>5, <2>6, <2>7 DEF Next, Step
<1>3. RecordInv => RecordInHand
  BY DEF RecordInv
<1> QED BY <1>1, <1>2, <1>3, TypeCorrect, LockCorrect, TaskCorrect, RecordsCorrect,
           JournalOwnedCorrect, JournalInHandCorrect, PTL DEF Spec

(* When no purge is under way, no withdrawn object is left but those a      *)
(* record references (WithdrawnIsErased).                                   *)
THEOREM WithdrawnIsErasedCorrect ==
  ASSUME OnePurger
  PROVE  Spec => []WithdrawnIsErased
<1>1. EraseInv => WithdrawnIsErased
  BY DEF EraseInv, WithdrawnIsErased
<1> QED BY <1>1, EraseCorrect, PTL


-----------------------------------------------------------------------------
(* One process has the archive to itself. With several, an import can find  *)
(* an object stored that a purge is about to remove, and the properties     *)
(* below fail: the run for them has one process too.                        *)
OneProcess == \A p, q \in Proc : p = q

(* NoDanglingReference, with what keeps it: the components of a record are  *)
(* stored before its transaction, an import has in hand those it has not    *)
(* stored, and no transaction is left when a command runs.                  *)
ComponentsInv ==
  /\ \A o \in observations \cup transactions : Journalled(o) \/ Refs[o] \subseteq objects
  /\ \A p \in Proc :
       /\ pc[p] \in {"ready", "selected", "writeJournal"} \cup Removing => transactions = {}
       /\ pc[p] = "store" => Refs[work[p].at] \subseteq objects \cup work[p].refs
       /\ work[p].task \in {"import", "retry"} /\ pc[p] # "store" =>
            Refs[work[p].at] \subseteq objects

(* Objects are removed by a purge alone, and the record of an object a      *)
(* purge removes is journalled or gone; whoever comes next replays the      *)
(* journal first.                                                           *)
THEOREM ComponentsCorrect ==
  ASSUME OneProcess
  PROVE  Spec => []ComponentsInv
<1> USE DEF Removing, Committing
<1>0. OnePurger
  BY ProcAssumption DEF OneProcess, OnePurger
<1>1. Init => ComponentsInv
  BY DEF Init, ComponentsInv, Idle
<1>2. TypeInv /\ TaskFits /\ ListInv /\ JournalOwned /\ JournalInHand /\ SurvivorsKept
        /\ ComponentsInv /\ [Next]_vars => ComponentsInv'
  <2> SUFFICES ASSUME TypeInv, TaskFits, ListInv, JournalOwned, JournalInHand, SurvivorsKept,
                      ComponentsInv, [Next]_vars
               PROVE  ComponentsInv'
    OBVIOUS
  <2> USE ObsAssumption DEF disk, history, OneProcess, ComponentsInv, Moves, Journalled
  <2>0. CASE UNCHANGED vars
    BY <2>0 DEF vars
  <2>1. \A p \in Proc : Fits(pc[p], work[p].task)
    BY DEF TaskFits
  <2>2. ASSUME NEW p \in Proc, Opening(p) PROVE ComponentsInv'
    <3> USE <2>1 DEF Fits
    <3>1. CASE OpenLock(p)
      BY <3>1, OpenLockMoves DEF OpenLock
    <3>2. ASSUME NEW o \in Obs, ReplayTransaction(p, o) PROVE ComponentsInv'
      BY <3>2, ReplayTransactionMoves DEF ReplayTransaction
    <3>3. CASE ReplayJournal(p)
      <4>1. /\ pc[p] = "replay" /\ transactions = {} /\ journal # NoJournal
            /\ UNCHANGED <<objects, observations, transactions, journal>>
        BY <3>3 DEF ReplayJournal
      <4> QED BY <3>3, <4>1, ReplayJournalMoves
    <3>4. CASE OpenReturn(p)
      BY <3>4, OpenReturnMoves, OpenReturnQuiet
    <3> QED BY <2>2, <3>1, <3>2, <3>3, <3>4 DEF Opening
  <2>3. ASSUME NEW p \in Proc, Importing(p) PROVE ComponentsInv'
    <3> USE <2>1 DEF Fits
    <3>1. ASSUME NEW o \in Obs, StartImport(p, o) PROVE ComponentsInv'
      BY <3>1, StartImportMoves DEF StartImport
    <3>2. ASSUME NEW x \in Object, StoreComponent(p, x) PROVE ComponentsInv'
      BY <3>2, StoreComponentMoves DEF StoreComponent
    <3>3. CASE AddLock(p)
      BY <3>3, AddLockMoves DEF AddLock
    <3>4. CASE WriteTransaction(p)
      BY <3>4, WriteTransactionMoves DEF WriteTransaction
    <3>5. CASE CommitObservation(p)
      BY <3>5, CommitObservationMoves DEF CommitObservation, ListInv
    <3>6. CASE CommitIndex(p)
      BY <3>6, CommitIndexMoves DEF CommitIndex
    <3>7. CASE RemoveTransaction(p)
      <4>1. /\ UNCHANGED <<objects, observations, journal>>
            /\ transactions' \subseteq transactions /\ pc[p] = "removeTx"
        BY <3>7 DEF RemoveTransaction
      <4> QED BY <3>7, <4>1, RemoveTransactionMoves
    <3> QED BY <2>3, <3>1, <3>2, <3>3, <3>4, <3>5, <3>6, <3>7 DEF Importing
  <2>4. ASSUME NEW p \in Proc, Purging(p) PROVE ComponentsInv'
    <3> USE <2>1 DEF Fits
    <3>1. ASSUME NEW S \in SUBSET Obs, SelectForPurge(p, S) PROVE ComponentsInv'
      BY <3>1, SelectForPurgeMoves, SelectForPurgeQuiet
    <3>2. CASE PurgeLock(p)
      <4>1. /\ pc[p] = "selected"
            /\ UNCHANGED <<objects, observations, transactions, journal>>
        BY <3>2 DEF PurgeLock
      <4>2. pc'[p] = "writeJournal" /\ work'[p].task = work[p].task
        BY <3>2, PurgeLockMoves
      <4> QED BY <4>1, <4>2
    <3>3. CASE WriteJournal(p)
      <4>1. journal = NoJournal
        BY <3>3 DEF WriteJournal, JournalOwned
      <4> QED BY <3>3, <4>1, WriteJournalMoves DEF WriteJournal
    <3>4. ASSUME NEW o \in Obs, Unindex(p, o) PROVE ComponentsInv'
      <4>1. pc[p] = "unindex" /\ UNCHANGED <<objects, observations, transactions, journal>>
        BY <3>4 DEF Unindex
      <4> QED BY <3>4, <4>1, UnindexMoves
    <3>5. CASE RemoveRecord(p)
      BY <3>5, RemoveRecordMoves DEF RemoveRecord
    <3>6. CASE FindSurvivors(p)
      BY <3>6, FindSurvivorsMoves DEF FindSurvivors
    <3>7. ASSUME NEW x \in Object, RemoveObject(p, x) PROVE ComponentsInv'
      <4>1. /\ pc[p] = "removeObject" /\ x \in work[p].refs /\ objects' = objects \ {x}
            /\ UNCHANGED <<observations, transactions, journal>>
        BY <3>7 DEF RemoveObject
      <4>2. x \notin ReferencedBy(observations)
        BY <4>1 DEF SurvivorsKept
      <4>3. \A o \in observations : x \notin Refs[o]
        BY <4>2, Referenced
      <4>4. transactions = {} /\ work[p].task \notin {"import", "retry"}
        BY <4>1
      <4> QED BY <3>7, <4>1, <4>3, <4>4, RemoveObjectMoves
    <3>8. CASE RemoveJournal(p)
      <4>1. /\ pc[p] = "removeObject" /\ UNCHANGED <<objects, observations, transactions>>
        BY <3>8 DEF RemoveJournal
      <4>2. transactions = {} /\ \A o \in observations : ~Journalled(o)
        BY <4>1 DEF JournalInHand
      <4> QED BY <3>8, <4>1, <4>2, RemoveJournalMoves
    <3> QED BY <2>4, <3>1, <3>2, <3>3, <3>4, <3>5, <3>6, <3>7, <3>8 DEF Purging
  <2>5. ASSUME NEW p \in Proc, Rebuilding(p) PROVE ComponentsInv'
    <3> USE <2>1 DEF Fits
    <3>1. CASE RebuildLock(p)
      BY <3>1, RebuildLockMoves DEF RebuildLock
    <3>2. ASSUME NEW c \in Chunk, ClearChunk(p, c) PROVE ComponentsInv'
      BY <3>2 DEF ClearChunk
    <3>3. CASE Cleared(p)
      BY <3>3, ClearedMoves DEF Cleared
    <3>4. ASSUME NEW o \in Obs, Reindex(p, o) PROVE ComponentsInv'
      BY <3>4, ReindexMoves DEF Reindex
    <3>5. CASE RebuildReturn(p)
      <4>1. Moves(p, "closed", "none", NoObs, {}, {})
        BY <3>5, RebuildReturnMoves
      <4>2. /\ pc[p] = "reindex" /\ UNCHANGED <<objects, observations, transactions, journal>>
        BY <3>5, RebuildReturnQuiet
      <4> QED BY <4>1, <4>2
    <3> QED BY <2>5, <3>1, <3>2, <3>3, <3>4, <3>5 DEF Rebuilding
  <2>6. CASE \E p \in Proc : Crash(p)
    BY <2>6, CrashMoves DEF Crash
  <2>7. ASSUME NEW p \in Proc, FailImport(p) PROVE ComponentsInv'
    BY <2>7, FailImportMoves DEF FailImport
  <2> QED BY <2>0, <2>2, <2>3, <2>4, <2>5, <2>6, <2>7 DEF Next, Step
<1> QED BY <1>0, <1>1, <1>2, TypeCorrect, TaskCorrect, ListedCorrect, JournalOwnedCorrect,
           JournalInHandCorrect, SurvivorsCorrect, PTL DEF Spec

-----------------------------------------------------------------------------
(* Every component a record references is in the store, unless the journal  *)
(* names the record (NoDanglingReference).                                  *)
THEOREM NoDanglingReferenceCorrect ==
  ASSUME OneProcess
  PROVE  Spec => []NoDanglingReference
<1>1. ComponentsInv => NoDanglingReference
  BY DEF ComponentsInv, NoDanglingReference, Pending
<1> QED BY <1>1, ComponentsCorrect, PTL

(* PurgedStaysGone, with what keeps it: no import that is under way is      *)
(* about to write a purged record back.                                     *)
GoneInv ==
  /\ gone \cap (observations \cup transactions) = {}
  /\ \A p \in Proc : work[p].task \in {"import", "retry"} => work[p].at \notin gone

(* A record becomes gone when its removal returns and stays so until        *)
(* somebody imports it anew; transactions for it are finished before a      *)
(* purge can select it.                                                     *)
THEOREM GoneCorrect ==
  ASSUME OneProcess
  PROVE  Spec => []GoneInv
<1> USE DEF Removing, Committing
<1>0. OnePurger
  BY ProcAssumption DEF OneProcess, OnePurger
<1>1. Init => GoneInv
  BY DEF Init, GoneInv
<1>2. TypeInv /\ TaskFits /\ ListInv /\ JournalInHand /\ ComponentsInv
        /\ GoneInv /\ [Next]_vars => GoneInv'
  <2> SUFFICES ASSUME TypeInv, TaskFits, ListInv, JournalInHand, ComponentsInv,
                      GoneInv, [Next]_vars
               PROVE  GoneInv'
    OBVIOUS
  <2> USE DEF disk, history, OneProcess, GoneInv, Moves
  <2>0. CASE UNCHANGED vars
    BY <2>0 DEF vars
  <2>1. \A p \in Proc : Fits(pc[p], work[p].task)
    BY DEF TaskFits
  <2>2. ASSUME NEW p \in Proc, Opening(p) PROVE GoneInv'
    <3> USE <2>1 DEF Fits
    <3>1. CASE OpenLock(p)
      BY <3>1, OpenLockMoves DEF OpenLock
    <3>2. ASSUME NEW o \in Obs, ReplayTransaction(p, o) PROVE GoneInv'
      BY <3>2, ReplayTransactionMoves DEF ReplayTransaction
    <3>3. CASE ReplayJournal(p)
      BY <3>3, ReplayJournalMoves, ReplayJournalQuiet
    <3>4. CASE OpenReturn(p)
      BY <3>4, OpenReturnMoves, OpenReturnQuiet
    <3> QED BY <2>2, <3>1, <3>2, <3>3, <3>4 DEF Opening
  <2>3. ASSUME NEW p \in Proc, Importing(p) PROVE GoneInv'
    <3> USE <2>1 DEF Fits
    <3>1. ASSUME NEW o \in Obs, StartImport(p, o) PROVE GoneInv'
      BY <3>1, StartImportMoves DEF StartImport
    <3>2. ASSUME NEW x \in Object, StoreComponent(p, x) PROVE GoneInv'
      BY <3>2, StoreComponentMoves DEF StoreComponent
    <3>3. CASE AddLock(p)
      BY <3>3, AddLockMoves DEF AddLock
    <3>4. CASE WriteTransaction(p)
      BY <3>4, WriteTransactionMoves DEF WriteTransaction
    <3>5. CASE CommitObservation(p)
      BY <3>5, CommitObservationMoves DEF CommitObservation, ListInv
    <3>6. CASE CommitIndex(p)
      BY <3>6, CommitIndexMoves DEF CommitIndex
    <3>7. CASE RemoveTransaction(p)
      <4>1. /\ UNCHANGED <<gone, observations>>
            /\ transactions' \subseteq transactions /\ pc[p] = "removeTx"
        BY <3>7 DEF RemoveTransaction
      <4> QED BY <3>7, <4>1, RemoveTransactionMoves
    <3> QED BY <2>3, <3>1, <3>2, <3>3, <3>4, <3>5, <3>6, <3>7 DEF Importing
  <2>4. ASSUME NEW p \in Proc, Purging(p) PROVE GoneInv'
    <3> USE <2>1 DEF Fits
    <3>1. ASSUME NEW S \in SUBSET Obs, SelectForPurge(p, S) PROVE GoneInv'
      BY <3>1, SelectForPurgeMoves, SelectForPurgeQuiet
    <3>2. CASE PurgeLock(p)
      <4>1. pc[p] = "selected" /\ UNCHANGED <<observations, transactions, gone>>
        BY <3>2 DEF PurgeLock
      <4>2. work'[p].task = work[p].task
        BY <3>2, PurgeLockMoves
      <4> QED BY <3>2, <4>1, <4>2
    <3>3. CASE WriteJournal(p)
      BY <3>3, WriteJournalMoves DEF WriteJournal
    <3>4. ASSUME NEW o \in Obs, Unindex(p, o) PROVE GoneInv'
      <4>1. pc[p] = "unindex" /\ UNCHANGED <<observations, transactions, gone>>
        BY <3>4 DEF Unindex
      <4>2. work'[p].task = work[p].task
        BY <3>4, UnindexMoves
      <4> QED BY <4>1, <4>2
    <3>5. CASE RemoveRecord(p)
      BY <3>5, RemoveRecordMoves DEF RemoveRecord
    <3>6. CASE FindSurvivors(p)
      BY <3>6, FindSurvivorsMoves DEF FindSurvivors
    <3>7. ASSUME NEW x \in Object, RemoveObject(p, x) PROVE GoneInv'
      BY <3>7, RemoveObjectMoves DEF RemoveObject
    <3>8. CASE RemoveJournal(p)
      <4>1. /\ pc[p] = "removeObject" /\ UNCHANGED <<observations, transactions>>
            /\ gone' \subseteq gone \cup {o \in Obs : Journalled(o)}
        BY <3>8 DEF RemoveJournal
      <4>2. transactions = {} /\ \A o \in observations : ~Journalled(o)
        BY <4>1 DEF JournalInHand, ComponentsInv, Journalled
      <4>3. work'[p].task \in {"open", "none"}
        BY <3>8, <4>1, RemoveJournalMoves
      <4> QED BY <3>8, <4>1, <4>2, <4>3
    <3> QED BY <2>4, <3>1, <3>2, <3>3, <3>4, <3>5, <3>6, <3>7, <3>8 DEF Purging
  <2>5. ASSUME NEW p \in Proc, Rebuilding(p) PROVE GoneInv'
    <3> USE <2>1 DEF Fits
    <3>1. CASE RebuildLock(p)
      BY <3>1, RebuildLockMoves DEF RebuildLock
    <3>2. ASSUME NEW c \in Chunk, ClearChunk(p, c) PROVE GoneInv'
      BY <3>2 DEF ClearChunk
    <3>3. CASE Cleared(p)
      BY <3>3, ClearedMoves DEF Cleared
    <3>4. ASSUME NEW o \in Obs, Reindex(p, o) PROVE GoneInv'
      BY <3>4, ReindexMoves DEF Reindex
    <3>5. CASE RebuildReturn(p)
      BY <3>5, RebuildReturnMoves, RebuildReturnQuiet
    <3> QED BY <2>5, <3>1, <3>2, <3>3, <3>4, <3>5 DEF Rebuilding
  <2>6. CASE \E p \in Proc : Crash(p)
    BY <2>6, CrashMoves DEF Crash
  <2>7. ASSUME NEW p \in Proc, FailImport(p) PROVE GoneInv'
    BY <2>7, FailImportMoves DEF FailImport
  <2> QED BY <2>0, <2>2, <2>3, <2>4, <2>5, <2>6, <2>7 DEF Next, Step
<1> QED BY <1>0, <1>1, <1>2, TypeCorrect, TaskCorrect, ListedCorrect,
           JournalInHandCorrect, ComponentsCorrect, PTL DEF Spec

(* A record whose purge was acknowledged does not come back unless it is    *)
(* imported again (PurgedStaysGone).                                        *)
THEOREM PurgedStaysGoneCorrect ==
  ASSUME OneProcess
  PROVE  Spec => []PurgedStaysGone
<1>1. GoneInv => PurgedStaysGone
  BY DEF GoneInv, PurgedStaysGone
<1> QED BY <1>1, GoneCorrect, PTL

(* No rebuild runs or was ever interrupted.                                 *)
NoRebuild == ~halfRebuilt /\ \A p \in Proc : pc[p] \notin {"clearIndex", "reindex"}

(* Only rebuild-index clears the index.                                     *)
THEOREM NoRebuildCorrect ==
  ASSUME Rebuilders = {}
  PROVE  Spec => []NoRebuild
<1>1. Init => NoRebuild
  BY DEF Init, NoRebuild
<1>2. TypeInv /\ NoRebuild /\ [Next]_vars => NoRebuild'
  <2> SUFFICES ASSUME TypeInv, NoRebuild, [Next]_vars PROVE NoRebuild'
    OBVIOUS
  <2> USE DEF history, Goto, NoRebuild, TypeInv, TypeOK
  <2>0. CASE UNCHANGED vars
    BY <2>0 DEF vars
  <2>1. ASSUME NEW p \in Proc, Opening(p) PROVE NoRebuild'
    <3>1. UNCHANGED halfRebuilt /\ \E label : /\ pc' = [pc EXCEPT ![p] = label]
                                              /\ label \notin {"clearIndex", "reindex"}
      BY <2>1 DEF Opening, OpenLock, ReplayTransaction, ReplayJournal, OpenReturn
    <3> QED BY <3>1
  <2>2. ASSUME NEW p \in Proc, Importing(p) PROVE NoRebuild'
    <3>1. UNCHANGED halfRebuilt
      BY <2>2 DEF Importing, StartImport, StoreComponent, AddLock, WriteTransaction,
                  CommitObservation, CommitIndex, RemoveTransaction
    <3>2. CASE RemoveTransaction(p)
      BY <3>1, <3>2, RemoveTransactionMoves DEF Moves
    <3>3. CASE AddLock(p)
      BY <3>1, <3>3, AddLockMoves DEF Moves
    <3> QED BY <2>2, <3>1, <3>2, <3>3
        DEF Importing, StartImport, StoreComponent, WriteTransaction, CommitObservation,
            CommitIndex
  <2>3. ASSUME NEW p \in Proc, Purging(p) PROVE NoRebuild'
    <3>1. UNCHANGED halfRebuilt
      BY <2>3 DEF Purging, SelectForPurge, PurgeLock, WriteJournal, Unindex, RemoveRecord,
                  FindSurvivors, RemoveObject, RemoveJournal
    <3>2. ASSUME NEW o \in Obs, Unindex(p, o) PROVE NoRebuild'
      BY <3>1, <3>2, UnindexMoves DEF Moves
    <3>3. CASE RemoveJournal(p)
      BY <3>1, <3>3, RemoveJournalMoves DEF Moves
    <3> QED BY <2>3, <3>1, <3>2, <3>3
        DEF Purging, SelectForPurge, PurgeLock, WriteJournal, RemoveRecord,
            FindSurvivors, RemoveObject
  <2>4. ASSUME NEW p \in Proc, Rebuilding(p) PROVE NoRebuild'
    <3>1. RebuildReturn(p)
      BY <2>4 DEF Rebuilding, RebuildLock, ClearChunk, Cleared, Reindex
    <3> QED BY <3>1 DEF RebuildReturn
  <2>5. ASSUME NEW p \in Proc, Crash(p) \/ FailImport(p) PROVE NoRebuild'
    BY <2>5 DEF Crash, FailImport
  <2> QED BY <2>0, <2>1, <2>2, <2>3, <2>4, <2>5 DEF Next, Step
<1> QED BY <1>1, <1>2, TypeCorrect, PTL DEF Spec

(* Only OpenReturn takes a process from replaying to ready.                 *)
LEMMA ReadyByOpenReturn ==
  ASSUME TypeInv, Next, NEW q \in Proc, pc[q] = "replay", pc'[q] = "ready"
  PROVE  OpenReturn(q)
<1>1. PICK p \in Proc : Step(p) \/ Crash(p) \/ FailImport(p)
  BY DEF Next
<1> USE DEF Goto, TypeInv, TypeOK
<1>2. CASE Opening(p)
  BY <1>2 DEF Opening, OpenLock, ReplayTransaction, ReplayJournal, OpenReturn
<1>3. CASE Importing(p)
  BY <1>3 DEF Importing, StartImport, StoreComponent, AddLock, WriteTransaction,
              CommitObservation, CommitIndex, RemoveTransaction
<1>4. CASE Purging(p)
  BY <1>4 DEF Purging, SelectForPurge, PurgeLock, WriteJournal, Unindex, RemoveRecord,
              FindSurvivors, RemoveObject, RemoveJournal
<1>5. CASE Rebuilding(p) \/ Crash(p) \/ FailImport(p)
  BY <1>5 DEF Rebuilding, RebuildLock, ClearChunk, Cleared, Reindex, RebuildReturn,
              Crash, FailImport
<1> QED BY <1>1, <1>2, <1>3, <1>4, <1>5 DEF Step

(* When Open returns, check finds nothing to complain of                    *)
(* (OpenHandsOutClean); a rebuild that died is the one thing Open does not  *)
(* repair, so there is none.                                                *)
THEOREM OpenHandsOutCleanCorrect ==
  ASSUME OneProcess, Rebuilders = {}
  PROVE  Spec => OpenHandsOutClean
<1>0. OnePurger
  BY ProcAssumption DEF OneProcess, OnePurger
<1> DEFINE Clean == \A p \in Proc : pc[p] = "replay" /\ pc'[p] = "ready" => CheckClean'
<1>1. TypeInv /\ RecordInv /\ ListInv /\ ComponentsInv /\ NoRebuild /\ [Next]_vars => [Clean]_vars
  <2> SUFFICES ASSUME TypeInv, RecordInv, ListInv, ComponentsInv, NoRebuild, Next,
                      NEW p \in Proc, pc[p] = "replay", pc'[p] = "ready"
               PROVE  CheckClean'
    OBVIOUS
  <2>1. transactions = {} /\ journal = NoJournal /\ UNCHANGED disk
    BY ReadyByOpenReturn DEF OpenReturn
  <2>2. \A o \in Obs : o \in observations <=> Indexed(o)
    BY <2>1
    DEF RecordInv, ListedHasRecord, ListInv, UnlistedIsPending, Pending, Journalled,
       NoRebuild
  <2>3. ReferencedBy(observations) \subseteq objects
    BY <2>1, Referenced DEF ComponentsInv, Journalled
  <2> QED BY <2>1, <2>2, <2>3 DEF CheckClean, ReferencedBy, Indexed, disk
<1> QED BY <1>0, <1>1, TypeCorrect, RecordsCorrect, ListedCorrect, ComponentsCorrect,
           NoRebuildCorrect, PTL DEF Spec, OpenHandsOutClean

-----------------------------------------------------------------------------
(* The calls of the ledger, before and after they took effect.              *)
Adding(o) == [kind |-> "add", ids |-> {o}, effective |-> FALSE]
Added(o) == [kind |-> "add", ids |-> {o}, effective |-> TRUE]
Dropping(S) == [kind |-> "remove", ids |-> S, effective |-> FALSE]
Dropped(S) == [kind |-> "remove", ids |-> S, effective |-> TRUE]

(* An addition, before and after.                                           *)
LEMMA AddCalls ==
  ASSUME NEW o \in Obs
  PROVE  /\ Adding(o) # NoObs /\ Adding(o).kind = "add" /\ Adding(o).ids = {o}
         /\ ~Adding(o).effective /\ [Adding(o) EXCEPT !.effective = TRUE] = Added(o)
         /\ Added(o) # NoObs /\ Added(o).kind = "add" /\ Added(o).ids = {o}
         /\ Added(o).effective
<1>1. Adding(o) \in Ledger!Calls /\ Added(o) \in Ledger!Calls
  BY DEF Adding, Added, Ledger!Calls
<1>2. ASSUME NEW d, NEW e
      PROVE  [[kind |-> "add", ids |-> {o}, effective |-> d] EXCEPT !.effective = e] =
               [kind |-> "add", ids |-> {o}, effective |-> e]
  OBVIOUS
<1> QED BY <1>1, <1>2, CallAssumption DEF Adding, Added

(* A removal, before and after.                                             *)
LEMMA DropCalls ==
  ASSUME NEW S \in SUBSET Obs
  PROVE  /\ Dropping(S) # NoObs /\ Dropping(S).kind = "remove" /\ Dropping(S).ids = S
         /\ ~Dropping(S).effective /\ [Dropping(S) EXCEPT !.effective = TRUE] = Dropped(S)
         /\ Dropped(S) # NoObs /\ Dropped(S).kind = "remove" /\ Dropped(S).effective
<1>1. Dropping(S) \in Ledger!Calls /\ Dropped(S) \in Ledger!Calls
  BY DEF Dropping, Dropped, Ledger!Calls
<1>2. ASSUME NEW d, NEW e
      PROVE  [[kind |-> "remove", ids |-> S, effective |-> d] EXCEPT !.effective = e] =
               [kind |-> "remove", ids |-> S, effective |-> e]
  OBVIOUS
<1> QED BY <1>1, <1>2, CallAssumption DEF Dropping, Dropped

(* A process that neither imports nor purges has no call outstanding.       *)
LEMMA CallOfIdle ==
  ASSUME NEW w, NEW label, NEW j, w.task \notin {"import", "retry", "purge"}
  PROVE  CallOf(w, label, j) = NoObs
BY DEF CallOf

(* A retry stands for an addition that has not taken effect.                *)
LEMMA CallOfRetry ==
  ASSUME NEW w, NEW label, NEW j, w.task = "retry"
  PROVE  CallOf(w, label, j) = Adding(w.at)
BY DEF CallOf, Adding

(* An import is an addition, which has not taken effect before the          *)
(* transaction file is written.                                             *)
LEMMA CallOfAdding ==
  ASSUME NEW w, NEW label, NEW j, w.task = "import", label \notin Committing
  PROVE  CallOf(w, label, j) = Adding(w.at)
BY DEF CallOf, Adding, Committing

(* Once its transaction file is written the addition has taken effect.      *)
LEMMA CallOfAdded ==
  ASSUME NEW w, NEW label \in Committing, NEW j, w.task = "import"
  PROVE  CallOf(w, label, j) = Added(w.at)
BY DEF CallOf, Added, Committing

(* A purge is a removal, which has not taken effect before the journal is   *)
(* written.                                                                 *)
LEMMA CallOfDropping ==
  ASSUME NEW w, NEW label \in {"selected", "writeJournal"}, NEW j, w.task = "purge"
  PROVE  CallOf(w, label, j) = Dropping(w.ids)
BY DEF CallOf, Dropping

(* Once the journal is written the removal has taken effect.                *)
LEMMA CallOfDropped ==
  ASSUME NEW w, NEW label, NEW j, w.task = "purge", label \notin {"selected", "writeJournal"}
  PROVE  CallOf(w, label, j) = Dropped(j.ids)
BY DEF CallOf, Dropped

(* Marking a call as effective, as an update of the whole call.             *)
LEMMA TakesEffect ==
  ASSUME NEW f, NEW q, NEW c, NEW d, f[q] = c, [c EXCEPT !.effective = TRUE] = d
  PROVE  [f EXCEPT ![q].effective = TRUE] = [f EXCEPT ![q] = d]
OBVIOUS

(* The invariants the step simulation needs, together.                      *)
LedgerInv ==
  /\ TypeInv /\ TaskFits /\ RecordInHand /\ ListInv
  /\ JournalOwned /\ JournalInHand /\ ComponentsInv

(* Outside Open and the removals of a purge there is no journal.            *)
LEMMA NoJournalNow ==
  ASSUME OneProcess, LedgerInv, NEW p \in Proc,
         pc[p] # "closed", pc[p] \notin Removing, work[p].task # "open"
  PROVE  journal = NoJournal
BY ProcAssumption DEF OneProcess, LedgerInv, JournalOwned

(* A step nobody outside can tell from no step.                             *)
LEMMA LedgerStutter ==
  ASSUME OneProcess, NEW p \in Proc, UNCHANGED acked, Held' = Held,
         CallOf(work[p], pc[p], journal)' = CallOf(work[p], pc[p], journal)
  PROVE  UNCHANGED Ledger!vars
BY DEF OneProcess, Outstanding, Ledger!vars

(* With one process, its call is the only one that changes.                 *)
LEMMA OutstandingStep ==
  ASSUME OneProcess, NEW p \in Proc
  PROVE  /\ Outstanding[p] = CallOf(work[p], pc[p], journal)
         /\ Outstanding' = [Outstanding EXCEPT ![p] = CallOf(work[p], pc[p], journal)']
BY DEF OneProcess, Outstanding

(* They hold together.                                                      *)
THEOREM LedgerInvCorrect ==
  ASSUME OneProcess
  PROVE  Spec => []LedgerInv
<1>1. OnePurger
  BY ProcAssumption DEF OneProcess, OnePurger
<1>2. RecordInv => RecordInHand
  BY DEF RecordInv
<1> QED BY <1>1, <1>2, TypeCorrect, TaskCorrect, RecordsCorrect, ListedCorrect,
           JournalOwnedCorrect, JournalInHandCorrect, ComponentsCorrect, PTL DEF LedgerInv

(* With one process the archive, crashes, replays and retries included, is  *)
(* the ledger: each step is one of the ledger's, an addition taking effect  *)
(* when its transaction file is written and a removal when its journal is,  *)
(* or one that nobody outside can see (ImplementsLedger).                   *)
THEOREM ImplementsLedgerCorrect ==
  ASSUME OneProcess
  PROVE  Spec => ImplementsLedger
<1> USE DEF Committing, Removing
<1>1. Init => Ledger!Init
  <2> SUFFICES ASSUME Init PROVE Ledger!Init
    OBVIOUS
  <2>1. Held = {}
    BY DEF Init, Held
  <2>2. Outstanding = [p \in Proc |-> NoObs]
    BY CallOfIdle DEF Init, Outstanding, Idle
  <2> QED BY <2>1, <2>2 DEF Init, Ledger!Init
<1>2. LedgerInv /\ [Next]_vars => [Ledger!Next]_(Ledger!vars)
  <2> SUFFICES ASSUME LedgerInv, [Next]_vars PROVE Ledger!Next \/ UNCHANGED Ledger!vars
    OBVIOUS
  <2> USE DEF disk, history
  <2>0. CASE UNCHANGED vars
    BY <2>0 DEF vars, Ledger!vars, Held, Outstanding, Journalled
  <2>1. \A p \in Proc : Fits(pc[p], work[p].task)
    BY DEF LedgerInv, TaskFits
  <2>type. TypeInv
    BY DEF LedgerInv
  <2>2. ASSUME NEW p \in Proc, Opening(p) PROVE UNCHANGED Ledger!vars
    <3>1. Held' = Held /\ UNCHANGED acked
      BY <2>2
      DEF Opening, OpenLock, ReplayTransaction, ReplayJournal, OpenReturn, Held,
         Journalled
    <3>2. work[p].task \in {"none", "open"}
      BY <2>1, <2>2
      DEF Fits, Opening, OpenLock, ReplayTransaction, ReplayJournal, OpenReturn
    <3>3. work'[p].task \in {"none", "open"}
      <4>1. ASSUME NEW o \in Obs, ReplayTransaction(p, o) PROVE work'[p].task \in {"none", "open"}
        BY <2>type, <3>2, <4>1, ReplayTransactionMoves DEF Moves
      <4>2. CASE ReplayJournal(p)
        BY <2>type, <3>2, <4>2, ReplayJournalMoves DEF Moves
      <4>3. CASE OpenLock(p)
        BY <2>type, <4>3, OpenLockMoves DEF Moves
      <4>4. CASE OpenReturn(p)
        BY <2>type, <4>4, OpenReturnMoves DEF Moves
      <4> QED BY <2>2, <4>1, <4>2, <4>3, <4>4 DEF Opening
    <3>4. CallOf(work[p], pc[p], journal)' = CallOf(work[p], pc[p], journal)
      BY <3>2, <3>3, CallOfIdle
    <3> QED BY <3>1, <3>4, LedgerStutter
  <2>3. ASSUME NEW p \in Proc, Importing(p) PROVE Ledger!Next \/ UNCHANGED Ledger!vars
    <3>1. ASSUME NEW o \in Obs, StartImport(p, o) PROVE Ledger!Next
      <4>1. pc[p] \in {"ready", "ingesting"} /\ Held' = Held /\ UNCHANGED acked
        BY <3>1 DEF StartImport, Held, Journalled
      <4>2. work[p].task = "none"
        BY <2>1, <4>1 DEF Fits
      <4>3. CallOf(work[p], pc[p], journal) = NoObs
        BY <4>2, CallOfIdle, CallOfAdding, CallOfAdded
      <4>4. work'[p].task = "import" /\ work'[p].at = o /\ pc'[p] = "store"
        BY <2>type, <3>1, StartImportMoves DEF Moves
      <4>5. CallOf(work[p], pc[p], journal)' = Adding(o)
        BY <4>4, CallOfIdle, CallOfAdding, CallOfAdded
      <4>6. Ledger!Ask(p, "add", {o})
        BY <4>1, <4>3, <4>5, OutstandingStep DEF Ledger!Ask, Adding, Dropping
      <4> QED BY <4>6 DEF Ledger!Next
    <3>2. ASSUME NEW x \in Object, StoreComponent(p, x) PROVE UNCHANGED Ledger!vars
      <4>1. /\ pc[p] = "store" /\ Held' = Held /\ UNCHANGED <<acked, journal>>
            /\ work[p].task = "import"
        BY <2>1, <3>2 DEF StoreComponent, Held, Journalled, Fits
      <4>2. work'[p].task = "import" /\ work'[p].at = work[p].at /\ pc'[p] = "store"
        BY <2>type, <3>2, <4>1, StoreComponentMoves DEF Moves
      <4>3. CallOf(work[p], pc[p], journal)' = CallOf(work[p], pc[p], journal)
        <5>1. CallOf(work[p], pc[p], journal) = Adding(work[p].at)
          BY <4>1, CallOfAdding
        <5>2. CallOf(work[p], pc[p], journal)' = Adding(work[p].at)
          BY <4>2, CallOfAdding, CallOfRetry
        <5> QED BY <5>1, <5>2
      <4> QED BY <4>1, <4>3, LedgerStutter
    <3>3. CASE AddLock(p)
      <4>1. /\ pc[p] = "store" /\ Held' = Held /\ UNCHANGED <<acked, journal>>
            /\ work[p].task = "import"
        BY <2>1, <3>3 DEF AddLock, Held, Journalled, Fits
      <4>2. /\ work'[p].at = work[p].at
            /\ \/ work'[p].task = "import" /\ pc'[p] = "writeTx"
               \/ work'[p].task = "retry" /\ pc'[p] = "commitObservation"
        BY <2>type, <3>3, <4>1, AddLockMoves DEF Moves
      <4>3. CallOf(work[p], pc[p], journal)' = CallOf(work[p], pc[p], journal)
        <5>1. CallOf(work[p], pc[p], journal) = Adding(work[p].at)
          BY <4>1, CallOfAdding
        <5>2. CallOf(work[p], pc[p], journal)' = Adding(work[p].at)
          BY <4>2, CallOfAdding, CallOfRetry
        <5> QED BY <5>1, <5>2
      <4> QED BY <4>1, <4>3, LedgerStutter
    <3>4. CASE WriteTransaction(p)
      <4>1. /\ pc[p] = "writeTx" /\ work[p].task = "import" /\ work[p].at \in Obs
            /\ transactions' = transactions \cup {work[p].at}
            /\ UNCHANGED <<observations, journal, acked>>
        BY <2>1, <2>type, <3>4 DEF WriteTransaction, Fits, TypeInv, InHand, Handling
      <4>2. journal = NoJournal
        BY <4>1, NoJournalNow
      <4>3. Held' = Held \cup {work[p].at}
        BY <4>1, <4>2 DEF Held, Journalled
      <4>4. work'[p].task = "import" /\ work'[p].at = work[p].at /\ pc'[p] = "commitObservation"
        BY <2>type, <3>4, <4>1, WriteTransactionMoves DEF Moves
      <4>5. /\ CallOf(work[p], pc[p], journal) =
                 Adding(work[p].at)
            /\ CallOf(work[p], pc[p], journal)' =
                 Added(work[p].at)
        BY <4>1, <4>4, CallOfAdding, CallOfAdded
      <4>6. Outstanding[p] # NoObs
        BY <4>1, <4>5, AddCalls, OutstandingStep
      <4>7. Ledger!Add(p)
        <5>1. /\ Outstanding[p] = Adding(work[p].at)
              /\ Outstanding' = [Outstanding EXCEPT ![p] = Added(work[p].at)]
          BY <4>5, OutstandingStep
        <5>2. Outstanding' = [Outstanding EXCEPT ![p].effective = TRUE]
          BY <4>1, <5>1, AddCalls, TakesEffect
        <5> QED BY <4>1, <4>3, <4>6, <5>1, <5>2, AddCalls DEF Ledger!Add, Ledger!Pending
      <4> QED BY <4>7 DEF Ledger!Next
    <3>5. CASE CommitObservation(p)
      <4>1. /\ pc[p] = "commitObservation" /\ work[p].at \in transactions
            /\ observations' = observations \cup {work[p].at}
            /\ UNCHANGED <<transactions, journal, acked, work>>
        BY <3>5 DEF CommitObservation, LedgerInv, ListInv
      <4>2. pc'[p] = "commitIndex"
        BY <2>type, <3>5, CommitObservationMoves DEF Moves
      <4>3. Held' = Held
        BY <4>1 DEF Held, Journalled
      <4>4. work[p].task \in {"open", "import", "retry"}
        BY <2>1, <4>1 DEF Fits
      <4>5. CallOf(work[p], pc[p], journal)' = CallOf(work[p], pc[p], journal)
        <5>1. CASE work[p].task = "open"
          BY <4>1, <5>1, CallOfIdle
        <5>2. CASE work[p].task = "import"
          BY <4>1, <4>2, <5>2, CallOfAdded
        <5>3. CASE work[p].task = "retry"
          BY <4>1, <5>3, CallOfRetry
        <5> QED BY <4>4, <5>1, <5>2, <5>3
      <4> QED BY <4>1, <4>3, <4>5, LedgerStutter
    <3>6. CASE CommitIndex(p)
      <4>1. /\ pc[p] = "commitIndex" /\ Held' = Held
            /\ UNCHANGED <<journal, acked, work>>
        BY <3>6 DEF CommitIndex, Held, Journalled
      <4>2. pc'[p] = "removeTx"
        BY <2>type, <3>6, CommitIndexMoves DEF Moves
      <4>3. work[p].task \in {"open", "import", "retry"}
        BY <2>1, <4>1 DEF Fits
      <4>4. CallOf(work[p], pc[p], journal)' = CallOf(work[p], pc[p], journal)
        <5>1. CASE work[p].task = "open"
          BY <4>1, <5>1, CallOfIdle
        <5>2. CASE work[p].task = "import"
          BY <4>1, <4>2, <5>2, CallOfAdded
        <5>3. CASE work[p].task = "retry"
          BY <4>1, <5>3, CallOfRetry
        <5> QED BY <4>3, <5>1, <5>2, <5>3
      <4> QED BY <4>1, <4>4, LedgerStutter
    <3>7. CASE RemoveTransaction(p)
      <4>1. /\ pc[p] = "removeTx" /\ work[p].at \in observations
            /\ transactions' = transactions \ {work[p].at}
            /\ UNCHANGED <<observations, journal>>
        BY <3>7 DEF RemoveTransaction, LedgerInv, RecordInHand
      <4>2. Held' = Held
        BY <4>1 DEF Held, Journalled
      <4>3. CASE work[p].task = "open"
        <5>1. work'[p].task = "open" /\ UNCHANGED acked
          BY <2>type, <3>7, <4>3, RemoveTransactionMoves DEF Moves
        <5>2. CallOf(work[p], pc[p], journal)' = CallOf(work[p], pc[p], journal)
          BY <4>3, <5>1, CallOfIdle, CallOfAdding, CallOfAdded
        <5> QED BY <4>2, <5>1, <5>2, LedgerStutter
      <4>4. CASE work[p].task = "retry"
        <5>1. /\ work'[p].task = "import" /\ work'[p].at = work[p].at /\ pc'[p] = "writeTx"
              /\ UNCHANGED acked
          BY <2>type, <3>7, <4>4, RemoveTransactionMoves DEF Moves
        <5>2. CallOf(work[p], pc[p], journal)' = CallOf(work[p], pc[p], journal)
          <6>1. CallOf(work[p], pc[p], journal) = Adding(work[p].at)
            BY <4>4, CallOfRetry
          <6>2. CallOf(work[p], pc[p], journal)' = Adding(work[p].at)
            BY <5>1, CallOfAdding
          <6> QED BY <6>1, <6>2
        <5> QED BY <4>2, <5>1, <5>2, LedgerStutter
      <4>5. CASE work[p].task = "import"
        <5>1. /\ work'[p].task = "none"
              /\ acked' = acked \cup ({work[p].at} \ {o \in Obs : Journalled(o)})
          BY <2>type, <3>7, <4>5, RemoveTransactionMoves DEF Moves
        <5>2. /\ CallOf(work[p], pc[p], journal) =
                   Added(work[p].at)
              /\ CallOf(work[p], pc[p], journal)' = NoObs
          BY <4>1, <4>5, <5>1, CallOfIdle, CallOfAdding, CallOfAdded
        <5>3. Outstanding[p] # NoObs
          BY <2>type, <4>1, <5>2, AddCalls, OutstandingStep DEF TypeInv, TypeOK
        <5>4. acked' = acked \cup ({work[p].at} \cap Held)
          BY <2>type, <4>1, <5>1 DEF Held, TypeInv, TypeOK
        <5>5. Ledger!Return(p)
          <6>1. /\ Outstanding[p].effective /\ Outstanding[p].kind = "add"
                /\ Outstanding[p].ids = {work[p].at}
            BY <2>type, <4>1, <5>2, OutstandingStep, AddCalls DEF TypeInv, TypeOK
          <6> QED BY <4>2, <5>2, <5>3, <5>4, <6>1, OutstandingStep DEF Ledger!Return
        <5> QED BY <5>5 DEF Ledger!Next
      <4> QED BY <2>1, <4>1, <4>3, <4>4, <4>5 DEF Fits
    <3> QED BY <2>3, <3>1, <3>2, <3>3, <3>4, <3>5, <3>6, <3>7 DEF Importing
  <2>4. ASSUME NEW p \in Proc, Purging(p) PROVE Ledger!Next \/ UNCHANGED Ledger!vars
    <3>1. ASSUME NEW S \in SUBSET Obs, SelectForPurge(p, S) PROVE Ledger!Next
      <4>1. pc[p] = "ready" /\ Held' = Held /\ UNCHANGED acked
        BY <3>1 DEF SelectForPurge, Held, Journalled
      <4>2. work[p].task = "none"
        BY <2>1, <4>1 DEF Fits
      <4>3. CallOf(work[p], pc[p], journal) = NoObs
        BY <4>2, CallOfIdle, CallOfDropping
      <4>4. work'[p].task = "purge" /\ work'[p].ids = S /\ pc'[p] = "selected"
        BY <2>type, <3>1, SelectForPurgeMoves DEF Moves
      <4>5. CallOf(work[p], pc[p], journal)' = Dropping(S)
        BY <4>4, CallOfIdle, CallOfDropping
      <4>6. Ledger!Ask(p, "remove", S)
        BY <4>1, <4>3, <4>5, OutstandingStep DEF Ledger!Ask, Adding, Dropping
      <4> QED BY <4>6 DEF Ledger!Next
    <3>2. CASE PurgeLock(p)
      <4>1. pc[p] = "selected" /\ Held' = Held /\ UNCHANGED <<acked, journal>>
        BY <3>2 DEF PurgeLock, Held, Journalled
      <4>2. work[p].task = "purge"
        BY <2>1, <4>1 DEF Fits
      <4>3. work'[p].task = work[p].task /\ work'[p].ids = work[p].ids /\ pc'[p] = "writeJournal"
        BY <2>type, <3>2, PurgeLockMoves DEF Moves
      <4>4. CallOf(work[p], pc[p], journal)' = CallOf(work[p], pc[p], journal)
        BY <4>1, <4>2, <4>3, CallOfDropping
      <4> QED BY <4>1, <4>4, LedgerStutter
    <3>3. CASE WriteJournal(p)
      <4>1. /\ pc[p] = "writeJournal" /\ UNCHANGED <<observations, transactions>>
            /\ journal' = [ids |-> work[p].ids, refs |-> work[p].refs]
            /\ acked' = acked \ work[p].ids
        BY <3>3 DEF WriteJournal
      <4>2. work[p].task = "purge" /\ work[p].ids \in SUBSET Obs /\ work[p].refs \in SUBSET Object
        BY <2>1, <2>type, <4>1, WorkFields DEF Fits, TypeInv, TypeOK
      <4>3. journal = NoJournal
        BY <4>1, <4>2, NoJournalNow
      <4>4. journal' # NoJournal /\ journal'.ids = work[p].ids
        BY <4>1, <4>2, JournalAssumption DEF Journal
      <4>5. Held' = Held \ work[p].ids
        BY <4>1, <4>3, <4>4 DEF Held, Journalled
      <4>6. work'[p].task = "purge" /\ pc'[p] = "unindex"
        BY <2>type, <3>3, <4>2, WriteJournalMoves DEF Moves
      <4>7. /\ CallOf(work[p], pc[p], journal) =
                 Dropping(work[p].ids)
            /\ CallOf(work[p], pc[p], journal)' =
                 Dropped(work[p].ids)
        BY <4>1, <4>2, <4>4, <4>6, CallOfDropping, CallOfDropped
      <4>8. Outstanding[p] # NoObs
        BY <4>2, <4>7, DropCalls, OutstandingStep
      <4>9. Ledger!Remove(p)
        <5>1. /\ Outstanding[p] = Dropping(work[p].ids)
              /\ Outstanding' = [Outstanding EXCEPT ![p] = Dropped(work[p].ids)]
          BY <4>7, OutstandingStep
        <5>2. Outstanding' = [Outstanding EXCEPT ![p].effective = TRUE]
          BY <4>2, <5>1, DropCalls, TakesEffect
        <5>3. /\ Outstanding[p].kind = "remove" /\ ~Outstanding[p].effective
              /\ Outstanding[p].ids = work[p].ids
          BY <4>2, <5>1, DropCalls
        <5>4. Ledger!Pending(p, "remove")
          BY <4>8, <5>3 DEF Ledger!Pending
        <5> QED BY <4>1, <4>5, <5>2, <5>3, <5>4 DEF Ledger!Remove
      <4> QED BY <4>9 DEF Ledger!Next
    <3>4. ASSUME NEW o \in Obs, Unindex(p, o) PROVE UNCHANGED Ledger!vars
      <4>1. pc[p] = "unindex" /\ Held' = Held /\ UNCHANGED <<acked, journal>>
        BY <3>4 DEF Unindex, Held, Journalled
      <4>2. work'[p].task = work[p].task /\ pc'[p] \in Removing
        BY <2>type, <3>4, UnindexMoves DEF Moves
      <4>3. CallOf(work[p], pc[p], journal)' = CallOf(work[p], pc[p], journal)
        BY <2>1, <4>1, <4>2, CallOfIdle, CallOfDropped DEF Fits
      <4> QED BY <4>1, <4>3, LedgerStutter
    <3>5. CASE RemoveRecord(p)
      <4>1. /\ pc[p] = "removeRecord" /\ UNCHANGED <<acked, journal, transactions>>
            /\ observations' = observations \ {work[p].at}
        BY <3>5 DEF RemoveRecord
      <4>2. journal # NoJournal /\ work[p].at \in journal.ids
        BY <4>1 DEF LedgerInv, JournalInHand, RecordInHand
      <4>3. Held' = Held
        BY <4>1, <4>2 DEF Held, Journalled
      <4>4. work'[p].task = work[p].task /\ pc'[p] \in Removing
        BY <2>type, <3>5, RemoveRecordMoves DEF Moves
      <4>5. CallOf(work[p], pc[p], journal)' = CallOf(work[p], pc[p], journal)
        BY <2>1, <4>1, <4>4, CallOfIdle, CallOfDropped DEF Fits
      <4> QED BY <4>1, <4>3, <4>5, LedgerStutter
    <3>6. CASE FindSurvivors(p)
      <4>1. pc[p] = "unindex" /\ Held' = Held /\ UNCHANGED <<acked, journal>>
        BY <3>6 DEF FindSurvivors, Held, Journalled
      <4>2. work'[p].task = work[p].task /\ pc'[p] \in Removing
        BY <2>type, <3>6, FindSurvivorsMoves DEF Moves
      <4>3. CallOf(work[p], pc[p], journal)' = CallOf(work[p], pc[p], journal)
        BY <2>1, <4>1, <4>2, CallOfIdle, CallOfDropped DEF Fits
      <4> QED BY <4>1, <4>3, LedgerStutter
    <3>7. ASSUME NEW x \in Object, RemoveObject(p, x) PROVE UNCHANGED Ledger!vars
      <4>1. pc[p] = "removeObject" /\ Held' = Held /\ UNCHANGED <<acked, journal>>
        BY <3>7 DEF RemoveObject, Held, Journalled
      <4>2. work'[p].task = work[p].task /\ pc'[p] \in Removing
        BY <2>type, <3>7, RemoveObjectMoves DEF Moves
      <4>3. CallOf(work[p], pc[p], journal)' = CallOf(work[p], pc[p], journal)
        BY <2>1, <4>1, <4>2, CallOfIdle, CallOfDropped DEF Fits
      <4> QED BY <4>1, <4>3, LedgerStutter
    <3>8. CASE RemoveJournal(p)
      <4>1. /\ pc[p] = "removeObject" /\ journal' = NoJournal
            /\ UNCHANGED <<observations, transactions, acked>>
        BY <3>8 DEF RemoveJournal
      <4>2. /\ transactions = {} /\ journal # NoJournal
            /\ \A o \in observations : ~Journalled(o)
        BY <4>1 DEF LedgerInv, JournalInHand, ComponentsInv, Journalled
      <4>3. Held' = Held
        BY <4>1, <4>2 DEF Held, Journalled
      <4>4. CASE work[p].task = "open"
        <5>1. work'[p].task = "open"
          BY <2>type, <3>8, <4>4, RemoveJournalMoves DEF Moves
        <5>2. CallOf(work[p], pc[p], journal)' = CallOf(work[p], pc[p], journal)
          BY <4>4, <5>1, CallOfIdle, CallOfDropped
        <5> QED BY <4>1, <4>3, <5>2, LedgerStutter
      <4>5. CASE work[p].task = "purge"
        <5>1. work'[p].task = "none"
          BY <2>type, <3>8, <4>5, RemoveJournalMoves DEF Moves
        <5>2. /\ CallOf(work[p], pc[p], journal) =
                   Dropped(journal.ids)
              /\ CallOf(work[p], pc[p], journal)' = NoObs
          BY <4>1, <4>5, <5>1, CallOfIdle, CallOfDropped
        <5>3. journal.ids \in SUBSET Obs
          BY <2>type, <4>2 DEF TypeInv, TypeOK, Journal
        <5>4. Outstanding[p] # NoObs
          BY <5>2, <5>3, DropCalls, OutstandingStep
        <5>5. Ledger!Return(p)
          <6>1. Outstanding[p].effective /\ Outstanding[p].kind = "remove"
            BY <5>2, <5>3, OutstandingStep, DropCalls
          <6> QED BY <4>1, <4>3, <5>2, <5>4, <6>1, OutstandingStep DEF Ledger!Return
        <5> QED BY <5>5 DEF Ledger!Next
      <4> QED BY <2>1, <4>1, <4>4, <4>5 DEF Fits
    <3> QED BY <2>4, <3>1, <3>2, <3>3, <3>4, <3>5, <3>6, <3>7, <3>8 DEF Purging
  <2>5. ASSUME NEW p \in Proc, Rebuilding(p) PROVE UNCHANGED Ledger!vars
    <3>1. Held' = Held /\ UNCHANGED acked
      BY <2>5
      DEF Rebuilding, RebuildLock, ClearChunk, Cleared, Reindex, RebuildReturn, Held,
         Journalled
    <3>2. work[p].task \in {"none", "rebuild"}
      BY <2>1, <2>5
      DEF Fits, Rebuilding, RebuildLock, ClearChunk, Cleared, Reindex, RebuildReturn
    <3>3. work'[p].task \in {"none", "rebuild"}
      <4>1. ASSUME NEW o \in Obs, Reindex(p, o) PROVE work'[p].task \in {"none", "rebuild"}
        BY <2>type, <3>2, <4>1, ReindexMoves DEF Moves
      <4>2. CASE RebuildLock(p) \/ RebuildReturn(p)
        BY <2>type, <4>2, RebuildLockMoves, RebuildReturnMoves DEF Moves
      <4> QED BY <2>5, <3>2, <4>1, <4>2 DEF Rebuilding, ClearChunk, Cleared
    <3>4. CallOf(work[p], pc[p], journal)' = CallOf(work[p], pc[p], journal)
      BY <3>2, <3>3, CallOfIdle
    <3> QED BY <3>1, <3>4, LedgerStutter
  <2>6. ASSUME NEW p \in Proc, Crash(p) \/ FailImport(p)
        PROVE  Ledger!Next \/ UNCHANGED Ledger!vars
    <3>1. Held' = Held /\ UNCHANGED acked
      BY <2>6 DEF Crash, FailImport, Held, Journalled
    <3>2. work'[p].task = "none"
      BY <2>type, <2>6, CrashMoves, FailImportMoves DEF Moves
    <3>3. CallOf(work[p], pc[p], journal)' = NoObs
      BY <3>2, CallOfIdle
    <3>4. CASE Outstanding[p] = NoObs
      BY <3>1, <3>3, <3>4, LedgerStutter, OutstandingStep
    <3>5. CASE Outstanding[p] # NoObs
      <4>1. Ledger!Abandon(p)
        BY <3>1, <3>3, <3>5, OutstandingStep DEF Ledger!Abandon
      <4> QED BY <4>1 DEF Ledger!Next
    <3> QED BY <3>4, <3>5
  <2> QED BY <2>0, <2>2, <2>3, <2>4, <2>5, <2>6 DEF Next, Step
<1> QED BY <1>1, <1>2, LedgerInvCorrect, PTL DEF Spec, ImplementsLedger, Ledger!Spec

=============================================================================
