---------------------------- MODULE ArchiveProofs ----------------------------
(***************************************************************************)
(* What holds of Archive for every set of processes, observations and      *)
(* objects, and however many of the processes import, purge or rebuild.    *)
(***************************************************************************)
EXTENDS Archive, TLAPS

(* Where a process has an observation in hand.                              *)
Handling == {"store", "writeTx", "commitObservation", "commitIndex", "removeTx",
             "removeRecord"}
InHand == \A p \in Proc : pc[p] \in Handling => work[p].at \in Obs

TypeInv == TypeOK /\ InHand

(* The part of TypeOK that is not about the processes.                      *)
SharedTyped ==
  /\ objects \subseteq Object
  /\ observations \subseteq Obs
  /\ index \in [Chunk -> SUBSET Obs]
  /\ transactions \subseteq Obs
  /\ journal \in Journal \cup {NoJournal}
  /\ lock \in Proc \cup {Nobody}
  /\ acked \subseteq Obs
  /\ gone \subseteq Obs
  /\ withdrawn \subseteq Object
  /\ halfRebuilt \in BOOLEAN

(* The fields of what a process has in hand.                                *)
LEMMA WorkFields ==
  ASSUME NEW w \in Work
  PROVE  /\ w.task \in Task /\ w.at \in Obs \cup {NoObs}
         /\ w.ids \in SUBSET Obs /\ w.refs \in SUBSET Object
BY DEF Work

(* A step that moves one process on, to a label and with work that fit.     *)
LEMMA TypeStep ==
  ASSUME TypeInv, NEW p \in Proc, NEW label \in Unlocked \cup Locked, NEW w \in Work,
         label \in Handling => w.at \in Obs,
         pc' = [pc EXCEPT ![p] = label], work' = [work EXCEPT ![p] = w],
         SharedTyped'
  PROVE  TypeInv'
<1>1. /\ pc' \in [Proc -> Unlocked \cup Locked]
      /\ work' \in [Proc -> Work]
  BY DEF TypeInv, TypeOK
<1>2. InHand'
  BY DEF TypeInv, TypeOK, InHand
<1> QED BY <1>1, <1>2 DEF TypeInv, TypeOK, SharedTyped

(* The objects that some observations reference are objects.                *)
LEMMA ReferencesAreObjects ==
  ASSUME NEW S \in SUBSET Obs PROVE ReferencedBy(S) \in SUBSET Object
BY ObsAssumption DEF ReferencedBy

(* Every variable of the archive keeps its type, and a process that commits *)
(* or removes a record has an observation in hand.                          *)
THEOREM TypeCorrect == Spec => []TypeInv
<1> USE ProcAssumption
<1>1. Init => TypeInv
  <2> SUFFICES ASSUME Init PROVE TypeInv
    OBVIOUS
  <2>1. Idle \in Work
    BY DEF Idle, Work, Task
  <2>2. InHand
    BY DEF Init, InHand, Handling
  <2>3. pc \in [Proc -> Unlocked \cup Locked]
    BY DEF Init, Unlocked
  <2> QED BY <2>1, <2>2, <2>3 DEF Init, TypeInv, TypeOK
<1>2. TypeInv /\ [Next]_vars => TypeInv'
  <2> SUFFICES ASSUME TypeInv, [Next]_vars PROVE TypeInv'
    OBVIOUS
  <2> USE DEF disk, history, Goto, Hold
  <2>0. CASE UNCHANGED vars
    BY <2>0 DEF vars, TypeInv, TypeOK, InHand
  <2>1. SharedTyped
    BY DEF TypeInv, TypeOK, SharedTyped
  <2>2. ASSUME NEW p \in Proc, Step(p) \/ Crash(p) \/ FailImport(p) PROVE TypeInv'
    <3>1. work[p] \in Work /\ work = [work EXCEPT ![p] = work[p]]
      BY DEF TypeInv, TypeOK
    <3>2. pc[p] \in Unlocked \cup Locked /\ pc = [pc EXCEPT ![p] = pc[p]]
      BY DEF TypeInv, TypeOK
    <3>3. pc[p] \in Handling => work[p].at \in Obs
      BY DEF TypeInv, InHand
    <3>4. /\ work[p].at \in Obs \cup {NoObs}
          /\ work[p].ids \in SUBSET Obs /\ work[p].refs \in SUBSET Object
      BY <3>1, WorkFields
    <3>5. CASE Opening(p)
      <4>1. CASE OpenLock(p)
        <5>1. SharedTyped'
          BY <2>1, <4>1 DEF OpenLock, Acquire, SharedTyped
        <5>2. [Idle EXCEPT !.task = "open"] \in Work
          BY DEF Idle, Work, Task
        <5> QED BY <4>1, <5>1, <5>2, TypeStep DEF OpenLock, Locked, Handling
      <4>2. ASSUME NEW o \in Obs, ReplayTransaction(p, o) PROVE TypeInv'
        <5>1. SharedTyped'
          BY <2>1, <4>2 DEF ReplayTransaction, SharedTyped
        <5>2. [work[p] EXCEPT !.at = o] \in Work /\ [work[p] EXCEPT !.at = o].at = o
          BY <3>1 DEF Work
        <5> QED BY <4>2, <5>1, <5>2, TypeStep DEF ReplayTransaction, Locked
      <4>3. CASE ReplayJournal(p)
        <5>1. SharedTyped'
          BY <2>1, <4>3 DEF ReplayJournal, SharedTyped
        <5>2. journal.ids \in SUBSET Obs /\ journal.refs \in SUBSET Object
          BY <2>1, <4>3 DEF ReplayJournal, SharedTyped, Journal
        <5>3. [work[p] EXCEPT !.ids = journal.ids, !.refs = journal.refs] \in Work
          BY <3>1, <5>2 DEF Work
        <5> QED BY <4>3, <5>1, <5>3, TypeStep DEF ReplayJournal, Locked, Handling
      <4>4. CASE OpenReturn(p)
        <5>1. SharedTyped'
          BY <2>1, <4>4 DEF OpenReturn, Release, SharedTyped
        <5>2. Idle \in Work
          BY DEF Idle, Work, Task
        <5> QED BY <4>4, <5>1, <5>2, TypeStep DEF OpenReturn, Unlocked, Handling
      <4> QED BY <3>5, <4>1, <4>2, <4>3, <4>4 DEF Opening
    <3>6. CASE Importing(p)
      <4>1. ASSUME NEW o \in Obs, StartImport(p, o) PROVE TypeInv'
        <5>1. SharedTyped'
          BY <2>1, <4>1 DEF StartImport, SharedTyped
        <5> DEFINE w == [task |-> "import", at |-> o, ids |-> {}, refs |-> Refs[o]]
        <5>2. w \in Work /\ w.at \in Obs
          BY ObsAssumption DEF Work, Task
        <5>3. pc' = [pc EXCEPT ![p] = "store"] /\ work' = [work EXCEPT ![p] = w]
          BY <4>1 DEF StartImport
        <5> HIDE DEF w
        <5> QED BY <5>1, <5>2, <5>3, TypeStep DEF Unlocked
      <4>2. ASSUME NEW x \in Object, StoreComponent(p, x) PROVE TypeInv'
        <5>1. SharedTyped'
          BY <2>1, <4>2 DEF StoreComponent, SharedTyped
        <5> DEFINE w == [work[p] EXCEPT !.refs = @ \ {x}]
        <5>2. w \in Work /\ w.at = work[p].at
          BY <3>1 DEF Work
        <5>3. pc' = [pc EXCEPT ![p] = pc[p]] /\ work' = [work EXCEPT ![p] = w]
          BY <3>2, <4>2 DEF StoreComponent
        <5> HIDE DEF w
        <5> QED BY <3>2, <3>3, <5>1, <5>2, <5>3, TypeStep
      <4>3. CASE AddLock(p)
        <5>1. SharedTyped'
          BY <2>1, <4>3 DEF AddLock, Acquire, SharedTyped
        <5>2. work[p].at \in Obs
          BY <3>3, <4>3 DEF AddLock, Handling
        <5>3. CASE work[p].at \in transactions
          <6>1. /\ [work[p] EXCEPT !.task = "retry"] \in Work
                /\ [work[p] EXCEPT !.task = "retry"].at = work[p].at
            BY <3>1 DEF Work, Task
          <6> QED BY <4>3, <5>1, <5>2, <5>3, <6>1, TypeStep DEF AddLock, Locked
        <5>4. CASE work[p].at \notin transactions
          BY <3>1, <4>3, <5>1, <5>2, <5>4, TypeStep DEF AddLock, Locked
        <5> QED BY <5>3, <5>4
      <4>4. CASE WriteTransaction(p) \/ CommitObservation(p) \/ CommitIndex(p)
        <5>1. work[p].at \in Obs
          BY <3>3, <4>4 DEF WriteTransaction, CommitObservation, CommitIndex, Handling
        <5>2. SharedTyped'
          BY <2>1, <4>4, <5>1
          DEF WriteTransaction, CommitObservation, CommitIndex, Listed, SharedTyped
        <5>3. PICK label \in Locked : pc' = [pc EXCEPT ![p] = label]
          BY <4>4 DEF WriteTransaction, CommitObservation, CommitIndex, Locked
        <5>4. work' = [work EXCEPT ![p] = work[p]]
          BY <3>1, <4>4 DEF WriteTransaction, CommitObservation, CommitIndex
        <5> QED BY <3>1, <5>1, <5>2, <5>3, <5>4, TypeStep
      <4>5. CASE RemoveTransaction(p)
        <5>1. work[p].at \in Obs
          BY <3>3, <4>5 DEF RemoveTransaction, Handling
        <5>2. CASE work[p].task = "open"
          <6>1. SharedTyped'
            BY <2>1, <4>5, <5>2 DEF RemoveTransaction, SharedTyped
          <6>2. [work[p] EXCEPT !.at = NoObs] \in Work
            BY <3>1 DEF Work
          <6>3. /\ pc' = [pc EXCEPT ![p] = "replay"]
                /\ work' = [work EXCEPT ![p] = [work[p] EXCEPT !.at = NoObs]]
            BY <4>5, <5>2 DEF RemoveTransaction
          <6> QED BY <6>1, <6>2, <6>3, TypeStep DEF Locked, Handling
        <5>3. CASE work[p].task = "retry"
          <6>1. SharedTyped'
            BY <2>1, <4>5, <5>3 DEF RemoveTransaction, SharedTyped
          <6>2. /\ [work[p] EXCEPT !.task = "import"] \in Work
                /\ [work[p] EXCEPT !.task = "import"].at = work[p].at
            BY <3>1 DEF Work, Task
          <6>3. /\ pc' = [pc EXCEPT ![p] = "writeTx"]
                /\ work' = [work EXCEPT ![p] = [work[p] EXCEPT !.task = "import"]]
            BY <4>5, <5>3 DEF RemoveTransaction
          <6> QED BY <5>1, <6>1, <6>2, <6>3, TypeStep DEF Locked
        <5>4. CASE work[p].task \notin {"open", "retry"}
          <6>1. /\ pc' = [pc EXCEPT ![p] = "ingesting"]
                /\ work' = [work EXCEPT ![p] = Idle]
                /\ lock' = IF lock = p THEN Nobody ELSE lock
                /\ acked' \subseteq acked \cup {work[p].at}
                /\ transactions' \subseteq transactions
                /\ UNCHANGED <<objects, observations, index, journal, gone, withdrawn,
                               halfRebuilt>>
            BY <4>5, <5>4 DEF RemoveTransaction, Release
          <6>2. SharedTyped'
            BY <2>1, <5>1, <6>1 DEF SharedTyped
          <6>3. Idle \in Work
            BY DEF Idle, Work, Task
          <6> QED BY <6>1, <6>2, <6>3, TypeStep DEF Unlocked, Handling
        <5> QED BY <5>2, <5>3, <5>4
      <4> QED BY <3>6, <4>1, <4>2, <4>3, <4>4, <4>5 DEF Importing
    <3>7. CASE Purging(p)
      <4>1. ASSUME NEW S \in SUBSET Obs, SelectForPurge(p, S) PROVE TypeInv'
        <5>1. SharedTyped'
          BY <2>1, <4>1 DEF SelectForPurge, SharedTyped
        <5>2. [Idle EXCEPT !.task = "purge", !.ids = S] \in Work
          BY DEF Idle, Work, Task
        <5> QED BY <4>1, <5>1, <5>2, TypeStep DEF SelectForPurge, Unlocked, Handling
      <4>2. CASE PurgeLock(p)
        <5> DEFINE R == ReferencedBy(work[p].ids \cap observations)
        <5>1. R \in SUBSET Object
          BY <3>4, ReferencesAreObjects
        <5> HIDE DEF R
        <5>2. [work[p] EXCEPT !.refs = R] \in Work
          BY <3>1, <5>1 DEF Work
        <5>3. SharedTyped'
          BY <2>1, <4>2 DEF PurgeLock, Acquire, SharedTyped
        <5>4. /\ pc' = [pc EXCEPT ![p] = "writeJournal"]
              /\ work' = [work EXCEPT ![p] = [work[p] EXCEPT !.refs = R]]
          BY <4>2 DEF PurgeLock, R
        <5> QED BY <5>2, <5>3, <5>4, TypeStep DEF Locked, Handling
      <4>3. CASE WriteJournal(p)
        <5>1. journal' \in Journal
          BY <3>4, <4>3 DEF WriteJournal, Journal
        <5>2. SharedTyped'
          BY <2>1, <3>4, <4>3, <5>1 DEF WriteJournal, SharedTyped
        <5> QED BY <3>1, <4>3, <5>2, TypeStep DEF WriteJournal, Locked, Handling
      <4>4. ASSUME NEW o \in Obs, Unindex(p, o) PROVE TypeInv'
        <5>1. SharedTyped'
          BY <2>1, <4>4 DEF Unindex, Unlisted, SharedTyped
        <5>2. CASE o \in observations
          <6>1. [work[p] EXCEPT !.at = o] \in Work /\ [work[p] EXCEPT !.at = o].at = o
            BY <3>1 DEF Work
          <6> QED BY <4>4, <5>1, <5>2, <6>1, TypeStep DEF Unindex, Locked
        <5>3. CASE o \notin observations
          <6> DEFINE w == [work[p] EXCEPT !.ids = @ \ {o}]
          <6>1. w \in Work /\ w.at = work[p].at
            BY <3>1 DEF Work
          <6>2. pc' = [pc EXCEPT ![p] = pc[p]] /\ work' = [work EXCEPT ![p] = w]
            BY <3>2, <4>4, <5>3 DEF Unindex
          <6> HIDE DEF w
          <6> QED BY <3>2, <3>3, <5>1, <6>1, <6>2, TypeStep
        <5> QED BY <5>2, <5>3
      <4>5. CASE RemoveRecord(p)
        <5>1. SharedTyped'
          BY <2>1, <4>5 DEF RemoveRecord, SharedTyped
        <5>2. [work[p] EXCEPT !.ids = @ \ {work[p].at}] \in Work
          BY <3>1 DEF Work
        <5> QED BY <4>5, <5>1, <5>2, TypeStep DEF RemoveRecord, Locked, Handling
      <4>6. CASE FindSurvivors(p)
        <5>1. SharedTyped'
          BY <2>1, <4>6 DEF FindSurvivors, SharedTyped
        <5>2. [work[p] EXCEPT !.refs = @ \ ReferencedBy(observations)] \in Work
          BY <3>1 DEF Work
        <5> QED BY <4>6, <5>1, <5>2, TypeStep DEF FindSurvivors, Locked, Handling
      <4>7. ASSUME NEW x \in Object, RemoveObject(p, x) PROVE TypeInv'
        <5>1. SharedTyped'
          BY <2>1, <4>7 DEF RemoveObject, SharedTyped
        <5> DEFINE w == [work[p] EXCEPT !.refs = @ \ {x}]
        <5>2. w \in Work
          BY <3>1 DEF Work
        <5>3. pc' = [pc EXCEPT ![p] = pc[p]] /\ work' = [work EXCEPT ![p] = w]
          BY <3>2, <4>7 DEF RemoveObject
        <5>4. pc[p] = "removeObject"
          BY <4>7 DEF RemoveObject
        <5> HIDE DEF w
        <5> QED BY <3>2, <5>1, <5>2, <5>3, <5>4, TypeStep DEF Handling
      <4>8. CASE RemoveJournal(p)
        <5>1. SharedTyped'
          BY <2>1, <4>8 DEF RemoveJournal, Release, SharedTyped
        <5>2. Idle \in Work
          BY DEF Idle, Work, Task
        <5>3. CASE work[p].task = "open"
          BY <3>1, <4>8, <5>1, <5>3, TypeStep DEF RemoveJournal, Locked, Handling
        <5>4. CASE work[p].task # "open"
          BY <4>8, <5>1, <5>2, <5>4, TypeStep DEF RemoveJournal, Unlocked, Handling
        <5> QED BY <5>3, <5>4
      <4> QED BY <3>7, <4>1, <4>2, <4>3, <4>4, <4>5, <4>6, <4>7, <4>8 DEF Purging
    <3>8. CASE Rebuilding(p)
      <4>1. CASE RebuildLock(p)
        <5>1. SharedTyped'
          BY <2>1, <4>1 DEF RebuildLock, Acquire, SharedTyped
        <5>2. [Idle EXCEPT !.task = "rebuild", !.ids = observations] \in Work
          BY <2>1 DEF Idle, Work, Task, SharedTyped
        <5> QED BY <4>1, <5>1, <5>2, TypeStep DEF RebuildLock, Locked, Handling
      <4>2. ASSUME NEW c \in Chunk, ClearChunk(p, c) PROVE TypeInv'
        <5>1. SharedTyped'
          BY <2>1, <4>2 DEF ClearChunk, SharedTyped
        <5> QED BY <3>1, <3>2, <3>3, <4>2, <5>1, TypeStep DEF ClearChunk
      <4>3. CASE Cleared(p)
        <5>1. SharedTyped'
          BY <2>1, <4>3 DEF Cleared, SharedTyped
        <5> QED BY <3>1, <4>3, <5>1, TypeStep DEF Cleared, Locked, Handling
      <4>4. ASSUME NEW o \in Obs, Reindex(p, o) PROVE TypeInv'
        <5>1. SharedTyped'
          BY <2>1, <4>4 DEF Reindex, Listed, SharedTyped
        <5> DEFINE w == [work[p] EXCEPT !.ids = @ \ {o}]
        <5>2. w \in Work
          BY <3>1 DEF Work
        <5>3. pc' = [pc EXCEPT ![p] = pc[p]] /\ work' = [work EXCEPT ![p] = w]
          BY <3>2, <4>4 DEF Reindex
        <5>4. pc[p] = "reindex"
          BY <4>4 DEF Reindex
        <5> HIDE DEF w
        <5> QED BY <3>2, <5>1, <5>2, <5>3, <5>4, TypeStep DEF Handling
      <4>5. CASE RebuildReturn(p)
        <5>1. SharedTyped'
          BY <2>1, <4>5 DEF RebuildReturn, Release, SharedTyped
        <5>2. Idle \in Work
          BY DEF Idle, Work, Task
        <5> QED BY <4>5, <5>1, <5>2, TypeStep DEF RebuildReturn, Unlocked, Handling
      <4> QED BY <3>8, <4>1, <4>2, <4>3, <4>4, <4>5 DEF Rebuilding
    <3>9. CASE Crash(p) \/ FailImport(p)
      <4>1. SharedTyped'
        BY <2>1, <3>9 DEF Crash, FailImport, Release, SharedTyped
      <4>2. Idle \in Work
        BY DEF Idle, Work, Task
      <4> QED BY <3>9, <4>1, <4>2, TypeStep DEF Crash, FailImport, Unlocked, Handling
    <3> QED BY <2>2, <3>5, <3>6, <3>7, <3>8, <3>9 DEF Step
  <2> QED BY <2>0, <2>2 DEF Next
<1> QED BY <1>1, <1>2, PTL DEF Spec

(* Every variable of the archive keeps its type.                            *)
THEOREM TypeOKCorrect == Spec => []TypeOK
BY TypeCorrect, PTL DEF TypeInv

-----------------------------------------------------------------------------
(* A process is in a locked section exactly when it holds the lock, so no   *)
(* two processes are ever in one.                                           *)
THEOREM LockCorrect == Spec => []LockHeld
<1> USE ProcAssumption DEF LockHeld, Locked
<1>1. Init => LockHeld
  BY DEF Init
<1>2. TypeInv /\ LockHeld /\ [Next]_vars => LockHeld'
  <2> SUFFICES ASSUME TypeInv, LockHeld, [Next]_vars PROVE LockHeld'
    OBVIOUS
  <2>1. pc \in [Proc -> Unlocked \cup Locked]
    BY DEF TypeInv, TypeOK
  <2>2. CASE UNCHANGED vars
    BY <2>2 DEF vars
  <2>3. ASSUME NEW p \in Proc, Step(p) PROVE LockHeld'
    <3> USE <2>1 DEF Goto, Acquire, Release
    <3>1. CASE Opening(p)
      <4>1. ASSUME NEW o \in Obs, ReplayTransaction(p, o) PROVE LockHeld'
        BY <4>1 DEF ReplayTransaction
      <4>2. CASE OpenLock(p)
        BY <4>2 DEF OpenLock
      <4>3. CASE ReplayJournal(p) \/ OpenReturn(p)
        BY <4>3 DEF ReplayJournal, OpenReturn
      <4> QED BY <3>1, <4>1, <4>2, <4>3 DEF Opening
    <3>2. CASE Importing(p)
      <4>1. CASE RemoveTransaction(p)
        BY <4>1 DEF RemoveTransaction
      <4>2. CASE AddLock(p)
        BY <4>2 DEF AddLock
      <4>3. CASE WriteTransaction(p) \/ CommitObservation(p) \/ CommitIndex(p)
        BY <4>3 DEF WriteTransaction, CommitObservation, CommitIndex
      <4> QED BY <3>2, <4>1, <4>2, <4>3 DEF Importing, StartImport, StoreComponent
    <3>3. CASE Purging(p)
      <4>1. ASSUME NEW o \in Obs, Unindex(p, o) PROVE LockHeld'
        BY <4>1 DEF Unindex
      <4>2. CASE RemoveJournal(p)
        BY <4>2 DEF RemoveJournal
      <4> QED BY <3>3, <4>1, <4>2
          DEF Purging, SelectForPurge, PurgeLock, WriteJournal, RemoveRecord,
              FindSurvivors, RemoveObject
    <3>4. CASE Rebuilding(p)
      <4>1. CASE RebuildLock(p)
        BY <4>1 DEF RebuildLock
      <4>2. CASE Cleared(p) \/ RebuildReturn(p)
        BY <4>2 DEF Cleared, RebuildReturn
      <4> QED BY <3>4, <4>1, <4>2 DEF Rebuilding, ClearChunk, Reindex
    <3> QED BY <2>3, <3>1, <3>2, <3>3, <3>4 DEF Step
  <2>4. ASSUME NEW p \in Proc, Crash(p) \/ FailImport(p) PROVE LockHeld'
    BY <2>1, <2>4 DEF Crash, FailImport, Goto, Release
  <2> QED BY <2>2, <2>3, <2>4 DEF Next
<1> QED BY <1>1, <1>2, TypeCorrect, PTL DEF Spec

-----------------------------------------------------------------------------
RecordInv == ListedHasRecord /\ RecordInHand

(* The steps that change neither the records nor the index, and leave the   *)
(* process where RecordInHand asks nothing new of it.                       *)
LEMMA RecordInvQuiet ==
  ASSUME TypeInv, RecordInv, NEW p \in Proc, NEW label, NEW w,
         pc' = [pc EXCEPT ![p] = label], work' = [work EXCEPT ![p] = w],
         UNCHANGED <<observations, index>>,
         label \notin {"commitIndex", "removeTx", "removeRecord", "clearIndex", "reindex"}
  PROVE  RecordInv'
BY DEF RecordInv, RecordInHand, ListedHasRecord, Indexed, TypeInv, TypeOK

(* The index and the records agree as far as the process that holds the     *)
(* lock has got with the operation it is in the middle of.                  *)
THEOREM RecordsCorrect == Spec => []RecordInv
<1>1. Init => RecordInv
  BY ObsAssumption DEF Init, RecordInv, RecordInHand, ListedHasRecord, Indexed
<1>2. TypeInv /\ LockHeld /\ RecordInv /\ [Next]_vars => RecordInv'
  <2> SUFFICES ASSUME TypeInv, LockHeld, RecordInv, [Next]_vars PROVE RecordInv'
    OBVIOUS
  <2> USE DEF Goto, Hold, disk, history
  <2>0. CASE UNCHANGED vars
    BY <2>0 DEF vars, RecordInv, RecordInHand, ListedHasRecord, Indexed
  <2>1. ASSUME NEW p \in Proc, Opening(p) PROVE RecordInv'
    BY <2>1, RecordInvQuiet
    DEF Opening, OpenLock, ReplayTransaction, ReplayJournal, OpenReturn
  <2>2. ASSUME NEW p \in Proc, Importing(p) PROVE RecordInv'
    <3>0. pc = [pc EXCEPT ![p] = pc[p]] /\ work = [work EXCEPT ![p] = work[p]]
      BY DEF TypeInv, TypeOK
    <3>1. ASSUME NEW o \in Obs, StartImport(p, o) PROVE RecordInv'
      BY <3>1, RecordInvQuiet DEF StartImport
    <3>2. ASSUME NEW x \in Object, StoreComponent(p, x) PROVE RecordInv'
      BY <3>0, <3>2, RecordInvQuiet DEF StoreComponent
    <3>3. CASE AddLock(p)
      BY <3>0, <3>3, RecordInvQuiet DEF AddLock
    <3>4. CASE WriteTransaction(p)
      BY <3>0, <3>4, RecordInvQuiet DEF WriteTransaction
    <3>5. CASE CommitObservation(p)
      BY <3>5
      DEF CommitObservation, RecordInv, RecordInHand, ListedHasRecord, Indexed,
          TypeInv, TypeOK
    <3>6. CASE CommitIndex(p)
      BY <3>6, ObsAssumption
      DEF CommitIndex, Listed, RecordInv, RecordInHand, ListedHasRecord, Indexed,
          TypeInv, TypeOK, LockHeld, Locked
    <3>7. CASE RemoveTransaction(p)
      BY <3>7, RecordInvQuiet DEF RemoveTransaction
    <3> QED BY <2>2, <3>1, <3>2, <3>3, <3>4, <3>5, <3>6, <3>7 DEF Importing
  <2>3. ASSUME NEW p \in Proc, Purging(p) PROVE RecordInv'
    <3>0. pc = [pc EXCEPT ![p] = pc[p]] /\ work = [work EXCEPT ![p] = work[p]]
      BY DEF TypeInv, TypeOK
    <3>1. ASSUME NEW S \in SUBSET Obs, SelectForPurge(p, S) PROVE RecordInv'
      BY <3>1, RecordInvQuiet DEF SelectForPurge
    <3>2. CASE PurgeLock(p)
      BY <3>2, RecordInvQuiet DEF PurgeLock
    <3>3. CASE WriteJournal(p)
      BY <3>0, <3>3, RecordInvQuiet DEF WriteJournal
    <3>4. ASSUME NEW o \in Obs, Unindex(p, o) PROVE RecordInv'
      <4>1. CASE o \in observations
        <5> USE <3>4, <4>1, ObsAssumption DEF Unindex, TypeInv, TypeOK
        <5>1. /\ index' = [index EXCEPT ![ChunkOf[o]] = @ \ {o}]
              /\ pc' = [pc EXCEPT ![p] = "removeRecord"]
              /\ work' = [work EXCEPT ![p] = [work[p] EXCEPT !.at = o]]
              /\ observations' = observations
          BY DEF Unlisted
        <5>2. \A b \in Obs : Indexed(b)' <=> Indexed(b) /\ b # o
          BY <5>1 DEF Indexed
        <5>3. ListedHasRecord'
          BY <5>1, <5>2 DEF RecordInv, ListedHasRecord
        <5>4. work'[p].at = o /\ work'[p].ids = work[p].ids
          BY <5>1 DEF Work
        <5>5. \A q \in Proc \ {p} : pc'[q] = pc[q] /\ work'[q] = work[q]
                                  /\ pc[q] \notin Locked
          BY <5>1 DEF LockHeld, Locked
        <5>6. RecordInHand'
          BY <5>1, <5>2, <5>4, <5>5 DEF RecordInHand, Locked
        <5> QED BY <5>3, <5>6 DEF RecordInv
      <4>2. CASE o \notin observations
        BY <3>0, <3>4, <4>2, RecordInvQuiet DEF Unindex
      <4> QED BY <4>1, <4>2
    <3>5. CASE RemoveRecord(p)
      BY <3>5
      DEF RemoveRecord, RecordInv, RecordInHand, ListedHasRecord, Indexed,
          TypeInv, TypeOK, LockHeld, Locked
    <3>6. CASE FindSurvivors(p)
      BY <3>6, RecordInvQuiet DEF FindSurvivors
    <3>7. ASSUME NEW x \in Object, RemoveObject(p, x) PROVE RecordInv'
      BY <3>0, <3>7, RecordInvQuiet DEF RemoveObject
    <3>8. CASE RemoveJournal(p)
      BY <3>0, <3>8, RecordInvQuiet DEF RemoveJournal
    <3> QED BY <2>3, <3>1, <3>2, <3>3, <3>4, <3>5, <3>6, <3>7, <3>8 DEF Purging
  <2>4. ASSUME NEW p \in Proc, Rebuilding(p) PROVE RecordInv'
    <3> USE DEF RecordInv, RecordInHand, ListedHasRecord, Indexed, TypeInv, TypeOK,
                LockHeld, Locked
    <3>1. CASE RebuildLock(p)
      BY <3>1 DEF RebuildLock
    <3>2. ASSUME NEW c \in Chunk, ClearChunk(p, c) PROVE RecordInv'
      BY <3>2, ObsAssumption DEF ClearChunk
    <3>3. CASE Cleared(p)
      BY <3>3 DEF Cleared
    <3>4. ASSUME NEW o \in Obs, Reindex(p, o) PROVE RecordInv'
      BY <3>4, ObsAssumption DEF Reindex, Listed
    <3>5. CASE RebuildReturn(p)
      BY <3>5, RecordInvQuiet DEF RebuildReturn
    <3> QED BY <2>4, <3>1, <3>2, <3>3, <3>4, <3>5 DEF Rebuilding
  <2>5. ASSUME NEW p \in Proc, Crash(p) PROVE RecordInv'
    BY <2>5, RecordInvQuiet DEF Crash
  <2>6. ASSUME NEW p \in Proc, FailImport(p) PROVE RecordInv'
    BY <2>6, RecordInvQuiet DEF FailImport
  <2> QED BY <2>0, <2>1, <2>2, <2>3, <2>4, <2>5, <2>6 DEF Next, Step
<1> QED BY <1>1, <1>2, TypeCorrect, LockCorrect, PTL DEF Spec

(* No index file ever lists an observation whose record is missing, through *)
(* every interleaving of imports, purges, rebuilds and crashes.             *)
THEOREM ListedHasRecordCorrect == Spec => []ListedHasRecord
<1>1. RecordInv => ListedHasRecord
  BY DEF RecordInv
<1> QED BY <1>1, RecordsCorrect, PTL

-----------------------------------------------------------------------------
AckInv == AckedSurvives /\ PurgedNotAcked

(* The steps that change neither the records, the journal nor what has been *)
(* reported, and do not enter the purge loop.                               *)
LEMMA AckInvQuiet ==
  ASSUME TypeInv, AckInv, NEW p \in Proc, NEW label, NEW w,
         pc' = [pc EXCEPT ![p] = label], work' = [work EXCEPT ![p] = w],
         UNCHANGED <<observations, journal, acked>>,
         label \notin {"unindex", "removeRecord"}
  PROVE  AckInv'
BY DEF AckInv, AckedSurvives, PurgedNotAcked, Journalled, TypeInv, TypeOK

(* An import that reported success keeps its record until a purge begun     *)
(* later names it: no purge, resumed or replayed by whichever process,      *)
(* removes the record of an observation imported since it was requested     *)
(* unless its own journal was already pending then.                         *)
THEOREM AckedSurvivesCorrect == Spec => []AckedSurvives
<1>1. Init => AckInv
  BY DEF Init, AckInv, AckedSurvives, PurgedNotAcked
<1>2. TypeInv /\ LockHeld /\ RecordInv /\ AckInv /\ [Next]_vars => AckInv'
  <2> SUFFICES ASSUME TypeInv, LockHeld, RecordInv, AckInv, [Next]_vars PROVE AckInv'
    OBVIOUS
  <2> USE DEF Goto, Hold, disk, history
  <2>0. CASE UNCHANGED vars
    BY <2>0 DEF vars, AckInv, AckedSurvives, PurgedNotAcked, Journalled
  <2>1. \A p \in Proc : /\ pc = [pc EXCEPT ![p] = pc[p]]
                        /\ work = [work EXCEPT ![p] = work[p]]
    BY DEF TypeInv, TypeOK
  <2>2. ASSUME NEW p \in Proc, Opening(p) PROVE AckInv'
    <3>1. CASE ReplayJournal(p)
      BY <3>1 DEF ReplayJournal, AckInv, AckedSurvives, PurgedNotAcked, Journalled,
                  TypeInv, TypeOK, Journal, Work
    <3> QED BY <2>2, <3>1, AckInvQuiet
        DEF Opening, OpenLock, ReplayTransaction, OpenReturn
  <2>3. ASSUME NEW p \in Proc, Importing(p) PROVE AckInv'
    <3>1. ASSUME NEW o \in Obs, StartImport(p, o) PROVE AckInv'
      <4>1. UNCHANGED <<observations, journal, acked>>
        BY <3>1 DEF StartImport
      <4>2. \A q \in Proc : pc'[q] \in {"unindex", "removeRecord"} =>
              pc'[q] = pc[q] /\ work'[q] = work[q]
        BY <3>1 DEF StartImport, TypeInv, TypeOK
      <4> QED BY <4>1, <4>2 DEF AckInv, AckedSurvives, PurgedNotAcked, Journalled
    <3>2. ASSUME NEW x \in Object, StoreComponent(p, x) PROVE AckInv'
      BY <2>1, <3>2, AckInvQuiet DEF StoreComponent
    <3>3. CASE AddLock(p)
      BY <2>1, <3>3, AckInvQuiet DEF AddLock
    <3>4. CASE WriteTransaction(p)
      <4>1. UNCHANGED <<observations, journal, acked>>
        BY <3>4 DEF WriteTransaction
      <4>2. pc' = [pc EXCEPT ![p] = "commitObservation"] /\ work' = [work EXCEPT ![p] = work[p]]
        BY <2>1, <3>4 DEF WriteTransaction
      <4> QED BY <4>1, <4>2, AckInvQuiet
    <3>5. CASE CommitObservation(p)
      <4>1. observations \subseteq observations' /\ UNCHANGED <<journal, acked>>
        BY <3>5 DEF CommitObservation
      <4>2. pc' = [pc EXCEPT ![p] = "commitIndex"] /\ work' = [work EXCEPT ![p] = work[p]]
        BY <2>1, <3>5 DEF CommitObservation
      <4>3. \A q \in Proc : pc'[q] \in {"unindex", "removeRecord"} =>
              pc'[q] = pc[q] /\ work'[q] = work[q]
        BY <4>2 DEF TypeInv, TypeOK
      <4> QED BY <4>1, <4>3 DEF AckInv, AckedSurvives, PurgedNotAcked, Journalled
    <3>6. CASE CommitIndex(p)
      <4>1. UNCHANGED <<observations, journal, acked>>
        BY <3>6 DEF CommitIndex
      <4>2. pc' = [pc EXCEPT ![p] = "removeTx"] /\ work' = [work EXCEPT ![p] = work[p]]
        BY <2>1, <3>6 DEF CommitIndex
      <4> QED BY <4>1, <4>2, AckInvQuiet
    <3>7. CASE RemoveTransaction(p)
      <4>1. CASE work[p].task = "open"
        <5>1. /\ UNCHANGED <<observations, journal, acked>>
              /\ pc' = [pc EXCEPT ![p] = "replay"]
              /\ work' = [work EXCEPT ![p] = [work[p] EXCEPT !.at = NoObs]]
          BY <3>7, <4>1 DEF RemoveTransaction
        <5> QED BY <5>1, AckInvQuiet
      <4>2. CASE work[p].task = "retry"
        <5>1. /\ UNCHANGED <<observations, journal, acked>>
              /\ pc' = [pc EXCEPT ![p] = "writeTx"]
              /\ work' = [work EXCEPT ![p] = [work[p] EXCEPT !.task = "import"]]
          BY <3>7, <4>2 DEF RemoveTransaction
        <5> QED BY <5>1, AckInvQuiet
      <4>3. CASE work[p].task \notin {"open", "retry"}
        <5>1. /\ UNCHANGED <<observations, journal>>
              /\ pc' = [pc EXCEPT ![p] = "ingesting"]
              /\ work' = [work EXCEPT ![p] = Idle]
              /\ acked' = acked \cup ({work[p].at} \ {o \in Obs : Journalled(o)})
          BY <3>7, <4>3 DEF RemoveTransaction
        <5>2. work[p].at \in observations /\ pc[p] \in Locked /\ observations \subseteq Obs
          BY <3>7 DEF RemoveTransaction, RecordInv, RecordInHand, Locked, TypeInv, TypeOK
        <5>3. \A q \in Proc : pc'[q] \notin {"unindex", "removeRecord"}
          <6>1. \A q \in Proc \ {p} : pc'[q] = pc[q] /\ pc[q] \notin Locked
            BY <5>1, <5>2 DEF LockHeld, TypeInv, TypeOK
          <6>2. pc'[p] = "ingesting"
            BY <5>1 DEF TypeInv, TypeOK
          <6> QED BY <6>1, <6>2 DEF Locked
        <5>4. \A o \in acked' : o \in observations' /\ ~Journalled(o)'
          BY <5>1, <5>2 DEF AckInv, AckedSurvives, PurgedNotAcked, Journalled
        <5> QED BY <5>3, <5>4 DEF AckInv, AckedSurvives, PurgedNotAcked
      <4> QED BY <4>1, <4>2, <4>3
    <3> QED BY <2>3, <3>1, <3>2, <3>3, <3>4, <3>5, <3>6, <3>7 DEF Importing
  <2>4. ASSUME NEW p \in Proc, Purging(p) PROVE AckInv'
    <3>1. ASSUME NEW S \in SUBSET Obs, SelectForPurge(p, S) PROVE AckInv'
      <4>1. UNCHANGED <<observations, journal, acked>>
        BY <3>1 DEF SelectForPurge
      <4>2. \A q \in Proc : pc'[q] \in {"unindex", "removeRecord"} =>
              pc'[q] = pc[q] /\ work'[q] = work[q]
        BY <3>1 DEF SelectForPurge, TypeInv, TypeOK
      <4> QED BY <4>1, <4>2 DEF AckInv, AckedSurvives, PurgedNotAcked, Journalled
    <3>2. CASE PurgeLock(p)
      <4>1. UNCHANGED <<observations, journal, acked>>
        BY <3>2 DEF PurgeLock
      <4>2. \A q \in Proc : pc'[q] \in {"unindex", "removeRecord"} =>
              pc'[q] = pc[q] /\ work'[q] = work[q]
        BY <3>2 DEF PurgeLock, TypeInv, TypeOK
      <4> QED BY <4>1, <4>2 DEF AckInv, AckedSurvives, PurgedNotAcked, Journalled
    <3>3. CASE WriteJournal(p)
      <4>1. /\ journal'.ids = work[p].ids
            /\ acked' = acked \ work[p].ids
            /\ UNCHANGED <<observations, work>>
        BY <3>3 DEF WriteJournal
      <4>2. \A o \in acked' : ~Journalled(o)'
        BY <4>1 DEF Journalled
      <4>3. \A q \in Proc : pc'[q] \in {"unindex", "removeRecord"} =>
              work'[q].ids \cap acked' = {}
        BY <3>3, <4>1 DEF WriteJournal, AckInv, PurgedNotAcked, TypeInv, TypeOK
      <4> QED BY <4>1, <4>2, <4>3 DEF AckInv, AckedSurvives, PurgedNotAcked
    <3>4. ASSUME NEW o \in Obs, Unindex(p, o) PROVE AckInv'
      <4>1. UNCHANGED <<observations, journal, acked>>
        BY <3>4 DEF Unindex
      <4>2. \A q \in Proc : pc'[q] \in {"unindex", "removeRecord"} =>
              /\ work'[q].ids \subseteq work[q].ids
              /\ pc[q] \in {"unindex", "removeRecord"}
        BY <3>4 DEF Unindex, TypeInv, TypeOK, Work
      <4> QED BY <4>1, <4>2 DEF AckInv, AckedSurvives, PurgedNotAcked, Journalled
    <3>5. CASE RemoveRecord(p)
      BY <3>5 DEF RemoveRecord, AckInv, AckedSurvives, PurgedNotAcked, Journalled,
                  TypeInv, TypeOK, Work, RecordInv, RecordInHand
    <3>6. CASE FindSurvivors(p)
      <4>1. UNCHANGED <<observations, journal, acked>>
        BY <3>6 DEF FindSurvivors
      <4>2. \A q \in Proc : pc'[q] \in {"unindex", "removeRecord"} =>
              pc'[q] = pc[q] /\ work'[q] = work[q]
        BY <3>6 DEF FindSurvivors, TypeInv, TypeOK
      <4> QED BY <4>1, <4>2 DEF AckInv, AckedSurvives, PurgedNotAcked, Journalled
    <3>7. ASSUME NEW x \in Object, RemoveObject(p, x) PROVE AckInv'
      BY <2>1, <3>7, AckInvQuiet DEF RemoveObject
    <3>8. CASE RemoveJournal(p)
      BY <3>8 DEF RemoveJournal, AckInv, AckedSurvives, PurgedNotAcked, Journalled,
                  TypeInv, TypeOK
    <3> QED BY <2>4, <3>1, <3>2, <3>3, <3>4, <3>5, <3>6, <3>7, <3>8 DEF Purging
  <2>5. ASSUME NEW p \in Proc, Rebuilding(p) PROVE AckInv'
    <3>1. CASE RebuildLock(p) \/ RebuildReturn(p)
      BY <3>1, AckInvQuiet DEF RebuildLock, RebuildReturn
    <3>2. ASSUME NEW c \in Chunk, ClearChunk(p, c) PROVE AckInv'
      BY <2>1, <3>2, AckInvQuiet DEF ClearChunk
    <3>3. CASE Cleared(p)
      <4>1. UNCHANGED <<observations, journal, acked>>
        BY <3>3 DEF Cleared
      <4>2. pc' = [pc EXCEPT ![p] = "reindex"] /\ work' = [work EXCEPT ![p] = work[p]]
        BY <2>1, <3>3 DEF Cleared
      <4> QED BY <4>1, <4>2, AckInvQuiet
    <3>4. ASSUME NEW o \in Obs, Reindex(p, o) PROVE AckInv'
      BY <2>1, <3>4, AckInvQuiet DEF Reindex
    <3> QED BY <2>5, <3>1, <3>2, <3>3, <3>4 DEF Rebuilding
  <2>6. ASSUME NEW p \in Proc, Crash(p) \/ FailImport(p) PROVE AckInv'
    BY <2>6, AckInvQuiet DEF Crash, FailImport
  <2> QED BY <2>0, <2>2, <2>3, <2>4, <2>5, <2>6 DEF Next, Step
<1>3. AckInv => AckedSurvives
  BY DEF AckInv
<1> QED BY <1>1, <1>2, <1>3, TypeCorrect, LockCorrect, RecordsCorrect, PTL DEF Spec

-----------------------------------------------------------------------------
(* The steps that store no new record and do not enter the removal loop.    *)
LEMMA SurvivorsQuiet ==
  ASSUME TypeInv, SurvivorsKept, NEW p \in Proc, NEW label, NEW w,
         pc' = [pc EXCEPT ![p] = label], work' = [work EXCEPT ![p] = w],
         observations' \subseteq observations, label # "removeObject"
  PROVE  SurvivorsKept'
<1>1. ReferencedBy(observations)' \subseteq ReferencedBy(observations)
  BY DEF ReferencedBy
<1> QED BY <1>1 DEF SurvivorsKept, TypeInv, TypeOK

(* What a purge still has to remove is referenced by no stored observation. *)
THEOREM SurvivorsCorrect == Spec => []SurvivorsKept
<1>1. Init => SurvivorsKept
  BY DEF Init, SurvivorsKept
<1>2. TypeInv /\ LockHeld /\ SurvivorsKept /\ [Next]_vars => SurvivorsKept'
  <2> SUFFICES ASSUME TypeInv, LockHeld, SurvivorsKept, [Next]_vars
               PROVE SurvivorsKept'
    OBVIOUS
  <2> USE DEF Goto, Hold, disk, history
  <2>0. CASE UNCHANGED vars
    BY <2>0 DEF vars, SurvivorsKept, ReferencedBy
  <2>1. \A p \in Proc : /\ pc = [pc EXCEPT ![p] = pc[p]]
                        /\ work = [work EXCEPT ![p] = work[p]]
    BY DEF TypeInv, TypeOK
  <2>2. ASSUME NEW p \in Proc, Opening(p) PROVE SurvivorsKept'
    BY <2>2, SurvivorsQuiet
    DEF Opening, OpenLock, ReplayTransaction, ReplayJournal, OpenReturn
  <2>3. ASSUME NEW p \in Proc, Importing(p) PROVE SurvivorsKept'
    <3>1. ASSUME NEW o \in Obs, StartImport(p, o) PROVE SurvivorsKept'
      BY <3>1, SurvivorsQuiet DEF StartImport
    <3>2. ASSUME NEW x \in Object, StoreComponent(p, x) PROVE SurvivorsKept'
      BY <2>1, <3>2, SurvivorsQuiet DEF StoreComponent
    <3>3. CASE AddLock(p)
      BY <2>1, <3>3, SurvivorsQuiet DEF AddLock
    <3>4. CASE WriteTransaction(p)
      BY <2>1, <3>4, SurvivorsQuiet DEF WriteTransaction
    <3>5. CASE CommitObservation(p)
      BY <3>5 DEF CommitObservation, SurvivorsKept, TypeInv, TypeOK, LockHeld, Locked
    <3>6. CASE CommitIndex(p)
      BY <2>1, <3>6, SurvivorsQuiet DEF CommitIndex
    <3>7. CASE RemoveTransaction(p)
      BY <3>7, SurvivorsQuiet DEF RemoveTransaction
    <3> QED BY <2>3, <3>1, <3>2, <3>3, <3>4, <3>5, <3>6, <3>7 DEF Importing
  <2>4. ASSUME NEW p \in Proc, Purging(p) PROVE SurvivorsKept'
    <3>1. ASSUME NEW S \in SUBSET Obs, SelectForPurge(p, S) PROVE SurvivorsKept'
      BY <3>1, SurvivorsQuiet DEF SelectForPurge
    <3>2. CASE PurgeLock(p)
      BY <3>2, SurvivorsQuiet DEF PurgeLock
    <3>3. CASE WriteJournal(p)
      BY <2>1, <3>3, SurvivorsQuiet DEF WriteJournal
    <3>4. ASSUME NEW o \in Obs, Unindex(p, o) PROVE SurvivorsKept'
      BY <2>1, <3>4, SurvivorsQuiet DEF Unindex
    <3>5. CASE RemoveRecord(p)
      BY <3>5, SurvivorsQuiet DEF RemoveRecord
    <3>6. CASE FindSurvivors(p)
      <4>1. work'[p].refs \cap ReferencedBy(observations)' = {}
        BY <3>6 DEF FindSurvivors, ReferencedBy, TypeInv, TypeOK, Work
      <4>2. \A q \in Proc \ {p} : pc'[q] = pc[q] /\ pc[q] \notin Locked
        BY <3>6 DEF FindSurvivors, TypeInv, TypeOK, LockHeld, Locked
      <4> QED BY <4>1, <4>2 DEF SurvivorsKept, Locked
    <3>7. ASSUME NEW x \in Object, RemoveObject(p, x) PROVE SurvivorsKept'
      <4>1. ReferencedBy(observations)' = ReferencedBy(observations)
        BY <3>7 DEF RemoveObject, ReferencedBy
      <4>2. \A q \in Proc : pc'[q] = pc[q] /\ work'[q].refs \subseteq work[q].refs
        BY <3>7 DEF RemoveObject, TypeInv, TypeOK, Work
      <4> QED BY <4>1, <4>2 DEF SurvivorsKept
    <3>8. CASE RemoveJournal(p)
      BY <2>1, <3>8, SurvivorsQuiet DEF RemoveJournal
    <3> QED BY <2>4, <3>1, <3>2, <3>3, <3>4, <3>5, <3>6, <3>7, <3>8 DEF Purging
  <2>5. ASSUME NEW p \in Proc, Rebuilding(p) PROVE SurvivorsKept'
    <3>1. CASE RebuildLock(p) \/ RebuildReturn(p)
      BY <3>1, SurvivorsQuiet DEF RebuildLock, RebuildReturn
    <3>2. ASSUME NEW c \in Chunk, ClearChunk(p, c) PROVE SurvivorsKept'
      BY <2>1, <3>2, SurvivorsQuiet DEF ClearChunk
    <3>3. CASE Cleared(p)
      BY <2>1, <3>3, SurvivorsQuiet DEF Cleared
    <3>4. ASSUME NEW o \in Obs, Reindex(p, o) PROVE SurvivorsKept'
      BY <2>1, <3>4, SurvivorsQuiet DEF Reindex
    <3> QED BY <2>5, <3>1, <3>2, <3>3, <3>4 DEF Rebuilding
  <2>6. ASSUME NEW p \in Proc, Crash(p) \/ FailImport(p) PROVE SurvivorsKept'
    BY <2>6, SurvivorsQuiet DEF Crash, FailImport
  <2> QED BY <2>0, <2>2, <2>3, <2>4, <2>5, <2>6 DEF Next, Step
<1> QED BY <1>1, <1>2, TypeCorrect, LockCorrect, PTL DEF Spec

(* No step of any process removes an object a stored observation still      *)
(* references, although importers share the object store without the lock.  *)
THEOREM OnlyUnreferencedRemovedCorrect == Spec => OnlyUnreferencedRemoved
<1> DEFINE Kept == (objects \ objects') \cap ReferencedBy(observations) = {}
<1>1. SurvivorsKept /\ [Next]_vars => [Kept]_vars
  <2> SUFFICES ASSUME SurvivorsKept, Next PROVE Kept
    OBVIOUS
  <2>1. PICK p \in Proc : Step(p) \/ Crash(p) \/ FailImport(p)
    BY DEF Next
  <2>2. CASE \E x \in Object : RemoveObject(p, x)
    BY <2>2 DEF RemoveObject, SurvivorsKept
  <2>3. CASE ~\E x \in Object : RemoveObject(p, x)
    <3>1. objects \subseteq objects'
      BY <2>1, <2>3
      DEF Step, Crash, FailImport, disk,
          Opening, OpenLock, ReplayTransaction, ReplayJournal, OpenReturn,
          Importing, StartImport, StoreComponent, AddLock, WriteTransaction,
          CommitObservation, CommitIndex, RemoveTransaction,
          Purging, SelectForPurge, PurgeLock, WriteJournal, Unindex, RemoveRecord,
          FindSurvivors, RemoveJournal,
          Rebuilding, RebuildLock, ClearChunk, Cleared, Reindex, RebuildReturn
    <3> QED BY <3>1
  <2> QED BY <2>2, <2>3
<1> QED BY <1>1, SurvivorsCorrect, PTL DEF Spec, OnlyUnreferencedRemoved

-----------------------------------------------------------------------------
(* Where a transaction is being carried out, and where a purge is.          *)
Committing == {"commitObservation", "commitIndex", "removeTx"}
Removing == {"unindex", "removeRecord", "removeObject"}

(* One process moves on to a label with work in hand; the others stay where *)
(* they are. The lemmas below say where each step goes, so that the proofs  *)
(* need not unfold the updates of pc and work again.                        *)
Moves(p, label, task, at, ids, refs) ==
  /\ pc'[p] = label
  /\ work'[p].task = task /\ work'[p].at = at
  /\ work'[p].ids = ids /\ work'[p].refs = refs
  /\ \A q \in Proc \ {p} : pc'[q] = pc[q] /\ work'[q] = work[q]

(* Opening starts: the process is at the replay, with nothing in hand.      *)
LEMMA OpenLockMoves ==
  ASSUME TypeInv, NEW p \in Proc, OpenLock(p)
  PROVE  Moves(p, "replay", "open", NoObs, {}, {})
BY DEF OpenLock, TypeInv, TypeOK, Moves, Work, Goto, Hold, Idle

(* A replay takes up the observation its transaction file names.            *)
LEMMA ReplayTransactionMoves ==
  ASSUME TypeInv, NEW p \in Proc, NEW o \in Obs, ReplayTransaction(p, o)
  PROVE  Moves(p, "commitObservation", work[p].task, o, work[p].ids, work[p].refs)
BY DEF ReplayTransaction, TypeInv, TypeOK, Moves, Work, Goto, Hold

(* A replay takes up the ids and the objects the purge journal names.       *)
LEMMA ReplayJournalMoves ==
  ASSUME TypeInv, NEW p \in Proc, ReplayJournal(p)
  PROVE  Moves(p, "unindex", work[p].task, work[p].at, journal.ids, journal.refs)
BY DEF ReplayJournal, TypeInv, TypeOK, Moves, Work, Goto, Hold

(* An Open that returns has nothing in hand.                                *)
LEMMA OpenReturnMoves ==
  ASSUME TypeInv, NEW p \in Proc, OpenReturn(p)
  PROVE  Moves(p, "ready", "none", NoObs, {}, {})
BY DEF OpenReturn, TypeInv, TypeOK, Moves, Work, Goto, Hold, Idle

(* An import starts with one observation and its components in hand.        *)
LEMMA StartImportMoves ==
  ASSUME TypeInv, NEW p \in Proc, NEW o \in Obs, StartImport(p, o)
  PROVE  Moves(p, "store", "import", o, {}, Refs[o])
BY DEF StartImport, TypeInv, TypeOK, Moves, Work, Goto, Hold

(* Storing a component takes it off the list and nothing else.              *)
LEMMA StoreComponentMoves ==
  ASSUME TypeInv, NEW p \in Proc, NEW x \in Object, StoreComponent(p, x)
  PROVE  Moves(p, pc[p], work[p].task, work[p].at, work[p].ids, work[p].refs \ {x})
BY DEF StoreComponent, TypeInv, TypeOK, Moves, Work, Goto, Hold

(* AddObservation goes to the retry or to the transaction file.             *)
LEMMA AddLockMoves ==
  ASSUME TypeInv, NEW p \in Proc, AddLock(p)
  PROVE  IF work[p].at \in transactions
         THEN Moves(p, "commitObservation", "retry", work[p].at, work[p].ids, work[p].refs)
         ELSE Moves(p, "writeTx", work[p].task, work[p].at, work[p].ids, work[p].refs)
BY DEF AddLock, TypeInv, TypeOK, Moves, Work, Goto, Hold

(* Writing the transaction file keeps what is in hand.                      *)
LEMMA WriteTransactionMoves ==
  ASSUME TypeInv, NEW p \in Proc, WriteTransaction(p)
  PROVE  Moves(p, "commitObservation", work[p].task, work[p].at, work[p].ids, work[p].refs)
BY DEF WriteTransaction, TypeInv, TypeOK, Moves, Work, Goto, Hold

(* Writing the record keeps what is in hand.                                *)
LEMMA CommitObservationMoves ==
  ASSUME TypeInv, NEW p \in Proc, CommitObservation(p)
  PROVE  Moves(p, "commitIndex", work[p].task, work[p].at, work[p].ids, work[p].refs)
BY DEF CommitObservation, TypeInv, TypeOK, Moves, Work, Goto, Hold

(* Listing the record keeps what is in hand.                                *)
LEMMA CommitIndexMoves ==
  ASSUME TypeInv, NEW p \in Proc, CommitIndex(p)
  PROVE  Moves(p, "removeTx", work[p].task, work[p].at, work[p].ids, work[p].refs)
BY DEF CommitIndex, TypeInv, TypeOK, Moves, Work, Goto, Hold

(* The end of a transaction: on to the next one, to a second attempt, or    *)
(* out.                                                                     *)
LEMMA RemoveTransactionMoves ==
  ASSUME TypeInv, NEW p \in Proc, RemoveTransaction(p)
  PROVE  \/ /\ work[p].task = "open"
            /\ Moves(p, "replay", "open", NoObs, work[p].ids, work[p].refs)
            /\ UNCHANGED <<lock, acked>>
         \/ /\ work[p].task = "retry"
            /\ Moves(p, "writeTx", "import", work[p].at, work[p].ids, work[p].refs)
            /\ UNCHANGED <<lock, acked>>
         \/ /\ work[p].task \notin {"open", "retry"}
            /\ Moves(p, "ingesting", "none", NoObs, {}, {})
            /\ Release(p)
            /\ acked' = acked \cup ({work[p].at} \ {o \in Obs : Journalled(o)})
<1>1. CASE work[p].task = "open"
  BY <1>1 DEF RemoveTransaction, TypeInv, TypeOK, Moves, Work, Goto, Hold
<1>2. CASE work[p].task = "retry"
  BY <1>2 DEF RemoveTransaction, TypeInv, TypeOK, Moves, Work, Goto, Hold
<1>3. CASE work[p].task \notin {"open", "retry"}
  <2>1. Goto(p, "ingesting") /\ Hold(p, Idle) /\ Release(p)
        /\ acked' = acked \cup ({work[p].at} \ {o \in Obs : Journalled(o)})
    BY <1>3 DEF RemoveTransaction
  <2> QED BY <1>3, <2>1 DEF TypeInv, TypeOK, Moves, Goto, Hold, Idle
<1> QED BY <1>1, <1>2, <1>3

(* A purge starts with the ids it selected.                                 *)
LEMMA SelectForPurgeMoves ==
  ASSUME TypeInv, NEW p \in Proc, NEW S \in SUBSET Obs, SelectForPurge(p, S)
  PROVE  Moves(p, "selected", "purge", NoObs, S, {})
BY DEF SelectForPurge, TypeInv, TypeOK, Moves, Work, Goto, Hold, Idle

(* Under the lock the purge adds the objects its records reference.         *)
LEMMA PurgeLockMoves ==
  ASSUME TypeInv, NEW p \in Proc, PurgeLock(p)
  PROVE  Moves(p, "writeJournal", work[p].task, work[p].at, work[p].ids,
               ReferencedBy(work[p].ids \cap observations))
BY DEF PurgeLock, TypeInv, TypeOK, Moves, Work, Goto, Hold

(* Writing the journal keeps what is in hand.                               *)
LEMMA WriteJournalMoves ==
  ASSUME TypeInv, NEW p \in Proc, WriteJournal(p)
  PROVE  Moves(p, "unindex", work[p].task, work[p].at, work[p].ids, work[p].refs)
BY DEF WriteJournal, TypeInv, TypeOK, Moves, Work, Goto, Hold

(* A purge takes up the next record, or skips an id whose record is gone.   *)
LEMMA UnindexMoves ==
  ASSUME TypeInv, NEW p \in Proc, NEW o \in Obs, Unindex(p, o)
  PROVE  IF o \in observations
         THEN Moves(p, "removeRecord", work[p].task, o, work[p].ids, work[p].refs)
         ELSE Moves(p, "unindex", work[p].task, work[p].at, work[p].ids \ {o}, work[p].refs)
BY DEF Unindex, TypeInv, TypeOK, Moves, Work, Goto, Hold

(* Removing a record takes its id off the list.                             *)
LEMMA RemoveRecordMoves ==
  ASSUME TypeInv, NEW p \in Proc, RemoveRecord(p)
  PROVE  Moves(p, "unindex", work[p].task, work[p].at, work[p].ids \ {work[p].at},
               work[p].refs)
BY DEF RemoveRecord, TypeInv, TypeOK, Moves, Work, Goto, Hold

(* The objects surviving records reference come off the list.               *)
LEMMA FindSurvivorsMoves ==
  ASSUME TypeInv, NEW p \in Proc, FindSurvivors(p)
  PROVE  Moves(p, "removeObject", work[p].task, work[p].at, work[p].ids,
               work[p].refs \ ReferencedBy(observations))
BY DEF FindSurvivors, TypeInv, TypeOK, Moves, Work, Goto, Hold

(* Removing an object takes it off the list.                                *)
LEMMA RemoveObjectMoves ==
  ASSUME TypeInv, NEW p \in Proc, NEW x \in Object, RemoveObject(p, x)
  PROVE  Moves(p, "removeObject", work[p].task, work[p].at, work[p].ids, work[p].refs \ {x})
BY DEF RemoveObject, TypeInv, TypeOK, Moves, Work, Goto, Hold

(* The end of a purge: an Open goes on, the command closes.                 *)
LEMMA RemoveJournalMoves ==
  ASSUME TypeInv, NEW p \in Proc, RemoveJournal(p)
  PROVE  IF work[p].task = "open"
         THEN Moves(p, "replay", work[p].task, work[p].at, work[p].ids, work[p].refs)
         ELSE Moves(p, "closed", "none", NoObs, {}, {})
BY DEF RemoveJournal, TypeInv, TypeOK, Moves, Work, Goto, Hold, Idle

(* A rebuild starts with every record in hand.                              *)
LEMMA RebuildLockMoves ==
  ASSUME TypeInv, NEW p \in Proc, RebuildLock(p)
  PROVE  Moves(p, "clearIndex", "rebuild", NoObs, observations, {})
BY DEF RebuildLock, TypeInv, TypeOK, Moves, Work, Goto, Hold, Idle

(* Once the index is cleared the rebuild lists what it has in hand.         *)
LEMMA ClearedMoves ==
  ASSUME TypeInv, NEW p \in Proc, Cleared(p)
  PROVE  Moves(p, "reindex", work[p].task, work[p].at, work[p].ids, work[p].refs)
BY DEF Cleared, TypeInv, TypeOK, Moves, Work, Goto, Hold

(* Listing a record takes it off the list.                                  *)
LEMMA ReindexMoves ==
  ASSUME TypeInv, NEW p \in Proc, NEW o \in Obs, Reindex(p, o)
  PROVE  Moves(p, "reindex", work[p].task, work[p].at, work[p].ids \ {o}, work[p].refs)
BY DEF Reindex, TypeInv, TypeOK, Moves, Work, Goto, Hold

(* A rebuild that returns has nothing in hand.                              *)
LEMMA RebuildReturnMoves ==
  ASSUME TypeInv, NEW p \in Proc, RebuildReturn(p)
  PROVE  Moves(p, "closed", "none", NoObs, {}, {})
BY DEF RebuildReturn, TypeInv, TypeOK, Moves, Work, Goto, Hold, Idle

(* A process that dies has nothing in hand.                                 *)
LEMMA CrashMoves ==
  ASSUME TypeInv, NEW p \in Proc, Crash(p)
  PROVE  Moves(p, "closed", "none", NoObs, {}, {})
BY DEF Crash, TypeInv, TypeOK, Moves, Work, Goto, Hold, Idle

(* An import that fails leaves the process between bundles.                 *)
LEMMA FailImportMoves ==
  ASSUME TypeInv, NEW p \in Proc, FailImport(p)
  PROVE  Moves(p, "ingesting", "none", NoObs, {}, {})
BY DEF FailImport, TypeInv, TypeOK, Moves, Work, Goto, Hold, Idle

(* Opening takes the journal up and touches no file.                        *)
LEMMA ReplayJournalQuiet ==
  ASSUME NEW p \in Proc, ReplayJournal(p)
  PROVE  /\ pc[p] = "replay" /\ transactions = {} /\ journal # NoJournal
         /\ UNCHANGED <<objects, observations, index, transactions, journal>>
         /\ UNCHANGED <<lock, acked, gone, withdrawn, halfRebuilt>>
BY DEF ReplayJournal, disk, history

(* Opening ends when there is nothing to replay.                            *)
LEMMA OpenReturnQuiet ==
  ASSUME NEW p \in Proc, OpenReturn(p)
  PROVE  /\ pc[p] = "replay" /\ transactions = {} /\ journal = NoJournal
         /\ UNCHANGED <<objects, observations, index, transactions, journal>>
         /\ UNCHANGED <<acked, gone, withdrawn, halfRebuilt>>
BY DEF OpenReturn, disk, history

(* A purge selects records that are listed, and touches no file.            *)
LEMMA SelectForPurgeQuiet ==
  ASSUME NEW p \in Proc, NEW S \in SUBSET Obs, SelectForPurge(p, S)
  PROVE  /\ pc[p] = "ready" /\ S # {} /\ \A o \in S : Indexed(o)
         /\ \A c \in Chunk : index[c] \subseteq observations
         /\ UNCHANGED <<objects, observations, index, transactions, journal>>
         /\ UNCHANGED <<lock, acked, gone, withdrawn, halfRebuilt>>
BY DEF SelectForPurge, disk, history

(* A purge takes the lock when nobody has it, and touches no file.          *)
LEMMA PurgeLockQuiet ==
  ASSUME NEW p \in Proc, PurgeLock(p)
  PROVE  /\ pc[p] = "selected" /\ lock = Nobody
         /\ UNCHANGED <<objects, observations, index, transactions, journal>>
         /\ UNCHANGED <<acked, gone, withdrawn, halfRebuilt>>
BY DEF PurgeLock, Acquire, disk, history

(* A rebuild returns when it has nothing left to list.                      *)
LEMMA RebuildReturnQuiet ==
  ASSUME NEW p \in Proc, RebuildReturn(p)
  PROVE  /\ pc[p] = "reindex" /\ work[p].ids = {} /\ halfRebuilt' = FALSE
         /\ UNCHANGED <<objects, observations, index, transactions, journal>>
         /\ UNCHANGED <<acked, gone, withdrawn>>
BY DEF RebuildReturn, disk

-----------------------------------------------------------------------------
(* What a process is doing, where it is in the code.                        *)
Fits(label, task) ==
    /\ label \in {"closed", "ready", "ingesting"} => task = "none"
    /\ label \in {"store", "writeTx"} => task = "import"
    /\ label \in {"selected", "writeJournal"} => task = "purge"
    /\ label = "replay" => task = "open"
    /\ label \in Committing => task \in {"open", "import", "retry"}
    /\ label \in Removing => task \in {"open", "purge"}
    /\ label \in {"clearIndex", "reindex"} => task = "rebuild"

TaskFits == \A p \in Proc : Fits(pc[p], work[p].task)

(* A step that leaves its process somewhere with a task that fits.         *)
LEMMA TaskFitsAfter ==
  ASSUME TaskFits, NEW p \in Proc, Fits(pc'[p], work'[p].task),
         \A q \in Proc \ {p} : pc'[q] = pc[q] /\ work'[q] = work[q]
  PROVE  TaskFits'
BY DEF TaskFits

(* Every process does at each place in the code what the code is there for. *)
THEOREM TaskCorrect == Spec => []TaskFits
<1>1. Init => TaskFits
  BY DEF Init, TaskFits, Fits, Idle, Committing, Removing
<1>2. TypeInv /\ TaskFits /\ [Next]_vars => TaskFits'
  <2> SUFFICES ASSUME TypeInv, TaskFits, [Next]_vars PROVE TaskFits'
    OBVIOUS
  <2> USE DEF Committing, Removing
  <2>0. CASE UNCHANGED vars
    BY <2>0 DEF vars, TaskFits
  <2>1. ASSUME NEW p \in Proc, Opening(p) PROVE TaskFits'
    <3>1. Fits(pc[p], work[p].task)
      BY DEF TaskFits
    <3>2. ASSUME NEW o \in Obs, ReplayTransaction(p, o) PROVE TaskFits'
      <4>1. pc[p] = "replay"
        BY <3>2 DEF ReplayTransaction
      <4> QED BY <3>1, <3>2, <4>1, ReplayTransactionMoves, TaskFitsAfter DEF Moves, Fits
    <3>3. CASE OpenLock(p) \/ OpenReturn(p)
      BY <3>3, OpenLockMoves, OpenReturnMoves, TaskFitsAfter DEF Moves, Fits
    <3>4. CASE ReplayJournal(p)
      <4>1. pc[p] = "replay"
        BY <3>4 DEF ReplayJournal
      <4> QED BY <3>1, <3>4, <4>1, ReplayJournalMoves, TaskFitsAfter DEF Moves, Fits
    <3> QED BY <2>1, <3>2, <3>3, <3>4 DEF Opening
  <2>2. ASSUME NEW p \in Proc, Importing(p) PROVE TaskFits'
    <3>1. Fits(pc[p], work[p].task)
      BY DEF TaskFits
    <3>2. ASSUME NEW o \in Obs, StartImport(p, o) PROVE TaskFits'
      BY <3>2, StartImportMoves, TaskFitsAfter DEF Moves, Fits
    <3>3. ASSUME NEW x \in Object, StoreComponent(p, x) PROVE TaskFits'
      BY <3>1, <3>3, StoreComponentMoves, TaskFitsAfter DEF Moves, Fits
    <3>4. CASE AddLock(p)
      <4>1. pc[p] = "store"
        BY <3>4 DEF AddLock
      <4> QED BY <3>1, <3>4, <4>1, AddLockMoves, TaskFitsAfter DEF Moves, Fits
    <3>5. CASE WriteTransaction(p)
      <4>1. pc[p] = "writeTx"
        BY <3>5 DEF WriteTransaction
      <4> QED BY <3>1, <3>5, <4>1, WriteTransactionMoves, TaskFitsAfter DEF Moves, Fits
    <3>6. CASE CommitObservation(p)
      <4>1. pc[p] = "commitObservation"
        BY <3>6 DEF CommitObservation
      <4> QED BY <3>1, <3>6, <4>1, CommitObservationMoves, TaskFitsAfter DEF Moves, Fits
    <3>7. CASE CommitIndex(p)
      <4>1. pc[p] = "commitIndex"
        BY <3>7 DEF CommitIndex
      <4> QED BY <3>1, <3>7, <4>1, CommitIndexMoves, TaskFitsAfter DEF Moves, Fits
    <3>8. CASE RemoveTransaction(p)
      BY <3>8, RemoveTransactionMoves, TaskFitsAfter DEF Moves, Fits
    <3> QED BY <2>2, <3>2, <3>3, <3>4, <3>5, <3>6, <3>7, <3>8 DEF Importing
  <2>3. ASSUME NEW p \in Proc, Purging(p) PROVE TaskFits'
    <3>1. Fits(pc[p], work[p].task)
      BY DEF TaskFits
    <3>2. ASSUME NEW S \in SUBSET Obs, SelectForPurge(p, S) PROVE TaskFits'
      BY <3>2, SelectForPurgeMoves, TaskFitsAfter DEF Moves, Fits
    <3>3. CASE PurgeLock(p)
      <4>1. pc[p] = "selected"
        BY <3>3 DEF PurgeLock
      <4> QED BY <3>1, <3>3, <4>1, PurgeLockMoves, TaskFitsAfter DEF Moves, Fits
    <3>4. CASE WriteJournal(p)
      <4>1. pc[p] = "writeJournal"
        BY <3>4 DEF WriteJournal
      <4> QED BY <3>1, <3>4, <4>1, WriteJournalMoves, TaskFitsAfter DEF Moves, Fits
    <3>5. ASSUME NEW o \in Obs, Unindex(p, o) PROVE TaskFits'
      <4>1. pc[p] = "unindex"
        BY <3>5 DEF Unindex
      <4> QED BY <3>1, <3>5, <4>1, UnindexMoves, TaskFitsAfter DEF Moves, Fits
    <3>6. CASE RemoveRecord(p)
      <4>1. pc[p] = "removeRecord"
        BY <3>6 DEF RemoveRecord
      <4> QED BY <3>1, <3>6, <4>1, RemoveRecordMoves, TaskFitsAfter DEF Moves, Fits
    <3>7. CASE FindSurvivors(p)
      <4>1. pc[p] = "unindex"
        BY <3>7 DEF FindSurvivors
      <4> QED BY <3>1, <3>7, <4>1, FindSurvivorsMoves, TaskFitsAfter DEF Moves, Fits
    <3>8. ASSUME NEW x \in Object, RemoveObject(p, x) PROVE TaskFits'
      <4>1. pc[p] = "removeObject"
        BY <3>8 DEF RemoveObject
      <4> QED BY <3>1, <3>8, <4>1, RemoveObjectMoves, TaskFitsAfter DEF Moves, Fits
    <3>9. CASE RemoveJournal(p)
      BY <3>9, RemoveJournalMoves, TaskFitsAfter DEF Moves, Fits
    <3> QED BY <2>3, <3>2, <3>3, <3>4, <3>5, <3>6, <3>7, <3>8, <3>9 DEF Purging
  <2>4. ASSUME NEW p \in Proc, Rebuilding(p) PROVE TaskFits'
    <3>1. Fits(pc[p], work[p].task)
      BY DEF TaskFits
    <3>2. CASE RebuildLock(p) \/ RebuildReturn(p)
      BY <3>2, RebuildLockMoves, RebuildReturnMoves, TaskFitsAfter DEF Moves, Fits
    <3>3. ASSUME NEW c \in Chunk, ClearChunk(p, c) PROVE TaskFits'
      BY <3>3 DEF ClearChunk, TaskFits
    <3>4. CASE Cleared(p)
      <4>1. pc[p] = "clearIndex"
        BY <3>4 DEF Cleared
      <4> QED BY <3>1, <3>4, <4>1, ClearedMoves, TaskFitsAfter DEF Moves, Fits
    <3>5. ASSUME NEW o \in Obs, Reindex(p, o) PROVE TaskFits'
      <4>1. pc[p] = "reindex"
        BY <3>5 DEF Reindex
      <4> QED BY <3>1, <3>5, <4>1, ReindexMoves, TaskFitsAfter DEF Moves, Fits
    <3> QED BY <2>4, <3>2, <3>3, <3>4, <3>5 DEF Rebuilding
  <2>5. ASSUME NEW p \in Proc, Crash(p) \/ FailImport(p) PROVE TaskFits'
    BY <2>5, CrashMoves, FailImportMoves, TaskFitsAfter DEF Moves, Fits
  <2> QED BY <2>0, <2>1, <2>2, <2>3, <2>4, <2>5 DEF Next, Step
<1> QED BY <1>1, <1>2, TypeCorrect, PTL DEF Spec

-----------------------------------------------------------------------------
(* A rebuild that has not returned has every record in its index or in hand. *)
RebuildInv ==
  \A p \in Proc :
    /\ pc[p] = "clearIndex" => observations \subseteq work[p].ids
    /\ pc[p] = "reindex" => \A o \in observations : o \in work[p].ids \/ Indexed(o)

(* No record is written or removed while a rebuild holds the lock, so what  *)
(* it read at the start is what it has to list.                             *)
THEOREM RebuildCorrect == Spec => []RebuildInv
<1>1. Init => RebuildInv
  BY DEF Init, RebuildInv
<1>2. TypeInv /\ LockHeld /\ RebuildInv /\ [Next]_vars => RebuildInv'
  <2> SUFFICES ASSUME TypeInv, LockHeld, RebuildInv, [Next]_vars PROVE RebuildInv'
    OBVIOUS
  <2> USE DEF disk
  <2>0. CASE UNCHANGED vars
    BY <2>0 DEF vars, RebuildInv, Indexed
  <2>1. \A p, q \in Proc : pc[p] \in Locked /\ q # p => pc[q] \notin Locked
    BY DEF LockHeld
  <2>2. ASSUME NEW p \in Proc, Opening(p) PROVE RebuildInv'
    <3>1. CASE OpenLock(p)
      BY <3>1, OpenLockMoves DEF Moves, RebuildInv, Indexed, OpenLock
    <3>2. ASSUME NEW o \in Obs, ReplayTransaction(p, o) PROVE RebuildInv'
      BY <3>2, ReplayTransactionMoves DEF Moves, RebuildInv, Indexed, ReplayTransaction
    <3>3. CASE ReplayJournal(p)
      BY <3>3, ReplayJournalMoves, ReplayJournalQuiet DEF Moves, RebuildInv, Indexed
    <3>4. CASE OpenReturn(p)
      BY <3>4, OpenReturnMoves, OpenReturnQuiet DEF Moves, RebuildInv, Indexed
    <3> QED BY <2>2, <3>1, <3>2, <3>3, <3>4 DEF Opening
  <2>3. ASSUME NEW p \in Proc, Importing(p) PROVE RebuildInv'
    <3>1. ASSUME NEW o \in Obs, StartImport(p, o) PROVE RebuildInv'
      BY <3>1, StartImportMoves DEF Moves, RebuildInv, Indexed, StartImport
    <3>2. ASSUME NEW x \in Object, StoreComponent(p, x) PROVE RebuildInv'
      BY <3>2, StoreComponentMoves DEF Moves, RebuildInv, Indexed, StoreComponent
    <3>3. CASE AddLock(p) \/ WriteTransaction(p)
      BY <3>3, AddLockMoves, WriteTransactionMoves
      DEF Moves, RebuildInv, Indexed, AddLock, WriteTransaction
    <3>4. CASE CommitObservation(p) \/ CommitIndex(p)
      BY <2>1, <3>4, CommitObservationMoves, CommitIndexMoves
      DEF Moves, RebuildInv, Indexed, CommitObservation, CommitIndex, Locked
    <3>5. CASE RemoveTransaction(p)
      BY <3>5, RemoveTransactionMoves DEF Moves, RebuildInv, Indexed, RemoveTransaction
    <3> QED BY <2>3, <3>1, <3>2, <3>3, <3>4, <3>5 DEF Importing
  <2>4. ASSUME NEW p \in Proc, Purging(p) PROVE RebuildInv'
    <3>1. ASSUME NEW S \in SUBSET Obs, SelectForPurge(p, S) PROVE RebuildInv'
      BY <3>1, SelectForPurgeMoves, SelectForPurgeQuiet DEF Moves, RebuildInv, Indexed
    <3>2. CASE PurgeLock(p) \/ WriteJournal(p)
      BY <3>2, PurgeLockMoves, WriteJournalMoves
      DEF Moves, RebuildInv, Indexed, PurgeLock, WriteJournal
    <3>3. ASSUME NEW o \in Obs, Unindex(p, o) PROVE RebuildInv'
      BY <2>1, <3>3, UnindexMoves DEF Moves, RebuildInv, Indexed, Unindex, Locked
    <3>4. CASE RemoveRecord(p)
      BY <2>1, <3>4, RemoveRecordMoves DEF Moves, RebuildInv, Indexed, RemoveRecord, Locked
    <3>5. CASE FindSurvivors(p)
      BY <3>5, FindSurvivorsMoves DEF Moves, RebuildInv, Indexed, FindSurvivors
    <3>6. ASSUME NEW x \in Object, RemoveObject(p, x) PROVE RebuildInv'
      BY <3>6, RemoveObjectMoves DEF Moves, RebuildInv, Indexed, RemoveObject
    <3>7. CASE RemoveJournal(p)
      BY <3>7, RemoveJournalMoves DEF Moves, RebuildInv, Indexed, RemoveJournal
    <3> QED BY <2>4, <3>1, <3>2, <3>3, <3>4, <3>5, <3>6, <3>7 DEF Purging
  <2>5. ASSUME NEW p \in Proc, Rebuilding(p) PROVE RebuildInv'
    <3>1. CASE RebuildLock(p)
      BY <2>1, <3>1, ProcAssumption, RebuildLockMoves
     DEF RebuildLock, Acquire, LockHeld, RebuildInv, Moves, Locked
    <3>2. ASSUME NEW c \in Chunk, ClearChunk(p, c) PROVE RebuildInv'
      BY <2>1, <3>2 DEF ClearChunk, RebuildInv, Locked
    <3>3. CASE Cleared(p)
      BY <2>1, <3>3, ClearedMoves DEF Cleared, RebuildInv, Moves, Locked
    <3>4. ASSUME NEW o \in Obs, Reindex(p, o) PROVE RebuildInv'
      <4>1. Indexed(o)' /\ \A b \in Obs : Indexed(b) => Indexed(b)'
        BY <3>4, ObsAssumption DEF Reindex, Listed, Indexed, TypeInv, TypeOK
      <4> QED BY <2>1, <3>4, <4>1, ReindexMoves
         DEF Reindex, RebuildInv, Moves, Locked, TypeInv, TypeOK
    <3>5. CASE RebuildReturn(p)
      BY <3>5, RebuildReturnMoves, RebuildReturnQuiet DEF Moves, RebuildInv, Indexed
    <3> QED BY <2>5, <3>1, <3>2, <3>3, <3>4, <3>5 DEF Rebuilding
  <2>6. ASSUME NEW p \in Proc, Crash(p) \/ FailImport(p) PROVE RebuildInv'
    BY <2>6, CrashMoves, FailImportMoves DEF Moves, RebuildInv, Indexed, Crash, FailImport
  <2> QED BY <2>0, <2>2, <2>3, <2>4, <2>5, <2>6 DEF Next, Step
<1> QED BY <1>1, <1>2, TypeCorrect, LockCorrect, PTL DEF Spec

(* A rebuild that returns leaves the index listing exactly the records.     *)
THEOREM RebuildRepairsCorrect == Spec => RebuildRepairs
<1>1. TypeInv /\ RecordInv /\ RebuildInv =>
        \A p \in Proc : pc[p] = "reindex" /\ work[p].ids = {} =>
          \A o \in Obs : o \in observations <=> Indexed(o)
  BY DEF RecordInv, ListedHasRecord, RebuildInv
<1>2. TypeInv /\ RecordInv /\ RebuildInv =>
   [\A p \in Proc : pc[p] = "reindex" /\ work[p].ids = {} /\ pc'[p] # pc[p] =>
       \A o \in Obs : o \in observations <=> Indexed(o)]_vars
  BY <1>1
<1> QED BY <1>2, TypeCorrect, RecordsCorrect, RebuildCorrect, PTL DEF RebuildRepairs

=============================================================================
