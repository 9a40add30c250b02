----------------------------- MODULE SpoolProofs -----------------------------
(***************************************************************************)
(* What holds of the spool directory for every set of bundles, components  *)
(* and importing processes, and whatever the ceiling and the interval of   *)
(* the measurements are.                                                   *)
(***************************************************************************)
EXTENDS Spool, FiniteSetTheorems, TLAPS

(* From the creation of the temporary directory to the end of write.        *)
InWrite == writer \in {"writing", "settle"}

(* TypeOK, with where the writer and an import have a bundle in hand.       *)
TypeInv ==
  /\ TypeOK
  /\ InWrite => writing \in Bundle
  /\ \A i \in Ingester :
       step[i] \in {"store", "add", "cleanup", "remove"} => at[i] \in Bundle

(* Who holds the spool lock; without a client nothing is recovering.        *)
LockInv ==
  /\ InWrite <=> spoolLock = "writer"
  /\ recovery = "running" <=> spoolLock = "recovery"
  /\ writer = "off" => recovery = "off"

(* LiveTempKept, with its converse: what a recovery has still to look at is *)
(* every temporary directory there is, for nobody makes one meanwhile.      *)
TempInv ==
  /\ writer = "writing" => place[writing] = "tmp"
  /\ recovery = "running" => leftovers = Temporary

(* An import has a call of the archive outstanding in AddObservation alone, *)
(* and cleans up only a bundle the archive holds.                           *)
CallInv ==
  \A i \in Ingester :
    /\ call[i] # NoCall =>
         /\ step[i] = "add" /\ call[i].kind = "add" /\ call[i].ids = {at[i]}
         /\ call[i].effective => at[i] \in held
    /\ step[i] \in {"cleanup", "remove"} => at[i] \in held

(* OnlyCopyKept, with what keeps it: a bundle marked imported is in the     *)
(* archive, and one that was ready is never temporary or put aside again.   *)
CopyInv ==
  /\ \A b \in Bundle : place[b] = "imported" => b \in held
  /\ \A b \in published : place[b] \in {"ready", "imported", "gone"}
  /\ OnlyCopyKept

(* What the spool measures, were the bundle being written complete.         *)
Claimed ==
  {bf \in Bundle \X File :
     /\ bf[1] \in Ready \cup Temporary
     /\ bf[2] \in files[bf[1]] \/ (writer = "writing" /\ bf[1] = writing)}

(* A bundle without a directory has no files.                               *)
NoneEmpty == \A b \in Bundle : place[b] = "none" => files[b] = {}

(* Bounded, for what is claimed: unless the last measurement refused        *)
(* capture, the claim is below the ceiling by what may still be written     *)
(* before the next.                                                         *)
SizeInv ==
  /\ NoneEmpty
  /\ unmeasured > 0
  /\ Cardinality(Claimed) < MaxSize + Interval * Cardinality(File)
  /\ full \/ Cardinality(Claimed) < MaxSize + unmeasured * Cardinality(File)

-----------------------------------------------------------------------------
(* A call that takes effect is otherwise the same.                          *)
LEMMA EffectiveCall ==
  ASSUME NEW c \in Archive!Calls, NEW d
  PROVE  LET e == [c EXCEPT !.effective = d]
         IN  e.kind = c.kind /\ e.ids = c.ids /\ e.effective = d
BY DEF Archive!Calls

(* It is still a call.                                                      *)
LEMMA AddedCall ==
  ASSUME NEW c \in Archive!Calls
  PROVE  [c EXCEPT !.effective = TRUE] \in Archive!Calls
<1>1. ASSUME NEW d \in BOOLEAN PROVE [c EXCEPT !.effective = d] \in Archive!Calls
  BY DEF Archive!Calls
<1> QED BY <1>1

(* The call AddObservation makes.                                           *)
LEMMA AskedCall ==
  ASSUME NEW b \in Bundle
  PROVE  LET c == [kind |-> "add", ids |-> {b}, effective |-> FALSE]
         IN  c \in Archive!Calls /\ c.kind = "add" /\ c.ids = {b} /\ ~c.effective
<1>1. ASSUME NEW k \in {"add", "remove"}, NEW d \in BOOLEAN
      PROVE [kind |-> k, ids |-> {b}, effective |-> d] \in Archive!Calls
  BY DEF Archive!Calls
<1> QED BY <1>1

(* A bundle has finitely many files, and so have all bundles.               *)
LEMMA FilesFinite ==
  /\ IsFiniteSet(File) /\ Cardinality(File) \in Nat
  /\ IsFiniteSet(Bundle \X File)
  /\ \A b : IsFiniteSet({b} \X File) /\ Cardinality({b} \X File) = Cardinality(File)
<1>1. IsFiniteSet(File) /\ Cardinality(File) \in Nat
  BY SpoolAssumption, FS_AddElement, FS_CardinalityType DEF File
<1>2. IsFiniteSet(Bundle \X File)
  BY <1>1, SpoolAssumption, FS_Product
<1>3. ASSUME NEW b
      PROVE IsFiniteSet({b} \X File) /\ Cardinality({b} \X File) = Cardinality(File)
  <2>1. IsFiniteSet({b}) /\ Cardinality({b}) = 1
    BY FS_Singleton
  <2> QED BY <1>1, <2>1, FS_Product
<1> QED BY <1>1, <1>2, <1>3

(* The measurement is a number.                                             *)
LEMMA MeasureFinite == Measure \in Nat /\ MaxSize \in Nat
<1> DEFINE M == {bf \in Bundle \X File :
                   bf[1] \in Ready \cup Temporary /\ bf[2] \in files[bf[1]]}
<1>1. IsFiniteSet(M)
  BY FilesFinite, FS_Subset
<1>2. Cardinality(M) \in Nat
  BY <1>1, FS_CardinalityType
<1> QED BY <1>2, SpoolAssumption DEF Measure

(* The counter of bundles since the last measurement keeps its range.       *)
LEMMA Counting ==
  /\ Interval \in 0..Interval
  /\ \A n \in 0..Interval : Counted(n) \in 0..Interval
BY SpoolAssumption DEF Counted

(* Type correctness, and what is in hand where.                             *)
THEOREM TypeCorrect == Spec => []TypeInv
<1> USE SpoolAssumption DEF TypeInv, TypeOK, InWrite, Archive!TypeOK
<1>1. Init => TypeInv
  <2>1. Init => Archive!TypeOK
    BY DEF Init, Archive!Init
  <2>2. Init => /\ place \in [Bundle -> {"none"}] /\ files \in [Bundle -> SUBSET File]
                /\ step \in [Ingester -> {"idle"}] /\ listed \in [Ingester -> SUBSET Bundle]
                /\ at \in [Ingester -> Bundle \cup {NoBundle}]
    BY DEF Init
  <2>3. Init => unmeasured \in 0..Interval
    BY Counting DEF Init
  <2> QED BY <2>1, <2>2, <2>3 DEF Init
<1>2. TypeInv /\ [Next]_vars => TypeInv'
  <2> SUFFICES ASSUME TypeInv, [Next]_vars PROVE TypeInv'
    OBVIOUS
  <2> USE DEF spool, client, import, ledger
  <2>0. CASE UNCHANGED vars
    BY <2>0 DEF vars
  <2>1. CASE ClientStart
    BY <2>1, Counting
    DEF ClientStart, Rename, Put, Delete, NextBundle, Ready, Temporary, File
  <2>2. CASE ClientDies
    BY <2>2 DEF ClientDies, Rename, Put, Delete, NextBundle, Ready, Temporary, File
  <2>3. CASE Writing
    <3>1. ASSUME NEW b \in Bundle, WriteBegin(b) PROVE TypeInv'
      <4>1. unmeasured' \in 0..Interval
        BY <3>1, Counting DEF WriteBegin, Budget
      <4>2. full' \in BOOLEAN
        <5>1. CASE full' = full
          BY <5>1
        <5>2. CASE full' \in {TRUE, Measure >= MaxSize}
          <6>1. (Measure >= MaxSize) \in BOOLEAN
            BY MeasureFinite
          <6> QED BY <5>2, <6>1, Zenon
        <5> QED BY <3>1, <5>1, <5>2 DEF WriteBegin, Budget
      <4> QED BY <3>1, <4>1, <4>2 DEF WriteBegin, Rename
    <3>2. ASSUME NEW f \in Component, WriteComponent(f) PROVE TypeInv'
      BY <3>2 DEF WriteComponent, Rename, Put, Delete, NextBundle, Ready, Temporary, File
    <3>3. CASE WriteManifest
      BY <3>3 DEF WriteManifest, Rename, Put, Delete, NextBundle, Ready, Temporary, File
    <3>4. CASE Publish
      BY <3>4 DEF Publish, Rename, Put, Delete, NextBundle, Ready, Temporary, File
    <3>5. CASE WriteEnd
      BY <3>5 DEF WriteEnd, Rename, Put, Delete, NextBundle, Ready, Temporary, File
    <3> QED BY <2>3, <3>1, <3>2, <3>3, <3>4, <3>5 DEF Writing
  <2>4. CASE Recovering
    <3>1. CASE RecoverBegin
      BY <3>1 DEF RecoverBegin, Rename, Put, Delete, NextBundle, Ready, Temporary, File
    <3>2. CASE RecoverAbort
      BY <3>2 DEF RecoverAbort, Rename, Put, Delete, NextBundle, Ready, Temporary, File
    <3>3. CASE RecoverReturn
      BY <3>3 DEF RecoverReturn, Rename, Put, Delete, NextBundle, Ready, Temporary, File
    <3>4. ASSUME NEW b \in Bundle, Recover(b) PROVE TypeInv'
      BY <3>4 DEF Recover, Rename, Put, Delete, NextBundle, Ready, Temporary, File
    <3> QED BY <2>4, <3>1, <3>2, <3>3, <3>4 DEF Recovering
  <2>5. ASSUME NEW i \in Ingester, Importing(i) PROVE TypeInv'
    <3>1. CASE List(i)
      BY <3>1 DEF List, Rename, Put, Delete, NextBundle, Ready, Temporary, File
    <3>2. CASE ImportReturn(i)
      BY <3>2 DEF ImportReturn, Rename, Put, Delete, NextBundle, Ready, Temporary, File
    <3>3. ASSUME NEW b \in Bundle, Prepare(i, b) PROVE TypeInv'
      BY <3>3 DEF Prepare, Rename, Put, Delete, NextBundle, Ready, Temporary, File
    <3>4. ASSUME NEW b \in Bundle, PrepareFails(i, b) PROVE TypeInv'
      BY <3>4 DEF PrepareFails, Rename, Put, Delete, NextBundle, Ready, Temporary, File
    <3>5. CASE Store(i)
      BY <3>5, AskedCall
      DEF Store, Rename, Put, Delete, NextBundle, Ready, Temporary, File, Archive!Ask
    <3>6. CASE StoreFails(i)
      BY <3>6 DEF StoreFails, Rename, Put, Delete, NextBundle, Ready, Temporary, File
    <3>7. CASE Commit(i)
      <4>1. call[i] \in Archive!Calls
        BY <3>7 DEF Commit, Archive!Add, Archive!Pending
      <4>2. [call[i] EXCEPT !.effective = TRUE] \in Archive!Calls
        BY <4>1, AddedCall
      <4>3. call' = [call EXCEPT ![i] = [call[i] EXCEPT !.effective = TRUE]]
        BY <3>7 DEF Commit, Archive!Add
      <4>4. held' \subseteq Bundle
        BY <3>7, <4>1 DEF Commit, Archive!Add, Archive!Calls
      <4> QED BY <3>7, <4>2, <4>3, <4>4 DEF Commit, Archive!Add
    <3>8. CASE AddReturns(i)
      BY <3>8
      DEF AddReturns, Rename, Put, Delete, NextBundle, Ready, Temporary, File,
         Archive!Return
    <3>9. CASE AddFails(i)
      BY <3>9
      DEF AddFails, Rename, Put, Delete, NextBundle, Ready, Temporary, File,
         Archive!Abandon
    <3>10. CASE Cleanup(i)
      BY <3>10 DEF Cleanup, Rename, Put, Delete, NextBundle, Ready, Temporary, File
    <3>11. CASE RemoveReturn(i)
      BY <3>11 DEF RemoveReturn, Rename, Put, Delete, NextBundle, Ready, Temporary, File
    <3>12. CASE RemoveFails(i)
      BY <3>12 DEF RemoveFails, Rename, Put, Delete, NextBundle, Ready, Temporary, File
    <3>13. ASSUME NEW f \in File, RemoveFile(i, f) PROVE TypeInv'
      BY <3>13 DEF RemoveFile, Rename, Put, Delete, NextBundle, Ready, Temporary, File
    <3> QED BY <2>5, <3>1, <3>2, <3>3, <3>4, <3>5, <3>6, <3>7, <3>8, <3>9, <3>10, <3>11,
           <3>12, <3>13 DEF Importing
  <2>6. ASSUME NEW i \in Ingester, IngesterDies(i) PROVE TypeInv'
    BY <2>6
    DEF IngesterDies, Rename, Put, Delete, NextBundle, Ready, Temporary, File,
       Archive!Abandon
  <2>7. CASE Discarding
    <3>1. ASSUME NEW b \in Bundle, DiscardDirectory(b) PROVE TypeInv'
      BY <3>1 DEF DiscardDirectory, Rename, Put, Delete, NextBundle, Ready, Temporary, File
    <3>2. ASSUME NEW b \in Bundle, NEW f \in File, DiscardFile(b, f) PROVE TypeInv'
      BY <3>2 DEF DiscardFile, Rename, Put, Delete, NextBundle, Ready, Temporary, File
    <3> QED BY <2>7, <3>1, <3>2 DEF Discarding
  <2> QED BY <2>0, <2>1, <2>2, <2>3, <2>4, <2>5, <2>6, <2>7 DEF Next
<1> QED BY <1>1, <1>2, PTL DEF Spec

(* The writer and the recovery hold the lock exactly while they run, and a  *)
(* client that dies gives it up.                                            *)
THEOREM LockCorrect == Spec => []LockInv
<1> USE SpoolAssumption DEF LockInv, InWrite
<1>1. Init => LockInv
  BY DEF Init
<1>2. TypeInv /\ LockInv /\ [Next]_vars => LockInv'
  <2> SUFFICES ASSUME TypeInv, LockInv, [Next]_vars PROVE LockInv'
    OBVIOUS
  <2> USE DEF TypeInv, TypeOK, spool, client, import, ledger
  <2>0. CASE UNCHANGED vars
    BY <2>0 DEF vars
  <2>1. CASE ClientStart
    BY <2>1 DEF ClientStart
  <2>2. CASE ClientDies
    BY <2>2 DEF ClientDies
  <2>3. CASE Writing
    <3>1. ASSUME NEW b \in Bundle, WriteBegin(b) PROVE LockInv'
      BY <3>1 DEF WriteBegin
    <3>2. ASSUME NEW f \in Component, WriteComponent(f) PROVE LockInv'
      BY <3>2 DEF WriteComponent
    <3>3. CASE WriteManifest
      BY <3>3 DEF WriteManifest
    <3>4. CASE Publish
      BY <3>4 DEF Publish
    <3>5. CASE WriteEnd
      BY <3>5 DEF WriteEnd
    <3> QED BY <2>3, <3>1, <3>2, <3>3, <3>4, <3>5 DEF Writing
  <2>4. CASE Recovering
    <3>1. CASE RecoverBegin
      BY <3>1 DEF RecoverBegin
    <3>2. CASE RecoverAbort
      BY <3>2 DEF RecoverAbort
    <3>3. CASE RecoverReturn
      BY <3>3 DEF RecoverReturn
    <3>4. ASSUME NEW b \in Bundle, Recover(b) PROVE LockInv'
      BY <3>4 DEF Recover
    <3> QED BY <2>4, <3>1, <3>2, <3>3, <3>4 DEF Recovering
  <2>5. ASSUME NEW i \in Ingester, Importing(i) PROVE LockInv'
    <3>1. CASE List(i)
      BY <3>1 DEF List
    <3>2. CASE ImportReturn(i)
      BY <3>2 DEF ImportReturn
    <3>3. ASSUME NEW b \in Bundle, Prepare(i, b) PROVE LockInv'
      BY <3>3 DEF Prepare
    <3>4. ASSUME NEW b \in Bundle, PrepareFails(i, b) PROVE LockInv'
      BY <3>4 DEF PrepareFails
    <3>5. CASE Store(i)
      BY <3>5 DEF Store
    <3>6. CASE StoreFails(i)
      BY <3>6 DEF StoreFails
    <3>7. CASE Commit(i)
      BY <3>7 DEF Commit
    <3>8. CASE AddReturns(i)
      BY <3>8 DEF AddReturns
    <3>9. CASE AddFails(i)
      BY <3>9 DEF AddFails
    <3>10. CASE Cleanup(i)
      BY <3>10 DEF Cleanup
    <3>11. CASE RemoveReturn(i)
      BY <3>11 DEF RemoveReturn
    <3>12. CASE RemoveFails(i)
      BY <3>12 DEF RemoveFails
    <3>13. ASSUME NEW f \in File, RemoveFile(i, f) PROVE LockInv'
      BY <3>13 DEF RemoveFile
    <3> QED BY <2>5, <3>1, <3>2, <3>3, <3>4, <3>5, <3>6, <3>7, <3>8, <3>9, <3>10, <3>11,
           <3>12, <3>13 DEF Importing
  <2>6. ASSUME NEW i \in Ingester, IngesterDies(i) PROVE LockInv'
    BY <2>6 DEF IngesterDies
  <2>7. CASE Discarding
    <3>1. ASSUME NEW b \in Bundle, DiscardDirectory(b) PROVE LockInv'
      BY <3>1 DEF DiscardDirectory
    <3>2. ASSUME NEW b \in Bundle, NEW f \in File, DiscardFile(b, f) PROVE LockInv'
      BY <3>2 DEF DiscardFile
    <3> QED BY <2>7, <3>1, <3>2 DEF Discarding
  <2> QED BY <2>0, <2>1, <2>2, <2>3, <2>4, <2>5, <2>6, <2>7 DEF Next
<1> QED BY <1>1, <1>2, TypeCorrect, PTL DEF Spec

-----------------------------------------------------------------------------
(* The writer makes and moves temporary directories under the lock only,    *)
(* and so does the recovery.                                                *)
THEOREM TempCorrect == Spec => []TempInv
<1> USE DEF TempInv, Temporary
<1>1. Init => TempInv
  BY DEF Init
<1>2. TypeInv /\ LockInv /\ TempInv /\ [Next]_vars => TempInv'
  <2> SUFFICES ASSUME TypeInv, LockInv, TempInv, [Next]_vars PROVE TempInv'
    OBVIOUS
  <2> USE SpoolAssumption DEF TypeInv, TypeOK, LockInv, InWrite, spool, client, import, ledger
  <2>0. CASE UNCHANGED vars
    BY <2>0 DEF vars
  <2>1. CASE ClientStart
    BY <2>1 DEF ClientStart, Rename, Ready
  <2>2. CASE ClientDies
    BY <2>2 DEF ClientDies, Rename, Ready
  <2>3. CASE Writing
    <3>1. ASSUME NEW b \in Bundle, WriteBegin(b) PROVE TempInv'
      BY <3>1 DEF WriteBegin, Rename, Ready
    <3>2. ASSUME NEW f \in Component, WriteComponent(f) PROVE TempInv'
      BY <3>2 DEF WriteComponent, Rename, Ready
    <3>3. CASE WriteManifest
      BY <3>3 DEF WriteManifest, Rename, Ready
    <3>4. CASE Publish
      BY <3>4 DEF Publish, Rename, Ready
    <3>5. CASE WriteEnd
      BY <3>5 DEF WriteEnd, Rename, Ready
    <3> QED BY <2>3, <3>1, <3>2, <3>3, <3>4, <3>5 DEF Writing
  <2>4. CASE Recovering
    <3>1. CASE RecoverBegin
      BY <3>1 DEF RecoverBegin, Rename, Ready
    <3>2. CASE RecoverAbort
      BY <3>2 DEF RecoverAbort, Rename, Ready
    <3>3. CASE RecoverReturn
      BY <3>3 DEF RecoverReturn, Rename, Ready
    <3>4. ASSUME NEW b \in Bundle, Recover(b) PROVE TempInv'
      BY <3>4 DEF Recover, Rename, Ready
    <3> QED BY <2>4, <3>1, <3>2, <3>3, <3>4 DEF Recovering
  <2>5. ASSUME NEW i \in Ingester, Importing(i) PROVE TempInv'
    <3>1. CASE List(i)
      BY <3>1 DEF List, Rename, Ready
    <3>2. CASE ImportReturn(i)
      BY <3>2 DEF ImportReturn, Rename, Ready
    <3>3. ASSUME NEW b \in Bundle, Prepare(i, b) PROVE TempInv'
      BY <3>3 DEF Prepare, Rename, Ready
    <3>4. ASSUME NEW b \in Bundle, PrepareFails(i, b) PROVE TempInv'
      BY <3>4 DEF PrepareFails, Rename, Ready
    <3>5. CASE Store(i)
      BY <3>5 DEF Store, Rename, Ready
    <3>6. CASE StoreFails(i)
      BY <3>6 DEF StoreFails, Rename, Ready
    <3>7. CASE Commit(i)
      BY <3>7 DEF Commit, Rename, Ready
    <3>8. CASE AddReturns(i)
      BY <3>8 DEF AddReturns, Rename, Ready
    <3>9. CASE AddFails(i)
      BY <3>9 DEF AddFails, Rename, Ready
    <3>10. CASE Cleanup(i)
      BY <3>10 DEF Cleanup, Rename, Ready
    <3>11. CASE RemoveReturn(i)
      BY <3>11 DEF RemoveReturn, Rename, Ready
    <3>12. CASE RemoveFails(i)
      BY <3>12 DEF RemoveFails, Rename, Ready
    <3>13. ASSUME NEW f \in File, RemoveFile(i, f) PROVE TempInv'
      BY <3>13 DEF RemoveFile, Rename, Ready
    <3> QED BY <2>5, <3>1, <3>2, <3>3, <3>4, <3>5, <3>6, <3>7, <3>8, <3>9, <3>10, <3>11,
           <3>12, <3>13 DEF Importing
  <2>6. ASSUME NEW i \in Ingester, IngesterDies(i) PROVE TempInv'
    BY <2>6 DEF IngesterDies, Rename, Ready
  <2>7. CASE Discarding
    <3>1. ASSUME NEW b \in Bundle, DiscardDirectory(b) PROVE TempInv'
      BY <3>1 DEF DiscardDirectory, Rename, Ready
    <3>2. ASSUME NEW b \in Bundle, NEW f \in File, DiscardFile(b, f) PROVE TempInv'
      BY <3>2 DEF DiscardFile, Rename, Ready
    <3> QED BY <2>7, <3>1, <3>2 DEF Discarding
  <2> QED BY <2>0, <2>1, <2>2, <2>3, <2>4, <2>5, <2>6, <2>7 DEF Next
<1> QED BY <1>1, <1>2, TypeCorrect, LockCorrect, PTL DEF Spec

(* No recovery publishes or puts aside a directory being written            *)
(* (LiveTempKept).                                                          *)
THEOREM LiveTempKeptCorrect == Spec => []LiveTempKept
<1>1. TempInv => LiveTempKept
  BY DEF TempInv, LiveTempKept
<1> QED BY <1>1, TempCorrect, PTL

(* A recovery that returns leaves no temporary directory (RecoveryClears).  *)
THEOREM RecoveryClearsCorrect == Spec => RecoveryClears
<1>1. TempInv /\ [Next]_vars => [RecoverReturn => Temporary' = {}]_vars
  BY DEF TempInv, RecoverReturn, Temporary, spool
<1> QED BY <1>1, TempCorrect, PTL DEF Spec, RecoveryClears

(* Nobody takes an observation out of the archive here, so what a call      *)
(* added is still there when its import cleans up.                          *)
THEOREM CallCorrect == Spec => []CallInv
<1> USE DEF CallInv
<1>1. Init => CallInv
  BY DEF Init, Archive!Init
<1>2. TypeInv /\ CallInv /\ [Next]_vars => CallInv'
  <2> SUFFICES ASSUME TypeInv, CallInv, [Next]_vars PROVE CallInv'
    OBVIOUS
  <2> USE DEF TypeInv, TypeOK, Archive!TypeOK, spool, client, import, ledger
  <2>0. CASE UNCHANGED vars
    BY <2>0 DEF vars
  <2>1. CASE ClientStart
    BY <2>1 DEF ClientStart, NextBundle
  <2>2. CASE ClientDies
    BY <2>2 DEF ClientDies, NextBundle
  <2>3. CASE Writing
    <3>1. ASSUME NEW b \in Bundle, WriteBegin(b) PROVE CallInv'
      BY <3>1 DEF WriteBegin, NextBundle
    <3>2. ASSUME NEW f \in Component, WriteComponent(f) PROVE CallInv'
      BY <3>2 DEF WriteComponent, NextBundle
    <3>3. CASE WriteManifest
      BY <3>3 DEF WriteManifest, NextBundle
    <3>4. CASE Publish
      BY <3>4 DEF Publish, NextBundle
    <3>5. CASE WriteEnd
      BY <3>5 DEF WriteEnd, NextBundle
    <3> QED BY <2>3, <3>1, <3>2, <3>3, <3>4, <3>5 DEF Writing
  <2>4. CASE Recovering
    <3>1. CASE RecoverBegin
      BY <3>1 DEF RecoverBegin, NextBundle
    <3>2. CASE RecoverAbort
      BY <3>2 DEF RecoverAbort, NextBundle
    <3>3. CASE RecoverReturn
      BY <3>3 DEF RecoverReturn, NextBundle
    <3>4. ASSUME NEW b \in Bundle, Recover(b) PROVE CallInv'
      BY <3>4 DEF Recover, NextBundle
    <3> QED BY <2>4, <3>1, <3>2, <3>3, <3>4 DEF Recovering
  <2>5. ASSUME NEW i \in Ingester, Importing(i) PROVE CallInv'
    <3>1. CASE List(i)
      BY <3>1 DEF List, NextBundle
    <3>2. CASE ImportReturn(i)
      BY <3>2 DEF ImportReturn, NextBundle
    <3>3. ASSUME NEW b \in Bundle, Prepare(i, b) PROVE CallInv'
      BY <3>3 DEF Prepare, NextBundle
    <3>4. ASSUME NEW b \in Bundle, PrepareFails(i, b) PROVE CallInv'
      BY <3>4 DEF PrepareFails, NextBundle
    <3>5. CASE Store(i)
      <4>1. at[i] \in Bundle
        BY <3>5 DEF Store
      <4>2. call'[i].kind = "add" /\ call'[i].ids = {at[i]} /\ ~call'[i].effective
        BY <3>5, <4>1, AskedCall DEF Store, Archive!Ask
      <4> QED BY <3>5, <4>2 DEF Store, Archive!Ask
    <3>6. CASE StoreFails(i)
      BY <3>6 DEF StoreFails, NextBundle
    <3>7. CASE Commit(i)
      <4>1. call[i] \in Archive!Calls /\ call[i] # NoCall
        BY <3>7 DEF Commit, Archive!Add, Archive!Pending
      <4>2. call'[i] = [call[i] EXCEPT !.effective = TRUE]
        BY <3>7 DEF Commit, Archive!Add
      <4>3. call'[i].kind = "add" /\ call'[i].ids = {at[i]}
        BY <4>1, <4>2, EffectiveCall
      <4>4. \A j \in Ingester \ {i} : call'[j] = call[j]
        BY <3>7 DEF Commit, Archive!Add
      <4>5. held' = held \cup {at[i]}
        BY <3>7, <4>1 DEF Commit, Archive!Add
      <4>6. step[i] = "add" /\ UNCHANGED import
        BY <3>7 DEF Commit
      <4> QED BY <4>3, <4>4, <4>5, <4>6
    <3>8. CASE AddReturns(i)
      BY <3>8 DEF AddReturns, NextBundle, Archive!Return
    <3>9. CASE AddFails(i)
      BY <3>9 DEF AddFails, NextBundle, Archive!Abandon
    <3>10. CASE Cleanup(i)
      BY <3>10 DEF Cleanup, NextBundle
    <3>11. CASE RemoveReturn(i)
      BY <3>11 DEF RemoveReturn, NextBundle
    <3>12. CASE RemoveFails(i)
      BY <3>12 DEF RemoveFails, NextBundle
    <3>13. ASSUME NEW f \in File, RemoveFile(i, f) PROVE CallInv'
      BY <3>13 DEF RemoveFile, NextBundle
    <3> QED BY <2>5, <3>1, <3>2, <3>3, <3>4, <3>5, <3>6, <3>7, <3>8, <3>9, <3>10, <3>11,
           <3>12, <3>13 DEF Importing
  <2>6. ASSUME NEW i \in Ingester, IngesterDies(i) PROVE CallInv'
    BY <2>6 DEF IngesterDies, NextBundle, Archive!Abandon
  <2>7. CASE Discarding
    <3>1. ASSUME NEW b \in Bundle, DiscardDirectory(b) PROVE CallInv'
      BY <3>1 DEF DiscardDirectory, NextBundle
    <3>2. ASSUME NEW b \in Bundle, NEW f \in File, DiscardFile(b, f) PROVE CallInv'
      BY <3>2 DEF DiscardFile, NextBundle
    <3> QED BY <2>7, <3>1, <3>2 DEF Discarding
  <2> QED BY <2>0, <2>1, <2>2, <2>3, <2>4, <2>5, <2>6, <2>7 DEF Next
<1> QED BY <1>1, <1>2, TypeCorrect, PTL DEF Spec

(* Files are removed from bundles the archive holds only, and a rename      *)
(* takes none away.                                                         *)
THEOREM CopyCorrect == Spec => []CopyInv
<1> USE DEF CopyInv, OnlyCopyKept, Importable, Ready, Temporary, Whole
<1>1. Init => CopyInv
  BY DEF Init
<1>2. TypeInv /\ LockInv /\ TempInv /\ CallInv /\ CopyInv /\ [Next]_vars => CopyInv'
  <2> SUFFICES ASSUME TypeInv, LockInv, TempInv, CallInv, CopyInv, [Next]_vars PROVE CopyInv'
    OBVIOUS
  <2> USE DEF TypeInv, TypeOK, Archive!TypeOK, spool, client, import, ledger
  <2>0. CASE UNCHANGED vars
    BY <2>0 DEF vars
  <2>1. CASE ClientStart
    BY <2>1 DEF ClientStart, Rename, Put, Delete
  <2>2. CASE ClientDies
    BY <2>2 DEF ClientDies, Rename, Put, Delete
  <2>3. CASE Writing
    <3>1. ASSUME NEW b \in Bundle, WriteBegin(b) PROVE CopyInv'
      BY <3>1 DEF WriteBegin, Rename, Put, Delete
    <3>2. ASSUME NEW f \in Component, WriteComponent(f) PROVE CopyInv'
      BY <3>2 DEF WriteComponent, Rename, Put, Delete, TempInv, InWrite, File
    <3>3. CASE WriteManifest
      BY <3>3 DEF WriteManifest, Rename, Put, Delete, TempInv, InWrite, File
    <3>4. CASE Publish
      BY <3>4 DEF Publish, Rename, Put, Delete, InWrite
    <3>5. CASE WriteEnd
      BY <3>5 DEF WriteEnd, Rename, Put, Delete
    <3> QED BY <2>3, <3>1, <3>2, <3>3, <3>4, <3>5 DEF Writing
  <2>4. CASE Recovering
    <3>1. CASE RecoverBegin
      BY <3>1 DEF RecoverBegin, Rename, Put, Delete
    <3>2. CASE RecoverAbort
      BY <3>2 DEF RecoverAbort, Rename, Put, Delete
    <3>3. CASE RecoverReturn
      BY <3>3 DEF RecoverReturn, Rename, Put, Delete
    <3>4. ASSUME NEW b \in Bundle, Recover(b) PROVE CopyInv'
      BY <3>4 DEF Recover, Rename, Put, Delete, TempInv
    <3> QED BY <2>4, <3>1, <3>2, <3>3, <3>4 DEF Recovering
  <2>5. ASSUME NEW i \in Ingester, Importing(i) PROVE CopyInv'
    <3>1. CASE List(i)
      BY <3>1 DEF List, Rename, Put, Delete
    <3>2. CASE ImportReturn(i)
      BY <3>2 DEF ImportReturn, Rename, Put, Delete
    <3>3. ASSUME NEW b \in Bundle, Prepare(i, b) PROVE CopyInv'
      BY <3>3 DEF Prepare, Rename, Put, Delete
    <3>4. ASSUME NEW b \in Bundle, PrepareFails(i, b) PROVE CopyInv'
      BY <3>4 DEF PrepareFails, Rename, Put, Delete
    <3>5. CASE Store(i)
      BY <3>5 DEF Store, Rename, Put, Delete, Archive!Ask
    <3>6. CASE StoreFails(i)
      BY <3>6 DEF StoreFails, Rename, Put, Delete
    <3>7. CASE Commit(i)
      BY <3>7 DEF Commit, Rename, Put, Delete, Archive!Add
    <3>8. CASE AddReturns(i)
      BY <3>8 DEF AddReturns, Rename, Put, Delete, Archive!Return
    <3>9. CASE AddFails(i)
      BY <3>9 DEF AddFails, Rename, Put, Delete, Archive!Abandon
    <3>10. CASE Cleanup(i)
      BY <3>10 DEF Cleanup, Rename, Put, Delete, CallInv
    <3>11. CASE RemoveReturn(i)
      BY <3>11 DEF RemoveReturn, Rename, Put, Delete, CallInv
    <3>12. CASE RemoveFails(i)
      BY <3>12 DEF RemoveFails, Rename, Put, Delete
    <3>13. ASSUME NEW f \in File, RemoveFile(i, f) PROVE CopyInv'
      BY <3>13 DEF RemoveFile, Rename, Put, Delete, CallInv
    <3> QED BY <2>5, <3>1, <3>2, <3>3, <3>4, <3>5, <3>6, <3>7, <3>8, <3>9, <3>10, <3>11,
           <3>12, <3>13 DEF Importing
  <2>6. ASSUME NEW i \in Ingester, IngesterDies(i) PROVE CopyInv'
    BY <2>6 DEF IngesterDies, Rename, Put, Delete, Archive!Abandon
  <2>7. CASE Discarding
    <3>1. ASSUME NEW b \in Bundle, DiscardDirectory(b) PROVE CopyInv'
      BY <3>1 DEF DiscardDirectory, Rename, Put, Delete
    <3>2. ASSUME NEW b \in Bundle, NEW f \in File, DiscardFile(b, f) PROVE CopyInv'
      BY <3>2 DEF DiscardFile, Rename, Put, Delete
    <3> QED BY <2>7, <3>1, <3>2 DEF Discarding
  <2> QED BY <2>0, <2>1, <2>2, <2>3, <2>4, <2>5, <2>6, <2>7 DEF Next
<1> QED BY <1>1, <1>2, TypeCorrect, LockCorrect, TempCorrect, CallCorrect, PTL DEF Spec

(* A bundle that was ready is in the archive or complete in the spool,      *)
(* through every crash (OnlyCopyKept).                                      *)
THEOREM OnlyCopyKeptCorrect == Spec => []OnlyCopyKept
<1>1. CopyInv => OnlyCopyKept
  BY DEF CopyInv
<1> QED BY <1>1, CopyCorrect, PTL

-----------------------------------------------------------------------------
(* The claim is a number, and no less than the measurement.                 *)
LEMMA ClaimedFinite ==
  /\ IsFiniteSet(Claimed) /\ Cardinality(Claimed) \in Nat
  /\ Measure <= Cardinality(Claimed)
<1>1. IsFiniteSet(Claimed)
  BY FilesFinite, FS_Subset DEF Claimed
<1>2. {bf \in Bundle \X File :
         bf[1] \in Ready \cup Temporary /\ bf[2] \in files[bf[1]]} \subseteq Claimed
  BY DEF Claimed
<1> QED BY <1>1, <1>2, FS_Subset, FS_CardinalityType DEF Measure

(* Products of natural numbers.                                             *)
LEMMA Multiples ==
  ASSUME NEW n \in Nat, NEW k \in Nat
  PROVE  /\ (n + 1) * k = n * k + k /\ n * k \in Nat
         /\ \A m \in Nat : n <= m => n * k <= m * k
OBVIOUS

(* Whatever claims no more keeps the bound, and so does a client that       *)
(* starts, which measures before it writes.                                 *)
LEMMA Shrinks ==
  ASSUME TypeInv, SizeInv, Claimed' \subseteq Claimed,
         NoneEmpty',
         \/ UNCHANGED <<full, unmeasured>>
         \/ full' = FALSE /\ unmeasured' = Interval
  PROVE  SizeInv'
<1>1. Cardinality(Claimed') <= Cardinality(Claimed) /\ Cardinality(Claimed') \in Nat
  BY ClaimedFinite, FS_Subset, FS_CardinalityType
<1>2. Interval * Cardinality(File) \in Nat /\ unmeasured * Cardinality(File) \in Nat
  BY SpoolAssumption, FilesFinite, Multiples DEF TypeInv, TypeOK
<1>3. Interval > 0
  BY SpoolAssumption
<1> QED BY <1>1, <1>2, <1>3, ClaimedFinite, SpoolAssumption DEF SizeInv

(* A step that touches neither the spool nor the client keeps it.           *)
LEMMA Elsewhere ==
  ASSUME TypeInv, SizeInv, UNCHANGED <<spool, client>>
  PROVE  SizeInv'
<1>1. Claimed' = Claimed /\ UNCHANGED <<full, unmeasured, place, files>>
  BY DEF Claimed, Ready, Temporary, spool, client
<1> QED BY <1>1, Shrinks DEF SizeInv, NoneEmpty

(* Only the start of a bundle adds to the claim, and by no more than the    *)
(* files of one bundle; it counts itself.                                   *)
THEOREM SizeCorrect == Spec => []SizeInv
<1>1. Init => SizeInv
  <2> SUFFICES ASSUME Init PROVE SizeInv
    OBVIOUS
  <2>1. Claimed = {}
    BY DEF Init, Claimed, Ready, Temporary
  <2>2. Interval * Cardinality(File) \in Nat
    BY SpoolAssumption, FilesFinite, Multiples
  <2> QED BY <2>1, <2>2, FS_EmptySet, SpoolAssumption DEF Init, SizeInv, NoneEmpty
<1>2. TypeInv /\ LockInv /\ TempInv /\ SizeInv /\ [Next]_vars => SizeInv'
  <2> SUFFICES ASSUME TypeInv, LockInv, TempInv, SizeInv, [Next]_vars PROVE SizeInv'
    OBVIOUS
  <2> USE DEF TypeInv, TypeOK, spool, client, import, ledger, Ready, Temporary
  <2>0. CASE UNCHANGED vars
    BY <2>0, Elsewhere DEF vars
  <2>1. CASE ClientStart
    <4>1. Claimed' \subseteq Claimed
      BY <2>1 DEF Claimed, ClientStart
    <4>2. full' = FALSE /\ unmeasured' = Interval
      BY <2>1 DEF ClientStart
    <4>3. NoneEmpty'
      BY <2>1 DEF SizeInv, NoneEmpty, ClientStart
    <4> QED BY <4>1, <4>2, <4>3, Shrinks
  <2>2. CASE ClientDies
    <4>1. Claimed' \subseteq Claimed
      BY <2>2 DEF Claimed, ClientDies
    <4>2. UNCHANGED <<full, unmeasured>>
      BY <2>2 DEF ClientDies
    <4>3. NoneEmpty'
      BY <2>2 DEF SizeInv, NoneEmpty, ClientDies
    <4> QED BY <4>1, <4>2, <4>3, Shrinks
  <2>3. CASE Writing
    <3>1. ASSUME NEW b \in Bundle, WriteBegin(b) PROVE SizeInv'
      <4>0. writer = "idle" /\ place[b] = "none" /\ Budget /\ UNCHANGED files
        BY <3>1 DEF WriteBegin
      <4> DEFINE k == Cardinality(File)
      <4>1. k \in Nat /\ MaxSize \in Nat \ {0} /\ Interval \in Nat \ {0} /\ unmeasured \in Nat
        BY FilesFinite, SpoolAssumption
      <4>2. /\ unmeasured' \in 1..Interval
            /\ unmeasured < Interval => unmeasured' = unmeasured + 1
            /\ unmeasured >= Interval => unmeasured' = 1
        <5>1. unmeasured' = Counted(unmeasured)
          BY <4>0 DEF Budget
        <5> QED BY <4>1, <5>1 DEF Counted
      <4>8. unmeasured < Interval => full' = full
        <5>1. unmeasured < Interval => ~(unmeasured >= Interval)
          BY <4>1
        <5> QED BY <4>0, <5>1, Zenon DEF Budget
      <4>7. unmeasured >= Interval /\ Measure >= MaxSize => full'
        <5>1. SUFFICES ASSUME unmeasured >= Interval, Measure >= MaxSize PROVE full'
          OBVIOUS
        <5>2. full' \in {TRUE, Measure >= MaxSize}
          BY <4>0, <5>1 DEF Budget
        <5> QED BY <5>1, <5>2, Zenon
      <4>3. Cardinality(Claimed) = Measure
        BY <4>0 DEF Claimed, Measure
      <4>4. NoneEmpty'
        BY <3>1 DEF WriteBegin, Rename, SizeInv, NoneEmpty
      <4>5. CASE UNCHANGED <<place, writer, writing>>
        <5>1. Claimed' = Claimed
          BY <4>0, <4>5 DEF Claimed
        <5>2. unmeasured' * k <= Interval * k /\ unmeasured' * k \in Nat /\ Interval * k \in Nat
          BY <4>1, <4>2, Multiples
        <5>3. unmeasured < Interval => unmeasured' * k = unmeasured * k + k /\ unmeasured * k \in Nat
          BY <4>1, <4>2, Multiples
        <5> QED BY <4>1, <4>2, <4>3, <4>4, <4>7, <4>8, <5>1, <5>2, <5>3, MeasureFinite DEF SizeInv
      <4>6. CASE ~full' /\ Rename(b, "tmp") /\ writer' = "writing" /\ writing' = b
        <5>1. Claimed' \subseteq Claimed \cup ({b} \X File)
          BY <4>0, <4>6 DEF Claimed, Rename
        <5>2. Cardinality(Claimed') <= Cardinality(Claimed) + k /\ Cardinality(Claimed') \in Nat
          <6> DEFINE B == {b} \X File
          <6>1. IsFiniteSet(B) /\ Cardinality(B) = k
            BY FilesFinite
          <6>2. IsFiniteSet(Claimed \cap B) /\ Cardinality(Claimed \cap B) \in Nat
            BY ClaimedFinite, FS_Subset, FS_CardinalityType
          <6>3. /\ IsFiniteSet(Claimed \cup B)
                /\ Cardinality(Claimed \cup B) = Cardinality(Claimed) + k - Cardinality(Claimed \cap B)
            BY <6>1, ClaimedFinite, FS_Union
          <6>4. /\ IsFiniteSet(Claimed') /\ Cardinality(Claimed') \in Nat
                /\ Cardinality(Claimed') <= Cardinality(Claimed \cup B)
            BY <5>1, <6>3, FS_Subset, FS_CardinalityType
          <6> QED BY <4>1, <6>2, <6>3, <6>4, ClaimedFinite
        <5>3. Cardinality(Claimed') < MaxSize + unmeasured' * k
          <6>1. CASE unmeasured < Interval
            BY <4>1, <4>2, <4>6, <4>8, <5>2, <6>1, ClaimedFinite, Multiples DEF SizeInv
          <6>2. CASE unmeasured >= Interval
            BY <4>1, <4>2, <4>3, <4>6, <4>7, <5>2, <6>2, MeasureFinite
          <6> QED BY <4>1, <6>1, <6>2
        <5>4. unmeasured' * k <= Interval * k /\ unmeasured' * k \in Nat /\ Interval * k \in Nat
          BY <4>1, <4>2, Multiples
        <5> QED BY <4>1, <4>2, <4>4, <5>2, <5>3, <5>4 DEF SizeInv
      <4> QED BY <3>1, <4>5, <4>6 DEF WriteBegin
    <3>2. ASSUME NEW f \in Component, WriteComponent(f) PROVE SizeInv'
      <4>1. Claimed' \subseteq Claimed
        BY <3>2 DEF Claimed, WriteComponent, TempInv, Put
      <4>2. UNCHANGED <<full, unmeasured>>
        BY <3>2 DEF WriteComponent
      <4>3. NoneEmpty'
        BY <3>2 DEF SizeInv, NoneEmpty, WriteComponent, TempInv, Put
      <4> QED BY <4>1, <4>2, <4>3, Shrinks
    <3>3. CASE WriteManifest
      <4>1. Claimed' \subseteq Claimed
        BY <3>3 DEF Claimed, WriteManifest, TempInv, Put, File
      <4>2. UNCHANGED <<full, unmeasured>>
        BY <3>3 DEF WriteManifest
      <4>3. NoneEmpty'
        BY <3>3 DEF SizeInv, NoneEmpty, WriteManifest, TempInv, Put, File
      <4> QED BY <4>1, <4>2, <4>3, Shrinks
    <3>4. CASE Publish
      <4>1. Claimed' \subseteq Claimed
        BY <3>4 DEF Claimed, Publish, Rename, TempInv
      <4>2. UNCHANGED <<full, unmeasured>>
        BY <3>4 DEF Publish
      <4>3. NoneEmpty'
        BY <3>4 DEF SizeInv, NoneEmpty, Publish, Rename, TempInv
      <4> QED BY <4>1, <4>2, <4>3, Shrinks
    <3>5. CASE WriteEnd
      <4>1. Claimed' \subseteq Claimed
        BY <3>5 DEF Claimed, WriteEnd
      <4>2. UNCHANGED <<full, unmeasured>>
        BY <3>5 DEF WriteEnd
      <4>3. NoneEmpty'
        BY <3>5 DEF SizeInv, NoneEmpty, WriteEnd
      <4> QED BY <4>1, <4>2, <4>3, Shrinks
    <3> QED BY <2>3, <3>1, <3>2, <3>3, <3>4, <3>5 DEF Writing
  <2>4. CASE Recovering
    <3>1. CASE RecoverBegin
      <4>1. Claimed' \subseteq Claimed
        BY <3>1 DEF Claimed, RecoverBegin
      <4>2. UNCHANGED <<full, unmeasured>>
        BY <3>1 DEF RecoverBegin
      <4>3. NoneEmpty'
        BY <3>1 DEF SizeInv, NoneEmpty, RecoverBegin
      <4> QED BY <4>1, <4>2, <4>3, Shrinks
    <3>2. CASE RecoverAbort
      <4>1. Claimed' \subseteq Claimed
        BY <3>2 DEF Claimed, RecoverAbort
      <4>2. UNCHANGED <<full, unmeasured>>
        BY <3>2 DEF RecoverAbort
      <4>3. NoneEmpty'
        BY <3>2 DEF SizeInv, NoneEmpty, RecoverAbort
      <4> QED BY <4>1, <4>2, <4>3, Shrinks
    <3>3. CASE RecoverReturn
      <4>1. Claimed' \subseteq Claimed
        BY <3>3 DEF Claimed, RecoverReturn
      <4>2. UNCHANGED <<full, unmeasured>>
        BY <3>3 DEF RecoverReturn
      <4>3. NoneEmpty'
        BY <3>3 DEF SizeInv, NoneEmpty, RecoverReturn
      <4> QED BY <4>1, <4>2, <4>3, Shrinks
    <3>4. ASSUME NEW b \in Bundle, Recover(b) PROVE SizeInv'
      <4>1. Claimed' \subseteq Claimed
        BY <3>4 DEF Claimed, Recover, Rename, TempInv
      <4>2. UNCHANGED <<full, unmeasured>>
        BY <3>4 DEF Recover
      <4>3. NoneEmpty'
        BY <3>4 DEF SizeInv, NoneEmpty, Recover, Rename, TempInv
      <4> QED BY <4>1, <4>2, <4>3, Shrinks
    <3> QED BY <2>4, <3>1, <3>2, <3>3, <3>4 DEF Recovering
  <2>5. ASSUME NEW i \in Ingester, Importing(i) PROVE SizeInv'
    <3>1. CASE UNCHANGED <<spool, client>>
      BY <3>1, Elsewhere
    <3>2. CASE Cleanup(i)
      <4>1. Claimed' \subseteq Claimed
        BY <3>2 DEF Claimed, Cleanup, Rename, NextBundle
      <4>2. UNCHANGED <<full, unmeasured>>
        BY <3>2 DEF Cleanup
      <4>3. NoneEmpty'
        BY <3>2 DEF SizeInv, NoneEmpty, Cleanup, Rename, NextBundle
      <4> QED BY <4>1, <4>2, <4>3, Shrinks
    <3>3. CASE RemoveReturn(i)
      <4>1. Claimed' \subseteq Claimed
        BY <3>3 DEF Claimed, RemoveReturn, Rename
      <4>2. UNCHANGED <<full, unmeasured>>
        BY <3>3 DEF RemoveReturn
      <4>3. NoneEmpty'
        BY <3>3 DEF SizeInv, NoneEmpty, RemoveReturn, Rename
      <4> QED BY <4>1, <4>2, <4>3, Shrinks
    <3>4. ASSUME NEW f \in File, RemoveFile(i, f) PROVE SizeInv'
      <4>1. Claimed' \subseteq Claimed
        BY <3>4 DEF Claimed, RemoveFile, Delete
      <4>2. UNCHANGED <<full, unmeasured>>
        BY <3>4 DEF RemoveFile
      <4>3. NoneEmpty'
        BY <3>4 DEF SizeInv, NoneEmpty, RemoveFile, Delete
      <4> QED BY <4>1, <4>2, <4>3, Shrinks
    <3> QED BY <2>5, <3>1, <3>2, <3>3, <3>4
        DEF Importing, List, ImportReturn, Prepare, PrepareFails, Store, StoreFails,
            Commit, AddReturns, AddFails, RemoveFails
  <2>6. ASSUME NEW i \in Ingester, IngesterDies(i) PROVE SizeInv'
    BY <2>6, Elsewhere DEF IngesterDies
  <2>7. CASE Discarding
    <3>1. ASSUME NEW b \in Bundle, DiscardDirectory(b) PROVE SizeInv'
      <4>1. Claimed' \subseteq Claimed
        BY <3>1 DEF Claimed, DiscardDirectory, Rename
      <4>2. UNCHANGED <<full, unmeasured>>
        BY <3>1 DEF DiscardDirectory
      <4>3. NoneEmpty'
        BY <3>1 DEF SizeInv, NoneEmpty, DiscardDirectory, Rename
      <4> QED BY <4>1, <4>2, <4>3, Shrinks
    <3>2. ASSUME NEW b \in Bundle, NEW f \in File, DiscardFile(b, f) PROVE SizeInv'
      <4>1. Claimed' \subseteq Claimed
        BY <3>2 DEF Claimed, DiscardFile, Delete
      <4>2. UNCHANGED <<full, unmeasured>>
        BY <3>2 DEF DiscardFile
      <4>3. NoneEmpty'
        BY <3>2 DEF SizeInv, NoneEmpty, DiscardFile, Delete
      <4> QED BY <4>1, <4>2, <4>3, Shrinks
    <3> QED BY <2>7, <3>1, <3>2 DEF Discarding
  <2> QED BY <2>0, <2>1, <2>2, <2>3, <2>4, <2>5, <2>6, <2>7 DEF Next
<1> QED BY <1>1, <1>2, TypeCorrect, LockCorrect, TempCorrect, PTL DEF Spec

(* The spool outgrows its ceiling by less than the bundles between two      *)
(* measurements (Bounded), however often the client dies.                   *)
THEOREM BoundedCorrect == Spec => []Bounded
<1>1. TypeInv /\ SizeInv => Bounded
  <2>1. Interval * Cardinality(File) \in Nat /\ MaxSize \in Nat
    BY SpoolAssumption, FilesFinite, Multiples
  <2> QED BY <2>1, ClaimedFinite, MeasureFinite DEF SizeInv, Bounded
<1> QED BY <1>1, TypeCorrect, SizeCorrect, PTL

=============================================================================
