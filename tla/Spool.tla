-------------------------------- MODULE Spool --------------------------------
(***************************************************************************)
(* The spool directory: the capture mod's writer publishes bundles in it   *)
(* and recovers what a dead writer left, the command line and the desktop  *)
(* application import from it and remove or rename what they imported, and *)
(* each of them may die between any two file operations.                   *)
(*                                                                         *)
(* A bundle is a directory named by the state it is in; its files are      *)
(* written and removed one at a time.  A component that repeats one        *)
(* already spooled is a hard link to it, which the file system keeps when  *)
(* the other bundle is removed, so it is a file like any other.  The       *)
(* archive is its promise, the ledger: every step of an import's call is a *)
(* step of ArchiveLedger.                                                  *)
(***************************************************************************)
EXTENDS Naturals, FiniteSets

CONSTANTS
  Bundle,      \* what the writer is given to write; also its observation
  Component,   \* component files of each bundle
  Manifest,    \* bundle.json
  Ingester,    \* processes that import from the spool
  Deleters,    \* those that remove what they imported
  Markers,     \* those that rename it to imported-
  MaxSize,     \* of the spool, in files
  Interval,    \* bundles between two measurements
  Free,        \* nobody holds the spool lock
  NoBundle, NoCall

ASSUME SpoolAssumption ==
  /\ Deleters \subseteq Ingester /\ Markers \subseteq Ingester
  /\ Deleters \cap Markers = {}
  /\ Manifest \notin Component /\ IsFiniteSet(Component) /\ IsFiniteSet(Bundle)
  /\ NoBundle \notin Bundle /\ Free \notin {"writer", "recovery"}
  /\ MaxSize \in Nat \ {0} /\ Interval \in Nat \ {0}

File == Component \cup {Manifest}

VARIABLES
  \* On disk.
  place,       \* the state each bundle's directory name gives
  files,       \* the files in it
  spoolLock,
  \* The client: its writer thread and its bootstrap thread.
  writer, writing,
  recovery, leftovers,
  unmeasured,  \* bundlesSinceBudgetCheck
  full,        \* the last measurement does not allow capture
  \* The importing processes.
  step, listed, at,
  \* The archive.
  held, call, acked,
  \* History: bundles that were ever ready.
  published

spool == <<place, files>>
client == <<spoolLock, writer, writing, recovery, leftovers, unmeasured, full>>
import == <<step, listed, at>>
ledger == <<held, call, acked>>
vars == <<spool, client, import, ledger, published>>

Archive == INSTANCE ArchiveLedger WITH Proc <- Ingester, Obs <- Bundle

TypeOK ==
  /\ place \in [Bundle -> {"none", "tmp", "ready", "quarantine", "imported", "gone"}]
  /\ files \in [Bundle -> SUBSET File]
  /\ spoolLock \in {Free, "writer", "recovery"}
  /\ writer \in {"off", "idle", "writing", "settle"}
  /\ writing \in Bundle \cup {NoBundle}
  /\ recovery \in {"off", "due", "running"}
  /\ leftovers \subseteq Bundle
  /\ unmeasured \in 0..Interval
  /\ full \in BOOLEAN
  /\ step \in [Ingester -> {"idle", "listed", "store", "add", "cleanup", "remove"}]
  /\ listed \in [Ingester -> SUBSET Bundle]
  /\ at \in [Ingester -> Bundle \cup {NoBundle}]
  /\ Archive!TypeOK
  /\ published \subseteq Bundle

Init ==
  /\ place = [b \in Bundle |-> "none"] /\ files = [b \in Bundle |-> {}]
  /\ spoolLock = Free
  /\ writer = "off" /\ writing = NoBundle
  /\ recovery = "off" /\ leftovers = {}
  /\ unmeasured = Interval /\ full = FALSE
  /\ step = [i \in Ingester |-> "idle"]
  /\ listed = [i \in Ingester |-> {}] /\ at = [i \in Ingester |-> NoBundle]
  /\ Archive!Init
  /\ published = {}

-----------------------------------------------------------------------------
Whole(b) == files[b] = File
Temporary == {b \in Bundle : place[b] = "tmp"}
Ready == {b \in Bundle : place[b] = "ready"}

(* What the budget counts: the files of ready and temporary bundles.        *)
Measure == Cardinality({bf \in Bundle \X File :
             bf[1] \in Ready \cup Temporary /\ bf[2] \in files[bf[1]]})

Put(b, f) == files' = [files EXCEPT ![b] = @ \cup {f}]
Delete(b, f) == files' = [files EXCEPT ![b] = @ \ {f}]
Rename(b, state) == place' = [place EXCEPT ![b] = state]

-----------------------------------------------------------------------------
(* Faulty variants of the actions below.                                    *)

(* A recovery that does not take the spool lock: LiveTempKept.              *)
RecoverUnlocked ==
  /\ recovery = "due"
  /\ recovery' = "running"
  /\ leftovers' = Temporary
  /\ UNCHANGED <<spool, spoolLock, writer, writing, unmeasured, full, import, ledger, published>>

(* A recovery that leaves what it cannot validate: RecoveryClears.          *)
RecoverValid(b) ==
  /\ recovery = "running"
  /\ b \in leftovers
  /\ leftovers' = leftovers \ {b}
  /\ IF Whole(b)
     THEN Rename(b, "ready") /\ published' = published \cup {b}
     ELSE UNCHANGED <<place, published>>
  /\ UNCHANGED <<files, spoolLock, writer, writing, recovery, unmeasured, full, import, ledger>>

(* A failed import that goes on to clean up: OnlyCopyKept.                  *)
CleanUpAnyway(i) ==
  /\ step[i] = "add"
  /\ Archive!Abandon(i)
  /\ step' = [step EXCEPT ![i] = "cleanup"]
  /\ UNCHANGED <<spool, client, listed, at, published>>

(* A counter of written bundles that does not advance: Bounded.             *)
CountedOnce(n) == 1

-----------------------------------------------------------------------------
(* The client.  A new one measures before its first bundle and owes the     *)
(* spool a recovery.                                                        *)

ClientStart ==
  /\ writer = "off"
  /\ writer' = "idle" /\ recovery' = "due"
  /\ unmeasured' = Interval /\ full' = FALSE
  /\ UNCHANGED <<spool, spoolLock, writing, leftovers, import, ledger, published>>

(* It exits or is killed; the operating system drops its lock.              *)
ClientDies ==
  /\ writer # "off"
  /\ writer' = "off" /\ writing' = NoBundle
  /\ recovery' = "off" /\ leftovers' = {}
  /\ spoolLock' = Free
  /\ UNCHANGED <<spool, unmeasured, full, import, ledger, published>>

-----------------------------------------------------------------------------
(* write, under the spool lock.                                             *)

Counted(n) == IF n >= Interval THEN 1 ELSE n + 1

(* The spool has reached its ceiling, or the disk is low on space, as far   *)
(* as the last measurement tells.                                           *)
Budget ==
  /\ unmeasured' = Counted(unmeasured)
  /\ IF unmeasured >= Interval
     THEN full' \in {TRUE, Measure >= MaxSize}
     ELSE UNCHANGED full

(* It is refused when the spool is full, and may fail before the temporary  *)
(* directory exists.                                                        *)
WriteBegin(b) ==
  /\ writer = "idle" /\ spoolLock = Free
  /\ place[b] = "none"
  /\ Budget
  /\ \/ /\ ~full'
        /\ Rename(b, "tmp")
        /\ spoolLock' = "writer" /\ writer' = "writing" /\ writing' = b
     \/ UNCHANGED <<place, spoolLock, writer, writing>>
  /\ UNCHANGED <<files, recovery, leftovers, import, ledger, published>>

WriteComponent(f) ==
  /\ writer = "writing"
  /\ place[writing] = "tmp"
  /\ f \in Component \ files[writing]
  /\ Put(writing, f)
  /\ UNCHANGED <<place, client, import, ledger, published>>

WriteManifest ==
  /\ writer = "writing"
  /\ place[writing] = "tmp"
  /\ Component \subseteq files[writing] /\ Manifest \notin files[writing]
  /\ Put(writing, Manifest)
  /\ UNCHANGED <<place, client, import, ledger, published>>

Publish ==
  /\ writer = "writing"
  /\ place[writing] = "tmp" /\ Whole(writing)
  /\ Rename(writing, "ready")
  /\ published' = published \cup {writing}
  /\ writer' = "settle"
  /\ UNCHANGED <<files, spoolLock, writing, recovery, leftovers, unmeasured, full,
                 import, ledger>>

(* The end of a write, by success or by an I/O error at any point: what is  *)
(* in the temporary directory stays there.                                  *)
WriteEnd ==
  /\ writer \in {"writing", "settle"}
  /\ writer' = "idle" /\ writing' = NoBundle
  /\ spoolLock' = Free
  /\ UNCHANGED <<spool, recovery, leftovers, unmeasured, full, import, ledger, published>>

-----------------------------------------------------------------------------
(* recoverTemporaryBundles, under the same lock.                            *)

RecoverBegin ==
  /\ recovery = "due" /\ spoolLock = Free
  /\ recovery' = "running" /\ spoolLock' = "recovery"
  /\ leftovers' = Temporary
  /\ UNCHANGED <<spool, writer, writing, unmeasured, full, import, ledger, published>>

(* A bundle whose manifest and components are all there is published, any   *)
(* other, or one that cannot be read or moved just now, put aside.          *)
Recover(b) ==
  /\ recovery = "running"
  /\ b \in leftovers
  /\ leftovers' = leftovers \ {b}
  /\ \/ /\ Whole(b)
        /\ Rename(b, "ready")
        /\ published' = published \cup {b}
     \/ /\ Rename(b, "quarantine")
        /\ UNCHANGED published
  /\ UNCHANGED <<files, spoolLock, writer, writing, recovery, unmeasured, full, import, ledger>>

(* An I/O error that keeps a bundle from being put aside ends it early.     *)
RecoverAbort ==
  /\ recovery = "running" /\ leftovers # {}
  /\ recovery' = "off" /\ leftovers' = {}
  /\ spoolLock' = Free
  /\ UNCHANGED <<spool, writer, writing, unmeasured, full, import, ledger, published>>

RecoverReturn ==
  /\ recovery = "running" /\ leftovers = {}
  /\ recovery' = "off"
  /\ spoolLock' = Free
  /\ UNCHANGED <<spool, writer, writing, leftovers, unmeasured, full, import, ledger, published>>

-----------------------------------------------------------------------------
(* Importing: no lock is shared with the client.                            *)

List(i) ==
  /\ step[i] = "idle"
  /\ Ready # {}
  /\ step' = [step EXCEPT ![i] = "listed"]
  /\ listed' = [listed EXCEPT ![i] = Ready]
  /\ UNCHANGED <<spool, client, at, ledger, published>>

Importable(b) == b \in Ready /\ Whole(b)

Prepare(i, b) ==
  /\ step[i] = "listed"
  /\ b \in listed[i]
  /\ Importable(b)
  /\ step' = [step EXCEPT ![i] = "store"]
  /\ at' = [at EXCEPT ![i] = b]
  /\ UNCHANGED <<spool, client, listed, ledger, published>>

(* On to the next bundle of the list.                                       *)
PrepareFails(i, b) ==
  /\ step[i] = "listed"
  /\ b \in listed[i]
  /\ ~Importable(b)
  /\ listed' = [listed EXCEPT ![i] = @ \ {b}]
  /\ UNCHANGED <<spool, client, step, at, ledger, published>>

NextBundle(i) ==
  /\ step' = [step EXCEPT ![i] = "listed"]
  /\ listed' = [listed EXCEPT ![i] = @ \ {at[i]}]
  /\ at' = [at EXCEPT ![i] = NoBundle]

(* The components are opened again as they are stored, and may be gone.     *)
Store(i) ==
  /\ step[i] = "store"
  /\ at[i] \in Ready /\ Component \subseteq files[at[i]]
  /\ Archive!Ask(i, "add", {at[i]})
  /\ step' = [step EXCEPT ![i] = "add"]
  /\ UNCHANGED <<spool, client, listed, at, published>>

StoreFails(i) ==
  /\ step[i] = "store"
  /\ NextBundle(i)
  /\ UNCHANGED <<spool, client, ledger, published>>

Commit(i) ==
  /\ step[i] = "add"
  /\ Archive!Add(i)
  /\ UNCHANGED <<spool, client, import, published>>

AddReturns(i) ==
  /\ step[i] = "add"
  /\ Archive!Return(i)
  /\ step' = [step EXCEPT ![i] = "cleanup"]
  /\ UNCHANGED <<spool, client, listed, at, published>>

AddFails(i) ==
  /\ step[i] = "add"
  /\ Archive!Abandon(i)
  /\ NextBundle(i)
  /\ UNCHANGED <<spool, client, published>>

(* A bundle that is not where it was is left alone.                         *)
Cleanup(i) ==
  /\ step[i] = "cleanup"
  /\ IF i \in Deleters /\ at[i] \in Ready
     THEN step' = [step EXCEPT ![i] = "remove"] /\ UNCHANGED <<place, listed, at>>
     ELSE /\ IF i \in Markers /\ at[i] \in Ready
             THEN Rename(at[i], "imported") ELSE UNCHANGED place
          /\ NextBundle(i)
  /\ UNCHANGED <<files, client, ledger, published>>

(* RemoveAll holds the directory open, so it goes on in one that was        *)
(* renamed meanwhile.                                                       *)
RemoveFile(i, f) ==
  /\ step[i] = "remove"
  /\ f \in files[at[i]]
  /\ Delete(at[i], f)
  /\ UNCHANGED <<place, client, import, ledger, published>>

RemoveReturn(i) ==
  /\ step[i] = "remove"
  /\ files[at[i]] = {} \/ at[i] \notin Ready
  /\ IF at[i] \in Ready THEN Rename(at[i], "gone") ELSE UNCHANGED place
  /\ NextBundle(i)
  /\ UNCHANGED <<files, client, ledger, published>>

RemoveFails(i) ==
  /\ step[i] = "remove"
  /\ NextBundle(i)
  /\ UNCHANGED <<spool, client, ledger, published>>

ImportReturn(i) ==
  /\ step[i] = "listed" /\ listed[i] = {}
  /\ step' = [step EXCEPT ![i] = "idle"]
  /\ UNCHANGED <<spool, client, listed, at, ledger, published>>

IngesterDies(i) ==
  /\ step[i] # "idle"
  /\ step' = [step EXCEPT ![i] = "idle"]
  /\ listed' = [listed EXCEPT ![i] = {}]
  /\ at' = [at EXCEPT ![i] = NoBundle]
  /\ IF call[i] = NoCall THEN UNCHANGED ledger ELSE Archive!Abandon(i)
  /\ UNCHANGED <<spool, client, published>>

(* The desktop application clears bundles that are marked imported.         *)
DiscardFile(b, f) ==
  /\ place[b] = "imported"
  /\ f \in files[b]
  /\ Delete(b, f)
  /\ UNCHANGED <<place, client, import, ledger, published>>

DiscardDirectory(b) ==
  /\ place[b] = "imported"
  /\ files[b] = {}
  /\ Rename(b, "gone")
  /\ UNCHANGED <<files, client, import, ledger, published>>

-----------------------------------------------------------------------------
Writing ==
  \/ \E b \in Bundle : WriteBegin(b)
  \/ \E f \in Component : WriteComponent(f)
  \/ WriteManifest \/ Publish \/ WriteEnd

Recovering ==
  \/ RecoverBegin \/ RecoverAbort \/ RecoverReturn
  \/ \E b \in Bundle : Recover(b)

Importing(i) ==
  \/ List(i) \/ ImportReturn(i)
  \/ \E b \in Bundle : Prepare(i, b) \/ PrepareFails(i, b)
  \/ Store(i) \/ StoreFails(i)
  \/ Commit(i) \/ AddReturns(i) \/ AddFails(i)
  \/ Cleanup(i) \/ RemoveReturn(i) \/ RemoveFails(i)
  \/ \E f \in File : RemoveFile(i, f)

Discarding ==
  \E b \in Bundle : DiscardDirectory(b) \/ \E f \in File : DiscardFile(b, f)

Next ==
  \/ ClientStart \/ ClientDies \/ Writing \/ Recovering
  \/ \E i \in Ingester : Importing(i) \/ IngesterDies(i)
  \/ Discarding

Spec == Init /\ [][Next]_vars

-----------------------------------------------------------------------------
(* Properties.                                                              *)

(* What somebody saw is never lost on its way: a bundle that was once ready *)
(* is in the archive, or is still in the spool, ready and complete, through *)
(* every crash of the client and of the processes that import it            *)
(* (cmd/worldledger/ingestspool.go:68).                                     *)
OnlyCopyKept == \A b \in published : b \in held \/ Importable(b)

(* A temporary directory the writer is filling is never published or put    *)
(* aside under it by the recovery that runs beside it.                      *)
LiveTempKept == writer = "writing" => place[writing] = "tmp"

(* The spool outgrows its ceiling by no more than the bundles written       *)
(* between two measurements, whoever dies and restarts meanwhile            *)
(* (BundleSpoolWriter.java:95).                                             *)
Bounded == Measure < MaxSize + Interval * Cardinality(File)

(* A recovery that returns leaves no temporary directory behind.            *)
RecoveryClears == [][RecoverReturn => Temporary' = {}]_vars

=============================================================================
