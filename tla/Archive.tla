------------------------------- MODULE Archive -------------------------------
(***************************************************************************)
(* The on-disk archive (internal/archive, internal/cas) and the processes  *)
(* that share it: commands that import bundles, purge redacted records or  *)
(* rebuild the chunk index.  Every file the code replaces or removes       *)
(* atomically is one step, and a process may die between any two of them.  *)
(*                                                                         *)
(* Observations, chunks and objects are opaque: an observation is its id,  *)
(* ChunkOf names the chunk it belongs to and Refs the objects its          *)
(* components name.  Files are never damaged here, so the validations that *)
(* reject a damaged file have no counterpart.                              *)
(***************************************************************************)
EXTENDS Naturals, FiniteSets

CONSTANTS
  Proc,        \* processes that use the archive
  Importers,   \* those that may import bundles or receive a transfer
  Purgers,     \* those that may run `redact purge --yes`
  Rebuilders,  \* those that may run `fsck --rebuild-index`
  Obs, Chunk, Object,
  ChunkOf, Refs,
  Nobody,      \* the archive lock is free
  NoJournal,   \* purge/pending.json does not exist
  NoObs        \* no observation in hand

ASSUME ProcAssumption ==
  /\ Importers \subseteq Proc /\ Purgers \subseteq Proc /\ Rebuilders \subseteq Proc
  /\ Nobody \notin Proc

ASSUME ObsAssumption ==
  /\ ChunkOf \in [Obs -> Chunk]
  /\ Refs \in [Obs -> SUBSET Object]
  /\ NoObs \notin Obs

Journal == [ids : SUBSET Obs, refs : SUBSET Object]

ASSUME JournalAssumption == NoJournal \notin Journal

VARIABLES
  \* On disk.
  objects,       \* objects/: the content-addressed store
  observations,  \* observations/: one file per observation
  index,         \* index/chunks/: the ids listed for each chunk
  transactions,  \* the pending transaction files, named by observation
  journal,       \* purge/pending.json
  \* The processes.
  lock,          \* holder of archive.lock
  pc,
  work,          \* what each process has in hand
  \* History, read by properties only.
  acked,         \* imports that succeeded and no purge begun since names
  gone,          \* purged with success and not imported since
  withdrawn,     \* objects of purged observations, not stored since
  halfRebuilt    \* a rebuild cleared the index and has not returned

disk == <<objects, observations, index, transactions, journal>>
history == <<acked, gone, withdrawn, halfRebuilt>>
vars == <<disk, lock, pc, work, history>>

-----------------------------------------------------------------------------
(* Why a process is in the middle of something: it is opening the archive,  *)
(* adding an observation, first replaying the transaction an earlier        *)
(* attempt at that observation left, purging, or rebuilding.                *)
Task == {"none", "open", "import", "retry", "purge", "rebuild"}

Unlocked == {"closed", "ready", "ingesting", "store", "selected"}
Locked == {"replay", "writeTx", "commitObservation", "commitIndex", "removeTx",
           "writeJournal", "unindex", "removeRecord", "removeObject",
           "clearIndex", "reindex"}

Work == [task : Task, at : Obs \cup {NoObs},
         ids : SUBSET Obs, refs : SUBSET Object]

Idle == [task |-> "none", at |-> NoObs, ids |-> {}, refs |-> {}]

TypeOK ==
  /\ objects \subseteq Object
  /\ observations \subseteq Obs
  /\ index \in [Chunk -> SUBSET Obs]
  /\ transactions \subseteq Obs
  /\ journal \in Journal \cup {NoJournal}
  /\ lock \in Proc \cup {Nobody}
  /\ pc \in [Proc -> Unlocked \cup Locked]
  /\ work \in [Proc -> Work]
  /\ acked \subseteq Obs
  /\ gone \subseteq Obs
  /\ withdrawn \subseteq Object
  /\ halfRebuilt \in BOOLEAN

Init ==
  /\ objects = {} /\ observations = {} /\ transactions = {}
  /\ index = [c \in Chunk |-> {}]
  /\ journal = NoJournal
  /\ lock = Nobody
  /\ pc = [p \in Proc |-> "closed"]
  /\ work = [p \in Proc |-> Idle]
  /\ acked = {} /\ gone = {} /\ withdrawn = {} /\ halfRebuilt = FALSE

-----------------------------------------------------------------------------
(* Helpers.                                                                 *)

Goto(p, label) == pc' = [pc EXCEPT ![p] = label]
Hold(p, w) == work' = [work EXCEPT ![p] = w]

Acquire(p) == lock = Nobody /\ lock' = p
Release(p) == lock' = IF lock = p THEN Nobody ELSE lock

Indexed(o) == o \in index[ChunkOf[o]]
Listed(o) == index' = [index EXCEPT ![ChunkOf[o]] = @ \cup {o}]
Unlisted(o) == index' = [index EXCEPT ![ChunkOf[o]] = @ \ {o}]

ReferencedBy(S) == UNION {Refs[o] : o \in S}
Journalled(o) == journal # NoJournal /\ o \in journal.ids

(* The observations some process is importing right now.                    *)
InFlight == {work[p].at : p \in {q \in Proc : work[q].task \in {"import", "retry"}}}

-----------------------------------------------------------------------------
(* Faulty variants, one for each property.  None of them is a step of the   *)
(* machine: each is an action below with the mistake its comment names, and *)
(* the property it breaks when it takes that action's place.                *)

(* A replay that does not keep the record it read: TypeOK.                  *)
ReplayEmpty(p, o) ==
  /\ pc[p] = "replay"
  /\ o \in transactions
  /\ Goto(p, "commitObservation")
  /\ UNCHANGED <<disk, lock, work, history>>

(* A purge that leaves unlisting for later: ListedHasRecord.                *)
UnindexLater(p, o) ==
  /\ pc[p] = "unindex"
  /\ o \in work[p].ids
  /\ IF o \in observations
     THEN Goto(p, "removeRecord") /\ Hold(p, [work[p] EXCEPT !.at = o])
     ELSE Hold(p, [work[p] EXCEPT !.ids = @ \ {o}]) /\ UNCHANGED pc
  /\ UNCHANGED <<disk, lock, history>>

(* The transaction ends with the record, before the index: UnlistedIsPending. *)
CommitEndsTransaction(p) ==
  /\ pc[p] = "commitObservation"
  /\ observations' = observations \cup {work[p].at}
  /\ transactions' = transactions \ {work[p].at}
  /\ Goto(p, "commitIndex")
  /\ UNCHANGED <<objects, index, journal, lock, work, history>>

(* An AddObservation that does not take the lock: AckedSurvives.            *)
AddUnlocked(p) ==
  /\ pc[p] = "store"
  /\ work[p].refs = {}
  /\ Goto(p, "writeTx")
  /\ UNCHANGED <<disk, lock, work, history>>

(* A journal of ids alone, the objects found again at replay, when the      *)
(* records that named them are gone: WithdrawnIsErased.                     *)
JournalIdsOnly(p) ==
  /\ pc[p] = "writeJournal"
  /\ journal' = [ids |-> work[p].ids, refs |-> {}]
  /\ Goto(p, "unindex")
  /\ acked' = acked \ work[p].ids
  /\ withdrawn' = withdrawn \cup work[p].refs
  /\ UNCHANGED <<objects, observations, index, transactions, lock, work, gone, halfRebuilt>>

(* A purge that looks for no survivors: OnlyUnreferencedRemoved.            *)
AssumeNoSurvivors(p) ==
  /\ pc[p] = "unindex"
  /\ work[p].ids = {}
  /\ Goto(p, "removeObject")
  /\ UNCHANGED <<disk, lock, work, history>>

(* A rebuild that starts from the ids the index lists: RebuildRepairs.      *)
RebuildFromIndex(p) ==
  /\ p \in Rebuilders
  /\ pc[p] = "ready"
  /\ Acquire(p)
  /\ Goto(p, "clearIndex")
  /\ Hold(p, [Idle EXCEPT !.task = "rebuild", !.ids = {o \in observations : Indexed(o)}])
  /\ UNCHANGED <<disk, history>>

(* Recovering an earlier attempt, then calling AddObservation again under   *)
(* the lock it waits for: LockIsReleased.                                   *)
RetryFromTheTop(p) ==
  /\ pc[p] = "removeTx"
  /\ transactions' = transactions \ {work[p].at}
  /\ CASE work[p].task = "open" ->
            Goto(p, "replay") /\ Hold(p, [work[p] EXCEPT !.at = NoObs]) /\ UNCHANGED <<lock, acked>>
       [] work[p].task = "retry" ->
            Goto(p, "store") /\ Hold(p, [work[p] EXCEPT !.task = "import"]) /\ UNCHANGED <<lock, acked>>
       [] OTHER ->
            /\ Goto(p, "ingesting") /\ Hold(p, Idle) /\ Release(p)
            /\ acked' = acked \cup ({work[p].at} \ {o \in Obs : Journalled(o)})
  /\ UNCHANGED <<objects, observations, index, journal, gone, withdrawn, halfRebuilt>>

(* A record committed before its components are stored: NoDanglingReference. *)
AddBeforeStored(p) ==
  /\ pc[p] = "store"
  /\ Acquire(p)
  /\ Goto(p, "writeTx")
  /\ UNCHANGED <<disk, work, history>>

(* A purge that skips what the index no longer lists: PurgedStaysGone.      *)
SkipUnlisted(p, o) ==
  /\ pc[p] = "unindex"
  /\ o \in work[p].ids
  /\ IF Indexed(o)
     THEN /\ Unlisted(o)
          /\ Goto(p, "removeRecord")
          /\ Hold(p, [work[p] EXCEPT !.at = o])
     ELSE /\ Hold(p, [work[p] EXCEPT !.ids = @ \ {o}])
          /\ UNCHANGED <<index, pc>>
  /\ UNCHANGED <<objects, observations, transactions, journal, lock, history>>

(* An Open that does not look for a purge journal: OpenHandsOutClean.       *)
OpenIgnoresJournal(p) ==
  /\ pc[p] = "replay"
  /\ transactions = {}
  /\ Release(p)
  /\ Goto(p, "ready")
  /\ Hold(p, Idle)
  /\ UNCHANGED <<disk, history>>

(* No write-ahead file: ImplementsLedger.                                   *)
NoTransaction(p) ==
  /\ pc[p] = "writeTx"
  /\ Goto(p, "commitObservation")
  /\ UNCHANGED <<disk, lock, work, history>>

-----------------------------------------------------------------------------
(* Open: under the lock, replay every pending transaction, then finish a    *)
(* purge that was interrupted, and only then hand the archive out.          *)

OpenLock(p) ==
  /\ pc[p] = "closed"
  /\ Acquire(p)
  /\ Goto(p, "replay")
  /\ Hold(p, [Idle EXCEPT !.task = "open"])
  /\ UNCHANGED <<disk, history>>

ReplayTransaction(p, o) ==
  /\ pc[p] = "replay"
  /\ o \in transactions
  /\ Goto(p, "commitObservation")
  /\ Hold(p, [work[p] EXCEPT !.at = o])
  /\ UNCHANGED <<disk, lock, history>>

ReplayJournal(p) ==
  /\ pc[p] = "replay"
  /\ transactions = {}
  /\ journal # NoJournal
  /\ Goto(p, "unindex")
  /\ Hold(p, [work[p] EXCEPT !.ids = journal.ids, !.refs = journal.refs])
  /\ UNCHANGED <<disk, lock, history>>

OpenReturn(p) ==
  /\ pc[p] = "replay"
  /\ transactions = {}
  /\ journal = NoJournal
  /\ Release(p)
  /\ Goto(p, "ready")
  /\ Hold(p, Idle)
  /\ UNCHANGED <<disk, history>>

-----------------------------------------------------------------------------
(* Importing a bundle: its components go into the object store without the  *)
(* archive lock, and AddObservation takes the lock to commit the record.    *)

StartImport(p, o) ==
  /\ p \in Importers
  /\ pc[p] \in {"ready", "ingesting"}
  /\ Goto(p, "store")
  /\ Hold(p, [task |-> "import", at |-> o, ids |-> {}, refs |-> Refs[o]])
  /\ gone' = gone \ {o}
  /\ UNCHANGED <<disk, lock, acked, withdrawn, halfRebuilt>>

(* A put of an object the store already holds writes nothing and trusts it  *)
(* to stay; otherwise the object is renamed into place.                     *)
StoreComponent(p, x) ==
  /\ pc[p] = "store"
  /\ x \in work[p].refs
  /\ objects' = objects \cup {x}
  /\ withdrawn' = withdrawn \ {x}
  /\ Hold(p, [work[p] EXCEPT !.refs = @ \ {x}])
  /\ UNCHANGED <<observations, index, transactions, journal, lock, pc, acked, gone, halfRebuilt>>

AddLock(p) ==
  /\ pc[p] = "store"
  /\ work[p].refs = {}
  /\ Acquire(p)
  /\ IF work[p].at \in transactions
     THEN /\ Goto(p, "commitObservation")
          /\ Hold(p, [work[p] EXCEPT !.task = "retry"])
     ELSE /\ Goto(p, "writeTx")
          /\ UNCHANGED work
  /\ UNCHANGED <<disk, history>>

WriteTransaction(p) ==
  /\ pc[p] = "writeTx"
  /\ transactions' = transactions \cup {work[p].at}
  /\ Goto(p, "commitObservation")
  /\ UNCHANGED <<objects, observations, index, journal, lock, work, history>>

CommitObservation(p) ==
  /\ pc[p] = "commitObservation"
  /\ observations' = observations \cup {work[p].at}
  /\ Goto(p, "commitIndex")
  /\ UNCHANGED <<objects, index, transactions, journal, lock, work, history>>

CommitIndex(p) ==
  /\ pc[p] = "commitIndex"
  /\ Listed(work[p].at)
  /\ Goto(p, "removeTx")
  /\ UNCHANGED <<objects, observations, transactions, journal, lock, work, history>>

RemoveTransaction(p) ==
  /\ pc[p] = "removeTx"
  /\ transactions' = transactions \ {work[p].at}
  /\ CASE work[p].task = "open" ->
            /\ Goto(p, "replay")
            /\ Hold(p, [work[p] EXCEPT !.at = NoObs])
            /\ UNCHANGED <<lock, acked>>
       [] work[p].task = "retry" ->
            /\ Goto(p, "writeTx")
            /\ Hold(p, [work[p] EXCEPT !.task = "import"])
            /\ UNCHANGED <<lock, acked>>
       [] OTHER ->
            /\ Goto(p, "ingesting")
            /\ Hold(p, Idle)
            /\ Release(p)
            /\ acked' = acked \cup ({work[p].at} \ {o \in Obs : Journalled(o)})
  /\ UNCHANGED <<objects, observations, index, journal, gone, withdrawn, halfRebuilt>>

-----------------------------------------------------------------------------
(* redact purge: the ids are read through the index before the lock is      *)
(* taken again, so they may be stale by the time RemoveObservations runs.   *)

SelectForPurge(p, S) ==
  /\ p \in Purgers
  /\ pc[p] = "ready"
  /\ lock = Nobody
  /\ \A c \in Chunk : index[c] \subseteq observations
  /\ S # {}
  /\ \A o \in S : Indexed(o)
  /\ Goto(p, "selected")
  /\ Hold(p, [Idle EXCEPT !.task = "purge", !.ids = S])
  /\ UNCHANGED <<disk, lock, history>>

(* The lock, and the objects the doomed observations reference, read while  *)
(* those observations still exist.                                          *)
PurgeLock(p) ==
  /\ pc[p] = "selected"
  /\ Acquire(p)
  /\ Goto(p, "writeJournal")
  /\ Hold(p, [work[p] EXCEPT !.refs = ReferencedBy(work[p].ids \cap observations)])
  /\ UNCHANGED <<disk, history>>

(* One fixed name: a journal already there is replaced.                     *)
WriteJournal(p) ==
  /\ pc[p] = "writeJournal"
  /\ journal' = [ids |-> work[p].ids, refs |-> work[p].refs]
  /\ Goto(p, "unindex")
  /\ acked' = acked \ work[p].ids
  /\ withdrawn' = withdrawn \cup work[p].refs
  /\ UNCHANGED <<objects, observations, index, transactions, lock, work, gone, halfRebuilt>>

(* The next id of the purge: skipped when its record is already gone.       *)
Unindex(p, o) ==
  /\ pc[p] = "unindex"
  /\ o \in work[p].ids
  /\ IF o \in observations
     THEN /\ Unlisted(o)
          /\ Goto(p, "removeRecord")
          /\ Hold(p, [work[p] EXCEPT !.at = o])
     ELSE /\ Hold(p, [work[p] EXCEPT !.ids = @ \ {o}])
          /\ UNCHANGED <<index, pc>>
  /\ UNCHANGED <<objects, observations, transactions, journal, lock, history>>

RemoveRecord(p) ==
  /\ pc[p] = "removeRecord"
  /\ observations' = observations \ {work[p].at}
  /\ Goto(p, "unindex")
  /\ Hold(p, [work[p] EXCEPT !.ids = @ \ {work[p].at}])
  /\ UNCHANGED <<objects, index, transactions, journal, lock, history>>

(* With every record removed, the doomed objects a surviving observation    *)
(* still references are retained.                                           *)
FindSurvivors(p) ==
  /\ pc[p] = "unindex"
  /\ work[p].ids = {}
  /\ Goto(p, "removeObject")
  /\ Hold(p, [work[p] EXCEPT !.refs = @ \ ReferencedBy(observations)])
  /\ UNCHANGED <<disk, lock, history>>

RemoveObject(p, x) ==
  /\ pc[p] = "removeObject"
  /\ x \in work[p].refs
  /\ objects' = objects \ {x}
  /\ Hold(p, [work[p] EXCEPT !.refs = @ \ {x}])
  /\ UNCHANGED <<observations, index, transactions, journal, lock, pc, history>>

(* The purge command ends here; an Open goes on to hand the archive out.    *)
RemoveJournal(p) ==
  /\ pc[p] = "removeObject"
  /\ work[p].refs = {}
  /\ journal' = NoJournal
  /\ gone' = gone \cup ({o \in Obs : Journalled(o)} \ InFlight)
  /\ IF work[p].task = "open"
     THEN /\ Goto(p, "replay")
          /\ UNCHANGED <<lock, work>>
     ELSE /\ Goto(p, "closed")
          /\ Hold(p, Idle)
          /\ Release(p)
  /\ UNCHANGED <<objects, observations, index, transactions, acked, withdrawn, halfRebuilt>>

-----------------------------------------------------------------------------
(* fsck --rebuild-index.                                                    *)

RebuildLock(p) ==
  /\ p \in Rebuilders
  /\ pc[p] = "ready"
  /\ Acquire(p)
  /\ Goto(p, "clearIndex")
  /\ Hold(p, [Idle EXCEPT !.task = "rebuild", !.ids = observations])
  /\ UNCHANGED <<disk, history>>

(* RemoveAll deletes one chunk's file at a time.                            *)
ClearChunk(p, c) ==
  /\ pc[p] = "clearIndex"
  /\ index[c] # {}
  /\ index' = [index EXCEPT ![c] = {}]
  /\ halfRebuilt' = TRUE
  /\ UNCHANGED <<objects, observations, transactions, journal, lock, pc, work,
                 acked, gone, withdrawn>>

Cleared(p) ==
  /\ pc[p] = "clearIndex"
  /\ \A c \in Chunk : index[c] = {}
  /\ Goto(p, "reindex")
  /\ UNCHANGED <<disk, lock, work, history>>

Reindex(p, o) ==
  /\ pc[p] = "reindex"
  /\ o \in work[p].ids
  /\ Listed(o)
  /\ Hold(p, [work[p] EXCEPT !.ids = @ \ {o}])
  /\ UNCHANGED <<objects, observations, transactions, journal, lock, pc, history>>

RebuildReturn(p) ==
  /\ pc[p] = "reindex"
  /\ work[p].ids = {}
  /\ Goto(p, "closed")
  /\ Hold(p, Idle)
  /\ Release(p)
  /\ halfRebuilt' = FALSE
  /\ UNCHANGED <<disk, acked, gone, withdrawn>>

-----------------------------------------------------------------------------
(* A process ends or is killed, and the operating system drops its lock; an *)
(* import that hits an I/O error gives up on that bundle and goes on.       *)

Crash(p) ==
  /\ pc[p] # "closed"
  /\ Goto(p, "closed")
  /\ Hold(p, Idle)
  /\ Release(p)
  /\ UNCHANGED <<disk, history>>

FailImport(p) ==
  /\ work[p].task \in {"import", "retry"}
  /\ Goto(p, "ingesting")
  /\ Hold(p, Idle)
  /\ Release(p)
  /\ UNCHANGED <<disk, history>>

-----------------------------------------------------------------------------
Opening(p) ==
  \/ OpenLock(p)
  \/ \E o \in Obs : ReplayTransaction(p, o)
  \/ ReplayJournal(p)
  \/ OpenReturn(p)

Importing(p) ==
  \/ \E o \in Obs : StartImport(p, o)
  \/ \E x \in Object : StoreComponent(p, x)
  \/ AddLock(p)
  \/ WriteTransaction(p)
  \/ CommitObservation(p)
  \/ CommitIndex(p)
  \/ RemoveTransaction(p)

Purging(p) ==
  \/ \E S \in SUBSET Obs : SelectForPurge(p, S)
  \/ PurgeLock(p)
  \/ WriteJournal(p)
  \/ \E o \in Obs : Unindex(p, o)
  \/ RemoveRecord(p)
  \/ FindSurvivors(p)
  \/ \E x \in Object : RemoveObject(p, x)
  \/ RemoveJournal(p)

Rebuilding(p) ==
  \/ RebuildLock(p)
  \/ \E c \in Chunk : ClearChunk(p, c)
  \/ Cleared(p)
  \/ \E o \in Obs : Reindex(p, o)
  \/ RebuildReturn(p)

Step(p) == Opening(p) \/ Importing(p) \/ Purging(p) \/ Rebuilding(p)

Next == \E p \in Proc : Step(p) \/ Crash(p) \/ FailImport(p)

Spec == Init /\ [][Next]_vars

(* A process that holds the lock runs on, as straight-line code does; none  *)
(* has to take the lock, start a command or fail.                           *)
FairSpec == Spec /\ \A p \in Proc : WF_vars(lock = p /\ Step(p))

-----------------------------------------------------------------------------
(* Properties.                                                              *)

Pending(o) == o \in transactions \/ Journalled(o)

(* What fsck reports on: every record is listed under its chunk, every      *)
(* listed id has its record, no transaction is pending and every object a   *)
(* record references is stored.                                             *)
CheckClean ==
  /\ \A o \in Obs : o \in observations <=> Indexed(o)
  /\ transactions = {}
  /\ ReferencedBy(observations) \subseteq objects

(* No index file ever lists an observation whose record is missing: adding  *)
(* writes the record first, purging unlists first, and a rebuild lists only *)
(* what it read under the lock, through every crash and interleaving.  A    *)
(* listed id without a record makes every read of its chunk fail.           *)
ListedHasRecord == \A o \in Obs : Indexed(o) => o \in observations

(* A record the index does not list is one a transaction or the purge       *)
(* journal still names, so the next Open finishes it.  Only a rebuild that  *)
(* was interrupted leaves others (internal/archive/rebuild.go:62).          *)
UnlistedIsPending ==
  halfRebuilt \/ \A o \in observations : Indexed(o) \/ Pending(o)

(* An observation whose import reported success, at a time no interrupted   *)
(* purge named it, keeps its record until a purge begun later names it.     *)
AckedSurvives == acked \subseteq observations

(* While nothing is pending on it, a record has every object it references. *)
NoDanglingReference ==
  \A o \in observations : Pending(o) \/ Refs[o] \subseteq objects

(* An observation a purge removed with success stays gone until somebody    *)
(* imports it again (cmd/worldledger/redact.go:147).                        *)
PurgedStaysGone == gone \cap observations = {}

(* When no purge is in progress or interrupted, an object that only purged  *)
(* observations referenced is off the disk unless somebody stored it again. *)
WithdrawnIsErased ==
  journal = NoJournal /\ transactions = {} =>
    withdrawn \cap objects \subseteq ReferencedBy(observations)

(* No step removes an object that a stored observation references, whatever *)
(* other processes do while the purge works through its list.               *)
OnlyUnreferencedRemoved ==
  [][(objects \ objects') \cap ReferencedBy(observations) = {}]_vars

(* An Open hands out an archive fsck has nothing to say about.              *)
OpenHandsOutClean ==
  [][\A p \in Proc : pc[p] = "replay" /\ pc'[p] = "ready" => CheckClean']_vars

(* A rebuild that returns leaves the index listing exactly the records.     *)
RebuildRepairs ==
  [][\A p \in Proc : pc[p] = "reindex" /\ work[p].ids = {} /\ pc'[p] # pc[p] =>
       \A o \in Obs : o \in observations <=> Indexed(o)]_vars

(* A process that takes the lock gives it back: no path through the code    *)
(* that runs under it waits for it again.                                   *)
LockIsReleased == \A p \in Proc : lock = p ~> lock # p

-----------------------------------------------------------------------------
(* The archive read as the abstract ledger: a transaction file commits an   *)
(* import, the purge journal commits a purge, whatever the records and the  *)
(* index hold at that moment.                                               *)

Held == {o \in observations \cup transactions : ~Journalled(o)}

CallOf(w, label, j) ==
  CASE w.task \in {"import", "retry"} ->
         [kind |-> "add", ids |-> {w.at},
          effective |-> label \in {"commitObservation", "commitIndex", "removeTx"}
                        /\ w.task = "import"]
    [] w.task = "purge" /\ label \in {"selected", "writeJournal"} ->
         [kind |-> "remove", ids |-> w.ids, effective |-> FALSE]
    [] w.task = "purge" /\ label \notin {"selected", "writeJournal"} ->
         [kind |-> "remove", ids |-> j.ids, effective |-> TRUE]
    [] OTHER -> NoObs

Outstanding == [p \in Proc |-> CallOf(work[p], pc[p], journal)]

Ledger == INSTANCE ArchiveLedger
  WITH held <- Held, call <- Outstanding, NoCall <- NoObs

ASSUME CallAssumption == NoObs \notin Ledger!Calls

(* The archive implements the ledger when one process at a time uses it: an *)
(* import or a purge takes effect once or not at all, wherever it dies.     *)
ImplementsLedger == Ledger!Spec

-----------------------------------------------------------------------------
(* The inductive strengthening of ListedHasRecord, AckedSurvives and        *)
(* OnlyUnreferencedRemoved: what a process in the middle of an operation    *)
(* knows of the disk, which its lock keeps true.                            *)

LockHeld == \A p \in Proc : pc[p] \in Locked <=> lock = p

RecordInHand ==
  \A p \in Proc :
    /\ pc[p] \in {"commitIndex", "removeTx"} => work[p].at \in observations
    /\ pc[p] = "removeRecord" => ~Indexed(work[p].at) /\ work[p].at \in work[p].ids
    /\ pc[p] \in {"clearIndex", "reindex"} => work[p].ids \subseteq observations

PurgedNotAcked ==
  /\ \A o \in acked : ~Journalled(o)
  /\ \A p \in Proc : pc[p] \in {"unindex", "removeRecord"} => work[p].ids \cap acked = {}

SurvivorsKept ==
  \A p \in Proc : pc[p] = "removeObject" =>
    work[p].refs \cap ReferencedBy(observations) = {}

IInv ==
  /\ LockHeld /\ RecordInHand /\ PurgedNotAcked /\ SurvivorsKept
  /\ ListedHasRecord /\ AckedSurvives

=============================================================================
