# WorldLedger: TLA+ models, model checking and proofs

WorldLedger records what a Minecraft client was shown of a multiplayer server. A client mod
(`adapters/fabric`, Java) snapshots chunks and spools them as bundles; a command line
(`cmd/worldledger`, Go) and a desktop application (`desktop`, Go) import the bundles into an archive,
which keeps content-addressed objects and one immutable record per observation, exchanges
observations with other archives, withdraws them on request, and exports worlds from a selected epoch.

This directory models the parts of it whose correctness depends on order: two threads on one queue,
three kinds of process on one spool directory, any number of processes on one archive, two archives
that exchange bundles, two programs that write into one Minecraft world, and a set-up and its undoing
beside a player who goes on editing, where each process may die between two file operations. And it
models what depends on the input: which of several observations an archive says a chunk held, what it
reports of two moments or two archives, and what a conversion between releases loses.

## 1. Inventory

| component | state | operations | interacts with | hard behaviour |
|---|---|---|---|---|
| Archive core (`internal/archive`, `internal/cas`) | objects, observation records, chunk index, transaction files, purge journal, `archive.lock` | `Open`, `AddObservation`, `RemoveObservations`, `RebuildIndex`, `Fsck`, `PutVerified` | every command and page, through the file system | several processes; death between any two file operations; redo on the next `Open` |
| Archive reading (`enumerate`, `manifest`, `fingerprint`, `reconstruct`) | none | listings, comparison of two archives | archive files, transfer, export | what two files say of two archives at two times |
| Bundle import (`internal/bundle`, `internal/spool`, `ingestspool.go`, desktop import and tidy) | the list being worked through | `Read`, `Import`, `MarkImported`, `Discard` | spool directory, archive | importers beside a running client and beside each other; removal cut short |
| Capture queue (`BoundedCaptureQueue`) | bounded queue, four shared flags | `offer`, `closeGracefully`, writer loop | coordinator, spool writer | unlocked flags read by two threads; interrupt; deadline |
| Capture coordinator (`CaptureCoordinator`, `DirtyChunkTracker`) | session, tick, dirty windows, claims | client event handlers, `capture`, `flushAll` | client events, queue, writer's failure handler | back-pressure, retries, final flush on the game thread, spool filling up meanwhile |
| Capture spool writer (`BundleSpoolWriter`, `SpoolBudget`) | spool directory, budget counter, link cache | `write`, `recoverTemporaryBundles` | file system, importers, bootstrap thread | crash in the middle of a bundle; recovery beside a writer |
| Block-entity cache (`BlockEntityNetworkCache`) | per-chunk entries, byte totals | baseline, update, invalidate, snapshot | coordinator | byte accounting over long sequences; limits hit half way |
| Capture runtime (`WorldLedgerRuntime`) | coordinator reference, connection epoch, pending join | event registration, bootstrap | client thread, bootstrap thread | a join racing the bootstrap |
| Capture presentation and configuration | configuration | parsing, notices, commands | coordinator | none |
| Java canonical encoders | none | byte layouts | spool writer | none |
| Epoch selection (`internal/epoch`, and the commands and pages that show it) | none | which observation of a chunk an instant selects; diffs, pictures, listings, manifests | archive reading, redaction, export | ties, window edges, agreement older than a contradiction, interval ends |
| Transfer (`internal/transfer`) | files in flight | send, receive | two archives | partial transfers, repeated ones, withdrawn observations coming back |
| Redaction, attestation, policy, landmarks | append-only declarations | declare, filter | archive reading, export, purge | order of declarations |
| Desktop installer (`desktop/internal/installer`, `api/installing.go`) | the game's files, kept copies, `installed.json` | plan, apply, undo | player, launcher, file system | one step of several failing; files changed between a write and its undoing; two set-ups |
| Desktop watchdog and server | last sign of life, open work | beat, hold, expire | pages, process exit | a timeout racing long work |
| Desktop pages | none of their own | HTTP handlers | the packages above | two requests at once |
| World export and translation (`internal/anvil`, `internal/mcjava`, `internal/translate`) | region files of somebody's world | decide, validate, replace region by region | archive reading, redaction, the game, the other exporter | a file that changes between validation and replacement; half a world written; losses not counted |
| Command line and tools | none | argument parsing, printing | all | none |

`PROJECT.json` lists the same components with their files and status, and under `hazards` what in
this code is hard to test, each at its line, with the properties aimed at it.

What makes each component correct, in a sentence:

* archive: an acknowledged import is never lost except to a purge that names it; the index never lists
  what does not exist; a purge ends with the records and every object only they used gone, and stays
  so; no purge removes an object a record still uses; a lock taken is given back;
* capture: every change the session saw is captured, queued for capture or counted as dropped; a
  chunk that keeps changing is still captured within a bounded time; the game thread never waits for
  ever; nothing accepted is silently left in a closed queue;
* spool: whatever was once published is in the archive or still in the spool, whole; recovery never
  touches a bundle that is being written; the spool's size is bounded between measurements;
* block-entity cache: what it hands out is what the server last sent, or nothing; its byte totals are
  the sum of its entries;
* runtime: a connection is joined once, and never after it ended;
* epoch selection: for every archive and moment the state selected is the one last seen, its status is
  what everybody's last look says, later observations change nothing, every reader tells the same
  story, and what a redaction covers is in none of them;
* transfer: what was withheld stays home; what was owed arrives, however old the files a send works
  from; a receive refuses only for cause; a comparison afterwards says so;
* world export: nobody else's chunk is lost; a world is left half written only by somebody else's doing, or by
  a chunk that nothing before the writing looks inside of; what is said to be lossless is;
* installer: whatever fails, what the player had is in the game or in a kept copy; the record is
  exactly what is still to be undone; undoing restores.

## 2. Modules

| module | models |
|---|---|
| `ArchiveLedger` | what the archive promises: calls that add or remove observations, take effect at one instant, and may be abandoned before or after it |
| `Archive` | objects, records, index, transactions, journal, lock, and the processes that import, purge, rebuild and open; the refinement mapping to `ArchiveLedger` |
| `CaptureQueue` | the queue, the writer's loop and the close |
| `CaptureCoordinator` | the client thread over `CaptureQueue` (it EXTENDS it, and its steps are steps of the queue) |
| `Spool` | the spool directory: writer, recovery, importers, markers, clearing; it INSTANCEs `ArchiveLedger` as the archive it imports into |
| `Transfer` | the archives of two or more sites and the commands between them: hand-off files and what comparing them says, send, bundle directory, receive |
| `Epoch` | pure operators: the selection of a state for each chunk at a moment, the comparison of two moments, the manifest of one |
| `Readers` | pure operators: what the commands and pages report from a selection: pictures, coverage, diffs, moments, travel |
| `Reading` | an archive that is added to, withdrawn from and purged, and what every reader is told of it (it EXTENDS `Readers`, which EXTENDS `Epoch`) |
| `Translation` | pure operators: what a conversion to another release does to a chunk and counts as lost |
| `WorldExport` | two programs, the game and a purge over one world's region files and one archive (it EXTENDS `Translation`) |
| `Installer` | set-up, failed set-up and removal of the mod, beside a player and a launcher that write the same files |
| `MCArchive`, `MCCapture`, `MCSpool`, `MCTransfer`, `MCReading`, `MCWorldExport`, `MCInstaller` | instances for TLC |
| `ArchiveProofs`, `ArchivePurgeProofs`, `SpoolProofs`, `TransferProofs`, `CaptureProofs`, `ReadingProofs`, `WorldExportProofs`, `InstallerProofs` | TLAPS proofs about the module each is named for; `CaptureProofs` is about `CaptureCoordinator` with the queue it extends, `ArchivePurgeProofs` continues `ArchiveProofs` |

### 2.1 Archive

Constants give the processes and which of them may import, purge and rebuild, the observations, the
chunk each belongs to (`ChunkOf`) and the objects it refers to (`Refs`). The variables are the
directories of an archive (`objects/`, `observations/`, `index/chunks/`, the transaction files,
`purge/pending.json`), the holder of `archive.lock`, and for each process where it is (`pc`) and what
it has in hand (`work`). Each file the code creates, replaces by rename or removes is one step:

* `Open` takes the lock, replays every transaction, then the purge journal, and releases:
  `OpenLock`, `ReplayTransaction` (continues as an import at `CommitObservation`), `ReplayJournal`,
  `OpenReturn`.
* An import stores its components without the lock (`StartImport`, `StoreComponent`), then
  `AddObservation` runs under it: `AddLock`, `WriteTransaction`, `CommitObservation`, `CommitIndex`,
  `RemoveTransaction`. An observation whose transaction is already there is first replayed.
* `redact purge` reads the ids without the lock (`SelectForPurge`), then `RemoveObservations`:
  `PurgeLock`, `WriteJournal`, for each id `Unindex` and `RemoveRecord`, `FindSurvivors`, `RemoveObject`,
  `RemoveJournal`. `fsck --rebuild-index`: `RebuildLock`, `ClearChunk`, `Cleared`, `Reindex`,
  `RebuildReturn`.
* `Crash` ends a process anywhere; the operating system drops its lock. `FailImport` is the error
  path of an import.

Four history variables (`acked`, `gone`, `withdrawn`, `halfRebuilt`) are written but never read by the
machine.

### 2.2 Capture

`CaptureQueue` splits `closeGracefully` and `runWorker` at every access to a flag the other thread
writes: the poll, the `active` flag set after it, the `running` flag and the interrupt. Waiting is a
step that may be taken at any time, so deadlines need no clock. A job is the chunk it shows.

`CaptureCoordinator` has one action per client event (`Join`, `Disconnect`, `LevelChange`, `Reload`,
`Stopping`, `ChunkLoad`, `ChunkChange`, `ChunkUnload`, `EndTick`). An event that captures leaves
claims behind, which the client thread deals with one at a time, in the order of the code, while the
writer runs: a claim ends in `Unreadable`, `SpoolIsFull`, `SnapshotFails`, or `Snapshot` followed by
`Enqueue` or `Refuse`, and `Return` is what the handler does after its last claim. `KeepOrDrop` is the
choice between putting a claim back (play) and counting it as dropped (a final flush). `ChunkVanish`
stands for the game, outside this repository, discarding a chunk without an unload event.

### 2.3 Spool

A bundle is a directory (`place`: temporary, ready, quarantined, imported, gone) and the files in
it. The client takes the spool lock to write (`WriteBegin`, `WriteComponent`, `WriteManifest`,
`Publish`, `WriteEnd`; the last one, at any point, is also the I/O error) and its bootstrap thread takes
it to recover (`RecoverBegin`, `Recover`, `RecoverAbort`, `RecoverReturn`). The importers take no lock:
they list, prepare, store the components, have the archive commit (`Commit` is a step of the ledger),
and then remove the directory file by file, rename it, or leave it. The desktop application clears what
is marked imported (`DiscardFile`, `DiscardDirectory`). Client and importers die anywhere.

A component that repeats one already spooled is a hard link. Links are peers: removing one name
leaves the others, so a linked component is modelled as a file of its own and the link cache is left out.

Import appears twice on purpose. `Archive` has what it does inside the archive, `Spool` what it
does in the spool, with the archive reduced to `ArchiveLedger`. The ledger's promise on which `Spool`
relies, that what was acknowledged is held until a purge names it, is proved of `Archive` for any
number of processes (`AckedSurvives`); that `Archive` implements all of the ledger is checked and proved for one
process at a time (`ImplementsLedger`). `Spool` has no purges.

### 2.4 Transfer

Each site has an archive, reduced to what `Archive` shows of it: the records it lists (`held`), the
objects in its store (`stored`), and each addition or purge as one step. Beside the exchange a site
imports captures, declares and withdraws redactions, purges and signs (`Import`, `Declare`, `Withdraw`,
`Purge`, `Sign`); a redaction is the observations it matches.

A site hands its peer a fingerprint (the objects its records reference) and a manifest (its worlds and,
per chunk, its records; a digest over identities is the set of them). `Send` is split where the code
releases a lock: `SendBegin` reads the peer's files and the fingerprint, `SendList` reads the servers,
`SendDimensions` the worlds of one, `SendWalk` the records of one, `SendWithhold` the redactions, `SendSelect` compares with the peer's
manifest. `SendNothing` is the return that writes nothing. Then `WriteRecord`, `CopyObject` and, with
the list, `SendReturn` write into the bundle directory, which keeps what an earlier send put there.
`SendFails` is an empty archive or an object purged in between, `SendDies` a death or an I/O error, which
may tear the file being written. `Receive` works on a copy of the directory: `TakeObject` for all objects,
then for each record `ResolveRecord`, which looks for its components without the lock, and `TakeRecord`,
which adds it under the lock; signatures at `ReceiveReturn`; `Refuse` and `ReceiveDies` stop half way and
undo nothing. A purge at the receiver between the two steps leaves a record without its objects, which is the
race `docs/status.md:268` describes: the model has it, no property denies it, and `TypeOK` says only that
what a record lacks a purge at that site took away.

`Compare` is `archive.Compare`: worlds and chunks one manifest has alone and chunks on which they differ. A
send leaves a chunk out by it, and `manifest --compare` reports it (`SendNeeded`, `ReceiveNeeded`,
`Settled`). `CompareFingerprints` and `FingerprintReport` are what `fingerprint --compare` says. The two
commands change nothing; `Delivers` states what they must say once a bundle has arrived.

`had`, `owe`, `gone`, `banned` and `purged` are history variables: what the sender held when the send
began, what of it was neither withdrawn nor purged before it ended, what was, what was withdrawn all
through, and what a site has purged.

### 2.5 Reading

`Epoch.SelectChunk` is `SelectChunkWithin`: everybody's latest look by the moment (`LatestPerContributor`),
those within the window of the newest (`Contemporary`), grouped by state, and the older ones that agree
or disagree. `BuildSnapshot` applies it to a dimension; `CompareChunk` and `BuildDiff` compare two
moments; `BuildManifest`, `Root` and `CompareManifests` let two archives compare one moment by digest;
`World` is what an export would write. A contributor is a label and `Key` its folded form; `Id` is the
order of observation ids, which breaks ties of time.

`Readers` has what is shown: the picture and its bounds (`RenderPNG`, `BoundsOf`), the counts and lists of
`coverage`, `epoch` and `diff` (`Coverage`, `EpochComparison`, `ResolveInterval`, `DiffReport`), and the
desktop's moments and travel pages (`Moments`, `Travel`). `Refused` is an error in place of a report;
`CompareManifests` gives it for manifests of two moments.

`Reading` keeps the state: the records and the declared redactions. `Import`, `Declare`, `Withdraw` and
`Purge` change it; a redaction names a person or everyone and an area, and the same scope declared again
replaces the first (`DeriveId`, `Stored`). Every reader works on `Gather`, what no redaction covers. Since a
reader changes nothing and each property is stated for every moment and interval, no reader needs an
action: what holds in each state holds of each reader whenever it runs.

### 2.6 World export

`Translation` resolves each name of a chunk against the target release: kept, renamed, substituted,
filled or refused, under one of the three policies; sections outside the build range are dropped,
and `Losses` counts. `WorldExport` runs it. A program begins with what is stored and not withheld by then
(`CmdExport`, `CmdConvert`, `HandleExport`), and is refused where there is nothing or nobody has declared a
policy. A conversion that may refuse loads and decodes all regions first (`Decide`, `Decided`), but builds none.
Then every target is looked at (`Check`), every existing file is proved adoptable (`Validate1`, `Validated`),
and each region is loaded, translated, built around what the file holds by now (`Prepare`) and renamed into
place (`Rename`). A region gives up, with those before it written, when an object of it is gone
(`Loadable`), when a component does not decode (`Decodable`), when a chunk cannot be built (`CanBuild`), or when
the file is not the one that was validated; `WriteFails` is the full disk, `Die` the end of the program, which leaves its temporary file.
Meanwhile the game writes slots in place (`Play`), a policy is declared, redactions are declared and purged.

Import checks the digests of components and not what is in them, so an archive may hold components that do
not decode (`malformed`, any set of `Flawed`), chunks without an observed shape, which only a conversion
supplies (`Shaped`), and chunks that no region file takes: a block entity that is not a compound, or more
than 255 sectors (`Unwritable`). A region file is absent, of no length, or a function on its slots; a
slot holds nothing, a chunk that was built, somebody else's frame, or one whose header makes no sense. `touched` is history: files somebody else wrote since a
program read them.

### 2.7 Installer

A file of the game is a version its owner wrote and whether it carries what we write. A set-up looks at
what is there (`BuildPlan` over `checkLoader`, `checkMod`, `checkContributor`), writes one step at a time
with a copy kept of what it replaces (`Apply`, `ApplyFails`) and saves the record merged with the one held
(`SaveApplied`, `mergeManifests`); one that failed saves and undoes at once (`SaveFailed`). Remove replays
the record backwards (`handleUninstall`, `Uninstall`, `Undone`) and saves what it could not undo
(`SaveUndone`, `Left`). The player writes, deletes and fetches files and the launcher rewrites its list
between any two steps. `Exit` ends the program: a set-up does not hold the watchdog, which may end it too.
`theirs`, `installed`, `overwritten` and `interrupted` are history. `Among`, a recursive function, stands
where `SelectSeq` could, which the provers cannot expand.

## 3. Runs

| run | instance | what it shows |
|---|---|---|
| `archive_shared` | 2 processes, both import, one purges, the other rebuilds; 2 observations of one chunk that share an object; 2 objects | with crashes everywhere: `ListedHasRecord`, `UnlistedIsPending`, `AckedSurvives`, `WithdrawnIsErased`, `OnlyUnreferencedRemoved`, `RebuildRepairs`, and under fairness `LockIsReleased` |
| `archive_serial` | 1 process, 3 observations in 2 chunks | what holds only if one process at a time uses the archive: `NoDanglingReference`, `PurgedStaysGone`, `OpenHandsOutClean`, and `ImplementsLedger`, refinement of `ArchiveLedger` |
| `capture_session` | 2 chunks, a queue of 1, 1 snapshot a tick, sessions of 4 ticks | `NothingForgotten`, `BoundedLatency`, `LostToFullSpool`, `RecordsWithConsent`, `DrainedMeansHandled` |
| `capture_shutdown` | the same with sessions of 2 ticks, fair client thread | `ControlReturns`, `WriterEmptiesQueue` |
| `spool_shared` | 3 bundles of 2 files, a command line that removes, a desktop application that marks and clears, a ceiling of 1 file, a measurement every 2 bundles | `OnlyCopyKept`, `LiveTempKept`, `Bounded`, `RecoveryClears` |
| `transfer_exchange` | 2 sites, one sends once to the other; 3 observations of 2 chunks, one of them captured at both, 2 shared objects; both declare, withdraw and purge, both die | `WithheldStaysHome`, `Delivers`, `RefusedForCause`, `SignedHasRecord` |
| `reading` | 4 labels of 3 people, 2 chunks that lie apart, 2 states, times 0 to 3, a window of 1; every archive of up to 3 observations; 3 redactions, two of which are one under two spellings | `SelectsTheLatest`, `DiffHalvesAgree`, `ComparisonAgrees`, `ReadersAgree`, `WithheldIsNowhere`, `HistoryIsStable` |
| `reading_outvoted` | the same | violated: `CorroborationIsUncontradicted` |
| `world_export` | a command line asked for any of 8 exports and conversions and the window; 2 regions, 3 observed chunks and a stranger's; one chunk that may not decode, one that cannot be built; 5 worlds to begin with; 1 write of the game | `GivesUpForCause`, `ReportWritesAllOrNothing`, `LosslessMeansSame`, `OthersChunksKept` |
| `convert_merges` | one conversion whose renames are the shipped chain reversed | violated: `LosslessTellsApart` |
| `installer` | the five files of a game, one jar supplied under another name; any two edits and any two failures or ends of the program | `KeptSomewhere`, `RecordIsExact`, `UndoRestores` |
| `installer_edited` | the same with one failure | violated: `UndoRestoresEdits` |

Bounds and why they are enough.

* Archive. Two processes produce every pair of interleaved operations, and a process that died and
  starts again stands for further ones. Two observations that share one object and differ in another
  are the smallest case in which a purge must keep one object and remove another; two of one
  chunk make the index entry shared. The serial run adds a second chunk.
* Capture. One slot in the queue makes it full after one snapshot, and one snapshot a tick makes
  two chunks compete. Four ticks with a quiet time of one and a latency bound of two let both ways of
  becoming due happen, and let a claim be put back and become due again. `MaxTick` is a guard of
  `EndTick` only: every session may still end in every way. `BoundedLatency` states its bound with the
  number of claims that were put back, a tick for each, whatever number of snapshots a tick may take: a
  chunk that waits for the only slot left may lose a whole tick to one claim that was put back. (With one
  snapshot a tick, as in the run, a tick and a slot are the same; the proof needed the general form.)
* Spool. Three bundles let two be written between measurements and one after; a manifest and one
  component are the smallest bundle that can be partial in both ways. The bundles are symmetric and
  the run uses that (safety only).
* Transfer. One direction is enough: what a receive does at the sender meanwhile is an import there, and
  imports are free to happen at any step. o1 and o2 share one object and o2 and o3 the other, so a
  redaction or a purge must keep one object and not the other; two of the three are in one chunk, so the
  manifest's filter takes one chunk and leaves another. `MaxSends` bounds sends; the two files are
  written as often as a send may still read them, and one bundle is received any number of times.
  What a site purged it does not import again from its own spool. One world: the comparison of
  worlds matters when one side knows none.
* Reading. Three observations are what it takes for a look to be displaced, contradicted and agreed
  with; three people, so that two may outvote one; four times with a window of one put a look inside, at
  the edge of and outside the window; an hour is two of them, so a moment covers more than one time. Two
  chunks with a gap make the picture larger than what was seen, and its bound of five pixels is passed
  at scale two. `Captures` holds every observation of one chunk and four of the other.
* World export. One region holds a single chunk, the other two of the export's and one of somebody
  else's; the worlds to begin with have each file absent, sound, damaged in a slot of the export's or of
  nobody's, too short, or of no length. The eight requests cover each policy, each kind of rule, rules that are refused,
  and block entities kept and dropped; the chunk that may
  not decode is in the region that has two, so a program may meet it after it has written the other. One write of the game is enough to come between any two reads.
* Installer. Two edits let a file be changed before and after a second set-up, two faults let a set-up
  fail and its undoing fail in turn. The number of set-ups and removals is not bounded.

Deadlock is checked except where the system stops for good: the client process after its close, two
exporting programs that have both ended, and a game that is set up, or cleared again, and that nobody
touches any more.

Fairness. `archive_shared` assumes that a process holding the lock takes its next step, or dies: it
never waits for anything while it holds it. `capture_shutdown` assumes only that the game thread
continues the handler it is in; nothing is assumed of the writer, which may be stuck in the file
system, and nothing of client events. `WriterEmptiesQueue` states the writer's fairness as its own
antecedent.

Every property is paired in `PROJECT.json` with a faulty variant of a definition (kept beside the
definition, under "Faulty variants") under which the same run finds it violated.

The reading, export and installer runs are about safety only and assume no fairness.

## 4. What the runs found

* `reading_outvoted`: `SelectChunkWithin` counts every older observation that agrees with the state in
  the window, also one that somebody has contradicted since. Its comment and ADR 0003 say such
  agreement does not count.
* `convert_merges`: a rename onto a block the target release has, and the observed world too, makes two
  blocks one in a conversion said to have lost nothing; the rules are compared only with each other.
  `docs/status.md:266` gives the very chain the run uses as what is refused. Renames of biomes are not
  compared at all.
* `installer_edited`: a second set-up that writes over a file the player changed since the first takes
  the digest of its own write and the copy of the first one's into the record, so Remove deletes what
  the player wrote, or puts back something older. Every other file is restored (`UndoRestores`), and the
  player's version is still among the kept copies (`KeptSomewhere`).

Other places where the code does not do what a document or comment says, met while modelling and not
shown by a run of their own:

* `purge.go:108`: a second purge overwrites `purge/pending.json` of one that was interrupted after this
  process opened the archive; the interrupted purge is then never finished (`archive.go:154-156`).
* `purge.go:47`: a purge does not look at transaction files, so an observation whose import died just
  before removing its transaction comes back with the next `Open` (`redact.go:146`).
* `bundle.go:651`: a removal cut short leaves a partial ready directory, which every later import reports
  as failed and keeps, although the archive has it (`ingestspool.go:69-70`).
* `BoundedCaptureQueue.java:120`: a close that looks between the writer's poll and its `active` flag
  interrupts the job in hand and still returns true (`BoundedCaptureQueueTest.java:38-41`).
* `transfer.go:153`: `Send` never empties its directory; a record withdrawn between two sends to the same
  `--out` is no longer listed and still there (`spec/transfer-bundle-v1.md:34`).
* `transfer.go:92`: a record imported between a send's fingerprint and its walk travels without its
  objects and is refused; `RefusedForCause` shows that only this and the receiver's own purges lead to a
  refusal. Sending again repairs it.
* `exchange.go:73-74`: "a direction that turns out to be unnecessary writes nothing". Of a chunk the
  manifests differ on, `Send` takes every record it has, whether or not the peer has them all; without
  a manifest it takes every record there is. `SendNothing` is rarer than the advice says, and sending
  again is harmless. "One transfer settles it" is also said of an emptied world's directory, which
  no transfer brings.
* `transfer.go:35` of the command: the policy gate looks at the servers known before the send; the first
  record of another server may arrive before the walk.
* `travel.go:33` calls `Chunks` the chunks observed within the hour; line 78 counts observations.
* `diff.go:242-262`: with no chunk covered and the two ends of the advised interval equal, the interval is
  one `resolveInterval` refuses; its times are printed in whole seconds, which may cut the last
  observation off.
* `export.go:206`: the last of the four messages about an empty selection is reached by `coverage` and
  `epoch` only when everything is withheld, because chunks seen later are counted too; and
  `epoch.go:117` of the command says two archives would export different worlds also when one merely
  knows a chunk only later.
* `export.go:261-284`: the command line always passes a transform, so the marking of slots that
  `stream.go:227-232` describes never applies there: `export --overwrite` refuses a file whose only
  damaged chunk is one it would replace.
* `attest.go:218-253`: registering a known key under another label replaces the label silently.
* `apply.go:20`: a set-up takes no hold of the watchdog; `installing.go:184`: Remove takes no lock.

Already documented by the repository, and therefore no finding: the race between storing an object
that is already there and a purge that removes it (`docs/status.md:268`), which is why
`NoDanglingReference` is checked for one process only; and that failed writes are not counted
(`docs/audit-2026-09-01.md:309-325`).

## 5. Proofs

Every invariant and action property of the passing runs is proved by TLAPS for every value of the
constants, and so is the refinement of the ledger; what rests on fairness stays with TLC (5.8). The theorem about a
property is the property's name followed by `Correct`. The constants satisfy the named assumptions of
their modules and nothing else: special values are not members of the sets they extend, mappings are
functions on their sets, limits are numbers, and, where a proof counts or sums, chunks, bundles, components,
the sections of a chunk and its entities are finitely many. TLC evaluates all of them on the instances of the runs.

The proofs share a shape. Steps that leave an invariant's variables alone are dealt with once, by a lemma
that says so (`...Quiet`, `...Keeps`, `FineStays`); steps that matter have a lemma that says what they
change, point by point (`...Becomes`); and each theorem then has a step for each action that could
disturb it. Layers of invariants use those before them.

### 5.1 Archive

`ArchiveProofs` is about any number of processes, however many import, purge or rebuild.

1. `TypeInv` is `TypeOK` with the fact that a process at a step about an observation has one in hand;
   without the second half the records in `work` cannot be typed after the step.
2. `LockHeld`: the steps that touch records, index and journal run under the lock, so at each
   moment at most one process is at one of them. Every later layer uses it to say that what this
   process has established no other process disturbs.
3. `RecordInHand` strengthens `ListedHasRecord`: at `CommitIndex` the record to be listed exists.
   Alone, `ListedHasRecord` is not inductive, since `CommitIndex` does not look.
4. `PurgedNotAcked` strengthens `AckedSurvives`: what a process is about to remove is not acknowledged,
   which holds because the journal's ids leave `acked` when it is written.
5. `SurvivorsKept`: `FindSurvivors` drops every object a record refers to, and records can be added
   only under the lock that the purge holds; `OnlyUnreferencedRemoved` follows from it for the step
   that removes an object.
6. `TaskFits`: a process is at a step its command reaches; `RebuildInv`: a rebuild has listed every record
   but those still in its hand. `RebuildRepairs` follows for the step that returns.

`ArchivePurgeProofs` is about what a purge leaves behind. `JournalInHand` says that whoever removes has in
hand everything the journal names and has not removed. On it rest, each with a hypothesis about the
processes:

* at most one process that purges (`OnePurger`): `UnlistedIsPending`, `WithdrawnIsErased`. With two, the second
  purge overwrites the journal of an interrupted first (`purge.go:108`), and both fail. `archive_shared`
  has one purger too.
* one process (`OneProcess`), as in `archive_serial`: `NoDanglingReference` (with several, the documented race
  between storing an object that is already there and a purge), `PurgedStaysGone` (an import begun before
  the purge may finish after it) and `ImplementsLedger`. `OpenHandsOutClean` also needs that nobody rebuilds, since a
  rebuild that died is the one thing `Open` does not repair.

`ImplementsLedger` maps an archive to the ledger of the calls outstanding: an addition takes effect when
its transaction file is written, a removal when its journal is, and a crash abandons a call before or after
that. `LedgerInv` collects what the mapping needs: that nobody but the process itself can have changed
what its call is about.

### 5.2 Spool

Any finite sets of bundles and components, any importing processes, any ceiling and interval. `LockInv`
says who has the spool lock; `TempInv`, that the directory being written is temporary and that a recovery's list is all
the temporary directories there are (`LiveTempKept`, `RecoveryClears`); `CallInv`, that an import cleans up only what
the archive holds; `CopyInv`, that a bundle that was ready is held or complete (`OnlyCopyKept`).
`Bounded` needs the arithmetic of the claim: `SizeInv` bounds what was measured with the files written since
and those still to be written before the next measurement.

### 5.3 Transfer

Any sites, records and objects. What makes stale files harmless is that two sets never shrink: the records
a site has or has purged (`Got`), and the objects it has or had for them (`Kept`). `HandedInv` says that
what a peer was told is in them. `ConsentInv` follows what was withdrawn through a send
(`WithheldStaysHome`), `OweInv` follows what is owed to the peer: still to be walked, seen, selected, listed, or had by
the peer (`Delivers`), and `BundleInv` what a directory and a receive in progress hold (`RefusedForCause`,
`SignedHasRecord`). `ArchiveInv` is what is left of a whole archive when a purge may come between resolving a
record and adding it: what a record held lacks was purged there, and what a receive has resolved is in `Kept`.
`Grows` is proved before it, since it is needed for the record that is resolved and not yet added.

### 5.4 Capture

Any finite number of chunks, any queue, rate and limits. `HandlerInv` says whose the claims are, `SeenInv`
that an unseen change is of a chunk the session follows and is dirty or in hand (`NothingForgotten`), `DrainInv`
what the two threads know of each other's flags (`DrainedMeansHandled`), `FullInv` bounds what is lost
already with the job at the writer, the queue and the offer being made (`LostToFullSpool`).

`BoundedLatency` is a counting argument. For a window that is due, `LatencyInv` adds the slots used since it was
due (`Waited`) and the windows that go before it (`Behind`): a tick that does not claim it fills all its
slots with windows before it, each of which then has a later beginning, unless its claim is put back. The sum stays within `Budget`,
which grows by the slots of one tick for each claim put back. The first form of the property
allowed one slot for it; the proof failed on more than one snapshot a tick, where the property was false,
and it now allows a tick.

### 5.5 Reading

Any labels, chunks, states and moments, any window, any order of ids. Everything is worked out from the
archive at one moment, so the invariant is only that the records are finitely many (`DataInv`); the work is
in the operators of `Epoch`. That `MostRecent` and the choices among states exist comes from a smallest
set without one. From it: who the latest of each person are, what `SelectChunk` chooses and counts
(`SelectsTheLatest`), that a diff is determined by the digests at its two ends (`DiffHalvesAgree`,
`ComparisonAgrees`), that readers see `Gather` alone (`WithheldIsNowhere`) and that records after a moment
do not enter its selection (`HistoryIsStable`).

`ReadersAgree` has one lemma for each of its readers: `CoverageAgrees` (no two chunks lie in one place, so
what the picture shows under a status is what is counted under it), `MomentsAgree` (what lies in an earlier
hour was earlier) and `ReportAgrees` (the interval, the kinds and the listing). They need that finitely many
integers have a largest and a smallest, and that finitely many things can be listed by a number each has:
of the sets that cannot, a smallest would be a listed set and a last element. The listing is therefore any
list sorted so (`Listing`): the stable sort of `printDiff` is one of them, and what it does with equal times is
not said.

### 5.6 World export

Any number of programs, chunks and regions, any worlds and conversions. The invariant has a part for each program,
and a step of another program, of the game or of the archive is "quiet" for it: it changes only files
which `touched` then names, and never its temporary file. `AdoptInv`: what was validated can be adopted unless
somebody wrote it; `KeepInv`: what is about to be renamed holds the program's chunks and otherwise the file
before; `DecodeInv`: a program that decides first has seen every chunk of the regions behind it decode;
`StopInv`: a program that stopped in the middle has one of the causes the property admits (`Cause`).
`GivesUpForCause` and `OthersChunksKept` follow.

What a conversion says of its losses is a fold over chunks, which the library defines by a recursive function on the
subsets of the set: `SumExists` and `SumUnique` say that a finite set has exactly one such function, and `SumSays` that a sum is
lossless exactly if every share of it is and refuses if one does; the chunk lemmas (`ChunkSays`), what a
share says of the layers, sections and entities of its chunk. `CostInv` is the invariant, in four parts:
a program's counts vouch for the chunks of the regions it has passed (`Tally`); under the report policy it
has decided about all of its plan before the first write (`Verdicts`); what it says in the end is about all
of its plan (`Says`); and every region before the one it is at that holds a chunk it kept is written (`Wrote`).
`ReportWritesAllOrNothing` and `LosslessMeansSame` follow. Neither is inductive: a count says nothing until
one knows of which chunks.

### 5.7 Installer

Any number of edits and faults. Each action is brought to one of seven kinds of step on sets of records, those made before the
request (`Base`) and those it made, or is to undo, and has not undone (`Live`). This takes the facts that
`mergeManifests`, `Remaining` and `BuildPlan` keep one record a file, which rest on `Among`, proved by the least length at
which it would fail.

* `CopyInv`: the player's last version of a file is in it or among its copies, and what a record says was
  written is never newer than the last edit, so an undo cannot take an edit for its own (`KeptSomewhere`).
* `ExactInv`: during a request too, the files we wrote are those of `Base` and `Live` (`RecordIsExact`).
* `RestoreInv`: a file with one record is as that record says or the player's (`Single`); with two, the
  later set-up found our own file or none (`Pair`); with none, as the player left it. `UndoRestores` alone
  says nothing during a request, and `Pair` is what survives the undoing of a failed second set-up.
  `ExactInv` is needed for the player who fetches the very file we had written.

### 5.8 Only model-checked

* Liveness, and what rests on fairness or ENABLED: `LockIsReleased`, `ControlReturns`, `WriterEmptiesQueue`.
* The three properties that the code violates.

## 6. What is not modelled, and abstractions

* A crash is the death of a process: what it wrote to the file system stays. Power loss, torn or
  damaged files and the `fsync` calls that guard against them are left out, and with them
  the validation of damaged files. So are Errors of the Java virtual machine that kill a thread.
* A transfer's archives purge and import captures in one step each, and a purge takes what is withdrawn at
  that step; the steps inside, and what comes between storing an object and adding a record there, are `Archive`'s. A bundle directory is received from a copy made after a send
  returned, so its files do not change while they are read. A bundle is one a send wrote: what a
  receive refuses in a damaged or invented one is validation, and is left out, as are the size limits,
  the check that `--out` is outside the archive, and the policy gate of the command. Of a bundle with
  nothing in it the command says that none was written (`cmd/worldledger/transfer.go:56-63`), also where
  `bundle.json` was; the model has the bundle.
* One client writes to a spool (the lock file admits several, one at a time).
* Content is opaque: an observation is its id, a bundle is its files, a chunk's state is whether it has
  a change nobody captured. Ready names are never reused, because a session id and its sequence
  number are part of them.
* Time is abstract in the queue (a wait may end at any moment) and counted in ticks in the
  coordinator. How long a final flush may wait only decides how long it stays at an offer.
* Changes that the game predicts locally before the server confirms them do not reach the mod and are
  not modelled.
* Reading covers one dimension of one server, so that `CompareManifests` refuses only a differing moment. The scale of a picture is a factor with a bound on the
  pixels; a listing has no limit on its length; wording, JSON and file names are left out. A landmark is
  its area; storing one is not modelled. Times are numbers, so truncation to seconds is left out.
* Translation takes a block as its name, without state properties. The section that does not fit is
  counted whole. Where one component is gone and another does not decode the code names whichever chunk
  comes first, and the model the one that is gone. A section outside the shape its own chunk was seen with counts among the
  chunks that no region file takes. An empty selection is answered before the policy is asked for, which the
  window does the other way round; either way nothing is written. A region file is its slots: sectors, compression, timestamps and the level files are left out,
  and so is where a world's directories lie.
* Installer: one request at a time, which the server's lock gives for set-ups; Remove takes no lock, and
  two requests at once are not modelled. One step reads and replaces its file in one action, so an edit between
  `apply.go:132` and the rename of `apply.go:196` is outside. `RecordIsExact` and `UndoRestores` say nothing more once the
  program has ended in the middle of a request or a record could not be saved (`interrupted`):
  what was written by then is on no record, although `apply.go:20` and `apply.go:93` promise otherwise. `UndoRestores` also leaves out a
  file whose edit a later set-up wrote over, even where that set-up failed and was undone. Which game
  directory is found, downloads' checksums and directories are left out.
* Publication policies are the single fact that somebody has declared one (`WorldExport`); the bands of
  exposure, and signatures beyond their storage, are not modelled.
* The watchdog appears as what it can do to others: end the program (`Installer.Exit`).
* Not reached at all: the block-entity cache, the runtime that joins the coordinator to the game, the
  canonical encoders and NBT decoders, the seed search, profiles and path lookup. The encoders and decoders
  are sequential and stateless and have fixture tests that compare the two languages byte by byte; the
  others do not touch what the models keep.
* Components with the status `not_modelled` in `PROJECT.json`: see the plan, or the reason given there.

## 7. Plan

1. Proofs: none of an invariant or action property is outstanding. `WithdrawnIsErased` with a second purger needs the
   code to keep one journal for each purge.
2. `Runtime` (join, disconnect and bootstrap), `BlockEntityCache` (byte accounting, truthfulness of
   what is handed out) and `Watchdog` (a timeout racing long work), each with a small instance.
3. The policy gate of a send, with dispositions and embargoes.
