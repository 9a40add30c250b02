----------------------------- MODULE Installer -----------------------------
(***************************************************************************)
(* Setting up a player's game from the desktop window, and undoing it      *)
(* (desktop/internal/installer, desktop/internal/api/installing.go).       *)
(*                                                                         *)
(* A set-up looks at what the game has, writes what is missing one file at *)
(* a time with a copy kept of whatever each file replaces, and saves a     *)
(* record of it; a set-up that fails is undone at once.  Remove replays    *)
(* the record backwards.  Meanwhile the player edits, deletes and fetches  *)
(* files, the launcher rewrites its own, a step fails, and the program     *)
(* ends at any moment: a set-up does not hold the watchdog.                *)
(*                                                                         *)
(* A file is a version the player wrote and whether it carries what we     *)
(* write: the whole of a profile or a jar, the contributor line of         *)
(* capture.properties, our entry of launcher_profiles.json.  What we write *)
(* and a digest of it are one value.  One step reads and replaces its file *)
(* in one action; directories, and which game directory is used, are left  *)
(* out.                                                                    *)
(***************************************************************************)
EXTENDS Naturals, Sequences, SequencesExt

CONSTANTS
  NoFile,     \* what is read where no file is
  Supplied,   \* the parts a file of another name supplies already
  MaxEdits,   \* bound: writes and deletions by the player and the launcher
  MaxFaults   \* bound: downloads, writes and saves that fail, and ends of
              \* the program during a request

ASSUME InstallerAssumption ==
  /\ Supplied \subseteq {"loader", "fabric-api", "worldledger"}
  /\ MaxEdits \in Nat
  /\ MaxFaults \in Nat
  /\ NoFile \notin [ours : BOOLEAN, version : 0..MaxEdits]

VARIABLES
  file,         \* the five files of the game a set-up may touch
  backups,      \* the copies kept of what a write replaced, by file
  record,       \* installed.json: a sequence of Records
  job,          \* the request being served
  edits, faults,\* how many have happened
  theirs,       \* history: each file as the player or the launcher left it
  installed,    \* history: files we wrote and neither undid nor gave up
  overwritten,  \* history: files a later set-up wrote over the player's edit of
  interrupted   \* history: the program ended, or could not save, during a job

vars == <<file, backups, record, job, edits, faults, theirs, installed,
          overwritten, interrupted>>

Steps == <<"loader", "launcher", "fabric-api", "worldledger", "contributor">>
Path  == ToSet(Steps)
Mods  == {"fabric-api", "worldledger"}
Downloaded == Mods \cup {"loader"}

Content == [ours : BOOLEAN, version : 0..MaxEdits]
Ours    == [ours |-> TRUE, version |-> 0]
Record  == [path : Path, backup : Content \cup {NoFile}, digest : Content]

Idle == [at |-> "idle"]

TypeOK ==
  /\ file \in [Path -> Content \cup {NoFile}]
  /\ backups \in [Path -> SUBSET Content]
  /\ record \in Seq(Record)
  /\ theirs \in [Path -> Content \cup {NoFile}]
  /\ installed \subseteq Path /\ overwritten \subseteq Path
  /\ edits \in 0..MaxEdits /\ faults \in 0..MaxFaults
  /\ interrupted \in BOOLEAN

Paths(records) == {records[i].path : i \in DOMAIN records}

\* Those of a sequence that are in a set, in their order.  SelectSeq would do,
\* but for the proofs, to which it is opaque.
Among(s, keep) ==
  LET picked[i \in 0..Len(s)] ==
        IF i = 0 THEN << >>
        ELSE IF s[i] \in keep THEN Append(picked[i - 1], s[i]) ELSE picked[i - 1]
  IN  picked[Len(s)]

\* The records of some files.
Of(records, paths) == Among(records, {r \in ToSet(records) : r.path \in paths})

-----------------------------------------------------------------------------
(* What the game has, and what a set-up would do about it.                 *)

\* A profile is known by what it says, a jar by the start of its name, a
\* contributor by a line that is not blank.
checkLoader == "loader" \in Supplied \/ file["loader"] = Ours
checkMod(jar) == jar \in Supplied \/ file[jar] # NoFile
checkContributor == file["contributor"] # NoFile /\ file["contributor"].ours

InPlace(part) == \/ part = "loader" /\ checkLoader
                 \/ part \in Mods /\ checkMod(part)
                 \/ part = "contributor" /\ checkContributor

Needs(step) == ~InPlace(IF step = "launcher" THEN "loader" ELSE step)

\* No step where the launcher is open and its list would have to be changed.
BuildPlan(launcherOpen) ==
  IF launcherOpen /\ ~InPlace("loader") THEN << >>
  ELSE Among(Steps, {step \in Path : Needs(step)})

-----------------------------------------------------------------------------
(* One step of a set-up.                                                   *)

\* The name is set, and every other line left as it stands.
captureProperties(existing) ==
  IF existing = NoFile THEN Ours ELSE [existing EXCEPT !.ours = TRUE]

\* Our entry is added to the launcher's list, and taken out of it.
launcherEntry(existing) == [existing EXCEPT !.ours = TRUE]
removeLauncherEntry(existing) ==
  IF existing = NoFile THEN NoFile ELSE [existing EXCEPT !.ours = FALSE]

Payload(p) ==
  CASE p \in Downloaded    -> Ours
    [] p = "contributor" -> captureProperties(file[p])
    [] p = "launcher"    -> launcherEntry(file[p])

\* The launcher's settings are added to, never made.
NothingToAddTo(p) == p = "launcher" /\ file[p] = NoFile

Kept(p) == IF file[p] = NoFile THEN backups
           ELSE [backups EXCEPT ![p] = @ \cup {file[p]}]

\* Where both touched a file: the digest of the later write, the copy the
\* earlier one kept.
Again(earlier, fresh) ==
  LET now == Of(fresh, {earlier.path})
  IN  IF now = << >> THEN earlier
      ELSE [Last(now) EXCEPT !.backup = earlier.backup]

\* A plausible slip: the second set-up's record written over the first's.
FreshOnly(held, fresh) == IF fresh = << >> THEN held ELSE fresh

mergeManifests(held, fresh) ==
  [i \in DOMAIN held |-> Again(held[i], fresh)]
    \o Of(fresh, Path \ Paths(held))

\* The records an undo could not carry out.
Remaining(manifest, failed) == Of(manifest, failed)

-----------------------------------------------------------------------------
(* The two requests.                                                       *)

Init ==
  /\ \E blank \in BOOLEAN, old \in BOOLEAN, list \in BOOLEAN :
       file = [p \in Path |->
                 IF \/ p = "contributor" /\ blank
                    \/ p = "loader" /\ old
                    \/ p = "launcher" /\ list
                 THEN [ours |-> FALSE, version |-> 0] ELSE NoFile]
  /\ backups = [p \in Path |-> {}]
  /\ record = << >>
  /\ job = Idle
  /\ edits = 0 /\ faults = 0
  /\ theirs = file
  /\ installed = {} /\ overwritten = {}
  /\ interrupted = FALSE

handleInstall ==
  /\ job = Idle
  /\ \E launcherOpen \in BOOLEAN :
       /\ BuildPlan(launcherOpen) # << >>
       /\ job' = [at |-> "apply", held |-> record,
                  steps |-> BuildPlan(launcherOpen), done |-> << >>]
  /\ UNCHANGED <<file, backups, record, edits, faults, theirs, installed,
                 overwritten, interrupted>>

\* A file of the player's own making, where we had written before.
WritesOver(p) ==
  /\ file[p] # NoFile
  /\ p # "launcher"
  /\ \E i \in DOMAIN job.held :
       job.held[i].path = p /\ job.held[i].digest # file[p]

Apply ==
  /\ job.at = "apply"
  /\ job.steps # << >>
  /\ LET p == Head(job.steps)
     IN  /\ ~NothingToAddTo(p)
         /\ file' = [file EXCEPT ![p] = Payload(p)]
         /\ backups' = Kept(p)
         /\ job' = [job EXCEPT !.steps = Tail(@),
                               !.done = Append(@, [path |-> p, backup |-> file[p],
                                                   digest |-> Payload(p)])]
         /\ installed' = installed \cup {p}
         /\ overwritten' = IF WritesOver(p) THEN overwritten \cup {p}
                           ELSE overwritten
  /\ UNCHANGED <<record, edits, faults, theirs, interrupted>>

\* The rest of the plan is not tried.  What was there may have been copied.
ApplyFails ==
  /\ job.at = "apply"
  /\ job.steps # << >>
  /\ LET p == Head(job.steps)
     IN  IF NothingToAddTo(p) THEN UNCHANGED <<faults, backups>>
         ELSE /\ faults < MaxFaults
              /\ faults' = faults + 1
              /\ backups' \in {backups, Kept(p)}
  /\ job' = [at |-> "failed", held |-> job.held, done |-> job.done]
  /\ UNCHANGED <<file, record, edits, theirs, installed, overwritten,
                 interrupted>>

\* An empty record is removed.  A save that fails leaves the old one.
writeRecord(manifest) ==
  \/ /\ record' = manifest
     /\ UNCHANGED <<faults, interrupted>>
  \/ /\ faults < MaxFaults
     /\ faults' = faults + 1
     /\ interrupted' = TRUE
     /\ UNCHANGED record

SaveApplied ==
  /\ job.at = "apply" /\ job.steps = << >>
  /\ writeRecord(mergeManifests(job.held, job.done))
  /\ job' = Idle
  /\ UNCHANGED <<file, backups, edits, theirs, installed, overwritten>>

\* Saved first, then undone at once.
SaveFailed ==
  /\ job.at = "failed"
  /\ writeRecord(mergeManifests(job.held, job.done))
  /\ job' = [at |-> "undo", held |-> job.held, merges |-> TRUE,
             manifest |-> job.done, next |-> Len(job.done), failed |-> {}]
  /\ UNCHANGED <<file, backups, edits, theirs, installed, overwritten>>

handleUninstall ==
  /\ job = Idle
  /\ record # << >>
  /\ job' = [at |-> "undo", held |-> << >>, merges |-> FALSE,
             manifest |-> record, next |-> Len(record), failed |-> {}]
  /\ UNCHANGED <<file, backups, record, edits, faults, theirs, installed,
                 overwritten, interrupted>>

\* Plausible slips: the digest not compared; the launcher's list undone like any
\* other file, as it once was.
UndoneBlindly(r) == r.backup

UndoneAlike(r) ==
  IF file[r.path] \notin {NoFile, r.digest} THEN file[r.path] ELSE r.backup

\* What undoing a record leaves in its file: our entry is taken out of the
\* launcher's list; a file changed since is left alone; any other is put back,
\* or removed where there was none.
Undone(r) ==
  IF r.path = "launcher" THEN removeLauncherEntry(file[r.path])
  ELSE IF file[r.path] \notin {NoFile, r.digest} THEN file[r.path]
  ELSE r.backup

\* The launcher's list may be past reading even where our entry is not in it.
MayFail(r) == \/ Undone(r) # file[r.path]
              \/ r.path = "launcher" /\ file[r.path] # NoFile

\* The records are undone last first.  One that cannot be is passed over.  What
\* an earlier set-up wrote is still to be undone after a failed one.
Uninstall ==
  /\ job.at = "undo" /\ job.next > 0
  /\ LET r == job.manifest[job.next]
     IN  \/ /\ file' = [file EXCEPT ![r.path] = Undone(r)]
            /\ job' = [job EXCEPT !.next = @ - 1]
            /\ installed' = installed \ ({r.path} \ Paths(job.held))
            /\ UNCHANGED faults
         \/ /\ faults < MaxFaults
            /\ faults' = faults + 1
            /\ MayFail(r)
            /\ job' = [job EXCEPT !.next = @ - 1, !.failed = @ \cup {r.path}]
            /\ UNCHANGED <<file, installed>>
  /\ UNCHANGED <<backups, record, edits, theirs, overwritten, interrupted>>

\* What is left after a failed set-up joins what was held before it; what is
\* left after a Remove is all there is.
Left(undo) ==
  LET left == Remaining(undo.manifest, undo.failed)
  IN  IF undo.merges THEN mergeManifests(undo.held, left) ELSE left

SaveUndone ==
  /\ job.at = "undo" /\ job.next = 0
  /\ writeRecord(Left(job))
  /\ job' = Idle
  /\ UNCHANGED <<file, backups, edits, theirs, installed, overwritten>>

\* The window is closed, or the watchdog ends a program whose page is quiet.
Exit ==
  /\ job # Idle
  /\ faults < MaxFaults
  /\ faults' = faults + 1
  /\ job' = Idle
  /\ interrupted' = TRUE
  /\ UNCHANGED <<file, backups, record, edits, theirs, installed, overwritten>>

-----------------------------------------------------------------------------
(* The player and the launcher, at any moment between two steps.           *)

Edit(p, content) ==
  /\ edits < MaxEdits
  /\ edits' = edits + 1
  /\ file' = [file EXCEPT ![p] = content]
  /\ UNCHANGED <<backups, record, job, faults, installed, overwritten,
                 interrupted>>

\* A profile or a jar replaced; a setting of capture.properties changed, with
\* the name kept, given or blanked.
PlayerWrites(p) ==
  /\ p # "launcher"
  /\ \E named \in BOOLEAN :
       LET content == [ours |-> named, version |-> edits + 1]
       IN  /\ named => p = "contributor"
           /\ Edit(p, content)
           /\ theirs' = [theirs EXCEPT ![p] = content]

PlayerDeletes(p) ==
  /\ p # "launcher" /\ file[p] # NoFile
  /\ Edit(p, NoFile)
  /\ theirs' = [theirs EXCEPT ![p] = NoFile]

\* The same release, under the same name, byte for byte.  Where we had written
\* it before, nothing tells the player's copy from ours.
PlayerFetches(p) ==
  /\ p \in Mods /\ file[p] = NoFile /\ p \notin installed
  /\ Edit(p, Ours)
  /\ theirs' = [theirs EXCEPT ![p] = Ours]

\* Opening the launcher rewrites its list; the player may take our entry out.
LauncherWrites ==
  /\ file["launcher"] # NoFile
  /\ \E entry \in {FALSE, file["launcher"].ours} :
       Edit("launcher", [ours |-> entry, version |-> edits + 1])
  /\ theirs' = [theirs EXCEPT !["launcher"] =
                                [ours |-> FALSE, version |-> edits + 1]]

Serve == \/ handleInstall \/ Apply \/ ApplyFails \/ SaveApplied \/ SaveFailed
         \/ handleUninstall \/ Uninstall \/ SaveUndone

Next ==
  \/ Serve
  \/ Exit
  \/ \E p \in Path : PlayerWrites(p) \/ PlayerDeletes(p) \/ PlayerFetches(p)
  \/ LauncherWrites

Spec == Init /\ [][Next]_vars

-----------------------------------------------------------------------------
(* Properties.                                                             *)

\* What the player or the launcher last left in a file is still in it, or a
\* copy of it was kept, whatever failed and whenever the program ended.  Bytes
\* that are the published ones are the exception: they can be fetched again.
KeptSomewhere ==
  \A p \in Path :
    \/ theirs[p] \in {NoFile, Ours} \cup backups[p]
    \/ p # "launcher" /\ theirs[p] = file[p]
    \/ p = "launcher" /\ theirs[p].version = file[p].version

\* Between two requests the record names exactly the files still to be undone:
\* nothing a set-up left behind is forgotten, and nothing already put back is
\* claimed, so that a file the player fetched since is not taken for ours
\* (the undoing of a failed set-up, the merge of two, the rest of a Remove).
\* It says nothing more, for good, once the program has ended in a request or a
\* save has failed: a set-up's record is saved at its end, so what it had written
\* is then on no record, though "every path this touches is written down before
\* it is touched" (apply.go:20) and to be "half-installed with no record is the
\* one outcome that has no recovery" (apply.go:93).
RecordIsExact ==
  job = Idle /\ ~interrupted => Paths(record) = installed

\* Between two requests, a file the record does not name is as the player left
\* it: a failed set-up and a Remove have put everything back.  A file deleted
\* since may come back as the copy kept of it, and one whose edit a later set-up
\* wrote over is left out, also where that set-up failed and was undone.  Once
\* the program has ended in a request or a save has failed it says nothing, as
\* RecordIsExact.
PutBack(p) ==
  IF theirs[p] = NoFile THEN file[p] \in {NoFile} \cup backups[p]
  ELSE file[p] = theirs[p]

UndoRestores ==
  job = Idle /\ ~interrupted =>
    \A p \in Path \ (Paths(record) \cup overwritten) : PutBack(p)

\* "removing a mod is not a licence to throw away what they wrote afterwards"
\* (apply.go:275), and the copy of a later set-up "is a copy of our own
\* previous install" (installing.go:302): so where a later set-up found the
\* player's edit of a file, Remove puts that back too.
UndoRestoresEdits ==
  job = Idle /\ ~interrupted =>
    \A p \in Path \ Paths(record) : PutBack(p)
=============================================================================
