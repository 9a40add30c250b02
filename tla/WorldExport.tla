---------------------------- MODULE WorldExport ----------------------------
(***************************************************************************)
(* Observed chunks written into somebody's Minecraft world, one region file *)
(* at a time: export and convert on the command line, and the desktop       *)
(* window's own export.  Programs that export at the same time share the    *)
(* world's region files and nothing else.                                   *)
(*                                                                          *)
(* A region file is a slot for each of its chunks, or is too short to be    *)
(* one, or has no bytes at all, which leaves nothing to keep.  What a slot   *)
(* holds is somebody else's frame, a frame whose header entry makes no      *)
(* sense, nothing, or a chunk an export built.                              *)
(***************************************************************************)
EXTENDS Translation

CONSTANTS
  Program,      \* exporting processes
  Window,       \* the one among them that is the desktop application
  Chunk,        \* chunk positions
  RegionOf,     \* the region a chunk belongs to: a function to 1..Regions
  Regions,      \* number of regions, in the order they are written
  Observed,     \* what the newest observation of a chunk holds, where there is one
  Worlds,       \* the region files a world may start with
  Requests,     \* what a program may be asked for
  Unwritable,   \* built chunks no region file takes: an entity that is no
                \* compound, or more than 255 sectors of it
  Flawed,       \* bound: the sets of chunks whose components may not decode
  Scopes,       \* bound: the sets of chunks a redaction may come to cover
  MaxPlays,     \* bound on the writes of the game itself
  Absent, Blank, Short, Empty, Theirs, Damaged, NoConversion

VARIABLES
  stored,       \* chunks whose observation the archive still has
  malformed,    \* chunks archived with a component that does not decode: an
                \* import hashes the bytes it takes and reads none of them
  withheld,     \* chunks a declared redaction covers
  declared,     \* somebody has decided what may happen to this server's chunks
  isWorld,      \* the target has a level.dat
  files,        \* region files of the target world
  temps,        \* temporary files, by name
  pc, job,      \* each program's place and what it holds
  plays,        \* writes of the game so far
  touched       \* history: files somebody else wrote since a program read them

ASSUME WorldAssumption ==
  /\ Regions \in Nat
  /\ RegionOf \in [Chunk -> 1..Regions]
  /\ DOMAIN Observed \subseteq Chunk /\ IsFiniteSet(DOMAIN Observed)
  /\ \A c \in DOMAIN Observed :
       Observed[c] \in Component /\ IsFiniteSet(Observed[c].entities)
  /\ \A world \in Worlds : world = [r \in 1..Regions |-> world[r]]
  /\ Flawed \subseteq SUBSET Chunk
  /\ Window \in Program

vars == <<stored, malformed, withheld, declared, isWorld, files, temps, pc, job, plays,
          touched>>

Region == 1..Regions
Slots(r) == {c \in Chunk : RegionOf[c] = r}

\* --overwrite, and the conversion asked for, if one is.
Request == [overwrite : BOOLEAN, conversion : Conversion \cup {NoConversion}]

IsConversion(e) == job[e].request.conversion # NoConversion
Target(e) == job[e].request.conversion

-----------------------------------------------------------------------------
(* Region files. *)

\* No file, and a file without a byte, have nothing in them to keep.
NothingToKeep == {Absent, Blank}

\* The chunks an existing file holds that this export does not supply, beside
\* those it does.  A slot of its own is skipped before it is looked at.
Adopt(payload, file, r) ==
  LET others == IF file \in NothingToKeep \cup {Short} THEN {} ELSE Slots(r) \ DOMAIN payload
  IN  [ok   |-> file # Short /\ \A s \in others : file[s] # Damaged,
       file |-> [s \in Slots(r) |->
                   IF s \in DOMAIN payload THEN payload[s]
                   ELSE IF s \in others THEN file[s] ELSE Empty]]

CheckAdoptable(file, r, ours) == Adopt([s \in ours |-> Empty], file, r).ok

\* What a built chunk says: sections with terrain, their biomes or a biome
\* that reads as unknown, and the block entities.
UnknownBiome == "the_void"

BuildChunk(c) ==
  [blocks   |-> c.blocks,
   biomes   |-> [y \in DOMAIN c.blocks |->
                   IF y \in DOMAIN c.biomes THEN c.biomes[y]
                   ELSE [p \in Position |-> UnknownBiome]],
   entities |-> c.entities]

\* A chunk needs a shape, and every section of it a place inside.
Shaped(c) == c.shape # {} /\ DOMAIN c.blocks \subseteq c.shape

\* BuildChunk and Region.AddChunk both take it.
CanBuild(c) == Shaped(c) /\ BuildChunk(c) \notin Unwritable

\* A region's part of what a program has planned to write.
Mine(e, r) == {c \in job[e].plan : RegionOf[c] = r}

\* The chunks of a region after the transform, if there is one.
Prepared(e, r) ==
  IF IsConversion(e) THEN Converted(Target(e), Observed, Mine(e, r))
  ELSE [c \in Mine(e, r) |-> Observed[c]]

BuildAll(chunks) == [c \in DOMAIN chunks |-> BuildChunk(chunks[c])]

Payload(e, r) == BuildAll(Prepared(e, r))

\* The command line always passes a transform, if only to note namespaces.
HasTransform(e) == e # Window

\* Which slots the validation need not be able to read: with a transform
\* none, because a transform may drop any chunk it is given.
PromisedAll(e, r) == Mine(e, r)

Promised(e, r) == IF HasTransform(e) THEN {} ELSE Mine(e, r)

\* A bug to tell apart: the target's name with .tmp on the end.
FixedTempName(e, r) == r

\* A temporary file has a name nobody else has.
TempName(e, r) == <<e, r>>

-----------------------------------------------------------------------------
(* Steps. *)

NoJob == [request |-> [overwrite |-> FALSE, conversion |-> NoConversion], plan |-> {},
          at |-> 0, loss |-> NoLoss, entities |-> 0, said |-> NoLoss, saidEntities |-> 0,
          written |-> {}, outcome |-> "none"]

Init ==
  /\ stored = DOMAIN Observed
  /\ malformed \in Flawed
  /\ withheld = {}
  /\ declared \in BOOLEAN
  /\ isWorld \in BOOLEAN
  /\ files \in Worlds
  /\ temps = <<>>
  /\ pc = [e \in Program |-> "idle"]
  /\ job = [e \in Program |-> NoJob]
  /\ plays = 0
  /\ touched = [e \in Program |-> {}]

Archive == <<stored, malformed, withheld, declared>>
World == <<isWorld, files, temps, plays>>

Goto(e, place, held) ==
  /\ pc' = [pc EXCEPT ![e] = place]
  /\ job' = [job EXCEPT ![e] = held]

Stop(e, outcome) == Goto(e, "done", [job[e] EXCEPT !.outcome = outcome])

\* The first region from `from` on that has planned chunks; past the last,
\* Regions + 1.
NextRegion(plan, from) ==
  LET left == {RegionOf[c] : c \in plan} \cap from..Regions
  IN  IF left = {} THEN Regions + 1 ELSE Min(left)

\* worldRequest.plan: what nobody asked to have withheld by now.
Sources == stored \ withheld

Planned(request) ==
  [NoJob EXCEPT !.request = request, !.plan = Sources, !.at = NextRegion(Sources, 1)]

\* Nothing selected, and nobody having decided, both end it before the world
\* is looked at; the window asks for the decision first.
TurnedAway(e) ==
  IF Sources = {} /\ (declared \/ e # Window) THEN "nothing" ELSE "undeclared"

Begin(e, request, place) ==
  /\ pc[e] = "idle"
  /\ IF Sources = {} \/ ~declared
     THEN Goto(e, "done", [Planned(request) EXCEPT !.outcome = TurnedAway(e)])
     ELSE Goto(e, place, Planned(request))
  /\ UNCHANGED <<Archive, World, touched>>

CmdExport(e, request) ==
  /\ e # Window
  /\ request.conversion = NoConversion
  /\ Begin(e, request, "check")

CmdConvert(e, request) ==
  LET k == request.conversion IN
  /\ e # Window
  /\ k # NoConversion
  /\ Begin(e, request, IF ~NewTranslator(k) THEN "rules"
                       ELSE IF CanRefuse(k) THEN "decide" ELSE "check")

BadRules(e) ==
  /\ pc[e] = "rules"
  /\ Stop(e, "rules")
  /\ UNCHANGED <<Archive, World, touched>>

\* The window exports what is newest, unchanged, and always writes into the
\* files that are there; a second request is turned away while one runs.
HandleExport ==
  Begin(Window, [overwrite |-> TRUE, conversion |-> NoConversion], "check")

\* Every object of the region's planned chunks is still there to be read.
Loadable(e) == Mine(e, job[e].at) \subseteq stored

\* And every component among them reads as what its name says it is.
Decodable(e) == Mine(e, job[e].at) \cap malformed = {}

Loads(e) == Loadable(e) /\ Decodable(e)

\* Where both are wrong, the code names whichever chunk it comes to first.
LoadFails(e) == Stop(e, IF Loadable(e) THEN "undecodable" ELSE "unloadable")

\* The translator counts what it is given, and so does whoever drops entities.
Count(e) ==
  LET mine == Mine(e, job[e].at)
  IN  IF ~IsConversion(e) THEN job[e]
      ELSE [job[e] EXCEPT
              !.loss     = Add(@, Losses(Target(e), Observed, mine)),
              !.entities = @ + Cardinality(DroppedEntities(Target(e), Observed, mine))]

After(e, held) == [held EXCEPT !.at = NextRegion(held.plan, job[e].at + 1)]

\* EachRegion: one region of the pass that decides whether anything is written.
Decide(e) ==
  /\ pc[e] = "decide"
  /\ job[e].at <= Regions
  /\ IF Loads(e) THEN Goto(e, "decide", After(e, Count(e))) ELSE LoadFails(e)
  /\ UNCHANGED <<Archive, World, touched>>

\* The verdict; what was counted is said, and the count starts again.
Decided(e) ==
  LET h == job[e] IN
  /\ pc[e] = "decide"
  /\ h.at > Regions
  /\ IF ~Verdict(Target(e), h.loss, h.entities) THEN Stop(e, "refused")
     ELSE Goto(e, "check",
            [h EXCEPT !.said = h.loss, !.saidEntities = h.entities,
                      !.loss = NoLoss, !.entities = 0, !.at = NextRegion(h.plan, 1)])
  /\ UNCHANGED <<Archive, World, touched>>

\* ExportByRegion: every target path is looked at first.
Check(e) ==
  /\ pc[e] = "check"
  /\ IF ~isWorld THEN Stop(e, "not a world")
     ELSE IF ~job[e].request.overwrite /\
             \E c \in job[e].plan : files[RegionOf[c]] # Absent
          THEN Stop(e, "exists")
     ELSE Goto(e, "validate", job[e])
  /\ UNCHANGED <<Archive, World, touched>>

\* Then every existing file is read, proved adoptable and let go.
Validate1(e) ==
  LET r == job[e].at IN
  /\ pc[e] = "validate"
  /\ r <= Regions
  /\ IF CheckAdoptable(files[r], r, Promised(e, r))
     THEN Goto(e, "validate", After(e, job[e]))
     ELSE Stop(e, "unreadable")
  /\ touched' = [touched EXCEPT ![e] = @ \ {r}]
  /\ UNCHANGED <<Archive, World>>

Validated(e) ==
  /\ pc[e] = "validate"
  /\ job[e].at > Regions
  /\ Goto(e, "prepare", [job[e] EXCEPT !.at = NextRegion(job[e].plan, 1)])
  /\ UNCHANGED <<Archive, World, touched>>

\* The file that is there by now is adopted, and the result is in a temporary
\* file and on the disk.
WriteTemp(e, r, adopted) ==
  IF ~adopted.ok THEN Stop(e, "changed") /\ UNCHANGED <<temps, touched>>
  ELSE /\ Goto(e, "rename", Count(e))
       /\ temps' = [t \in (DOMAIN temps) \cup {TempName(e, r)} |->
                      IF t = TempName(e, r) THEN adopted.file ELSE temps[t]]
       /\ touched' = [touched EXCEPT ![e] = @ \ {r}]

\* A region none of whose chunks is left is not written at all.
Build(e, r, payload) ==
  IF payload = <<>>
  THEN Goto(e, "prepare", After(e, Count(e))) /\ UNCHANGED <<temps, touched>>
  ELSE WriteTemp(e, r, Adopt(payload, files[r], r))

\* Every chunk that is left of the region can be built and has room in the file.
Builds(e) ==
  LET chunks == Prepared(e, job[e].at)
  IN  \A c \in DOMAIN chunks : CanBuild(chunks[c])

\* A region is loaded, transformed, built and prepared for its rename.  An error
\* on the way ends the export, and the regions before it stay written.
Prepare(e) ==
  LET r == job[e].at IN
  /\ pc[e] = "prepare"
  /\ r <= Regions
  /\ IF ~Loads(e) THEN LoadFails(e) /\ UNCHANGED <<temps, touched>>
     ELSE IF ~Builds(e) THEN Stop(e, "unbuildable") /\ UNCHANGED <<temps, touched>>
     ELSE Build(e, r, Payload(e, r))
  /\ UNCHANGED <<Archive, isWorld, files, plays>>

Without(t) == [u \in (DOMAIN temps) \ {t} |-> temps[u]]

Rename(e) ==
  LET r == job[e].at IN
  /\ pc[e] = "rename"
  /\ files' = [files EXCEPT ![r] = temps[TempName(e, r)]]
  /\ temps' = Without(TempName(e, r))
  /\ Goto(e, "prepare", After(e, [job[e] EXCEPT !.written = @ \cup {r}]))
  /\ touched' = [x \in Program |-> IF x = e THEN touched[x] ELSE touched[x] \cup {r}]
  /\ UNCHANGED <<Archive, isWorld, plays>>

\* The disk is full, or the file is held open: the temporary is removed.
WriteFails(e) ==
  /\ pc[e] = "rename"
  /\ temps' = Without(TempName(e, job[e].at))
  /\ Stop(e, "not written")
  /\ UNCHANGED <<Archive, isWorld, files, plays, touched>>

\* What a conversion cost is said here, unless it was said before the write.
Finish(e) ==
  LET h     == job[e]
      again == IsConversion(e) /\ CanRefuse(Target(e))
  IN  /\ pc[e] = "prepare"
      /\ h.at > Regions
      /\ Goto(e, "done",
           [h EXCEPT !.outcome = "done",
                     !.said = IF again THEN @ ELSE h.loss,
                     !.saidEntities = IF again THEN @ ELSE h.entities])
      /\ UNCHANGED <<Archive, World, touched>>

\* A program is killed; a temporary file it had stays in the region directory.
Die(e) ==
  /\ pc[e] \notin {"idle", "done"}
  /\ Stop(e, "killed")
  /\ UNCHANGED <<Archive, World, touched>>

-----------------------------------------------------------------------------
(* What others do meanwhile. *)

\* worldledger policy set, or the window's Decide screen.
Declare ==
  /\ ~declared
  /\ declared' = TRUE
  /\ UNCHANGED <<stored, malformed, withheld, World, pc, job, touched>>

\* A redaction is declared; redact purge removes what redactions cover.
Withhold(scope) ==
  /\ ~(scope \subseteq withheld)
  /\ withheld' = withheld \cup scope
  /\ UNCHANGED <<stored, malformed, declared, World, pc, job, touched>>

Purge ==
  /\ withheld \cap stored # {}
  /\ stored' = stored \ withheld
  /\ UNCHANGED <<malformed, withheld, declared, World, pc, job, touched>>

\* The game saves a chunk into a region file, in place: a reader can find it
\* half done.
Play(r, s, frame) ==
  /\ plays < MaxPlays
  /\ plays' = plays + 1
  /\ files[r] \notin NothingToKeep \cup {Short}
  /\ files' = [files EXCEPT ![r][s] = frame]
  /\ touched' = [e \in Program |-> touched[e] \cup {r}]
  /\ UNCHANGED <<Archive, isWorld, temps, pc, job>>

Next ==
  \/ \E e \in Program :
       \/ \E request \in Requests : CmdExport(e, request) \/ CmdConvert(e, request)
       \/ BadRules(e)
       \/ Decide(e) \/ Decided(e) \/ Check(e) \/ Validate1(e) \/ Validated(e)
       \/ Prepare(e) \/ Rename(e) \/ WriteFails(e) \/ Finish(e) \/ Die(e)
  \/ HandleExport
  \/ Declare
  \/ \E scope \in Scopes : Withhold(scope)
  \/ Purge
  \/ \E r \in Region : \E s \in Slots(r), frame \in {Theirs, Damaged} : Play(r, s, frame)

Spec == Init /\ [][Next]_vars

-----------------------------------------------------------------------------
(* Properties. *)

Moves(e) == pc[e] = "rename" /\ job'[e].written # job[e].written

\* A region file is replaced whole, by what the program that renames it built:
\* its own chunks, and in every other slot the frame that was there, unless
\* somebody wrote the file since it was read (Region.Adopt, writeFileAtomic).
OthersChunksKept ==
  [][LET Keeps(r, own, before, after) ==
           \A s \in Slots(r) :
             after[s] = IF s \in DOMAIN own THEN own[s]
                        ELSE IF before \in NothingToKeep THEN Empty ELSE before[s]
         Writes(own, after) == \A s \in DOMAIN own : after[s] = own[s]
     IN  \A e \in Program : Moves(e) =>
           IF job[e].at \in touched[e]
           THEN Writes(Payload(e, job[e].at), files'[job[e].at])
           ELSE Keeps(job[e].at, Payload(e, job[e].at), files[job[e].at],
                      files'[job[e].at])]_vars

\* The report policy's two passes (EachRegion, then ExportByRegion).
DecidesFirst(e) == IsConversion(e) /\ CanRefuse(Target(e))

\* What no region file takes: a conversion gives every chunk the target's shape,
\* so only a chunk written as it was seen can be out of its own.
Unfitting(e, c) == BuildChunk(c) \in Unwritable \/ (~IsConversion(e) /\ ~Shaped(c))

\* An export gives up with region files already written only for what it could
\* not have known before the first of them: somebody wrote the file it stopped at
\* after it had proved it adoptable, or purged what it had planned to write; or
\* for a chunk of that region nobody had looked at yet, one that does not decode,
\* which a conversion that decides first has seen, or one that cannot be built
\* (ExportByRegion, EachRegion).
GivesUpForCause ==
  \A e \in Program :
    LET h      == job[e]
        chunks == Prepared(e, h.at)
    IN  h.written # {} /\ h.outcome \notin {"none", "done", "killed", "not written"} =>
          \/ h.outcome = "changed" /\ h.at \in touched[e]
          \/ h.outcome = "unloadable" /\ ~(h.plan \subseteq stored)
          \/ /\ h.outcome = "undecodable"
             /\ ~DecidesFirst(e) /\ Mine(e, h.at) \cap malformed # {}
          \/ /\ h.outcome = "unbuildable"
             /\ \E c \in DOMAIN chunks : Unfitting(e, chunks[c])

Requested(e) == Losses(Target(e), Observed, job[e].plan)

\* Under the report policy a world is written only by a conversion that loses
\* nothing it was not told to, block entities among it (translation.verdict).
ReportWritesAllOrNothing ==
  \A e \in Program :
    IsConversion(e) /\ Target(e).policy = "report" /\ job[e].written # {} =>
      /\ ~Requested(e).refused
      /\ DroppedEntities(Target(e), Observed, job[e].plan) = {}

Said(e) ==
  /\ IsConversion(e)
  /\ job[e].outcome = "done"
  /\ Lossless(job[e].said)
  /\ job[e].saidEntities = 0

Under(from, to, renames) == to = from \/ (from \in DOMAIN renames /\ to = renames[from])

\* A conversion said to have had no loss wrote every planned chunk, every
\* section of it with terrain, every block and biome under its own name or
\* the name it was renamed to, and every block entity (printTranslationLosses).
LosslessMeansSame ==
  LET Same(k, from, to) ==
        /\ to.entities = from.entities
        /\ DOMAIN to.blocks = DOMAIN from.blocks
        /\ \A y \in DOMAIN from.blocks, p \in Position :
             Under(from.blocks[y][p], to.blocks[y][p], k.rules.renames)
        /\ \A y \in DOMAIN from.biomes, p \in Position :
             Under(from.biomes[y][p], to.biomes[y][p], k.rules.biomeRenames)
      All(k, plan, written, to) ==
        /\ DOMAIN to = plan
        /\ \A c \in plan : RegionOf[c] \in written /\ Same(k, Observed[c], to[c])
  IN  \A e \in Program : Said(e) =>
        All(Target(e), job[e].plan, job[e].written,
            Converted(Target(e), Observed, job[e].plan))

\* Two blocks that were told apart in what was seen are told apart in a world
\* that was converted with no loss.  Rules.Validate's comment promises it of
\* renames; the code does not keep it.
LosslessTellsApart ==
  \A e \in Program : Said(e) =>
    \A c \in job[e].plan :
      LET from == Observed[c].blocks
          to   == Converted(Target(e), Observed, {c})[c].blocks
      IN  \A y \in DOMAIN from, p, q \in Position :
            from[y][p] # from[y][q] => to[y][p] # to[y][q]

=============================================================================
