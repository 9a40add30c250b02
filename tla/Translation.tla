---------------------------- MODULE Translation ----------------------------
(***************************************************************************)
(* What convert does to one chunk: every block and biome is kept, renamed,  *)
(* substituted, filled or refused for the target release, sections outside  *)
(* its build range are dropped, and everything lost is counted.  Pure       *)
(* operators; WorldExport runs them region by region.                       *)
(*                                                                          *)
(* A block is a name: its state properties are left out.  A section is a    *)
(* function on Position, the palette is its range and the packed indices    *)
(* are its arguments.                                                       *)
(***************************************************************************)
EXTENDS Integers, FiniteSets, FiniteSetsExt, Functions

CONSTANTS
  Block,        \* block names of any release
  Biome,        \* biome names of any release
  Entity,       \* block entities
  SectionY,     \* section coordinates
  Position      \* the places of a section

ASSUME TranslationAssumption == SectionY \subseteq Int /\ IsFiniteSet(SectionY)

Layer(Name) == UNION {[Y -> [Position -> Name]] : Y \in SUBSET SectionY}

\* ChunkComponents, decoded: absent sections were never observed.  The shape is
\* the sections the dimension has; none, if it was not observed.
Component == [blocks : Layer(Block), biomes : Layer(Biome), entities : SUBSET Entity,
              shape : SUBSET SectionY]

\* Somebody's rules: partial functions from a name to a name.
Map(Name) == UNION {[S -> Name] : S \in SUBSET Name}
Rules == [renames : Map(Block), substitutions : Map(Block),
          biomeRenames : Map(Biome), biomeSubstitutions : Map(Biome)]

\* A conversion: a release profile, rules, a policy and its fillers.
Conversion ==
  [names : SUBSET Block, biomes : SUBSET Biome, ys : SUBSET SectionY,
   rules : Rules, policy : {"report", "skip-chunk", "fill"},
   filler : Block, biomeFiller : Biome, keepEntities : BOOLEAN]

-----------------------------------------------------------------------------
(* Rules. *)

Images(f) == {f[n] : n \in DOMAIN f}

\* Two renames onto one block are a merge; that is asked of blocks only.
Merges(f) == Cardinality(Images(f)) < Cardinality(DOMAIN f)

ValidateButMerges(k) ==
  LET u == k.rules IN
  /\ Images(u.renames) \cup Images(u.substitutions) \subseteq k.names
  /\ Images(u.biomeRenames) \cup Images(u.biomeSubstitutions) \subseteq k.biomes
  /\ DOMAIN u.renames \cap DOMAIN u.substitutions = {}
  /\ DOMAIN u.biomeRenames \cap DOMAIN u.biomeSubstitutions = {}

Validate(k) == ~Merges(k.rules.renames) /\ ValidateButMerges(k)

\* Only the fill policy ever writes a filler, so only it is asked for one.
NewTranslator(k) ==
  /\ Validate(k)
  /\ k.policy = "fill" => k.filler \in k.names /\ k.biomeFiller \in k.biomes

-----------------------------------------------------------------------------
(* One name. *)

Resolve(name, known, renames, substitutions, policy, filler) ==
  IF name \in known THEN [outcome |-> "identity", to |-> name]
  ELSE IF name \in DOMAIN renames
       THEN [outcome |-> "renamed", to |-> renames[name]]
  ELSE IF name \in DOMAIN substitutions
       THEN [outcome |-> "substituted", to |-> substitutions[name]]
  ELSE IF policy = "fill" THEN [outcome |-> "filled", to |-> filler]
  ELSE [outcome |-> "unrepresentable", to |-> name]

ResolveBlock(k, b) ==
  Resolve(b, k.names, k.rules.renames, k.rules.substitutions, k.policy, k.filler)

ResolveBiome(k, b) ==
  Resolve(b, k.biomes, k.rules.biomeRenames, k.rules.biomeSubstitutions,
          k.policy, k.biomeFiller)

\* The entry of a palette of the blocks, or of the biomes, of a section.
ResolveEntry(k, layer, n) ==
  IF layer = "blocks" THEN ResolveBlock(k, n) ELSE ResolveBiome(k, n)

Lossy(outcome) == outcome \notin {"identity", "renamed"}

-----------------------------------------------------------------------------
(* One chunk. *)

NoLoss == [chunks |-> 0, skipped |-> 0, dropped |-> 0, lossy |-> {}, refused |-> FALSE]

Add(p, q) ==
  [chunks |-> p.chunks + q.chunks, skipped |-> p.skipped + q.skipped,
   dropped |-> p.dropped + q.dropped, lossy |-> p.lossy \cup q.lossy,
   refused |-> p.refused \/ q.refused]

\* Names in a section the target cannot hold, under the policy that then
\* gives the chunk up.
Unfit(k, layer, section) ==
  k.policy = "skip-chunk" /\
    \E n \in Range(section) : ResolveEntry(k, layer, n).outcome = "unrepresentable"

\* Two names can become one, so the palette is built anew from the places.
Rebuild(k, layer, section) == [p \in Position |-> ResolveEntry(k, layer, section[p]).to]

\* What examining some names and leaving some sections out loses.
LayerLoss(k, layer, names, dropped) ==
  [NoLoss EXCEPT
     !.dropped = dropped,
     !.lossy   = {n \in names : Lossy(ResolveEntry(k, layer, n).outcome)},
     !.refused = k.policy = "report" /\
       (dropped > 0 \/
        \E n \in names : ResolveEntry(k, layer, n).outcome = "unrepresentable")]

TranslateFitting(k, layer, sections, unfit) ==
  LET examined == {y \in DOMAIN sections : \A u \in unfit : y <= u}
  IN  [keep |-> unfit = {},
       out  |-> [y \in (DOMAIN sections) \cap k.ys |-> Rebuild(k, layer, sections[y])],
       loss |-> LayerLoss(k, layer,
                  UNION {Range(sections[y]) : y \in examined \cap k.ys},
                  Cardinality(examined \ k.ys))]

\* The sections of a chunk, upwards; the first unfit one ends it.  That one is
\* counted whole here, where the code stops at the entry that does not fit.
TranslateLayer(k, layer, sections) ==
  TranslateFitting(k, layer, sections,
    {y \in (DOMAIN sections) \cap k.ys : Unfit(k, layer, sections[y])})

\* Biomes are reached only by a chunk whose blocks fit, and a chunk with no
\* block section left is not written.  The shape is the target's own.
Translated(k, c, blocks, biomes) ==
  LET seen == IF blocks.keep THEN Add(blocks.loss, biomes.loss) ELSE blocks.loss
      keep == blocks.keep /\ biomes.keep /\ DOMAIN blocks.out # {}
  IN  [keep |-> keep,
       out  |-> [c EXCEPT !.blocks = blocks.out, !.biomes = biomes.out, !.shape = k.ys],
       loss |-> [seen EXCEPT !.chunks = 1, !.skipped = IF keep THEN 0 ELSE 1]]

\* Translator.Chunk.
TranslateChunk(k, c) ==
  Translated(k, c, TranslateLayer(k, "blocks", c.blocks),
                   TranslateLayer(k, "biomes", c.biomes))

-----------------------------------------------------------------------------
(* One region's chunks: a set of chunk names and what each was seen to hold.
   Block entities are dropped here, of the chunks that are kept. *)

TranslateAll(k, observed, S) == [c \in S |-> TranslateChunk(k, observed[c])]

Kept(k, results) ==
  [c \in {d \in DOMAIN results : results[d].keep} |->
     IF k.keepEntities THEN results[c].out
     ELSE [results[c].out EXCEPT !.entities = {}]]

Converted(k, observed, S) == Kept(k, TranslateAll(k, observed, S))

Losses(k, observed, S) ==
  FoldSet(LAMBDA c, sum : Add(TranslateChunk(k, observed[c]).loss, sum), NoLoss, S)

DroppedEntities(k, observed, S) ==
  IF k.keepEntities THEN {}
  ELSE UNION {observed[c].entities : c \in DOMAIN Converted(k, observed, S)}

\* A bug to tell apart: a section that had nowhere to go is no loss.
LosslessButSections(loss) == loss.skipped = 0 /\ loss.lossy = {}

\* Nothing about the result differs from what was seen but its names.
Lossless(loss) == loss.skipped = 0 /\ loss.dropped = 0 /\ loss.lossy = {}

\* Only the report policy may decide, after seeing everything, to write nothing.
CanRefuse(k) == k.policy = "report"

\* A bug to tell apart: only what the translator sees can refuse.
VerdictOfTranslator(k, loss, entities) == ~loss.refused

Verdict(k, loss, entities) == ~loss.refused /\ ~(CanRefuse(k) /\ entities > 0)

=============================================================================
