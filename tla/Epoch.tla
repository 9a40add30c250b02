------------------------------- MODULE Epoch -------------------------------
(***************************************************************************)
(* What an archive says a dimension held at a moment: the selection of one  *)
(* observed state for each chunk, the comparison of two moments, and the    *)
(* manifest that lets two archives compare one moment.  The operators are   *)
(* pure; Reading.tla applies them to an archive that changes.               *)
(*                                                                          *)
(* An observation is what one label reported of one chunk at one time.  Its *)
(* id is the digest of its content; only the order of ids is used, and Id   *)
(* is that order.                                                           *)
(***************************************************************************)
EXTENDS Integers, FiniteSets, FiniteSetsExt

CONSTANTS
  Label,        \* contributor labels, as captured
  Key,          \* the folded label: two labels with one key are one person
  Chunk,        \* chunk positions of the dimension
  State,        \* state digests
  Id,           \* the order of observation ids, used to break ties of time
  MaxTime,      \* bound on the times observed and asked about
  Window,       \* the simultaneity window
  Nothing       \* no observation, no state

Time == 0..MaxTime

Observation == [chunk : Chunk, by : Label, at : Time, state : State]

ASSUME KeyAssumption == Key \in [Label -> Label]
ASSUME IdAssumption ==
  /\ Id \in [Observation -> Nat]
  /\ \A o, p \in Observation : Id[o] = Id[p] => o = p
ASSUME BoundAssumption == MaxTime \in Nat /\ Window \in Nat
\* No label is empty (Observation.Validate): the empty one means everybody.
ASSUME NothingAssumption == Nothing \notin Observation \cup State \cup Label \cup Time

-----------------------------------------------------------------------------
(* Selecting a state for one chunk. *)

\* observationBefore: time first, then the id, so that it is a total order.
Before(o, p) == o.at < p.at \/ (o.at = p.at /\ Id[o] < Id[p])

MostRecent(S) == CHOOSE o \in S : \A p \in S \ {o} : Before(p, o)

Contributors(S) == {Key[o.by] : o \in S}

StatesOf(S) == {o.state : o \in S}

LatestThenCut(S, t) ==
  {o \in {MostRecent({p \in S : Key[p.by] = k}) : k \in Contributors(S)} :
     o.at <= t}

\* One observation for each person: the last at or before t.
LatestPerContributor(S, t) ==
  LET known == {o \in S : o.at <= t}
  IN  {MostRecent({o \in known : Key[o.by] = k}) : k \in Contributors(known)}

ContemporaryStrict(eligible) ==
  LET newest == Max({o.at : o \in eligible})
  IN  {o \in eligible : o.at > newest - Window}

\* What lies within one window of the most recent of them decides.
Contemporary(eligible) ==
  LET newest == Max({o.at : o \in eligible})
  IN  {o \in eligible : o.at >= newest - Window}

GroupByState(S) == {{o \in S : o.state = s} : s \in StatesOf(S)}

MostRecentGroup(groups) ==
  CHOOSE g \in groups :
    \A h \in groups \ {g} : Before(MostRecent(h), MostRecent(g))

Unknown == [status |-> "unknown", selected |-> Nothing, contributors |-> {},
            rejected |-> {}, support |-> {}, counted |-> 0, earlier |-> 0]

StatusOf(conflict, supporters, overruled) ==
  CASE conflict -> "conflict"
    [] ~conflict /\ Cardinality(supporters) >= 2 -> "corroborated"
    [] ~conflict /\ Cardinality(supporters) < 2 ->
         IF overruled THEN "superseded" ELSE "single-source"

\* What lies in the window decides; of the rest, what agrees with an
\* undisputed state is added to it.
Selection(eligible, now) ==
  LET earlier  == eligible \ now
      conflict == Cardinality(StatesOf(now)) > 1
      leading  == MostRecentGroup(GroupByState(now))
      state    == (CHOOSE o \in leading : TRUE).state
      selected == IF conflict THEN leading
                  ELSE leading \cup {o \in earlier : o.state = state}
  IN  [status |-> StatusOf(conflict, Contributors(selected),
                           \E o \in earlier : o.state # state),
       selected |-> MostRecent(selected),
       contributors |-> Contributors(selected),
       rejected |-> GroupByState({o \in eligible : o.state # state}),
       support |-> selected,
       counted |-> Cardinality(now), earlier |-> Cardinality(earlier)]

SelectAmong(eligible) ==
  IF eligible = {} THEN Unknown ELSE Selection(eligible, Contemporary(eligible))

SelectChunk(S, t) == SelectAmong(LatestPerContributor(S, t))

Known(selection) == selection.selected # Nothing

StateDigest(selection) ==
  IF Known(selection) THEN selection.selected.state ELSE Nothing

-----------------------------------------------------------------------------
(* A dimension: one selection for each chunk the archive has any visible    *)
(* observation of, whenever it was made.                                    *)

Positions(S) == {o.chunk : o \in S}

OfChunk(S, c) == {o \in S : o.chunk = c}

BuildSnapshot(S, t) == [c \in Positions(S) |-> SelectChunk(OfChunk(S, c), t)]

\* The chunks an export writes: the others are left as they are.
World(snapshot) ==
  {<<c, snapshot[c].selected.state>> :
     c \in {d \in DOMAIN snapshot : Known(snapshot[d])}}

\* How many of the chunks an area covers have a reading at the moment.
LandmarkObserved(snapshot, bounds) ==
  {c \in bounds \cap DOMAIN snapshot : Known(snapshot[c])}

RestrictToLandmark(snapshot, bounds) ==
  [c \in bounds \cap DOMAIN snapshot |-> snapshot[c]]

-----------------------------------------------------------------------------
(* Comparing two moments of one archive. *)

RevisitsFrom(S, from, to) == {o \in S : from <= o.at /\ o.at <= to}

\* Half-open at the start: what the earlier side selected is not a revisit.
RevisitsWithin(S, from, to) == {o \in S : from < o.at /\ o.at <= to}

KindOf(before, after, revisits) ==
  IF ~Known(after) THEN "never-seen"
  ELSE IF ~Known(before) THEN "first-seen"
  ELSE IF StateDigest(before) # StateDigest(after) THEN "changed"
  ELSE IF revisits = {} THEN "not-revisited" ELSE "unchanged"

Change(before, after, revisits) ==
  [kind |-> KindOf(before, after, revisits),
   from |-> StateDigest(before), to |-> StateDigest(after),
   revisits |-> revisits]

CompareChunk(S, from, to) ==
  Change(SelectChunk(S, from), SelectChunk(S, to), RevisitsWithin(S, from, to))

\* The two instants are put in order first.
BuildDiff(S, s, t) ==
  [c \in Positions(S) |->
     CompareChunk(OfChunk(S, c), Min({s, t}), Max({s, t}))]

-----------------------------------------------------------------------------
(* Comparing one moment of two archives.                                    *)

\* The root digests the positions and the states; confidence is beside it.
BuildManifest(snapshot, t) ==
  [at |-> t,
   chunks |-> [c \in DOMAIN snapshot |->
                 [state |-> StateDigest(snapshot[c]),
                  status |-> snapshot[c].status]]]

RootOfKnown(manifest) ==
  [at |-> manifest.at,
   states |-> {<<c, manifest.chunks[c].state>> :
     c \in {d \in DOMAIN manifest.chunks : manifest.chunks[d].state # Nothing}}]

Root(manifest) ==
  [at |-> manifest.at,
   states |-> [c \in DOMAIN manifest.chunks |-> manifest.chunks[c].state]]

\* The answer of one that says what is wrong instead: it has no part.
Refused == <<>>

\* Both are of the one dimension of this module; they may be of two moments.
CompareManifests(local, remote) ==
  LET shared == DOMAIN local.chunks \cap DOMAIN remote.chunks
      mismatched == {c \in shared :
                       local.chunks[c].state # remote.chunks[c].state}
  IN  IF local.at # remote.at THEN Refused ELSE
      [sameWorld  |-> Root(local) = Root(remote),
       mismatched |-> mismatched,
       onlyLocal  |-> DOMAIN local.chunks \ DOMAIN remote.chunks,
       onlyRemote |-> DOMAIN remote.chunks \ DOMAIN local.chunks,
       confidence |-> {c \in shared \ mismatched :
                         local.chunks[c].status # remote.chunks[c].status}]
=============================================================================
