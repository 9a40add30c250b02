------------------------------ MODULE Readers ------------------------------
(***************************************************************************)
(* What the commands and the window's pages say of a dimension.  Each is    *)
(* given the visible observations, S, and works everything out from them    *)
(* with the operators of Epoch.tla; each refuses when it has nothing to     *)
(* say.  Wording and order of columns are left out.                         *)
(***************************************************************************)
EXTENDS Epoch, Sequences

CONSTANTS
  Position,     \* where in its dimension a chunk lies
  Hour,         \* the page of moments groups what was observed by this long
  MaxPixels     \* the widest picture that is drawn

ASSUME PositionAssumption ==
  /\ Position \in [Chunk -> Int \X Int]
  /\ \A c, d \in Chunk : Position[c] = Position[d] => c = d
ASSUME SizeAssumption == Hour \in Nat \ {0} /\ MaxPixels \in Nat

-----------------------------------------------------------------------------
(* A moment: coverage, its picture, the comparison with somebody else's.    *)

Statuses ==
  {"corroborated", "single-source", "superseded", "conflict", "unknown"}

Summary(snapshot) ==
  [s \in Statuses |->
     Cardinality({c \in DOMAIN snapshot : snapshot[c].status = s})]

Drawn(snapshot) == {c \in DOMAIN snapshot : snapshot[c].status # "unknown"}

\* The rectangle around some chunks.
BoundsOf(chunks) ==
  LET xs == {Position[c][1] : c \in chunks}
      zs == {Position[c][2] : c \in chunks}
  IN  (Min(xs)..Max(xs)) \X (Min(zs)..Max(zs))

TooWide(chunks, scale) ==
  \E c, d \in chunks, i \in 1..2 :
    (Position[c][i] - Position[d][i] + 1) * scale > MaxPixels

\* A square for each chunk of the rectangle, in the colour of its status; one
\* nobody has a reading of is background, not a colour of its own.
RenderPNG(snapshot, scale) ==
  LET drawn == Drawn(snapshot)
  IN  IF drawn = {} \/ TooWide(drawn, scale) THEN Refused
      ELSE [p \in BoundsOf(drawn) |->
              IF \E c \in drawn : Position[c] = p
              THEN snapshot[CHOOSE c \in drawn : Position[c] = p].status
              ELSE "background"]

Disputed(snapshot) ==
  {[chunk |-> c, used |-> snapshot[c].selected.state,
    by |-> snapshot[c].contributors,
    others |-> Cardinality(snapshot[c].rejected)] :
       c \in {d \in DOMAIN snapshot : snapshot[d].status = "conflict"}}

\* The landmarks are counted before the report is restricted to one of them.
Coverage(S, t, landmarks, area, scale) ==
  LET whole == BuildSnapshot(S, t)
      part  == RestrictToLandmark(whole, area)
  IN  IF DOMAIN part = {} THEN Refused
      ELSE [summary   |-> Summary(part),
            disputed  |-> Disputed(part),
            landmarks |-> [a \in landmarks |->
                             Cardinality(LandmarkObserved(whole, a))],
            picture   |-> RenderPNG(part, scale)]

\* What epoch --compare says, and whether it ends well.
EpochComparison(S, t, manifest) ==
  LET c == CompareManifests(BuildManifest(BuildSnapshot(S, t), t), manifest)
  IN  IF S = {} \/ c = Refused THEN Refused
      ELSE [same     |-> c.sameWorld,
            differ   |-> Cardinality(c.mismatched),
            oneKnows |-> Cardinality(c.onlyLocal) + Cardinality(c.onlyRemote),
            attested |-> Cardinality(c.confidence)]

-----------------------------------------------------------------------------
(* Two moments: diff on the command line, and the travel page.              *)

Kinds == {"changed", "unchanged", "not-revisited", "first-seen", "never-seen"}

DiffSummary(diff) ==
  [k \in Kinds |-> Cardinality({c \in DOMAIN diff : diff[c].kind = k})]

\* The chunks a diff makes a claim about.
Covered(summary) == summary["changed"] + summary["unchanged"]

ObservedSpan(S) ==
  [first |-> Min({o.at : o \in S}), last |-> Max({o.at : o \in S})]

\* --from, --to and --since, each of them given or Nothing.
Given(flag) == flag # Nothing

ResolveInterval(S, from, to, since, now) ==
  LET end   == IF Given(to) THEN to ELSE now
      start == CASE Given(from) -> from
                 [] ~Given(from) /\ Given(since) -> end - since
                 [] ~Given(from) /\ ~Given(since) -> ObservedSpan(S).first
  IN  IF \/ S = {} \/ (Given(from) /\ Given(since))
         \/ (Given(since) /\ since <= 0) \/ start >= end
      THEN Refused
      ELSE [from |-> start, to |-> end]

LatestRevisit(change) == Max({o.at : o \in change.revisits})

\* The chunks that changed, the latest visited first (all, as with --limit 0).
Listing(diff) ==
  LET changed == {c \in DOMAIN diff : diff[c].kind = "changed"}
  IN  CHOOSE s \in [1..Cardinality(changed) -> changed] :
        \A i, j \in DOMAIN s : i < j =>
          s[i] # s[j] /\ LatestRevisit(diff[s[i]]) >= LatestRevisit(diff[s[j]])

\* A diff that compared nothing proposes the later half of what was observed.
Advice(S) ==
  LET span == ObservedSpan(S)
  IN  [from |-> span.first + (span.last - span.first) \div 2, to |-> span.last]

Reported(S, diff) ==
  [summary |-> DiffSummary(diff),
   by      |-> UNION {Contributors(diff[c].revisits) : c \in DOMAIN diff},
   listing |-> Listing(diff),
   advice  |-> IF Covered(DiffSummary(diff)) = 0 THEN Advice(S) ELSE Refused]

DiffReport(S, interval) ==
  IF interval = Refused THEN Refused
  ELSE Reported(S, BuildDiff(S, interval.from, interval.to))

Shown(diff) ==
  [summary |-> DiffSummary(diff),
   kinds   |-> [c \in DOMAIN diff |-> diff[c].kind]]

Travel(S, from, to) == Shown(BuildDiff(S, from, to))

-----------------------------------------------------------------------------
(* The moments the window offers to choose from.                            *)

InHour(S, h) == {o \in S : o.at \div Hour = h}

MomentsByStart(S) ==
  {[hour |-> h, at |-> h * Hour, chunks |-> Cardinality(InHour(S, h))] :
     h \in {o.at \div Hour : o \in S}}

\* One for each hour, at the last observation of it; "chunks" counts the
\* observations of the hour.
Moments(S) ==
  {[hour |-> h, at |-> Max({o.at : o \in InHour(S, h)}),
    chunks |-> Cardinality(InHour(S, h))] : h \in {o.at \div Hour : o \in S}}
=============================================================================
