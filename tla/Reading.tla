------------------------------ MODULE Reading ------------------------------
(***************************************************************************)
(* An archive being read while it is added to and withdrawn from.  Every    *)
(* command that builds something to share gathers a dimension, leaves out   *)
(* what a declared redaction covers, and only then selects.  The state is   *)
(* what the archive holds and what has been declared; what a reader would   *)
(* be told is a function of the two (Epoch.tla).                            *)
(***************************************************************************)
EXTENDS Readers

CONSTANTS
  Captures,     \* the observations that may be imported
  Scopes,       \* the redactions that may be declared
  MaxRecords    \* bound on the observations held at once

VARIABLES
  records,      \* observations the archive holds
  redactions    \* redactions declared and not withdrawn

vars == <<records, redactions>>

\* A redaction names a contributor or everyone, and an area or everywhere.
Everyone == Nothing
Redaction == [by : Label \cup {Everyone}, area : (SUBSET Chunk) \ {{}}]

PersonOf(r) == IF r.by = Everyone THEN Everyone ELSE Key[r.by]

DeriveId(r) == <<PersonOf(r), r.area>>

ASSUME InputAssumption ==
  Captures \subseteq Observation /\ Scopes \subseteq Redaction

-----------------------------------------------------------------------------
(* Reading. *)

MatchesLabel(r, o) ==
  /\ r.by = Everyone \/ r.by = o.by
  /\ o.chunk \in r.area

Matches(r, o) ==
  /\ r.by = Everyone \/ Key[r.by] = Key[o.by]
  /\ o.chunk \in r.area

Filter(set, S) == {o \in S : ~\E r \in set : Matches(r, o)}

\* What redact list and redact purge count as covered by a set of them.
Matching(set) == records \ Filter(set, records)

RedactList == [r \in redactions |-> Cardinality(Matching({r}))]

\* reconstruct.Gather: what the rest of a command is given to work with.
Gather == Filter(redactions, records)

SnapshotAt(t) == BuildSnapshot(Gather, t)

-----------------------------------------------------------------------------
(* The archive changes. *)

Init == records = {} /\ redactions = {}

Import(o) ==
  /\ Cardinality(records) < MaxRecords
  /\ records' = records \cup {o}
  /\ UNCHANGED redactions

\* The same scope declared again replaces the record.
Stored(set, r) == {q \in set : DeriveId(q) # DeriveId(r)} \cup {r}

Declare(r) ==
  /\ redactions' = Stored(redactions, r)
  /\ UNCHANGED records

Withdraw(r) ==
  /\ redactions' = redactions \ {r}
  /\ UNCHANGED records

\* redact purge removes what any of them covers; the declarations stay.
Purge ==
  /\ redactions # {}
  /\ records' = records \ Matching(redactions)
  /\ UNCHANGED redactions

Next ==
  \/ \E o \in Captures \ records : Import(o)
  \/ \E r \in Scopes : Declare(r)
  \/ \E r \in redactions : Withdraw(r)
  \/ Purge

Spec == Init /\ [][Next]_vars

-----------------------------------------------------------------------------
(* Properties. *)

\* What a chunk is said to hold at a moment is what the last person to look,
\* by then, saw there; the status says of everybody's last look what its
\* name says; a look that saw another state is beside it as rejected, however
\* old, and one that saw the same state is behind it unless it is older than
\* a contradiction the window holds (SelectChunkWithin).
SelectsTheLatest ==
  \A c \in Chunk, t \in Time :
    LET by    == {o \in OfChunk(Gather, c) : o.at <= t}
        s     == SelectChunk(OfChunk(Gather, c), t)
        last  == MostRecent(by)
        looks == {o \in by : \A p \in by :
                    p # o /\ Key[p.by] = Key[o.by] => Before(p, o)}
        near  == {o \in looks : o.at + Window >= last.at}
        same  == {o \in looks : o.state = last.state}
    IN  IF by = {} THEN ~Known(s)
        ELSE /\ s.selected = last
             /\ UNION s.rejected = looks \ same
             /\ s.support = IF near \subseteq same THEN same ELSE near \cap same
             /\ s.counted + s.earlier = Cardinality(looks)
             /\ s.status = "conflict" <=> \E o \in near : o.state # last.state
             /\ s.status = "corroborated" <=>
                  near \subseteq same /\ Cardinality(same) > 1
             /\ s.status = "superseded" <=>
                  near = same /\ same = {last} /\ looks # same
             /\ s.status = "single-source" <=> looks = {last}

\* A chunk reported as corroborated was not seen otherwise between the looks
\* that corroborate it: what agreed is what nothing has contradicted since.
\* SelectChunkWithin's comment and ADR 0003 say this; the code does not.
CorroborationIsUncontradicted ==
  \A c \in Chunk, t \in Time :
    LET s == SelectChunk(OfChunk(Gather, c), t)
    IN  s.status = "corroborated" =>
          \E o \in s.support :
            /\ Key[o.by] # Key[s.selected.by]
            /\ \A p \in UNION s.rejected : p.at <= o.at

\* What a diff over an interval says of a chunk agrees with what diffs over
\* its two halves say, and a kind that is a claim about the world rests on
\* somebody's visit that saw it (compareChunk, revisitsWithin).
DiffHalvesAgree ==
  LET Agree(whole, first, then, before) ==
        /\ whole.kind \in {"never-seen", "not-revisited"} <=>
             whole.revisits = {}
        /\ \A k \in {"never-seen", "not-revisited"} :
             whole.kind = k <=> first = k /\ then = k
        /\ whole.kind = "first-seen" <=> "first-seen" \in {first, then}
        /\ whole.kind = "changed" => "changed" \in {first, then}
        /\ before.selected \notin whole.revisits
        /\ whole.kind \in {"changed", "unchanged", "first-seen"} =>
             MostRecent(whole.revisits).state = whole.to
  IN  \A s, m, t \in Time : s < m /\ m < t =>
        \A c \in Positions(Gather) :
          Agree(BuildDiff(Gather, t, s)[c], BuildDiff(Gather, s, m)[c].kind,
                BuildDiff(Gather, m, t)[c].kind, SelectChunk(OfChunk(Gather, c), s))

\* Two manifests of one moment have one root exactly when their comparison
\* lists no difference of position or state, and then both archives export
\* one world.  The other archive is any part of this one (CompareManifests).
ComparisonAgrees ==
  \A t \in Time : \A part \in SUBSET Gather :
    LET other == BuildSnapshot(part, t)
        local == BuildManifest(SnapshotAt(t), t)
        c     == CompareManifests(local, BuildManifest(other, t))
        told  == EpochComparison(Gather, t, BuildManifest(other, t))
    IN  /\ c.sameWorld <=>
             c.mismatched \cup c.onlyLocal \cup c.onlyRemote = {}
        /\ c.sameWorld => World(SnapshotAt(t)) = World(other)
        /\ told # Refused => (told.same <=> told.differ + told.oneKnows = 0)
        /\ World(SnapshotAt(t)) \ World(other) \subseteq
             (c.mismatched \cup c.onlyLocal) \X State
        /\ \A d \in c.confidence : Known(SnapshotAt(t)[d])

\* The pages and the commands tell one story of one archive: the picture of a
\* moment colours what somebody had looked at by then and counts it under its
\* status; a moment offered knows all that was looked at within its hour, so
\* that travelling to it from an earlier one finds it looked at; a diff names
\* who looked, lists every change, the latest first, says of its interval what
\* the page says, and calls itself empty when no chunk was looked at on both
\* sides of its beginning (RenderPNG, handleMoments, handleTravel, cmdDiff).
ReadersAgree ==
  /\ \A t \in Time, scale \in 1..2 :
       LET told == Coverage(Gather, t, {}, Chunk, scale)
           seen == {o.chunk : o \in {p \in Gather : p.at <= t}}
       IN  /\ told = Refused <=> Gather = {}
           /\ told # Refused =>
                /\ Cardinality(told.disputed) = told.summary["conflict"]
                /\ told.picture = Refused <=>
                     seen = {} \/ TooWide(seen, scale)
                /\ told.picture # Refused =>
                     \A status \in Statuses \ {"unknown"} :
                       LET shown == {c \in Chunk :
                             /\ Position[c] \in DOMAIN told.picture
                             /\ told.picture[Position[c]] = status}
                       IN  /\ shown \subseteq seen
                           /\ Cardinality(shown) = told.summary[status]
                /\ seen = {} <=>
                     told.summary["unknown"] = Cardinality(Positions(Gather))
  /\ \A m, n \in Moments(Gather) :
       LET travel == Travel(Gather, n.at, m.at)
       IN  \A o \in InHour(Gather, m.hour) :
             /\ Known(SnapshotAt(m.at)[o.chunk])
             /\ n.hour < m.hour =>
                  travel.kinds[o.chunk] \in {"changed", "unchanged", "first-seen"}
  /\ \A from \in Time \cup {Nothing}, to \in Time :
       LET interval == ResolveInterval(Gather, from, to, Nothing, MaxTime)
           report   == DiffReport(Gather, interval)
           during   == {o \in Gather : interval.from < o.at /\ o.at <= to}
       IN  interval # Refused =>
             /\ report.by = Contributors(during)
             /\ report.summary = Travel(Gather, to, interval.from).summary
             /\ report.advice = Refused <=> \E c \in Positions(during) :
                  \E o \in OfChunk(Gather, c) : o.at <= interval.from
             /\ Len(report.listing) = report.summary["changed"]
             /\ \A i \in 1..Len(report.listing), o \in during :
                  o.chunk = report.listing[i] =>
                    \A j \in 1..i : \E p \in during :
                      p.chunk = report.listing[j] /\ p.at >= o.at

\* While a redaction is in force, nothing that person reported of that area
\* is in a snapshot, in a diff or in a landmark's coverage at any moment,
\* under whatever spelling of the name either of them was recorded (Matches,
\* Gather).
WithheldIsNowhere ==
  \A t \in Time :
    LET snapshot == SnapshotAt(t)
        diff     == BuildDiff(Gather, 0, t)
        said     == (UNION {snapshot[c].support \cup UNION snapshot[c].rejected :
                              c \in DOMAIN snapshot})
                    \cup (UNION {diff[c].revisits : c \in DOMAIN diff})
        hidden   == {o \in records : \E r \in redactions :
                       /\ PersonOf(r) \in {Everyone, Key[o.by]}
                       /\ o.chunk \in r.area}
    IN  /\ said \cap hidden = {}
        /\ hidden = {} <=> \A r \in redactions : RedactList[r] = 0
        /\ \A area \in SUBSET Chunk :
             /\ LandmarkObserved(snapshot, area) =
                  {c \in area : \E o \in records \ hidden :
                                  o.chunk = c /\ o.at <= t}
             /\ World(RestrictToLandmark(snapshot, area)) =
                  World(snapshot) \cap (area \X State)

\* What the archive said of a moment changes only with what it shows of that
\* moment: an observation made later, by however fast a clock, leaves every
\* selection before it alone (latestPerContributor, splitByRecency).
HistoryIsStable ==
  [][\A t \in Time, c \in Chunk :
       {o \in Gather : o.at <= t /\ o.chunk = c}
         = {o \in Gather' : o.at <= t /\ o.chunk = c} =>
       SelectChunk(OfChunk(Gather, c), t)
         = SelectChunk(OfChunk(Gather', c), t)]_vars
=============================================================================
