-------------------------- MODULE WorldExportProofs --------------------------
(***************************************************************************)
(* Exports into one world, proved for any number of programs, chunks and   *)
(* regions, any worlds to start with and any conversions.                  *)
(*                                                                         *)
(* The invariant has a part for each program.  A step keeps the part of    *)
(* the program that takes it, shown action by action, and is quiet for the *)
(* others: what it does to the files they rely on, the history variable    *)
(* touched records.                                                        *)
(*                                                                         *)
(* What a conversion says it cost needs a second part: that what a program *)
(* has counted is about the chunks it has passed.  It rests on what a fold *)
(* of the losses of chunks is, which the facts about sums give.            *)
(***************************************************************************)
EXTENDS WorldExport, FiniteSetTheorems, WellFoundedInduction, TLAPS

(* What a program holds, field by field.                                    *)
IsJob(j) ==
  j = [request |-> j.request, plan |-> j.plan, at |-> j.at, loss |-> j.loss,
       entities |-> j.entities, said |-> j.said, saidEntities |-> j.saidEntities,
       written |-> j.written, outcome |-> j.outcome]

(* The regions that hold a chunk of a plan.                                 *)
Wanted(plan) == {RegionOf[c] : c \in plan}

(* Where a program can be.                                                  *)
Places == {"idle", "rules", "decide", "check", "validate", "prepare", "rename", "done"}

(* The shape of the state.                                                  *)
TypeInv ==
  /\ stored \subseteq DOMAIN Observed
  /\ files = [r \in Region |-> files[r]]
  /\ pc \in [Program -> Places]
  /\ job = [e \in Program |-> job[e]]
  /\ touched \in [Program -> SUBSET Region]

(* A program is at a region of its plan, or past them all; nothing is written*)
(* before the last pass.                                                    *)
JobInv(e) ==
  /\ IsJob(job[e]) /\ job[e].plan \subseteq DOMAIN Observed
  /\ pc[e] # "idle" => job[e].at \in 1..(Regions + 1)
  /\ pc[e] # "idle" /\ job[e].at <= Regions => job[e].at \in Wanted(job[e].plan)
  /\ pc[e] = "rename" => job[e].at <= Regions
  /\ pc[e] \notin {"prepare", "rename", "done"} => job[e].written = {}
  /\ pc[e] # "done" => job[e].outcome = "none"
  /\ e = Window => ~IsConversion(e)

(* A planned region's file can be adopted, unless somebody wrote it since.  *)
Adoptable(e, r) ==
  r \in Wanted(job[e].plan) /\ r \notin touched[e] =>
    CheckAdoptable(files[r], r, Promised(e, r))

(* The validation has got as far as the region it is at; the last pass has  *)
(* still to come to what the validation went through.                       *)
AdoptInv(e) ==
  /\ pc[e] = "check" => \A r \in Wanted(job[e].plan) : r >= job[e].at
  /\ pc[e] = "validate" => \A r \in Region : r < job[e].at => Adoptable(e, r)
  /\ pc[e] = "prepare" => \A r \in Region : r >= job[e].at => Adoptable(e, r)
  /\ pc[e] = "rename" => \A r \in Region : r > job[e].at => Adoptable(e, r)

(* A file after, in terms of a program's own chunks and the file before.    *)
KeepsOthers(r, own, before, after) ==
  \A s \in Slots(r) :
    after[s] = IF s \in DOMAIN own THEN own[s]
               ELSE IF before \in NothingToKeep THEN Empty ELSE before[s]

(* What a program is about to rename.                                       *)
Built(e) == temps[TempName(e, job[e].at)]

(* It holds the program's chunks and keeps everybody else's.                *)
KeepInv(e) ==
  pc[e] = "rename" =>
    /\ TempName(e, job[e].at) \in DOMAIN temps
    /\ \A s \in DOMAIN Payload(e, job[e].at) : Built(e)[s] = Payload(e, job[e].at)[s]
    /\ job[e].at \notin touched[e] =>
         KeepsOthers(job[e].at, Payload(e, job[e].at), files[job[e].at], Built(e))

(* A program that decides first has seen every planned chunk of a region it *)
(* is past, and of every region once it has decided, decode.                *)
Seen(e, r) == Mine(e, r) \cap malformed = {}

Late == {"check", "validate", "prepare", "rename"}

DecodeInv(e) ==
  DecidesFirst(e) =>
    /\ pc[e] = "decide" => \A r \in Region : r < job[e].at => Seen(e, r)
    /\ pc[e] \in Late => \A r \in Region : Seen(e, r)

(* Why a program that stopped in the middle did.                            *)
Cause(e, o) ==
  \/ o = "changed" /\ job[e].at \in touched[e]
  \/ o = "unloadable" /\ ~(job[e].plan \subseteq stored)
  \/ /\ o = "undecodable"
     /\ ~DecidesFirst(e) /\ Mine(e, job[e].at) \cap malformed # {}
  \/ /\ o = "unbuildable"
     /\ \E c \in DOMAIN Prepared(e, job[e].at) : Unfitting(e, Prepared(e, job[e].at)[c])

StopInv(e) ==
  job[e].written # {} /\ job[e].outcome \notin {"none", "done", "killed", "not written"} =>
    Cause(e, job[e].outcome)

(* What one program relies on.                                              *)
Inv(e) == JobInv(e) /\ AdoptInv(e) /\ KeepInv(e) /\ DecodeInv(e) /\ StopInv(e)

(* The invariant that every step keeps.                                     *)
IInv == TypeInv /\ \A e \in Program : Inv(e)

(* A step of somebody else, as a program sees it.                           *)
Quiet(e) ==
  /\ pc'[e] = pc[e] /\ job'[e] = job[e]
  /\ touched[e] \subseteq touched'[e]
  /\ \A r \in Region \ touched'[e] : files'[r] = files[r]
  /\ \A r \in Region : TempName(e, r) \in DOMAIN temps =>
       TempName(e, r) \in DOMAIN temps' /\ temps'[TempName(e, r)] = temps[TempName(e, r)]
  /\ stored' \subseteq stored /\ malformed' = malformed

(* A program still does what it was asked for.                              *)
SameTask(e) == job'[e].plan = job[e].plan /\ job'[e].request = job[e].request

(* A step no other program notices but for the files it wrote.              *)
Others(e) == \A x \in Program \ {e} : Quiet(x)

-----------------------------------------------------------------------------
(* NextRegion is the first region, from one on, that holds a planned chunk, *)
(* or one past the last.                                                    *)
LEMMA NextRegionIs ==
  ASSUME NEW plan \in SUBSET Chunk, NEW from \in 1..(Regions + 1)
  PROVE  /\ NextRegion(plan, from) \in from..(Regions + 1)
         /\ NextRegion(plan, from) <= Regions => NextRegion(plan, from) \in Wanted(plan)
         /\ \A r \in Wanted(plan) : r >= from => r >= NextRegion(plan, from)
<1> DEFINE left == Wanted(plan) \cap from..Regions
<1>1. NextRegion(plan, from) = IF left = {} THEN Regions + 1 ELSE Min(left)
  BY DEF NextRegion, Wanted
<1>2. Wanted(plan) \subseteq 1..Regions /\ Regions \in Nat /\ from \in Nat
  BY WorldAssumption DEF Wanted
<1>3. CASE left = {}
  BY <1>1, <1>2, <1>3
<1>4. CASE left # {}
  <2> DEFINE Upto(n) == {m \in left : m <= n}
             F == {Upto(n) : n \in left}
  <2>1. IsFiniteSet(left)
    <3>1. left \subseteq from..Regions /\ IsFiniteSet(from..Regions)
      BY <1>2, FS_Interval
    <3> QED BY <3>1, FS_Subset
  <2>2. F \subseteq SUBSET left /\ F # {}
    BY <1>4
  <2>3. PICK T \in F : \A U \in F : ~(<<U, T>> \in StrictSubsetOrdering(left))
    <3>1. F \subseteq FiniteSubsetsOf(left)
      BY <2>1, <2>2, FS_FiniteSubsetsOfFinite
    <3> HIDE DEF F, left
    <3> QED BY <2>1, <2>2, <3>1, FS_StrictSubsetOrderingWellFounded, WFMin
  <2>4. PICK n \in left : T = Upto(n)
    OBVIOUS
  <2>5. ASSUME NEW m \in left PROVE n <= m
    <3> SUFFICES ASSUME m < n PROVE FALSE
      BY <1>2
    <3>1. Upto(m) \subseteq Upto(n) /\ n \in Upto(n) /\ n \notin Upto(m) /\ Upto(m) \in F
      BY <1>2
    <3>2. <<Upto(m), T>> \in StrictSubsetOrdering(left)
      BY <2>4, <3>1 DEF StrictSubsetOrdering
    <3> QED BY <2>3, <3>1, <3>2
  <2>6. Min(left) \in left /\ \A m \in left : Min(left) <= m
    BY <2>5 DEF Min
  <2> QED BY <1>1, <1>2, <1>4, <2>6
<1> QED BY <1>3, <1>4

(* Counting losses changes nothing else a program holds.                    *)
LEMMA CountKeeps ==
  ASSUME NEW e, IsJob(job[e])
  PROVE  /\ IsJob(Count(e)) /\ Count(e).request = job[e].request
         /\ Count(e).plan = job[e].plan /\ Count(e).at = job[e].at
         /\ Count(e).written = job[e].written /\ Count(e).outcome = job[e].outcome
<1>1. CASE ~IsConversion(e)
  BY <1>1 DEF Count, Mine
<1>2. CASE IsConversion(e)
  <2>1. PICK j, l, n, k : /\ j = job[e] /\ k = Count(e)
                          /\ k = [j EXCEPT !.loss = l, !.entities = n]
    BY <1>2 DEF Count, Mine
  <2>2. IsJob(j)
    BY <2>1
  <2>3. /\ IsJob(k) /\ k.request = j.request /\ k.plan = j.plan /\ k.at = j.at
        /\ k.written = j.written /\ k.outcome = j.outcome
    BY <2>1, <2>2 DEF IsJob
  <2> QED BY <2>1, <2>3
<1> QED BY <1>1, <1>2

(* A job as planned.                                                        *)
LEMMA PlannedIs ==
  ASSUME NEW request
  PROVE  /\ IsJob(Planned(request)) /\ Planned(request).request = request
         /\ Planned(request).plan = Sources
         /\ Planned(request).at = NextRegion(Sources, 1)
         /\ Planned(request).written = {} /\ Planned(request).outcome = "none"
         /\ Planned(request).loss = NoLoss /\ Planned(request).entities = 0
<1>1. PICK j, k : /\ j = NoJob /\ k = Planned(request)
                  /\ k = [j EXCEPT !.request = request, !.plan = Sources,
                                   !.at = NextRegion(Sources, 1)]
  BY DEF Planned
<1>2. /\ IsJob(j) /\ j.written = {} /\ j.outcome = "none"
      /\ j.loss = NoLoss /\ j.entities = 0
  <2>1. PICK l : l = NoLoss
    OBVIOUS
  <2> QED BY <1>1, <2>1 DEF NoJob, IsJob
<1>3. /\ IsJob(k) /\ k.request = request /\ k.plan = Sources
      /\ k.at = NextRegion(Sources, 1)
      /\ k.written = j.written /\ k.outcome = j.outcome
      /\ k.loss = j.loss /\ k.entities = j.entities
  BY <1>1, <1>2 DEF IsJob
<1> QED BY <1>1, <1>2, <1>3

(* What a program promises and builds for a region depends on what was asked*)
(* for and planned, and on nothing that moves.                              *)
LEMMA TaskSays ==
  ASSUME NEW e, SameTask(e)
  PROVE  /\ \A r : Promised(e, r)' = Promised(e, r)
         /\ \A r : Payload(e, r)' = Payload(e, r)
         /\ \A r : Prepared(e, r)' = Prepared(e, r) /\ Mine(e, r)' = Mine(e, r)
         /\ IsConversion(e)' <=> IsConversion(e)
         /\ DecidesFirst(e)' <=> DecidesFirst(e)
BY DEF SameTask, Promised, Payload, Prepared, Mine, IsConversion, Target, DecidesFirst

(* Why it stopped stays why.                                                *)
LEMMA CauseStays ==
  ASSUME NEW e, SameTask(e), job'[e].at = job[e].at, touched[e] \subseteq touched'[e],
         stored' \subseteq stored, malformed' = malformed, NEW o, Cause(e, o)
  PROVE  Cause(e, o)'
<1>1. /\ Prepared(e, job[e].at)' = Prepared(e, job[e].at)
      /\ Mine(e, job[e].at)' = Mine(e, job[e].at)
      /\ IsConversion(e)' <=> IsConversion(e)
      /\ DecidesFirst(e)' <=> DecidesFirst(e)
  BY TaskSays
<1>2. \A c : Unfitting(e, c)' <=> Unfitting(e, c)
  BY <1>1 DEF Unfitting
<1> QED BY <1>1, <1>2 DEF Cause, SameTask

(* What has been seen to decode does from there on.                         *)
LEMMA DecodedStays ==
  ASSUME NEW e, SameTask(e), malformed' = malformed, DecodeInv(e),
         pc[e] \in Late, pc'[e] # "decide"
  PROVE  DecodeInv(e)'
<1>1. (DecidesFirst(e)' <=> DecidesFirst(e)) /\ \A r : Seen(e, r)' <=> Seen(e, r)
  BY TaskSays DEF Seen
<1> QED BY <1>1 DEF DecodeInv

(* What somebody else does breaks nothing a program relies on: whoever writes*)
(* a region file is known to have (touched), nobody else writes its temporary*)
(* file, and nothing comes back to the archive.                             *)
LEMMA QuietKeeps ==
  ASSUME NEW e \in Program, Inv(e), Quiet(e), TypeInv, TypeInv'
  PROVE  Inv(e)'
<1>1. /\ SameTask(e) /\ pc'[e] = pc[e] /\ job'[e] = job[e]
      /\ touched[e] \subseteq touched'[e]
      /\ \A r \in Region \ touched'[e] : files'[r] = files[r]
  BY DEF Quiet, SameTask
<1>2. JobInv(e)'
  BY <1>1, TaskSays DEF Inv, JobInv
<1>3. \A r \in Region : Adoptable(e, r) => Adoptable(e, r)'
  <2> TAKE r \in Region
  <2>1. r \notin touched'[e] => files'[r] = files[r] /\ r \notin touched[e]
    BY <1>1
  <2>2. Promised(e, r)' = Promised(e, r)
    BY <1>1, TaskSays
  <2>3. r \notin touched'[e] =>
          CheckAdoptable(files[r], r, Promised(e, r))'
            = CheckAdoptable(files[r], r, Promised(e, r))
    BY <2>1, <2>2
  <2> QED BY <1>1, <2>1, <2>3 DEF Adoptable
<1>4. AdoptInv(e)'
  BY <1>1, <1>3 DEF Inv, AdoptInv
<1>5. KeepInv(e)'
  <2> SUFFICES ASSUME pc[e] = "rename" PROVE KeepInv(e)'
    BY <1>1 DEF KeepInv
  <2> DEFINE r == job[e].at
  <2>1. r \in Region
    BY WorldAssumption DEF Inv, JobInv, Region
  <2>2. /\ TempName(e, r) \in DOMAIN temps' /\ TempName(e, r)' = TempName(e, r)
        /\ Built(e)' = Built(e)
    BY <1>1, <2>1 DEF Inv, KeepInv, Quiet, Built, TempName
  <2>3. \A q : Payload(e, q)' = Payload(e, q)
    BY <1>1, TaskSays
  <2>4. r \notin touched'[e] => files'[r] = files[r] /\ r \notin touched[e]
    BY <1>1, <2>1
  <2> QED BY <1>1, <2>2, <2>3, <2>4 DEF Inv, KeepInv, KeepsOthers
<1>6. DecodeInv(e)'
  <2>1. \A r : Seen(e, r)' <=> Seen(e, r)
    BY <1>1, TaskSays DEF Seen, Quiet
  <2> QED BY <1>1, <2>1, TaskSays DEF Inv, DecodeInv
<1>7. StopInv(e)'
  <2>1. Cause(e, job[e].outcome) => Cause(e, job[e].outcome)'
    <3>1. PICK o : o = job[e].outcome /\ o = job'[e].outcome
      BY <1>1
    <3>2. Cause(e, o) => Cause(e, o)'
      BY <1>1, CauseStays DEF Quiet
    <3> QED BY <3>1, <3>2
  <2> QED BY <1>1, <2>1 DEF Inv, StopInv
<1> QED BY <1>2, <1>4, <1>5, <1>6, <1>7 DEF Inv

(* A program moves, and no other.                                           *)
LEMMA GotoBecomes ==
  ASSUME TypeInv, NEW e \in Program, NEW place \in Places, NEW held, Goto(e, place, held)
  PROVE  /\ pc' \in [Program -> Places] /\ job' = [x \in Program |-> job'[x]]
         /\ pc'[e] = place /\ job'[e] = held
         /\ \A x \in Program \ {e} : pc'[x] = pc[x] /\ job'[x] = job[x]
BY DEF TypeInv, Goto

(* A step that writes no file, and looks at most at one, is quiet for the   *)
(* others;                                                                  *)
LEMMA OthersQuiet ==
  ASSUME TypeInv, NEW e \in Program, NEW place \in Places, NEW held, Goto(e, place, held),
         UNCHANGED <<stored, malformed, files, temps>>,
         \/ UNCHANGED touched
         \/ \E r : touched' = [touched EXCEPT ![e] = @ \ {r}]
  PROVE  TypeInv' /\ \A x \in Program \ {e} : Quiet(x)
<1>1. /\ pc' \in [Program -> Places] /\ job' = [x \in Program |-> job'[x]]
      /\ \A x \in Program \ {e} : pc'[x] = pc[x] /\ job'[x] = job[x]
  BY GotoBecomes
<1>2. /\ touched' \in [Program -> SUBSET Region]
      /\ \A x \in Program \ {e} : touched'[x] = touched[x]
  BY DEF TypeInv
<1> QED BY <1>1, <1>2 DEF TypeInv, Quiet

(* A program may stop for any reason before it has written a region, and    *)
(* afterwards for a cause.                                                  *)
LEMMA StopKeeps ==
  ASSUME NEW e \in Program, Inv(e), TypeInv, pc[e] # "idle", NEW o, Stop(e, o),
         \/ job[e].written = {}
         \/ o \in {"done", "killed", "not written"}
         \/ Cause(e, o) /\ UNCHANGED <<stored, malformed, touched>>
  PROVE  Inv(e)'
<1>1. pc'[e] = "done" /\ job'[e] = [job[e] EXCEPT !.outcome = o]
  BY GotoBecomes DEF Stop, Places
<1>2. PICK j, k : j = job[e] /\ k = job'[e] /\ k = [j EXCEPT !.outcome = o] /\ IsJob(j)
  BY <1>1 DEF Inv, JobInv
<1>3. /\ IsJob(k) /\ k.request = j.request /\ k.plan = j.plan /\ k.at = j.at
      /\ k.written = j.written /\ k.outcome = o
  BY <1>2 DEF IsJob
<1>4. IsConversion(e)' <=> IsConversion(e)
  BY <1>2, <1>3, TaskSays DEF SameTask
<1>5. JobInv(e)'
  BY <1>1, <1>2, <1>3, <1>4 DEF Inv, JobInv
<1>6. AdoptInv(e)' /\ KeepInv(e)' /\ DecodeInv(e)'
  BY <1>1 DEF AdoptInv, KeepInv, DecodeInv, Late
<1>7. StopInv(e)'
  <2>1. Cause(e, o) /\ UNCHANGED <<stored, malformed, touched>> => Cause(e, o)'
    BY <1>2, <1>3, CauseStays DEF SameTask
  <2> QED BY <1>2, <1>3, <2>1 DEF StopInv
<1> QED BY <1>5, <1>6, <1>7 DEF Inv

(* export, convert and the window's export start.                           *)
LEMMA BeginKeeps ==
  ASSUME TypeInv, NEW e \in Program, NEW request, NEW place \in {"rules", "decide", "check"},
         Inv(e), Begin(e, request, place), e = Window => request.conversion = NoConversion,
         place = "check" => request.conversion = NoConversion \/ ~CanRefuse(request.conversion)
  PROVE  TypeInv' /\ Inv(e)' /\ \A x \in Program \ {e} : Quiet(x)
<1> DEFINE held == IF Sources = {} \/ ~declared
                   THEN [Planned(request) EXCEPT !.outcome = TurnedAway(e)]
                   ELSE Planned(request)
           to == IF Sources = {} \/ ~declared THEN "done" ELSE place
<1>1. Goto(e, to, held) /\ UNCHANGED <<stored, malformed, files, temps, touched>> /\ to \in Places
  BY DEF Begin, Archive, World, Places
<1>2. TypeInv' /\ \A x \in Program \ {e} : Quiet(x)
  <2> HIDE DEF held, to
  <2> QED BY <1>1, OthersQuiet
<1>3. /\ Sources \in SUBSET Chunk /\ Sources \subseteq DOMAIN Observed
      /\ 1 \in 1..(Regions + 1)
  BY WorldAssumption DEF Sources, TypeInv
<1> DEFINE n == NextRegion(Sources, 1)
<1>4. /\ n \in 1..(Regions + 1)
      /\ n <= Regions => n \in Wanted(Sources)
      /\ \A r \in Wanted(Sources) : r >= n
  <2>1. \A r \in Wanted(Sources) : r >= 1
    BY <1>3, WorldAssumption DEF Wanted
  <2> QED BY <1>3, <2>1, NextRegionIs
<1> HIDE DEF n
<1>5. PICK k : /\ k = Planned(request) /\ IsJob(k) /\ k.request = request /\ k.plan = Sources
               /\ k.at = n /\ k.written = {} /\ k.outcome = "none"
  BY PlannedIs DEF n
<1>6. /\ IsJob(held) /\ held.request = request /\ held.plan = Sources
      /\ held.at = n /\ held.written = {}
      /\ to # "done" => held.outcome = "none"
  BY <1>5 DEF IsJob
<1>7. to \in {"done", "rules", "decide", "check"}
  OBVIOUS
<1> HIDE DEF held, to
<1>8. pc'[e] = to /\ job'[e] = held
  BY <1>1, GotoBecomes
<1>9. JobInv(e)'
  BY <1>3, <1>4, <1>6, <1>7, <1>8 DEF JobInv, IsConversion
<1>10. AdoptInv(e)' /\ KeepInv(e)' /\ StopInv(e)'
  BY <1>4, <1>6, <1>7, <1>8 DEF AdoptInv, KeepInv, StopInv
<1>11. DecodeInv(e)'
  <2>1. to = "check" => ~DecidesFirst(e)'
    BY <1>6, <1>8 DEF to, DecidesFirst, IsConversion, Target
  <2>2. \A r \in Region : r < n => Mine(e, r)' = {}
    <3>1. \A c \in Sources : RegionOf[c] \in Wanted(Sources) /\ RegionOf[c] \in 1..Regions
      BY <1>3, WorldAssumption DEF Wanted
    <3>2. n \in Nat /\ Regions \in Nat
      BY <1>4, WorldAssumption
    <3> QED BY <1>4, <1>6, <1>8, <3>1, <3>2 DEF Mine, Region
  <2> QED BY <1>6, <1>7, <1>8, <2>1, <2>2 DEF DecodeInv, Seen, Late
<1> QED BY <1>2, <1>9, <1>10, <1>11 DEF Inv

(* Whoever is done with a region is at the next one that holds a planned chunk.*)
LEMMA AfterIs ==
  ASSUME NEW e \in Program, JobInv(e), pc[e] # "idle", job[e].at <= Regions,
         NEW h, IsJob(h), h.plan = job[e].plan
  PROVE  LET k == After(e, h)
         IN  /\ IsJob(k) /\ k.request = h.request /\ k.plan = h.plan
             /\ k.written = h.written /\ k.outcome = h.outcome
             /\ k.loss = h.loss /\ k.entities = h.entities
             /\ k.said = h.said /\ k.saidEntities = h.saidEntities
             /\ k.at \in 1..(Regions + 1) /\ k.at > job[e].at
             /\ k.at <= Regions => k.at \in Wanted(k.plan)
             /\ \A r \in Wanted(k.plan) : r > job[e].at => r >= k.at
<1> DEFINE n == NextRegion(h.plan, job[e].at + 1)
<1>1. /\ h.plan \in SUBSET Chunk /\ job[e].at \in 1..Regions
      /\ job[e].at + 1 \in 1..(Regions + 1) /\ Regions \in Nat
  BY WorldAssumption DEF JobInv
<1>2. /\ n \in (job[e].at + 1)..(Regions + 1)
      /\ n <= Regions => n \in Wanted(h.plan)
      /\ \A r \in Wanted(h.plan) : r >= job[e].at + 1 => r >= n
  BY <1>1, NextRegionIs
<1>3. \A r \in Wanted(h.plan) : r \in Int
  BY <1>1, WorldAssumption DEF Wanted
<1> HIDE DEF n
<1>4. PICK k : k = After(e, h) /\ k = [h EXCEPT !.at = n]
  BY DEF After, n
<1>5. /\ IsJob(k) /\ k.request = h.request /\ k.plan = h.plan
      /\ k.written = h.written /\ k.outcome = h.outcome /\ k.at = n
      /\ k.loss = h.loss /\ k.entities = h.entities
      /\ k.said = h.said /\ k.saidEntities = h.saidEntities
  BY <1>4 DEF IsJob
<1>6. /\ n \in 1..(Regions + 1) /\ n > job[e].at
      /\ \A r \in Wanted(h.plan) : r > job[e].at => r >= n
  BY <1>1, <1>2, <1>3
<1> QED BY <1>2, <1>4, <1>5, <1>6

(* The rules do not fit the release,                                        *)
LEMMA BadRulesKeeps ==
  ASSUME TypeInv, NEW e \in Program, Inv(e), BadRules(e)
  PROVE  TypeInv' /\ Inv(e)' /\ Others(e)
<1>1. /\ pc[e] = "rules" /\ Stop(e, "rules")
      /\ UNCHANGED <<stored, malformed, files, temps, touched>>
  BY DEF BadRules, Archive, World
<1>2. TypeInv' /\ Others(e)
  BY <1>1, OthersQuiet DEF Stop, Places, Others
<1>3. job[e].written = {}
  BY <1>1 DEF Inv, JobInv
<1> QED BY <1>1, <1>2, <1>3, StopKeeps

(* a region of the pass that decides,                                       *)
LEMMA DecideKeeps ==
  ASSUME TypeInv, NEW e \in Program, Inv(e), Decide(e)
  PROVE  TypeInv' /\ Inv(e)' /\ Others(e)
<1>1. /\ pc[e] = "decide" /\ job[e].at <= Regions
      /\ UNCHANGED <<stored, malformed, files, temps, touched>>
      /\ IF Loads(e) THEN Goto(e, "decide", After(e, Count(e)))
         ELSE \E o : Stop(e, o)
  BY DEF Decide, LoadFails, Archive, World
<1>2. job[e].written = {} /\ job[e].outcome = "none" /\ JobInv(e) /\ IsJob(job[e])
  BY <1>1 DEF Inv, JobInv
<1>3. CASE ~Loads(e)
  <2>1. PICK o : Stop(e, o)
    BY <1>1, <1>3
  <2>2. TypeInv' /\ Others(e)
    BY <1>1, <2>1, OthersQuiet DEF Stop, Places, Others
  <2> QED BY <1>1, <1>2, <2>1, <2>2, StopKeeps
<1>4. CASE Loads(e)
  <2>1. Goto(e, "decide", After(e, Count(e))) /\ "decide" \in Places
    BY <1>1, <1>4 DEF Places
  <2>2. TypeInv' /\ Others(e)
    BY <1>1, <2>1, OthersQuiet DEF Others
  <2>3. pc'[e] = "decide" /\ job'[e] = After(e, Count(e))
    BY <2>1, GotoBecomes
  <2>4. /\ IsJob(Count(e)) /\ Count(e).request = job[e].request
        /\ Count(e).plan = job[e].plan
        /\ Count(e).written = {} /\ Count(e).outcome = "none"
    BY <1>2, CountKeeps
  <2>5. PICK k : /\ k = After(e, Count(e)) /\ IsJob(k)
                 /\ k.request = job[e].request /\ k.plan = job[e].plan
                 /\ k.written = {} /\ k.outcome = "none"
                 /\ k.at \in 1..(Regions + 1)
                 /\ k.at <= Regions => k.at \in Wanted(k.plan)
                 /\ \A r \in Wanted(k.plan) : r > job[e].at => r >= k.at
    BY <1>1, <1>2, <2>4, AfterIs
  <2>6. job'[e] = k
    BY <2>3, <2>5
  <2>7. IsConversion(e)' <=> IsConversion(e)
    BY <2>5, <2>6, TaskSays DEF SameTask
  <2>8. JobInv(e)'
    BY <1>2, <2>3, <2>5, <2>6, <2>7 DEF JobInv
  <2>9. AdoptInv(e)' /\ KeepInv(e)' /\ StopInv(e)'
    BY <2>3, <2>5, <2>6 DEF AdoptInv, KeepInv, StopInv
  <2>10. DecodeInv(e)'
    <3>1. SameTask(e) /\ malformed' = malformed
      BY <1>1, <2>5, <2>6 DEF SameTask
    <3>2. \A r : Seen(e, r)' <=> Seen(e, r)
      BY <3>1, TaskSays DEF Seen
    <3>3. ASSUME NEW r \in Region, r < k.at, DecidesFirst(e) PROVE Seen(e, r)
      <4>1. CASE r < job[e].at
        BY <1>1, <3>3, <4>1 DEF Inv, DecodeInv
      <4>2. CASE r = job[e].at
        BY <1>4, <4>2 DEF Loads, Decodable, Seen
      <4>3. CASE r > job[e].at
        <5>1. r \notin Wanted(job[e].plan)
          BY <2>5, <3>3, <4>3 DEF Region
        <5> QED BY <5>1 DEF Seen, Mine, Wanted
      <4> QED BY <1>1, <1>2, <4>1, <4>2, <4>3, WorldAssumption DEF JobInv, Region
    <3> QED BY <2>3, <2>6, <3>1, <3>2, <3>3, TaskSays DEF DecodeInv, Late
  <2> QED BY <2>2, <2>8, <2>9, <2>10 DEF Inv
<1> QED BY <1>3, <1>4

(* its verdict,                                                             *)
LEMMA DecidedKeeps ==
  ASSUME TypeInv, NEW e \in Program, Inv(e), Decided(e)
  PROVE  TypeInv' /\ Inv(e)' /\ Others(e)
<1> DEFINE h == job[e]
           n == NextRegion(h.plan, 1)
           held == [h EXCEPT !.said = h.loss, !.saidEntities = h.entities,
                             !.loss = NoLoss, !.entities = 0, !.at = n]
           ok == Verdict(Target(e), h.loss, h.entities)
<1>1. /\ pc[e] = "decide" /\ job[e].at > Regions
      /\ UNCHANGED <<stored, malformed, files, temps, touched>>
      /\ IF ~ok THEN Stop(e, "refused") ELSE Goto(e, "check", held)
  BY DEF Decided, Archive, World
<1>2. job[e].written = {} /\ job[e].outcome = "none" /\ JobInv(e) /\ IsJob(job[e])
  BY <1>1 DEF Inv, JobInv
<1>3. CASE ~ok
  <2>1. Stop(e, "refused")
    BY <1>1, <1>3
  <2>2. TypeInv' /\ Others(e)
    BY <1>1, <2>1, OthersQuiet DEF Stop, Places, Others
  <2> QED BY <1>1, <1>2, <2>1, <2>2, StopKeeps
<1>4. CASE ok
  <2>1. Goto(e, "check", held) /\ "check" \in Places
    BY <1>1, <1>4 DEF Places
  <2>2. TypeInv' /\ Others(e)
    <3> HIDE DEF held
    <3> QED BY <1>1, <2>1, OthersQuiet DEF Others
  <2>3. pc'[e] = "check" /\ job'[e] = held
    <3> HIDE DEF held
    <3> QED BY <2>1, GotoBecomes
  <2>4. /\ n \in 1..(Regions + 1)
        /\ n <= Regions => n \in Wanted(h.plan)
        /\ \A r \in Wanted(h.plan) : r >= n
    <3>1. h.plan \in SUBSET Chunk /\ 1 \in 1..(Regions + 1)
      BY <1>2, WorldAssumption DEF JobInv
    <3>2. \A r \in Wanted(h.plan) : r >= 1
      BY <3>1, WorldAssumption DEF Wanted
    <3> QED BY <3>1, <3>2, NextRegionIs
  <2> HIDE DEF n
  <2>5. PICK j, k, l : /\ j = job[e] /\ k = held
                       /\ k = [j EXCEPT !.said = j.loss, !.saidEntities = j.entities,
                                        !.loss = l, !.entities = 0, !.at = n]
    OBVIOUS
  <2>6. IsJob(j)
    BY <1>2, <2>5
  <2>7. /\ IsJob(k) /\ k.request = j.request /\ k.plan = j.plan /\ k.at = n
        /\ k.written = j.written /\ k.outcome = j.outcome
    BY <2>5, <2>6 DEF IsJob
  <2> HIDE DEF held
  <2>8. job'[e] = k /\ j = job[e]
    BY <2>3, <2>5
  <2>9. IsConversion(e)' <=> IsConversion(e)
    BY <2>7, <2>8, TaskSays DEF SameTask
  <2>10. JobInv(e)'
    BY <1>2, <2>3, <2>4, <2>7, <2>8, <2>9 DEF JobInv
  <2>11. AdoptInv(e)' /\ KeepInv(e)' /\ StopInv(e)'
    BY <1>2, <2>3, <2>4, <2>7, <2>8 DEF AdoptInv, KeepInv, StopInv
  <2>12. DecodeInv(e)'
    <3>1. SameTask(e) /\ malformed' = malformed
      BY <1>1, <2>7, <2>8 DEF SameTask
    <3>2. \A r : Seen(e, r)' <=> Seen(e, r)
      BY <3>1, TaskSays DEF Seen
    <3>3. \A r \in Region : r < job[e].at
      BY <1>1, <1>2, WorldAssumption DEF JobInv, Region
    <3> QED BY <1>1, <2>3, <3>1, <3>2, <3>3, TaskSays DEF Inv, DecodeInv, Late
  <2> QED BY <2>2, <2>10, <2>11, <2>12 DEF Inv
<1> QED BY <1>3, <1>4

(* the look at every target path,                                           *)
LEMMA CheckKeeps ==
  ASSUME TypeInv, NEW e \in Program, Inv(e), Check(e)
  PROVE  TypeInv' /\ Inv(e)' /\ Others(e)
<1>1. /\ pc[e] = "check"
      /\ UNCHANGED <<stored, malformed, files, temps, touched>>
      /\ (\E o : Stop(e, o)) \/ Goto(e, "validate", job[e])
  BY DEF Check, Archive, World
<1>2. /\ job[e].written = {} /\ job[e].outcome = "none" /\ JobInv(e)
      /\ \A r \in Wanted(job[e].plan) : r >= job[e].at
  BY <1>1 DEF Inv, JobInv, AdoptInv
<1>3. ASSUME NEW o, Stop(e, o) PROVE TypeInv' /\ Inv(e)' /\ Others(e)
  <2>1. TypeInv' /\ Others(e)
    BY <1>1, <1>3, OthersQuiet DEF Stop, Places, Others
  <2> QED BY <1>1, <1>2, <1>3, <2>1, StopKeeps
<1>4. CASE Goto(e, "validate", job[e])
  <2>1. "validate" \in Places
    BY DEF Places
  <2>2. TypeInv' /\ Others(e)
    BY <1>1, <1>4, <2>1, OthersQuiet DEF Others
  <2>3. pc'[e] = "validate" /\ job'[e] = job[e]
    BY <1>4, <2>1, GotoBecomes
  <2>4. IsConversion(e)' <=> IsConversion(e)
    BY <2>3, TaskSays DEF SameTask
  <2>5. JobInv(e)'
    BY <1>1, <1>2, <2>3, <2>4 DEF JobInv
  <2>6. AdoptInv(e)'
    <3> SUFFICES ASSUME NEW r \in Region, r < job[e].at PROVE Adoptable(e, r)'
      BY <2>3 DEF AdoptInv
    <3>1. r \notin Wanted(job[e].plan)
      BY <1>1, <1>2, WorldAssumption DEF JobInv, Region
    <3> QED BY <2>3, <3>1 DEF Adoptable
  <2>7. KeepInv(e)' /\ StopInv(e)'
    BY <1>2, <2>3 DEF KeepInv, StopInv
  <2>8. DecodeInv(e)'
    BY <1>1, <2>3, DecodedStays DEF SameTask, Inv, Late
  <2> QED BY <2>2, <2>5, <2>6, <2>7, <2>8 DEF Inv
<1> QED BY <1>1, <1>3, <1>4

(* the end,                                                                 *)
LEMMA FinishKeeps ==
  ASSUME TypeInv, NEW e \in Program, Inv(e), Finish(e)
  PROVE  TypeInv' /\ Inv(e)' /\ Others(e)
<1>1. /\ pc[e] = "prepare" /\ UNCHANGED <<stored, malformed, files, temps, touched>>
      /\ \E s, m : Goto(e, "done", [job[e] EXCEPT !.outcome = "done", !.said = s,
                                                  !.saidEntities = m])
  <2>1. PICK j : j = job[e] /\ IsJob(j)
    BY DEF Inv, JobInv
  <2>2. /\ pc[e] = "prepare" /\ UNCHANGED <<stored, malformed, files, temps, touched>>
        /\ Goto(e, "done", [j EXCEPT !.outcome = "done",
                     !.said = IF IsConversion(e) /\ CanRefuse(Target(e)) THEN @ ELSE j.loss,
                     !.saidEntities = IF IsConversion(e) /\ CanRefuse(Target(e)) THEN @
                                      ELSE j.entities])
    BY <2>1 DEF Finish, Archive, World
  <2> DEFINE s == IF IsConversion(e) /\ CanRefuse(Target(e)) THEN j.said ELSE j.loss
             m == IF IsConversion(e) /\ CanRefuse(Target(e)) THEN j.saidEntities
                  ELSE j.entities
  <2>3. Goto(e, "done", [j EXCEPT !.outcome = "done", !.said = s, !.saidEntities = m])
    BY <2>2
  <2> QED BY <2>1, <2>2, <2>3
<1>2. PICK s, m : Goto(e, "done", [job[e] EXCEPT !.outcome = "done", !.said = s,
                                                 !.saidEntities = m])
  BY <1>1
<1>3. "done" \in Places
  BY DEF Places
<1>4. TypeInv' /\ Others(e)
  BY <1>1, <1>2, <1>3, OthersQuiet DEF Others
<1>5. PICK j, k : /\ j = job[e] /\ k = job'[e] /\ IsJob(j) /\ pc'[e] = "done"
                  /\ k = [j EXCEPT !.outcome = "done", !.said = s, !.saidEntities = m]
  <2> DEFINE held == [job[e] EXCEPT !.outcome = "done", !.said = s, !.saidEntities = m]
  <2>1. Goto(e, "done", held)
    BY <1>2
  <2>2. pc'[e] = "done" /\ job'[e] = held
    <3> HIDE DEF held
    <3> QED BY <1>3, <2>1, GotoBecomes
  <2> QED BY <2>2 DEF Inv, JobInv
<1>6. /\ IsJob(k) /\ k.request = j.request /\ k.plan = j.plan /\ k.at = j.at
      /\ k.written = j.written /\ k.outcome = "done"
  BY <1>5 DEF IsJob
<1>7. IsConversion(e)' <=> IsConversion(e)
  BY <1>5, <1>6, TaskSays DEF SameTask
<1>8. JobInv(e)'
  BY <1>1, <1>5, <1>6, <1>7 DEF Inv, JobInv
<1>9. AdoptInv(e)' /\ KeepInv(e)' /\ DecodeInv(e)' /\ StopInv(e)'
  BY <1>5, <1>6 DEF AdoptInv, KeepInv, DecodeInv, Late, StopInv
<1> QED BY <1>4, <1>8, <1>9 DEF Inv

(* and a kill.                                                              *)
LEMMA DieKeeps ==
  ASSUME TypeInv, NEW e \in Program, Inv(e), Die(e)
  PROVE  TypeInv' /\ Inv(e)' /\ Others(e)
<1>1. /\ pc[e] # "idle" /\ Stop(e, "killed")
      /\ UNCHANGED <<stored, malformed, files, temps, touched>>
  BY DEF Die, Archive, World
<1>2. TypeInv' /\ Others(e)
  BY <1>1, OthersQuiet DEF Stop, Places, Others
<1> QED BY <1>1, <1>2, StopKeeps

(* Once a region is validated it is adoptable, until somebody writes it,    *)
LEMMA ValidateKeeps ==
  ASSUME TypeInv, NEW e \in Program, Inv(e), Validate1(e)
  PROVE  TypeInv' /\ Inv(e)' /\ Others(e)
<1> DEFINE r == job[e].at
<1>1. /\ pc[e] = "validate" /\ r <= Regions
      /\ UNCHANGED <<stored, malformed, files, temps>>
      /\ touched' = [touched EXCEPT ![e] = @ \ {r}]
      /\ IF CheckAdoptable(files[r], r, Promised(e, r))
         THEN Goto(e, "validate", After(e, job[e])) ELSE Stop(e, "unreadable")
  BY DEF Validate1, Archive, World
<1>2. /\ job[e].written = {} /\ job[e].outcome = "none" /\ JobInv(e) /\ IsJob(job[e])
      /\ \A q \in Region : q < r => Adoptable(e, q)
      /\ r \in 1..Regions /\ Regions \in Nat
  BY <1>1, WorldAssumption DEF Inv, JobInv, AdoptInv
<1>3. CASE ~CheckAdoptable(files[r], r, Promised(e, r))
  <2>1. Stop(e, "unreadable")
    BY <1>1, <1>3
  <2>2. TypeInv' /\ Others(e)
    BY <1>1, <2>1, OthersQuiet DEF Stop, Places, Others
  <2> QED BY <1>1, <1>2, <2>1, <2>2, StopKeeps
<1>4. CASE CheckAdoptable(files[r], r, Promised(e, r))
  <2>1. Goto(e, "validate", After(e, job[e])) /\ "validate" \in Places
    BY <1>1, <1>4 DEF Places
  <2>2. TypeInv' /\ Others(e)
    BY <1>1, <2>1, OthersQuiet DEF Others
  <2>3. pc'[e] = "validate" /\ job'[e] = After(e, job[e])
    BY <2>1, GotoBecomes
  <2>4. PICK k : /\ k = After(e, job[e]) /\ IsJob(k)
                 /\ k.request = job[e].request /\ k.plan = job[e].plan
                 /\ k.written = {} /\ k.outcome = "none"
                 /\ k.at \in 1..(Regions + 1)
                 /\ k.at <= Regions => k.at \in Wanted(k.plan)
                 /\ \A q \in Wanted(k.plan) : q > r => q >= k.at
    BY <1>1, <1>2, AfterIs
  <2>5. job'[e] = k /\ SameTask(e)
    BY <2>3, <2>4 DEF SameTask
  <2>6. IsConversion(e)' <=> IsConversion(e)
    BY <2>5, TaskSays
  <2>7. JobInv(e)'
    BY <1>2, <2>3, <2>4, <2>5, <2>6 DEF JobInv
  <2>8. AdoptInv(e)'
    <3> SUFFICES ASSUME NEW q \in Region, q < k.at PROVE Adoptable(e, q)'
      BY <2>3, <2>5 DEF AdoptInv
    <3>1. Promised(e, q)' = Promised(e, q) /\ files' = files
      BY <1>1, <2>5, TaskSays
    <3>2. /\ touched'[e] = touched[e] \ {r}
          /\ job'[e].plan = job[e].plan
      BY <1>1, <2>4, <2>5 DEF TypeInv
    <3>3. CheckAdoptable(files[q], q, Promised(e, q))'
            = CheckAdoptable(files[q], q, Promised(e, q))
      BY <3>1
    <3>4. q > r => q \notin Wanted(job[e].plan)
      BY <1>2, <2>4 DEF Region
    <3>5. CASE q < r
      BY <1>2, <3>2, <3>3, <3>5 DEF Adoptable
    <3>6. CASE q = r
      BY <1>4, <3>3, <3>6 DEF Adoptable
    <3>7. CASE q > r
      BY <3>2, <3>4, <3>7 DEF Adoptable
    <3> QED BY <1>2, <3>5, <3>6, <3>7 DEF Region
  <2>9. KeepInv(e)' /\ StopInv(e)'
    BY <2>3, <2>4, <2>5 DEF KeepInv, StopInv
  <2>10. DecodeInv(e)'
    BY <1>1, <2>3, <2>5, DecodedStays DEF Inv, Late
  <2> QED BY <2>2, <2>7, <2>8, <2>9, <2>10 DEF Inv
<1> QED BY <1>3, <1>4

(* so once the validation is over every planned one is.                     *)
LEMMA ValidatedKeeps ==
  ASSUME TypeInv, NEW e \in Program, Inv(e), Validated(e)
  PROVE  TypeInv' /\ Inv(e)' /\ Others(e)
<1> DEFINE n == NextRegion(job[e].plan, 1)
           held == [job[e] EXCEPT !.at = n]
<1>1. /\ pc[e] = "validate" /\ job[e].at > Regions
      /\ UNCHANGED <<stored, malformed, files, temps, touched>>
      /\ Goto(e, "prepare", held) /\ "prepare" \in Places
  BY DEF Validated, Archive, World, Places
<1>2. /\ job[e].written = {} /\ job[e].outcome = "none" /\ JobInv(e) /\ IsJob(job[e])
      /\ \A q \in Region : q < job[e].at => Adoptable(e, q)
      /\ job[e].at = Regions + 1 /\ Regions \in Nat
  BY <1>1, WorldAssumption DEF Inv, JobInv, AdoptInv
<1>3. /\ n \in 1..(Regions + 1)
      /\ n <= Regions => n \in Wanted(job[e].plan)
  <2>1. job[e].plan \in SUBSET Chunk /\ 1 \in 1..(Regions + 1)
    BY <1>2, WorldAssumption DEF JobInv
  <2> QED BY <2>1, NextRegionIs
<1> HIDE DEF n
<1>4. PICK j, k : j = job[e] /\ k = held /\ k = [j EXCEPT !.at = n] /\ IsJob(j)
  BY <1>2
<1>5. /\ IsJob(k) /\ k.request = j.request /\ k.plan = j.plan /\ k.at = n
      /\ k.written = j.written /\ k.outcome = j.outcome
  BY <1>4 DEF IsJob
<1> HIDE DEF held
<1>6. TypeInv' /\ Others(e)
  BY <1>1, OthersQuiet DEF Others
<1>7. pc'[e] = "prepare" /\ job'[e] = k /\ j = job[e]
  BY <1>1, <1>4, GotoBecomes
<1>8. SameTask(e)
  BY <1>5, <1>7 DEF SameTask
<1>9. IsConversion(e)' <=> IsConversion(e)
  BY <1>8, TaskSays
<1>10. JobInv(e)'
  BY <1>2, <1>3, <1>5, <1>7, <1>9 DEF JobInv
<1>11. AdoptInv(e)'
  <2> SUFFICES ASSUME NEW q \in Region PROVE Adoptable(e, q)'
    BY <1>7 DEF AdoptInv
  <2>1. Promised(e, q)' = Promised(e, q) /\ UNCHANGED <<files, touched>>
    BY <1>1, <1>8, TaskSays
  <2>2. CheckAdoptable(files[q], q, Promised(e, q))'
          = CheckAdoptable(files[q], q, Promised(e, q))
    BY <2>1
  <2>3. Adoptable(e, q)
    BY <1>2 DEF Region
  <2> QED BY <1>5, <1>7, <2>1, <2>2, <2>3 DEF Adoptable
<1>12. KeepInv(e)' /\ StopInv(e)'
  BY <1>2, <1>5, <1>7 DEF KeepInv, StopInv
<1>13. DecodeInv(e)'
  BY <1>1, <1>7, <1>8, DecodedStays DEF Inv, Late
<1> QED BY <1>6, <1>10, <1>11, <1>12, <1>13 DEF Inv

(* A transform may drop a chunk of the plan, and adds none.                 *)
LEMMA PayloadIsPlanned ==
  ASSUME NEW e \in Program, NEW r
  PROVE  /\ DOMAIN Payload(e, r) \subseteq PromisedAll(e, r)
         /\ ~IsConversion(e) => DOMAIN Payload(e, r) = PromisedAll(e, r)
<1> DEFINE mine == {c \in job[e].plan : RegionOf[c] = r}
<1>1. DOMAIN Payload(e, r) = DOMAIN Prepared(e, r)
  BY DEF Payload, BuildAll
<1>2. CASE IsConversion(e)
  <2>1. Prepared(e, r) = Converted(Target(e), Observed, mine)
    BY <1>2 DEF Prepared, Mine
  <2>2. DOMAIN Converted(Target(e), Observed, mine) \subseteq mine
    <3> DEFINE all == TranslateAll(Target(e), Observed, mine)
    <3>1. DOMAIN all = mine
      BY DEF TranslateAll
    <3> HIDE DEF all
    <3>2. DOMAIN Kept(Target(e), all) \subseteq DOMAIN all
      BY DEF Kept
    <3> QED BY <3>1, <3>2 DEF Converted, all
  <2> QED BY <1>1, <1>2, <2>1, <2>2 DEF PromisedAll, Mine
<1>3. CASE ~IsConversion(e)
  <2>1. DOMAIN Prepared(e, r) = mine
    BY <1>3 DEF Prepared, Mine
  <2> QED BY <1>1, <2>1 DEF PromisedAll, Mine
<1> QED BY <1>2, <1>3

(* What Adopt returns holds the program's own chunks and keeps every other  *)
(* slot.                                                                    *)
LEMMA AdoptKeeps ==
  ASSUME NEW own, NEW r, DOMAIN own \subseteq Slots(r), NEW file, Adopt(own, file, r).ok
  PROVE  /\ \A s \in DOMAIN own : Adopt(own, file, r).file[s] = own[s]
         /\ KeepsOthers(r, own, file, Adopt(own, file, r).file)
<1> DEFINE others == IF file \in NothingToKeep \cup {Short} THEN {} ELSE Slots(r) \ DOMAIN own
           built == [s \in Slots(r) |-> IF s \in DOMAIN own THEN own[s]
                                        ELSE IF s \in others THEN file[s] ELSE Empty]
<1>1. Adopt(own, file, r).file = built /\ file # Short
  BY DEF Adopt
<1>2. \A s \in Slots(r) : built[s] = IF s \in DOMAIN own THEN own[s]
                                     ELSE IF s \in others THEN file[s] ELSE Empty
  OBVIOUS
<1>3. \A s \in Slots(r) \ DOMAIN own : s \in others <=> file \notin NothingToKeep
  BY <1>1
<1> HIDE DEF built, others
<1>4. KeepsOthers(r, own, file, built)
  BY <1>2, <1>3 DEF KeepsOthers
<1> QED BY <1>1, <1>2, <1>4

(* What was proved adoptable can be adopted, whatever the transform dropped:*)
(* the slots the validation left out are ones that are supplied (Promised). *)
LEMMA AdoptableIsAdopted ==
  ASSUME NEW e \in Program, NEW r, CheckAdoptable(files[r], r, Promised(e, r)),
         e = Window => ~IsConversion(e)
  PROVE  Adopt(Payload(e, r), files[r], r).ok
<1> DEFINE file == files[r]
           None == NothingToKeep \cup {Short}
           Ok(ours) == /\ file # Short
                       /\ \A s \in (IF file \in None THEN {} ELSE Slots(r) \ ours) :
                            file[s] # Damaged
<1>1. Adopt(Payload(e, r), file, r).ok <=> Ok(DOMAIN Payload(e, r))
  BY DEF Adopt
<1>2. CheckAdoptable(file, r, Promised(e, r)) <=> Ok(Promised(e, r))
  BY DEF Adopt, CheckAdoptable
<1>3. Promised(e, r) \subseteq DOMAIN Payload(e, r)
  BY PayloadIsPlanned DEF Promised, PromisedAll, Mine, HasTransform
<1> QED BY <1>1, <1>2, <1>3

(* so is one that writes a temporary file, since its name is nobody else's  *)
(* (TempName).                                                              *)
LEMMA OthersKeepTemps ==
  ASSUME TypeInv, NEW e \in Program, NEW place \in Places, NEW held, Goto(e, place, held),
         UNCHANGED <<stored, malformed, files>>,
         \/ UNCHANGED touched
         \/ \E r : touched' = [touched EXCEPT ![e] = @ \ {r}],
         \A x \in Program \ {e} : \A q : TempName(x, q) \in DOMAIN temps =>
           /\ TempName(x, q) \in DOMAIN temps'
             /\ temps'[TempName(x, q)] = temps[TempName(x, q)]
  PROVE  TypeInv' /\ Others(e)
<1>1. /\ pc' \in [Program -> Places] /\ job' = [x \in Program |-> job'[x]]
      /\ \A x \in Program \ {e} : pc'[x] = pc[x] /\ job'[x] = job[x]
  BY GotoBecomes
<1>2. /\ touched' \in [Program -> SUBSET Region]
      /\ \A x \in Program \ {e} : touched'[x] = touched[x]
  BY DEF TypeInv
<1> QED BY <1>1, <1>2 DEF TypeInv, Quiet, Others

(* A conversion gives every chunk it keeps the shape of the target, and has *)
(* dropped every section outside it (Translator.Chunk).                     *)
LEMMA ConvertedIsShaped ==
  ASSUME NEW e \in Program, IsConversion(e), job[e].plan \subseteq DOMAIN Observed, NEW r,
         NEW c \in DOMAIN Prepared(e, r)
  PROVE  Shaped(Prepared(e, r)[c])
<1> DEFINE k == Target(e)
           all == TranslateAll(k, Observed, Mine(e, r))
<1>1. PICK t : t = TranslateChunk(k, Observed[c])
  OBVIOUS
<1>2. /\ c \in Mine(e, r) /\ t.keep
      /\ Prepared(e, r)[c] = IF k.keepEntities THEN t.out ELSE [t.out EXCEPT !.entities = {}]
  <2>1. DOMAIN all = Mine(e, r) /\ \A d \in Mine(e, r) : all[d] = TranslateChunk(k, Observed[d])
    BY DEF TranslateAll
  <2>2. Prepared(e, r) = Kept(k, all)
    BY DEF Prepared, Converted
  <2> HIDE DEF all
  <2>3. c \in Mine(e, r) /\ all[c] = t /\ t.keep
    BY <1>1, <2>1, <2>2 DEF Kept
  <2>4. c \in {d \in DOMAIN all : all[d].keep}
    BY <2>1, <2>3
  <2> QED BY <2>2, <2>3, <2>4 DEF Kept
<1>3. PICK from : /\ from = Observed[c]
                  /\ from = [blocks |-> from.blocks, biomes |-> from.biomes,
                             entities |-> from.entities, shape |-> from.shape]
  BY <1>2, WorldAssumption DEF Mine, Component
<1>4. PICK blocks, biomes :
        /\ blocks = TranslateLayer(k, "blocks", from.blocks)
        /\ t = Translated(k, from, blocks, biomes)
  BY <1>1, <1>3 DEF TranslateChunk
<1>5. DOMAIN blocks.out \subseteq k.ys
  BY <1>4 DEF TranslateLayer, TranslateFitting
<1>6. /\ DOMAIN blocks.out # {}
      /\ t.out = [from EXCEPT !.blocks = blocks.out, !.biomes = biomes.out, !.shape = k.ys]
  BY <1>2, <1>4 DEF Translated
<1>7. /\ t.out.blocks = blocks.out /\ t.out.shape = k.ys
      /\ t.out = [blocks |-> t.out.blocks, biomes |-> t.out.biomes,
                  entities |-> t.out.entities, shape |-> t.out.shape]
  BY <1>3, <1>6
<1>8. Prepared(e, r)[c].blocks = blocks.out /\ Prepared(e, r)[c].shape = k.ys
  <2>1. PICK u : u = t.out
    OBVIOUS
  <2> HIDE DEF k
  <2> QED BY <1>2, <1>7, <2>1
<1> QED BY <1>5, <1>6, <1>8 DEF Shaped

(* Of the reasons to stop in the middle, each is a cause.                   *)
LEMMA StopPreparing ==
  ASSUME TypeInv, NEW e \in Program, Inv(e), pc[e] = "prepare", NEW o, Stop(e, o),
         UNCHANGED <<stored, malformed, files, temps, touched>>,
         Cause(e, o)
  PROVE  TypeInv' /\ Inv(e)' /\ Others(e)
<1>1. TypeInv' /\ Others(e)
  BY OthersQuiet DEF Stop, Places, Others
<1>2. Inv(e)'
  BY StopKeeps
<1> QED BY <1>1, <1>2

(* A region with no chunk left is passed over,                              *)
LEMMA SkipKeeps ==
  ASSUME TypeInv, NEW e \in Program, Inv(e), pc[e] = "prepare", job[e].at <= Regions,
         Goto(e, "prepare", After(e, Count(e))),
         UNCHANGED <<stored, malformed, files, temps, touched>>
  PROVE  TypeInv' /\ Inv(e)' /\ Others(e)
<1>1. "prepare" \in Places
  BY DEF Places
<1>2. TypeInv' /\ Others(e)
  BY <1>1, OthersQuiet DEF Others
<1>3. pc'[e] = "prepare" /\ job'[e] = After(e, Count(e))
  BY <1>1, GotoBecomes
<1>4. /\ job[e].outcome = "none" /\ JobInv(e) /\ IsJob(job[e])
      /\ \A q \in Region : q >= job[e].at => Adoptable(e, q)
  BY DEF Inv, JobInv, AdoptInv
<1>5. /\ IsJob(Count(e)) /\ Count(e).request = job[e].request
      /\ Count(e).plan = job[e].plan /\ Count(e).outcome = "none"
      /\ Count(e).written = job[e].written
  BY <1>4, CountKeeps
<1>6. PICK k : /\ k = After(e, Count(e)) /\ IsJob(k)
               /\ k.request = job[e].request /\ k.plan = job[e].plan
               /\ k.outcome = "none"
               /\ k.at \in 1..(Regions + 1) /\ k.at > job[e].at
               /\ k.at <= Regions => k.at \in Wanted(k.plan)
  BY <1>4, <1>5, AfterIs
<1>7. job'[e] = k /\ SameTask(e)
  BY <1>3, <1>6 DEF SameTask
<1>8. IsConversion(e)' <=> IsConversion(e)
  BY <1>7, TaskSays
<1>9. JobInv(e)'
  BY <1>3, <1>4, <1>6, <1>7, <1>8 DEF JobInv
<1>10. AdoptInv(e)'
  <2> SUFFICES ASSUME NEW q \in Region, q >= k.at PROVE Adoptable(e, q)'
    BY <1>3, <1>7 DEF AdoptInv
  <2>1. CheckAdoptable(files[q], q, Promised(e, q))'
          = CheckAdoptable(files[q], q, Promised(e, q))
    BY <1>7, TaskSays
  <2>2. q >= job[e].at
    BY <1>4, <1>6, WorldAssumption DEF JobInv, Region
  <2> QED BY <1>4, <1>6, <1>7, <2>1, <2>2 DEF Adoptable
<1>11. KeepInv(e)' /\ StopInv(e)'
  BY <1>3, <1>6, <1>7 DEF KeepInv, StopInv
<1>12. DecodeInv(e)'
  BY <1>3, <1>7, DecodedStays DEF Inv, Late
<1> QED BY <1>2, <1>9, <1>10, <1>11, <1>12 DEF Inv

(* and any other is written to a temporary file, from the file as it is now.*)
LEMMA WriteKeeps ==
  ASSUME TypeInv, NEW e \in Program, Inv(e), pc[e] = "prepare", job[e].at <= Regions,
         NEW adopted, adopted = Adopt(Payload(e, job[e].at), files[job[e].at], job[e].at),
         adopted.ok, WriteTemp(e, job[e].at, adopted), UNCHANGED <<stored, malformed, files>>
  PROVE  TypeInv' /\ Inv(e)' /\ Others(e)
<1> DEFINE r == job[e].at
           own == Payload(e, r)
           t == TempName(e, r)
<1>1. /\ Goto(e, "rename", Count(e)) /\ "rename" \in Places
      /\ temps' = [u \in (DOMAIN temps) \cup {t} |->
                    IF u = t THEN adopted.file ELSE temps[u]]
      /\ touched' = [touched EXCEPT ![e] = @ \ {r}]
  BY DEF WriteTemp, Places
<1>2. \A x \in Program \ {e} : \A q : TempName(x, q) # t
  BY DEF TempName
<1>3. TypeInv' /\ Others(e)
  BY <1>1, <1>2, OthersKeepTemps
<1>4. pc'[e] = "rename" /\ job'[e] = Count(e)
  BY <1>1, GotoBecomes
<1>5. /\ job[e].outcome = "none" /\ JobInv(e) /\ IsJob(job[e])
      /\ \A q \in Region : q >= r => Adoptable(e, q)
      /\ r \in Region
  BY WorldAssumption DEF Inv, JobInv, AdoptInv, Region
<1>6. PICK k : /\ k = Count(e) /\ IsJob(k) /\ k.request = job[e].request
               /\ k.plan = job[e].plan /\ k.at = r /\ k.outcome = "none"
               /\ k.written = job[e].written
  BY <1>5, CountKeeps
<1>7. job'[e] = k /\ SameTask(e)
  BY <1>4, <1>6 DEF SameTask
<1>8. /\ IsConversion(e)' <=> IsConversion(e)
      /\ \A q : Payload(e, q)' = Payload(e, q)
      /\ \A q : Promised(e, q)' = Promised(e, q)
  BY <1>7, TaskSays
<1>9. JobInv(e)'
  BY <1>4, <1>5, <1>6, <1>7, <1>8 DEF JobInv
<1>10. touched'[e] = touched[e] \ {r} /\ files' = files
  BY <1>1 DEF TypeInv
<1>11. AdoptInv(e)'
  <2> SUFFICES ASSUME NEW q \in Region, q > r PROVE Adoptable(e, q)'
    BY <1>4, <1>6, <1>7 DEF AdoptInv
  <2>1. CheckAdoptable(files[q], q, Promised(e, q))'
          = CheckAdoptable(files[q], q, Promised(e, q))
    BY <1>8, <1>10
  <2>2. q >= r /\ q # r
    BY <1>5, WorldAssumption DEF Region
  <2> QED BY <1>5, <1>6, <1>7, <1>10, <2>1, <2>2 DEF Adoptable
<1>12. KeepInv(e)'
  <2>1. /\ \A s \in DOMAIN own : adopted.file[s] = own[s]
        /\ KeepsOthers(r, own, files[r], adopted.file)
    <3>1. job[e].plan \subseteq Chunk
      BY <1>5, WorldAssumption DEF JobInv
    <3>2. DOMAIN own \subseteq Slots(r)
      <4>1. DOMAIN own \subseteq PromisedAll(e, r)
        BY PayloadIsPlanned
      <4>2. PromisedAll(e, r) \subseteq Slots(r)
        BY <3>1 DEF PromisedAll, Mine, Slots
      <4> QED BY <4>1, <4>2
    <3> HIDE DEF own, r
    <3> QED BY <3>2, AdoptKeeps DEF own, r
  <2>2. /\ TempName(e, job[e].at)' = t /\ job'[e].at = r
        /\ t \in DOMAIN temps' /\ temps'[t] = adopted.file
    BY <1>1, <1>6, <1>7 DEF TempName
  <2>3. Built(e)' = adopted.file /\ Payload(e, job[e].at)' = own
    BY <1>8, <2>2 DEF Built
  <2>4. KeepsOthers(job[e].at, Payload(e, job[e].at), files[job[e].at], Built(e))'
    <3>1. \A s \in Slots(r) :
            adopted.file[s] = IF s \in DOMAIN own THEN own[s]
                              ELSE IF files[r] \in NothingToKeep THEN Empty ELSE files[r][s]
      BY <2>1 DEF KeepsOthers
    <3> HIDE DEF own, r
    <3> QED BY <1>10, <2>2, <2>3, <3>1 DEF KeepsOthers
  <2> QED BY <2>1, <2>2, <2>3, <2>4 DEF KeepInv
<1>13. StopInv(e)'
  BY <1>6, <1>7 DEF StopInv
<1>14. DecodeInv(e)'
  BY <1>4, <1>7, DecodedStays DEF Inv, Late
<1> QED BY <1>3, <1>9, <1>11, <1>12, <1>13, <1>14 DEF Inv

(* A region is prepared.                                                    *)
LEMMA PrepareKeeps ==
  ASSUME TypeInv, NEW e \in Program, Inv(e), Prepare(e)
  PROVE  TypeInv' /\ Inv(e)' /\ Others(e)
<1> DEFINE r == job[e].at
           adopted == Adopt(Payload(e, r), files[r], r)
<1>1. /\ pc[e] = "prepare" /\ r <= Regions /\ UNCHANGED <<stored, malformed, files>>
      /\ \/ ~Loads(e) /\ LoadFails(e) /\ UNCHANGED <<temps, touched>>
         \/ ~Builds(e) /\ Stop(e, "unbuildable") /\ UNCHANGED <<temps, touched>>
         \/ Goto(e, "prepare", After(e, Count(e))) /\ UNCHANGED <<temps, touched>>
         \/ WriteTemp(e, r, adopted)
  BY DEF Prepare, Build, Archive
<1>2. CASE ~Loads(e) /\ LoadFails(e) /\ UNCHANGED <<temps, touched>>
  <2>1. PICK o : Stop(e, o) /\ o = IF Loadable(e) THEN "undecodable" ELSE "unloadable"
    BY <1>2 DEF LoadFails
  <2>2. Cause(e, o)
    <3>1. CASE ~Loadable(e)
      BY <2>1, <3>1 DEF Loadable, Mine, Cause
    <3>2. CASE Loadable(e)
      <4>1. Mine(e, r) \cap malformed # {} /\ o = "undecodable"
        BY <1>2, <2>1, <3>2 DEF Loads, Decodable
      <4>2. r \in Region
        BY <1>1, WorldAssumption DEF Inv, JobInv, Region
      <4>3. ~DecidesFirst(e)
        BY <1>1, <4>1, <4>2 DEF Inv, DecodeInv, Seen, Late
      <4> QED BY <4>1, <4>3 DEF Cause
    <3> QED BY <3>1, <3>2
  <2> QED BY <1>1, <1>2, <2>1, <2>2, StopPreparing
<1>6. CASE ~Builds(e) /\ Stop(e, "unbuildable") /\ UNCHANGED <<temps, touched>>
  <2>1. PICK c \in DOMAIN Prepared(e, r) : ~CanBuild(Prepared(e, r)[c])
    BY <1>6 DEF Builds
  <2>2. IsConversion(e) => Shaped(Prepared(e, r)[c])
    BY <2>1, ConvertedIsShaped DEF Inv, JobInv
  <2>3. Unfitting(e, Prepared(e, r)[c])
    BY <2>1, <2>2 DEF CanBuild, Unfitting
  <2>4. Cause(e, "unbuildable")
    BY <2>3 DEF Cause
  <2> QED BY <1>1, <1>6, <2>4, StopPreparing
<1>3. CASE Goto(e, "prepare", After(e, Count(e))) /\ UNCHANGED <<temps, touched>>
  BY <1>1, <1>3, SkipKeeps
<1>4. CASE WriteTemp(e, r, adopted) /\ adopted.ok
  BY <1>1, <1>4, WriteKeeps
<1>5. CASE WriteTemp(e, r, adopted) /\ ~adopted.ok
  <2>1. Stop(e, "changed") /\ UNCHANGED <<temps, touched>>
    BY <1>5 DEF WriteTemp
  <2>2. r \in touched[e]
    <3> SUFFICES ASSUME r \notin touched[e] PROVE FALSE
      OBVIOUS
    <3>1. r \in Region /\ r \in Wanted(job[e].plan) /\ r >= r
      BY <1>1, WorldAssumption DEF Inv, JobInv, Region
    <3>2. CheckAdoptable(files[r], r, Promised(e, r))
      BY <1>1, <3>1 DEF Inv, AdoptInv, Adoptable
    <3>3. e = Window => ~IsConversion(e)
      BY DEF Inv, JobInv
    <3> QED BY <1>5, <3>2, <3>3, AdoptableIsAdopted
  <2>3. Cause(e, "changed")
    BY <2>2 DEF Cause
  <2> QED BY <1>1, <2>1, <2>3, StopPreparing
<1> QED BY <1>1, <1>2, <1>3, <1>4, <1>5, <1>6

(* A region file is replaced: for everybody else that is somebody writing it.*)
LEMMA RenameKeeps ==
  ASSUME TypeInv, NEW e \in Program, Inv(e), Rename(e)
  PROVE  TypeInv' /\ Inv(e)' /\ Others(e)
<1> DEFINE r == job[e].at
           t == TempName(e, r)
<1>1. PICK j : j = job[e] /\ IsJob(j) /\ JobInv(e)
  BY DEF Inv, JobInv
<1> DEFINE h == [j EXCEPT !.written = @ \cup {r}]
<1>2. /\ pc[e] = "rename" /\ UNCHANGED <<stored, malformed>>
      /\ files' = [files EXCEPT ![r] = temps[t]]
      /\ temps' = [u \in (DOMAIN temps) \ {t} |-> temps[u]]
      /\ Goto(e, "prepare", After(e, h)) /\ "prepare" \in Places
      /\ touched' = [x \in Program |-> IF x = e THEN touched[x] ELSE touched[x] \cup {r}]
  BY <1>1 DEF Rename, Without, Archive, Places
<1>3. r \in Region /\ j.outcome = "none" /\ r <= Regions
  BY <1>1, <1>2, WorldAssumption DEF JobInv, Region
<1>4. \A x \in Program \ {e} : \A q : TempName(x, q) # t
  BY DEF TempName
<1>5. IsJob(h) /\ h.plan = j.plan /\ h.request = j.request /\ h.outcome = "none"
  <2>1. PICK k : k = h
    OBVIOUS
  <2>2. IsJob(k) /\ k.plan = j.plan /\ k.request = j.request /\ k.outcome = "none"
    BY <1>1, <1>3, <2>1 DEF IsJob
  <2> QED BY <2>1, <2>2
<1> HIDE DEF h
<1>6. PICK k : /\ k = After(e, h) /\ IsJob(k)
               /\ k.request = job[e].request /\ k.plan = job[e].plan
               /\ k.outcome = "none"
               /\ k.at \in 1..(Regions + 1) /\ k.at > r
               /\ k.at <= Regions => k.at \in Wanted(k.plan)
  BY <1>1, <1>2, <1>3, <1>5, AfterIs
<1>7. /\ pc' \in [Program -> Places] /\ job' = [x \in Program |-> job'[x]]
      /\ pc'[e] = "prepare" /\ job'[e] = k
      /\ \A x \in Program \ {e} : pc'[x] = pc[x] /\ job'[x] = job[x]
  BY <1>2, <1>6, GotoBecomes
<1>8. /\ files' = [q \in Region |-> files'[q]]
      /\ \A q \in Region \ {r} : files'[q] = files[q]
  BY <1>2 DEF TypeInv
<1>9. /\ touched' \in [Program -> SUBSET Region] /\ touched'[e] = touched[e]
      /\ \A x \in Program \ {e} : touched'[x] = touched[x] \cup {r}
  BY <1>2, <1>3 DEF TypeInv
<1>10. \A u \in DOMAIN temps : u # t => u \in DOMAIN temps' /\ temps'[u] = temps[u]
  BY <1>2
<1>11. TypeInv' /\ Others(e)
  <2>1. TypeInv'
    BY <1>2, <1>7, <1>8, <1>9 DEF TypeInv
  <2>2. ASSUME NEW x \in Program \ {e} PROVE Quiet(x)
    <3>1. \A q \in Region : TempName(x, q) \in DOMAIN temps =>
            /\ TempName(x, q) \in DOMAIN temps'
             /\ temps'[TempName(x, q)] = temps[TempName(x, q)]
      BY <1>4, <1>10
    <3>2. \A q \in Region \ touched'[x] : files'[q] = files[q]
      BY <1>8, <1>9
    <3> QED BY <1>2, <1>7, <1>9, <3>1, <3>2 DEF Quiet
  <2> QED BY <2>1, <2>2 DEF Others
<1>12. SameTask(e)
  BY <1>6, <1>7 DEF SameTask
<1>13. /\ IsConversion(e)' <=> IsConversion(e)
       /\ \A q : Promised(e, q)' = Promised(e, q)
  BY <1>12, TaskSays
<1>14. JobInv(e)'
  BY <1>1, <1>6, <1>7, <1>13 DEF JobInv
<1>15. AdoptInv(e)'
  <2> SUFFICES ASSUME NEW q \in Region, q >= k.at PROVE Adoptable(e, q)'
    BY <1>7 DEF AdoptInv
  <2>1. q > r /\ q # r
    BY <1>3, <1>6, WorldAssumption DEF Region
  <2>2. CheckAdoptable(files[q], q, Promised(e, q))'
          = CheckAdoptable(files[q], q, Promised(e, q))
    BY <1>8, <1>13, <2>1
  <2>3. Adoptable(e, q)
    BY <1>2, <2>1 DEF Inv, AdoptInv
  <2> QED BY <1>6, <1>7, <1>9, <2>2, <2>3 DEF Adoptable
<1>16. KeepInv(e)' /\ StopInv(e)'
  BY <1>6, <1>7 DEF KeepInv, StopInv
<1>17. DecodeInv(e)'
  BY <1>2, <1>7, <1>12, DecodedStays DEF Inv, Late
<1> QED BY <1>11, <1>14, <1>15, <1>16, <1>17 DEF Inv

(* The rename fails.                                                        *)
LEMMA WriteFailsKeeps ==
  ASSUME TypeInv, NEW e \in Program, Inv(e), WriteFails(e)
  PROVE  TypeInv' /\ Inv(e)' /\ Others(e)
<1> DEFINE t == TempName(e, job[e].at)
<1>1. /\ pc[e] = "rename" /\ Stop(e, "not written")
      /\ UNCHANGED <<stored, malformed, files, touched>>
      /\ temps' = [u \in (DOMAIN temps) \ {t} |-> temps[u]]
  BY DEF WriteFails, Without, Archive
<1>2. \A x \in Program \ {e} : \A q : TempName(x, q) # t
  BY DEF TempName
<1>3. TypeInv' /\ Others(e)
  BY <1>1, <1>2, OthersKeepTemps DEF Stop, Places
<1> QED BY <1>1, <1>3, StopKeeps

(* The game writes a region file.                                           *)
LEMMA PlayIsQuiet ==
  ASSUME TypeInv, NEW r \in Region, NEW s, NEW frame, Play(r, s, frame)
  PROVE  TypeInv' /\ \A e \in Program : Quiet(e)
<1>1. /\ files' = [files EXCEPT ![r] = [files[r] EXCEPT ![s] = frame]]
      /\ touched' = [e \in Program |-> touched[e] \cup {r}]
      /\ UNCHANGED <<stored, malformed, temps, pc, job>>
  BY DEF Play, Archive
<1>2. files' = [q \in Region |-> files'[q]] /\ \A q \in Region \ {r} : files'[q] = files[q]
  BY <1>1 DEF TypeInv
<1>3. /\ touched' \in [Program -> SUBSET Region]
      /\ \A e \in Program : touched'[e] = touched[e] \cup {r}
  BY <1>1 DEF TypeInv
<1> QED BY <1>1, <1>2, <1>3 DEF TypeInv, Quiet

(* A step of the archive writes none.                                       *)
LEMMA NobodyWrites ==
  ASSUME TypeInv, UNCHANGED <<malformed, files, temps, pc, job, touched>>,
         stored' \subseteq stored
  PROVE  TypeInv' /\ \A e \in Program : Quiet(e)
BY DEF TypeInv, Quiet

(* A program that has not begun relies on nothing.                          *)
LEMMA InitSays ==
  ASSUME Init
  PROVE  IInv
<1>1. TypeInv
  BY WorldAssumption DEF Init, TypeInv, Places, Region
<1>2. ASSUME NEW e \in Program PROVE Inv(e)
  <2>1. pc[e] = "idle" /\ job[e] = NoJob
    BY DEF Init
  <2>2. PICK j : j = job[e] /\ IsJob(j) /\ j.plan = {} /\ j.written = {} /\ j.outcome = "none"
                 /\ j.request.conversion = NoConversion
    BY <2>1 DEF NoJob, IsJob
  <2>3. JobInv(e)
    BY <2>1, <2>2 DEF JobInv, IsConversion
  <2>4. AdoptInv(e) /\ KeepInv(e) /\ DecodeInv(e) /\ StopInv(e)
    BY <2>1, <2>2 DEF AdoptInv, KeepInv, DecodeInv, Late, StopInv
  <2> QED BY <2>3, <2>4 DEF Inv
<1> QED BY <1>1, <1>2 DEF IInv

(* A step of one program keeps the invariant when it keeps that program's own.*)
LEMMA OneProgram ==
  ASSUME IInv, NEW e \in Program, TypeInv', Inv(e)', Others(e)
  PROVE  IInv'
BY QuietKeeps DEF IInv, Others

(* Every step keeps the invariant.                                          *)
LEMMA NextKeeps ==
  ASSUME IInv, [Next]_vars
  PROVE  IInv'
<1> USE DEF IInv
<1>1. ASSUME NEW e \in Program, NEW request \in Requests, CmdExport(e, request)
      PROVE  IInv'
  <2>1. Begin(e, request, "check") /\ e # Window /\ request.conversion = NoConversion
    BY <1>1 DEF CmdExport
  <2> QED BY <2>1, BeginKeeps, OneProgram DEF Others
<1>2. ASSUME NEW e \in Program, NEW request \in Requests, CmdConvert(e, request)
      PROVE  IInv'
  <2>1. /\ e # Window
        /\ \E place \in {"rules", "decide", "check"} :
             /\ Begin(e, request, place)
             /\ place = "check" => ~CanRefuse(request.conversion)
    BY <1>2 DEF CmdConvert
  <2> QED BY <2>1, BeginKeeps, OneProgram DEF Others
<1>3. ASSUME NEW e \in Program, BadRules(e) PROVE IInv'
  BY <1>3, BadRulesKeeps, OneProgram
<1>4. ASSUME NEW e \in Program, Decide(e) PROVE IInv'
  BY <1>4, DecideKeeps, OneProgram
<1>5. ASSUME NEW e \in Program, Decided(e) PROVE IInv'
  BY <1>5, DecidedKeeps, OneProgram
<1>6. ASSUME NEW e \in Program, Check(e) PROVE IInv'
  BY <1>6, CheckKeeps, OneProgram
<1>7. ASSUME NEW e \in Program, Validate1(e) PROVE IInv'
  BY <1>7, ValidateKeeps, OneProgram
<1>8. ASSUME NEW e \in Program, Validated(e) PROVE IInv'
  BY <1>8, ValidatedKeeps, OneProgram
<1>9. ASSUME NEW e \in Program, Prepare(e) PROVE IInv'
  BY <1>9, PrepareKeeps, OneProgram
<1>10. ASSUME NEW e \in Program, Rename(e) PROVE IInv'
  BY <1>10, RenameKeeps, OneProgram
<1>11. ASSUME NEW e \in Program, WriteFails(e) PROVE IInv'
  BY <1>11, WriteFailsKeeps, OneProgram
<1>12. ASSUME NEW e \in Program, Finish(e) PROVE IInv'
  BY <1>12, FinishKeeps, OneProgram
<1>13. ASSUME NEW e \in Program, Die(e) PROVE IInv'
  BY <1>13, DieKeeps, OneProgram
<1>14. CASE HandleExport
  <2> DEFINE request == [overwrite |-> TRUE, conversion |-> NoConversion]
  <2>1. Begin(Window, request, "check") /\ request.conversion = NoConversion
    BY <1>14 DEF HandleExport
  <2> HIDE DEF request
  <2>2. Window \in Program
    BY WorldAssumption
  <2> QED BY <2>1, <2>2, BeginKeeps, OneProgram DEF Others
<1>15. CASE Declare
  <2>1. UNCHANGED <<malformed, files, temps, pc, job, touched>> /\ stored' \subseteq stored
    BY <1>15 DEF Declare, World
  <2> QED BY <2>1, NobodyWrites, QuietKeeps
<1>16. ASSUME NEW scope, Withhold(scope) PROVE IInv'
  <2>1. UNCHANGED <<malformed, files, temps, pc, job, touched>> /\ stored' \subseteq stored
    BY <1>16 DEF Withhold, World
  <2> QED BY <2>1, NobodyWrites, QuietKeeps
<1>17. CASE Purge
  <2>1. UNCHANGED <<malformed, files, temps, pc, job, touched>> /\ stored' \subseteq stored
    BY <1>17 DEF Purge, World
  <2> QED BY <2>1, NobodyWrites, QuietKeeps
<1>18. ASSUME NEW r \in Region, NEW s, NEW frame, Play(r, s, frame) PROVE IInv'
  BY <1>18, PlayIsQuiet, QuietKeeps
<1>19. CASE UNCHANGED vars
  <2>1. UNCHANGED <<malformed, files, temps, pc, job, touched>> /\ stored' \subseteq stored
    BY <1>19 DEF vars
  <2> QED BY <2>1, NobodyWrites, QuietKeeps
<1> QED
  BY <1>1, <1>2, <1>3, <1>4, <1>5, <1>6, <1>7, <1>8, <1>9, <1>10, <1>11, <1>12, <1>13,
     <1>14, <1>15, <1>16, <1>17, <1>18, <1>19 DEF Next

(* The invariant holds.                                                     *)
THEOREM IInvCorrect == Spec => []IInv
<1>1. Init => IInv
  BY InitSays
<1>2. IInv /\ [Next]_vars => IInv'
  BY NextKeeps
<1> QED BY <1>1, <1>2, PTL DEF Spec

(* An export that gives up with region files already written does so for what*)
(* it could not have known or had not looked at, whatever was asked for, however*)
(* many programs export into the world and whenever the game writes it      *)
(* (GivesUpForCause, ExportByRegion).                                       *)
THEOREM GivesUpForCauseCorrect == Spec => []GivesUpForCause
<1>1. IInv => GivesUpForCause
  BY DEF IInv, Inv, StopInv, Cause, GivesUpForCause
<1> QED BY <1>1, IInvCorrect, PTL

(* Only the rename adds to the regions a program has written.               *)
LEMMA MovesIsRename ==
  ASSUME IInv, [Next]_vars, NEW e \in Program, Moves(e)
  PROVE  Rename(e)
<1>1. /\ pc[e] = "rename" /\ job'[e].written # job[e].written
      /\ IsJob(job[e]) /\ job = [x \in Program |-> job[x]]
  BY DEF Moves, IInv, Inv, JobInv, TypeInv
<1>2. ASSUME NEW x \in Program, NEW place, NEW held, Goto(x, place, held), x # e
      PROVE  FALSE
  BY <1>1, <1>2 DEF Goto
<1>3. ASSUME NEW x \in Program, NEW o, Stop(x, o) PROVE FALSE
  <2>1. PICK j, k : j = job[x] /\ k = [j EXCEPT !.outcome = o] /\ Goto(x, "done", k)
    BY <1>3 DEF Stop
  <2>2. x = e
    BY <1>2, <2>1
  <2>3. job'[e] = k
    BY <1>1, <2>1, <2>2 DEF Goto
  <2>4. IsJob(j)
    BY <1>1, <2>1, <2>2
  <2>5. k.written = j.written
    BY <2>1, <2>4 DEF IsJob
  <2> QED BY <1>1, <2>1, <2>2, <2>3, <2>5
<1>4. ASSUME job' = job PROVE FALSE
  BY <1>1, <1>4
<1>5. ASSUME NEW x \in Program, NEW request, NEW place, Begin(x, request, place) PROVE FALSE
  <2>1. pc[x] = "idle" /\ \E to, held : Goto(x, to, held)
    BY <1>5 DEF Begin
  <2> QED BY <1>1, <1>2, <2>1
<1>6. ASSUME NEW x \in Program, BadRules(x) PROVE FALSE
  BY <1>3, <1>6 DEF BadRules
<1>7. ASSUME NEW x \in Program,
             Decide(x) \/ Decided(x) \/ Check(x) \/ Validate1(x) \/ Validated(x)
      PROVE  FALSE
  <2>1. pc[x] # "rename" /\ ((\E o : Stop(x, o)) \/ \E to, held : Goto(x, to, held))
    BY <1>7 DEF LoadFails, Decide, Decided, Check, Validate1, Validated
  <2> QED BY <1>1, <1>2, <1>3, <2>1
<1>8. ASSUME NEW x \in Program, Prepare(x) PROVE FALSE
  <2>1. pc[x] # "rename" /\ ((\E o : Stop(x, o)) \/ \E to, held : Goto(x, to, held))
    BY <1>8 DEF Prepare, LoadFails, Build, WriteTemp
  <2> QED BY <1>1, <1>2, <1>3, <2>1
<1>9. ASSUME NEW x \in Program, Finish(x) PROVE FALSE
  <2>1. pc[x] # "rename" /\ \E to, held : Goto(x, to, held)
    BY <1>9 DEF Finish
  <2> QED BY <1>1, <1>2, <2>1
<1>10. ASSUME NEW x \in Program, WriteFails(x) \/ Die(x) PROVE FALSE
  BY <1>3, <1>10 DEF WriteFails, Die
<1>11. ASSUME NEW x \in Program, Rename(x) PROVE Rename(e)
  <2>1. \E to, held : Goto(x, to, held)
    BY <1>11 DEF Rename
  <2> QED BY <1>2, <1>11, <2>1
<1>12. ASSUME NEW x \in Program, NEW request,
              CmdExport(x, request) \/ CmdConvert(x, request)
       PROVE  FALSE
  <2>1. \E place : Begin(x, request, place)
    BY <1>12 DEF CmdExport, CmdConvert
  <2> QED BY <1>5, <2>1
<1>13. ASSUME HandleExport PROVE FALSE
  BY <1>5, <1>13, WorldAssumption DEF HandleExport
<1>14. ASSUME Declare \/ Purge \/ (\E scope : Withhold(scope))
              \/ (\E r, s, frame : Play(r, s, frame)) \/ UNCHANGED vars
       PROVE  FALSE
  <2>1. job' = job
    BY <1>14 DEF Declare, Purge, Withhold, Play, vars
  <2> QED BY <1>4, <2>1
<1> QED BY <1>6, <1>7, <1>8, <1>9, <1>10, <1>11, <1>12, <1>13, <1>14 DEF Next

(* A region file is replaced by the program's own chunks and, in every other*)
(* slot, what was there when nobody wrote it since it was read              *)
(* (OthersChunksKept, Region.Adopt).                                        *)
THEOREM OthersChunksKeptCorrect == Spec => OthersChunksKept
<1>1. IInv /\ [Next]_vars =>
        [LET Keeps(r, own, before, after) ==
               \A s \in Slots(r) :
                 after[s] = IF s \in DOMAIN own THEN own[s]
                            ELSE IF before \in NothingToKeep THEN Empty ELSE before[s]
             Writes(own, after) == \A s \in DOMAIN own : after[s] = own[s]
         IN  \A e \in Program : Moves(e) =>
               IF job[e].at \in touched[e]
               THEN Writes(Payload(e, job[e].at), files'[job[e].at])
               ELSE Keeps(job[e].at, Payload(e, job[e].at), files[job[e].at],
                          files'[job[e].at])]_vars
  <2> SUFFICES ASSUME IInv, [Next]_vars, NEW e \in Program, Moves(e)
               PROVE  IF job[e].at \in touched[e]
                      THEN \A s \in DOMAIN Payload(e, job[e].at) :
                             files'[job[e].at][s] = Payload(e, job[e].at)[s]
                      ELSE KeepsOthers(job[e].at, Payload(e, job[e].at), files[job[e].at],
                                 files'[job[e].at])
    BY DEF KeepsOthers
  <2>1. Rename(e)
    BY MovesIsRename
  <2>2. /\ TypeInv /\ pc[e] = "rename" /\ job[e].at \in Region
        /\ files' = [files EXCEPT ![job[e].at] = Built(e)]
    BY <2>1, WorldAssumption DEF IInv, Inv, JobInv, Rename, Built, Region
  <2>3. files'[job[e].at] = Built(e)
    BY <2>2 DEF TypeInv
  <2> QED BY <2>2, <2>3 DEF IInv, Inv, KeepInv
<1> QED BY <1>1, IInvCorrect, PTL DEF Spec, OthersChunksKept


-----------------------------------------------------------------------------
(* Sums of losses.  Losses folds over a set of chunks; the function the fold*)
(* is defined by exists for finite sets, by a smallest set without one.     *)

(* One step of summing losses up, over a set of weighed things.             *)
SumStep(w, s, g) ==
  IF s = {} THEN NoLoss
  ELSE LET x == CHOOSE y \in s : TRUE IN Add(w[x], g[s \ {x}])

(* A table of the sums over the subsets of a set.                           *)
IsSum(w, S, g) == g = [s \in SUBSET S |-> SumStep(w, s, g)]

(* The table of a set is the only one, and holds those of its subsets.      *)
LEMMA SumUnique ==
  ASSUME NEW w, NEW S, IsFiniteSet(S), NEW g, IsSum(w, S, g),
         NEW T \in SUBSET S, NEW h, IsSum(w, T, h)
  PROVE  \A s \in SUBSET T : g[s] = h[s]
<1> DEFINE F == {s \in SUBSET T : g[s] # h[s]}
<1> SUFFICES ASSUME F # {} PROVE FALSE
  OBVIOUS
<1>1. IsFiniteSet(T)
  BY FS_Subset
<1>2. F \subseteq FiniteSubsetsOf(T)
  BY <1>1, FS_FiniteSubsetsOfFinite
<1>3. PICK s \in F : \A t \in F : ~(<<t, s>> \in StrictSubsetOrdering(T))
  <2> HIDE DEF F
  <2> QED BY <1>2, FS_StrictSubsetOrderingWellFounded, WFMin
<1>4. g[s] = SumStep(w, s, g) /\ h[s] = SumStep(w, s, h)
  BY DEF IsSum
<1>5. s # {}
  BY <1>4 DEF SumStep
<1> DEFINE x == CHOOSE y \in s : TRUE
<1>6. x \in s
  BY <1>5
<1>7. g[s \ {x}] = h[s \ {x}]
  <2>1. <<s \ {x}, s>> \in StrictSubsetOrdering(T)
    BY <1>6 DEF StrictSubsetOrdering
  <2> QED BY <1>3, <2>1
<1> QED BY <1>4, <1>5, <1>7 DEF SumStep

(* There is one for every finite set.                                       *)
LEMMA SumExists ==
  ASSUME NEW w, NEW S, IsFiniteSet(S)
  PROVE  \E g : IsSum(w, S, g)
<1> DEFINE F == {s \in SUBSET S : ~\E g : IsSum(w, s, g)}
<1> SUFFICES ASSUME F # {} PROVE FALSE
  OBVIOUS
<1>1. F \subseteq FiniteSubsetsOf(S)
  BY FS_FiniteSubsetsOfFinite
<1>2. PICK s \in F : \A t \in F : ~(<<t, s>> \in StrictSubsetOrdering(S))
  <2> HIDE DEF F
  <2> QED BY <1>1, FS_StrictSubsetOrderingWellFounded, WFMin
<1> DEFINE G(t) == CHOOSE g : IsSum(w, t, g)
           x == CHOOSE y \in s : TRUE
           f == [t \in SUBSET s |->
                   IF t = s
                   THEN IF s = {} THEN NoLoss ELSE Add(w[x], G(s \ {x})[s \ {x}])
                   ELSE G(t)[t]]
<1>3. \A t \in SUBSET s : t # s => IsSum(w, t, G(t))
  <2> TAKE t \in SUBSET s
  <2> HAVE t # s
  <2>1. <<t, s>> \in StrictSubsetOrdering(S)
    BY DEF StrictSubsetOrdering
  <2>2. \E g : IsSum(w, t, g)
    BY <1>2, <2>1
  <2> QED BY <2>2
<1> HIDE DEF G
<1>4. \A t \in SUBSET s : f[t] = SumStep(w, t, f)
  <2> TAKE t \in SUBSET s
  <2>1. CASE t = {}
    <3>1. CASE s = {}
      BY <2>1, <3>1 DEF SumStep
    <3>2. CASE s # {}
      <4>1. IsSum(w, {}, G({}))
        BY <1>3, <3>2
      <4>2. G({})[{}] = SumStep(w, {}, G({}))
        BY <4>1 DEF IsSum
      <4> QED BY <2>1, <3>2, <4>2 DEF SumStep
    <3> QED BY <3>1, <3>2
  <2>2. CASE t # {}
    <3> DEFINE y == CHOOSE z \in t : TRUE
    <3>1. y \in t /\ t \ {y} \in SUBSET s /\ t \ {y} # s
      BY <2>2
    <3>2. f[t \ {y}] = G(t \ {y})[t \ {y}]
      BY <3>1
    <3>3. f[t] = Add(w[y], G(t \ {y})[t \ {y}])
      <4>1. CASE t = s
        BY <2>2, <4>1
      <4>2. CASE t # s
        <5>1. IsSum(w, t, G(t)) /\ IsSum(w, t \ {y}, G(t \ {y}))
          BY <1>3, <3>1, <4>2
        <5>2. G(t)[t] = SumStep(w, t, G(t))
          BY <5>1 DEF IsSum
        <5>3. G(t)[t \ {y}] = G(t \ {y})[t \ {y}]
          <6>1. IsFiniteSet(t) /\ t \ {y} \in SUBSET t
            BY FS_Subset
          <6> QED BY <5>1, <6>1, SumUnique
        <5> QED BY <2>2, <4>2, <5>2, <5>3 DEF SumStep
      <4> QED BY <4>1, <4>2
    <3> QED BY <2>2, <3>2, <3>3 DEF SumStep
  <2> QED BY <2>1, <2>2
<1>5. IsSum(w, s, f)
  <2>1. f = [t \in SUBSET s |-> f[t]]
    OBVIOUS
  <2> HIDE DEF f
  <2> QED BY <1>4, <2>1 DEF IsSum
<1> QED BY <1>5
(* What each chunk of a set costs.                                          *)
Weights(k, S) == [c \in S |-> TranslateChunk(k, Observed[c]).loss]

(* Losses is the sum of what its chunks cost.                               *)
LEMMA LossesIs ==
  ASSUME NEW k, NEW S, IsFiniteSet(S), \E g : IsSum(Weights(k, S), S, g)
  PROVE  \E g : IsSum(Weights(k, S), S, g) /\ Losses(k, Observed, S) = g[S]
<1> DEFINE Table(g) == g = [s \in SUBSET S |->
                              IF s = {} THEN NoLoss
                              ELSE Add(TranslateChunk(k, Observed[CHOOSE y \in s : TRUE]).loss,
                                       g[s \ {CHOOSE y \in s : TRUE}])]
           W == Weights(k, S)
<1>1. ASSUME NEW g PROVE IsSum(W, S, g) <=> Table(g)
  <2>1. \A s \in SUBSET S : s # {} =>
          W[CHOOSE y \in s : TRUE] = TranslateChunk(k, Observed[CHOOSE y \in s : TRUE]).loss
    BY DEF Weights
  <2> HIDE DEF W
  <2> QED BY <2>1 DEF IsSum, SumStep
<1>2. Losses(k, Observed, S) = (CHOOSE g : Table(g))[S]
  BY DEF Losses, FoldSet, MapThenFoldSet
<1> HIDE DEF Table
<1>3. Table(CHOOSE g : Table(g))
  BY <1>1
<1> QED BY <1>1, <1>2, <1>3
(* What a loss is, field by field.                                          *)
IsLoss(l) ==
  /\ l = [chunks |-> l.chunks, skipped |-> l.skipped, dropped |-> l.dropped,
          lossy |-> l.lossy, refused |-> l.refused]
  /\ l.chunks \in Nat /\ l.skipped \in Nat /\ l.dropped \in Nat /\ l.refused \in BOOLEAN

(* Nothing is lost before anything is translated.                          *)
LEMMA NoLossIs == IsLoss(NoLoss) /\ Lossless(NoLoss) /\ ~NoLoss.refused
BY DEF NoLoss, IsLoss, Lossless

(* A sum is lossless when both parts are, and refuses when either does.     *)
LEMMA AddIs ==
  ASSUME NEW p, IsLoss(p), NEW q, IsLoss(q)
  PROVE  /\ IsLoss(Add(p, q))
         /\ Lossless(Add(p, q)) <=> Lossless(p) /\ Lossless(q)
         /\ Add(p, q).refused <=> p.refused \/ q.refused
<1>1. PICK s : /\ s = Add(p, q)
               /\ s = [chunks |-> p.chunks + q.chunks, skipped |-> p.skipped + q.skipped,
                       dropped |-> p.dropped + q.dropped, lossy |-> p.lossy \cup q.lossy,
                       refused |-> p.refused \/ q.refused]
  BY DEF Add
<1>2. /\ s.chunks = p.chunks + q.chunks /\ s.skipped = p.skipped + q.skipped
      /\ s.dropped = p.dropped + q.dropped /\ s.lossy = p.lossy \cup q.lossy
      /\ s.refused = (p.refused \/ q.refused)
  BY <1>1
<1>3. IsLoss(s)
  BY <1>1, <1>2 DEF IsLoss
<1>4. s.skipped = 0 <=> p.skipped = 0 /\ q.skipped = 0
  BY <1>2 DEF IsLoss
<1>5. s.dropped = 0 <=> p.dropped = 0 /\ q.dropped = 0
  BY <1>2 DEF IsLoss
<1>6. s.lossy = {} <=> p.lossy = {} /\ q.lossy = {}
  BY <1>2
<1> QED BY <1>1, <1>2, <1>3, <1>4, <1>5, <1>6 DEF Lossless

(* So is a sum over a set.                                                  *)
LEMMA SumSays ==
  ASSUME NEW w, NEW S, IsFiniteSet(S), NEW g, IsSum(w, S, g), \A c \in S : IsLoss(w[c])
  PROVE  /\ IsLoss(g[S])
         /\ Lossless(g[S]) <=> \A c \in S : Lossless(w[c])
         /\ g[S].refused <=> \E c \in S : w[c].refused
<1> DEFINE Says(s) == /\ IsLoss(g[s])
                      /\ Lossless(g[s]) <=> \A c \in s : Lossless(w[c])
                      /\ g[s].refused <=> \E c \in s : w[c].refused
           F == {s \in SUBSET S : ~Says(s)}
<1> SUFFICES ASSUME F # {} PROVE FALSE
  OBVIOUS
<1>1. F \subseteq FiniteSubsetsOf(S)
  BY FS_FiniteSubsetsOfFinite
<1>2. PICK s \in F : \A t \in F : ~(<<t, s>> \in StrictSubsetOrdering(S))
  <2> HIDE DEF F
  <2> QED BY <1>1, FS_StrictSubsetOrderingWellFounded, WFMin
<1>3. g[s] = SumStep(w, s, g)
  BY DEF IsSum
<1>4. s # {}
  BY <1>3, NoLossIs DEF SumStep
<1> DEFINE x == CHOOSE y \in s : TRUE
           t == s \ {x}
<1>5. x \in s /\ t \in SUBSET S
  BY <1>4
<1>6. Says(t)
  <2>1. <<t, s>> \in StrictSubsetOrdering(S)
    BY <1>5 DEF StrictSubsetOrdering
  <2> QED BY <1>2, <1>5, <2>1
<1>7. g[s] = Add(w[x], g[t])
  BY <1>3, <1>4 DEF SumStep
<1>8. IsLoss(w[x]) /\ IsLoss(g[t]) /\ s = t \cup {x}
  BY <1>5, <1>6
<1> HIDE DEF x, t
<1> QED BY <1>2, <1>6, <1>7, <1>8, AddIs
-----------------------------------------------------------------------------
(* What one chunk costs, and that one that costs nothing is kept.           *)

(* The sections of a layer, as observed.                                    *)
IsLayer(sections) ==
  /\ IsFiniteSet(DOMAIN sections)
  /\ \A y \in DOMAIN sections : sections[y] = [p \in Position |-> sections[y][p]]

(* What a place becomes is what it was, or what it was renamed to.          *)
NameKept(k, layer, n, to) ==
  Under(n, to, IF layer = "blocks" THEN k.rules.renames ELSE k.rules.biomeRenames)

(* A name that is kept or renamed says so.                                  *)
LEMMA ResolveIs ==
  ASSUME NEW k, NEW layer, NEW n, ~Lossy(ResolveEntry(k, layer, n).outcome)
  PROVE  NameKept(k, layer, n, ResolveEntry(k, layer, n).to)
<1>1. CASE layer = "blocks"
  BY <1>1 DEF ResolveEntry, ResolveBlock, Resolve, Lossy, NameKept, Under
<1>2. CASE layer # "blocks"
  BY <1>2 DEF ResolveEntry, ResolveBiome, Resolve, Lossy, NameKept, Under
<1> QED BY <1>1, <1>2

(* A layer that fits and loses nothing is kept, section by section.         *)
LEMMA LayerSays ==
  ASSUME NEW k, NEW layer, NEW sections, IsLayer(sections)
  PROVE  LET t == TranslateLayer(k, layer, sections)
         IN  /\ IsLoss(t.loss) /\ t.loss.skipped = 0 /\ t.keep \in BOOLEAN
             /\ t.keep /\ Lossless(t.loss) =>
                  /\ DOMAIN t.out = DOMAIN sections
                  /\ \A y \in DOMAIN sections, p \in Position :
                       NameKept(k, layer, sections[y][p], t.out[y][p])
<1> DEFINE unfit == {y \in (DOMAIN sections) \cap k.ys : Unfit(k, layer, sections[y])}
           examined == {y \in DOMAIN sections : \A u \in unfit : y <= u}
           names == UNION {Range(sections[y]) : y \in examined \cap k.ys}
           dropped == Cardinality(examined \ k.ys)
           out == [y \in (DOMAIN sections) \cap k.ys |-> Rebuild(k, layer, sections[y])]
           loss == LayerLoss(k, layer, names, dropped)
<1>1. PICK t : /\ t = TranslateLayer(k, layer, sections)
               /\ t = TranslateFitting(k, layer, sections, unfit)
  BY DEF TranslateLayer
<1>2. t.keep = (unfit = {}) /\ t.out = out /\ t.loss = loss
  BY <1>1 DEF TranslateFitting
<1>3. IsFiniteSet(examined \ k.ys) /\ dropped \in Nat
  <2>1. examined \ k.ys \subseteq DOMAIN sections
    OBVIOUS
  <2>2. IsFiniteSet(examined \ k.ys)
    BY <2>1, FS_Subset DEF IsLayer
  <2> QED BY <2>2, FS_CardinalityType
<1>4. examined \ k.ys = {} <=> dropped = 0
  BY <1>3, FS_EmptySet
<1> DEFINE lossy == {n \in names : Lossy(ResolveEntry(k, layer, n).outcome)}
           refused == k.policy = "report" /\
                        (dropped > 0 \/
                         \E n \in names : ResolveEntry(k, layer, n).outcome = "unrepresentable")
<1>5. loss = [chunks |-> 0, skipped |-> 0, dropped |-> dropped, lossy |-> lossy,
              refused |-> refused]
  <2>1. loss = [NoLoss EXCEPT !.dropped = dropped, !.lossy = lossy, !.refused = refused]
    BY DEF LayerLoss
  <2> HIDE DEF loss, dropped, lossy, refused
  <2> QED BY <2>1 DEF NoLoss
<1>6. refused \in BOOLEAN
  OBVIOUS
<1>7. IsLoss(t.loss) /\ t.loss.skipped = 0 /\ t.keep \in BOOLEAN
  <2>1. t.keep \in BOOLEAN
    BY <1>2
  <2> HIDE DEF loss, dropped, lossy, refused
  <2> QED BY <1>2, <1>3, <1>5, <1>6, <2>1 DEF IsLoss
<1>8. ASSUME t.keep, Lossless(t.loss)
      PROVE  /\ DOMAIN t.out = DOMAIN sections
             /\ \A y \in DOMAIN sections, p \in Position :
                  NameKept(k, layer, sections[y][p], t.out[y][p])
  <2>1. unfit = {}
    BY <1>2, <1>8
  <2>2. examined = DOMAIN sections
    <3> HIDE DEF unfit
    <3> QED BY <2>1
  <2>3. dropped = 0 /\ lossy = {}
    <3> HIDE DEF loss, dropped, lossy, refused
    <3> QED BY <1>2, <1>5, <1>8 DEF Lossless
  <2> HIDE DEF examined, dropped
  <2>4. DOMAIN sections \subseteq k.ys
    BY <1>4, <2>2, <2>3
  <2>5. DOMAIN t.out = DOMAIN sections
    BY <1>2, <2>4
  <2>6. ASSUME NEW y \in DOMAIN sections, NEW p \in Position
        PROVE  NameKept(k, layer, sections[y][p], t.out[y][p])
    <3>1. sections[y][p] \in Range(sections[y])
      <4>1. DOMAIN sections[y] = Position
        BY DEF IsLayer
      <4> QED BY <4>1 DEF Range
    <3>2. sections[y][p] \in names
      BY <2>2, <2>4, <3>1
    <3>3. ~Lossy(ResolveEntry(k, layer, sections[y][p]).outcome)
      <4> HIDE DEF names
      <4> QED BY <2>3, <3>2
    <3>4. t.out[y][p] = ResolveEntry(k, layer, sections[y][p]).to
      BY <1>2, <2>4 DEF Rebuild
    <3> QED BY <3>3, <3>4, ResolveIs
  <2> QED BY <2>5, <2>6
<1> QED BY <1>1, <1>7, <1>8
(* The layers of an observation.                                            *)
LEMMA ObservedIs ==
  ASSUME NEW c \in DOMAIN Observed
  PROVE  /\ Observed[c] = [blocks |-> Observed[c].blocks, biomes |-> Observed[c].biomes,
                           entities |-> Observed[c].entities, shape |-> Observed[c].shape]
         /\ IsLayer(Observed[c].blocks) /\ IsLayer(Observed[c].biomes)
         /\ IsFiniteSet(Observed[c].entities)
<1>1. Observed[c] \in Component /\ IsFiniteSet(Observed[c].entities)
  BY WorldAssumption
<1>2. ASSUME NEW Name, NEW f \in Layer(Name) PROVE IsLayer(f)
  <2>1. PICK Y \in SUBSET SectionY : f \in [Y -> [Position -> Name]]
    BY DEF Layer
  <2>2. IsFiniteSet(DOMAIN f)
    BY <2>1, TranslationAssumption, FS_Subset
  <2> QED BY <2>1, <2>2 DEF IsLayer
<1> QED BY <1>1, <1>2 DEF Component

(* A chunk that loses nothing is kept, and holds what was seen, under the   *)
(* names it had or was to have.                                             *)
KeptAs(k, from, to) ==
  /\ to.entities = from.entities
  /\ DOMAIN to.blocks = DOMAIN from.blocks
  /\ \A y \in DOMAIN from.blocks, p \in Position :
       Under(from.blocks[y][p], to.blocks[y][p], k.rules.renames)
  /\ \A y \in DOMAIN from.biomes, p \in Position :
       Under(from.biomes[y][p], to.biomes[y][p], k.rules.biomeRenames)

(* A chunk whose losses are none.                                           *)
LEMMA ChunkSays ==
  ASSUME NEW k, NEW c \in DOMAIN Observed
  PROVE  LET t == TranslateChunk(k, Observed[c])
         IN  /\ IsLoss(t.loss)
             /\ Lossless(t.loss) => t.keep /\ KeptAs(k, Observed[c], t.out)
             /\ t.out = [blocks |-> t.out.blocks, biomes |-> t.out.biomes,
                         entities |-> t.out.entities, shape |-> t.out.shape]
<1> DEFINE from == Observed[c]
<1>1. PICK blocks, biomes, t :
        /\ blocks = TranslateLayer(k, "blocks", from.blocks)
        /\ biomes = TranslateLayer(k, "biomes", from.biomes)
        /\ t = TranslateChunk(k, from)
        /\ t = Translated(k, from, blocks, biomes)
  BY DEF TranslateChunk
<1>2. /\ IsLoss(blocks.loss) /\ blocks.loss.skipped = 0 /\ blocks.keep \in BOOLEAN
      /\ blocks.keep /\ Lossless(blocks.loss) =>
           /\ DOMAIN blocks.out = DOMAIN from.blocks
           /\ \A y \in DOMAIN from.blocks, p \in Position :
                Under(from.blocks[y][p], blocks.out[y][p], k.rules.renames)
  BY <1>1, ObservedIs, LayerSays DEF NameKept
<1>3. /\ IsLoss(biomes.loss) /\ biomes.loss.skipped = 0 /\ biomes.keep \in BOOLEAN
      /\ biomes.keep /\ Lossless(biomes.loss) =>
           \A y \in DOMAIN from.biomes, p \in Position :
              Under(from.biomes[y][p], biomes.out[y][p], k.rules.biomeRenames)
  BY <1>1, ObservedIs, LayerSays DEF NameKept
<1> DEFINE seen == IF blocks.keep THEN Add(blocks.loss, biomes.loss) ELSE blocks.loss
           keep == blocks.keep /\ biomes.keep /\ DOMAIN blocks.out # {}
<1>4. /\ t.keep = keep
      /\ t.out = [from EXCEPT !.blocks = blocks.out, !.biomes = biomes.out, !.shape = k.ys]
      /\ t.loss = [seen EXCEPT !.chunks = 1, !.skipped = IF keep THEN 0 ELSE 1]
  BY <1>1 DEF Translated
<1>5. /\ IsLoss(seen)
      /\ blocks.keep /\ Lossless(seen) => Lossless(blocks.loss) /\ Lossless(biomes.loss)
      /\ seen.skipped = 0
  <2>1. CASE blocks.keep
    <3>1. Add(blocks.loss, biomes.loss).skipped = 0
      BY <1>2, <1>3 DEF Add
    <3> QED BY <1>2, <1>3, <2>1, <3>1, AddIs
  <2>2. CASE ~blocks.keep
    BY <1>2, <2>2
  <2> QED BY <1>2, <2>1, <2>2
<1>6. /\ t.out.entities = from.entities /\ t.out.blocks = blocks.out
      /\ t.out.biomes = biomes.out
      /\ t.out = [blocks |-> t.out.blocks, biomes |-> t.out.biomes,
                  entities |-> t.out.entities, shape |-> t.out.shape]
  <2>1. PICK u : u = from /\ u = [blocks |-> u.blocks, biomes |-> u.biomes,
                                entities |-> u.entities, shape |-> u.shape]
    BY ObservedIs
  <2> HIDE DEF from
  <2> QED BY <1>4, <2>1
<1> DEFINE n == IF keep THEN 0 ELSE 1
<1> HIDE DEF seen, from
<1>7. /\ IsLoss(t.loss) /\ t.loss.skipped = (IF keep THEN 0 ELSE 1)
      /\ t.loss.dropped = seen.dropped /\ t.loss.lossy = seen.lossy
  <2>1. n \in Nat /\ t.loss = [seen EXCEPT !.chunks = 1, !.skipped = n]
    BY <1>4
  <2> HIDE DEF n
  <2>2. t.loss = [chunks |-> 1, skipped |-> n, dropped |-> seen.dropped, lossy |-> seen.lossy,
                  refused |-> seen.refused]
    BY <1>5, <2>1 DEF IsLoss
  <2>3. IsLoss(t.loss) /\ t.loss.skipped = n
    BY <1>5, <2>1, <2>2 DEF IsLoss
  <2> QED BY <2>2, <2>3 DEF n
<1>8. Lossless(t.loss) => keep /\ Lossless(seen)
  BY <1>5, <1>7 DEF Lossless
<1>9. Lossless(t.loss) => t.keep /\ KeptAs(k, from, t.out)
  BY <1>2, <1>3, <1>4, <1>5, <1>6, <1>8 DEF KeptAs
<1> QED BY <1>1, <1>6, <1>7, <1>9 DEF from
-----------------------------------------------------------------------------
(* What a conversion has counted, and what that says of the chunks it passed.*)

Clean(k, c) == Lossless(TranslateChunk(k, Observed[c]).loss)
Refuses(k, c) == TranslateChunk(k, Observed[c]).loss.refused
Drops(k, c) ==
  ~k.keepEntities /\ TranslateChunk(k, Observed[c]).keep /\ Observed[c].entities # {}

(* The losses of a set of chunks are none when each chunk's are, and refuse *)
(* when one does.                                                           *)
LEMMA LossesSay ==
  ASSUME NEW k, NEW S, S \subseteq DOMAIN Observed
  PROVE  /\ IsLoss(Losses(k, Observed, S))
         /\ Lossless(Losses(k, Observed, S)) <=> \A c \in S : Clean(k, c)
         /\ Losses(k, Observed, S).refused <=> \E c \in S : Refuses(k, c)
<1>1. IsFiniteSet(S)
  BY WorldAssumption, FS_Subset
<1>2. PICK g : IsSum(Weights(k, S), S, g) /\ Losses(k, Observed, S) = g[S]
  BY <1>1, SumExists, LossesIs
<1>3. \A c \in S : Weights(k, S)[c] = TranslateChunk(k, Observed[c]).loss
  BY DEF Weights
<1>4. \A c \in S : IsLoss(Weights(k, S)[c])
  BY <1>3, ChunkSays
<1> QED BY <1>1, <1>2, <1>3, <1>4, SumSays DEF Clean, Refuses

(* What is converted is what is kept, and what is dropped with it.          *)
LEMMA ConvertedSays ==
  ASSUME NEW k, NEW S, S \subseteq DOMAIN Observed
  PROVE  /\ DOMAIN Converted(k, Observed, S)
               = {c \in S : TranslateChunk(k, Observed[c]).keep}
         /\ \A c \in DOMAIN Converted(k, Observed, S) :
              Converted(k, Observed, S)[c] =
                IF k.keepEntities THEN TranslateChunk(k, Observed[c]).out
                ELSE [TranslateChunk(k, Observed[c]).out EXCEPT !.entities = {}]
         /\ IsFiniteSet(DroppedEntities(k, Observed, S))
         /\ DroppedEntities(k, Observed, S) = {} <=> \A c \in S : ~Drops(k, c)
<1> DEFINE all == TranslateAll(k, Observed, S)
<1>1. DOMAIN all = S /\ \A c \in S : all[c] = TranslateChunk(k, Observed[c])
  BY DEF TranslateAll
<1>2. Converted(k, Observed, S) = Kept(k, all)
  BY DEF Converted
<1> HIDE DEF all
<1>3. DOMAIN Converted(k, Observed, S) = {c \in S : TranslateChunk(k, Observed[c]).keep}
  BY <1>1, <1>2 DEF Kept
<1>4. \A c \in DOMAIN Converted(k, Observed, S) :
        Converted(k, Observed, S)[c] =
          IF k.keepEntities THEN TranslateChunk(k, Observed[c]).out
          ELSE [TranslateChunk(k, Observed[c]).out EXCEPT !.entities = {}]
  <2> SUFFICES ASSUME NEW c \in DOMAIN Converted(k, Observed, S)
               PROVE  Converted(k, Observed, S)[c] =
                        IF k.keepEntities THEN TranslateChunk(k, Observed[c]).out
                        ELSE [TranslateChunk(k, Observed[c]).out EXCEPT !.entities = {}]
    OBVIOUS
  <2>1. c \in S /\ all[c] = TranslateChunk(k, Observed[c]) /\ all[c].keep
    BY <1>1, <1>3
  <2>2. c \in {d \in DOMAIN all : all[d].keep}
    BY <1>1, <2>1
  <2>3. Converted(k, Observed, S)[c] =
          IF k.keepEntities THEN all[c].out ELSE [all[c].out EXCEPT !.entities = {}]
    BY <1>2, <2>2 DEF Kept
  <2> QED BY <2>1, <2>3
<1> DEFINE kept == DOMAIN Converted(k, Observed, S)
           sets == {Observed[c].entities : c \in kept}
<1>5. DroppedEntities(k, Observed, S) = IF k.keepEntities THEN {} ELSE UNION sets
  BY DEF DroppedEntities
<1>6. IsFiniteSet(UNION sets)
  <2>1. IsFiniteSet(kept)
    BY <1>3, WorldAssumption, FS_Subset
  <2>2. IsFiniteSet(sets)
    <3> HIDE DEF kept
    <3> DEFINE f == [c \in kept |-> Observed[c].entities]
    <3>1. f \in Surjection(kept, sets)
      BY DEF Surjection
    <3> HIDE DEF f, sets
    <3> QED BY <2>1, <3>1, FS_Surjection
  <2>3. \A T \in sets : IsFiniteSet(T)
    BY <1>3, WorldAssumption
  <2> HIDE DEF sets
  <2> QED BY <2>2, <2>3, FS_UNION
<1>7. IsFiniteSet(DroppedEntities(k, Observed, S))
  BY <1>5, <1>6, FS_EmptySet
<1>8. DroppedEntities(k, Observed, S) = {} <=> \A c \in S : ~Drops(k, c)
  BY <1>3, <1>5 DEF Drops
<1> QED BY <1>3, <1>4, <1>7, <1>8

(* A chunk that costs nothing, its block entities among it, is written as it*)
(* was seen.                                                                *)
LEMMA CleanIsKept ==
  ASSUME NEW k, NEW S, S \subseteq DOMAIN Observed, NEW c \in S, Clean(k, c), ~Drops(k, c)
  PROVE  /\ c \in DOMAIN Converted(k, Observed, S)
         /\ KeptAs(k, Observed[c], Converted(k, Observed, S)[c])
<1>1. PICK t : /\ t = TranslateChunk(k, Observed[c]) /\ t.keep
               /\ KeptAs(k, Observed[c], t.out)
               /\ t.out = [blocks |-> t.out.blocks, biomes |-> t.out.biomes,
                           entities |-> t.out.entities, shape |-> t.out.shape]
  BY ChunkSays DEF Clean
<1> DEFINE to == Converted(k, Observed, S)
<1>0. /\ DOMAIN to = {d \in S : TranslateChunk(k, Observed[d]).keep}
      /\ \A d \in DOMAIN to :
           to[d] = IF k.keepEntities THEN TranslateChunk(k, Observed[d]).out
                   ELSE [TranslateChunk(k, Observed[d]).out EXCEPT !.entities = {}]
  BY ConvertedSays
<1>2. c \in DOMAIN to /\ to[c] = IF k.keepEntities THEN t.out
                                  ELSE [t.out EXCEPT !.entities = {}]
  <2> HIDE DEF to
  <2> QED BY <1>0, <1>1
<1>3. CASE k.keepEntities
  BY <1>1, <1>2, <1>3
<1>4. CASE ~k.keepEntities
  <2>1. Observed[c].entities = {}
    BY <1>1, <1>4 DEF Drops
  <2>2. Converted(k, Observed, S)[c] = [t.out EXCEPT !.entities = {}]
    BY <1>2, <1>4
  <2>3. t.out.entities = {}
    BY <1>1, <2>1 DEF KeptAs
  <2>4. Converted(k, Observed, S)[c] = t.out
    <3>1. PICK u : u = t.out /\ u = [blocks |-> u.blocks, biomes |-> u.biomes,
                                    entities |-> u.entities, shape |-> u.shape]
      BY <1>1
    <3> QED BY <2>2, <2>3, <3>1
  <2> QED BY <1>1, <1>2, <2>4
<1> QED BY <1>3, <1>4

(* What a count says of the chunks it is over.                              *)
Vouches(k, S, loss, entities) ==
  /\ IsLoss(loss) /\ entities \in Nat
  /\ Lossless(loss) => \A c \in S : Clean(k, c)
  /\ ~loss.refused => \A c \in S : ~Refuses(k, c)
  /\ entities = 0 => \A c \in S : ~Drops(k, c)

(* A count goes on to say it of the chunks of one more region.              *)
LEMMA CountSays ==
  ASSUME NEW e, IsJob(job[e]), job[e].plan \subseteq DOMAIN Observed, IsConversion(e),
         NEW S, Vouches(Target(e), S, job[e].loss, job[e].entities)
  PROVE  /\ Vouches(Target(e), S \cup {c \in job[e].plan : RegionOf[c] = job[e].at},
                    Count(e).loss, Count(e).entities)
         /\ Count(e).said = job[e].said /\ Count(e).saidEntities = job[e].saidEntities
<1> DEFINE mine == {c \in job[e].plan : RegionOf[c] = job[e].at}
           k == Target(e)
           l == Losses(k, Observed, mine)
           n == Cardinality(DroppedEntities(k, Observed, mine))
<1>1. mine \subseteq DOMAIN Observed
  OBVIOUS
<1>2. /\ IsLoss(l)
      /\ Lossless(l) <=> \A c \in mine : Clean(k, c)
      /\ l.refused <=> \E c \in mine : Refuses(k, c)
  <2> HIDE DEF mine, k
  <2> QED BY <1>1, LossesSay
<1>3. n \in Nat /\ (n = 0 <=> \A c \in mine : ~Drops(k, c))
  <2>1. /\ IsFiniteSet(DroppedEntities(k, Observed, mine))
        /\ DroppedEntities(k, Observed, mine) = {} <=> \A c \in mine : ~Drops(k, c)
    <3> HIDE DEF mine, k
    <3> QED BY <1>1, ConvertedSays
  <2> HIDE DEF mine, k
  <2> QED BY <2>1, FS_CardinalityType, FS_EmptySet
<1>4. PICK j, d : /\ j = job[e] /\ d = Count(e) /\ IsJob(j)
                  /\ d = [j EXCEPT !.loss = Add(@, l), !.entities = @ + n]
  BY DEF Count, Mine
<1> HIDE DEF mine, k, l, n
<1>5. /\ d.loss = Add(j.loss, l) /\ d.entities = j.entities + n
      /\ d.said = j.said /\ d.saidEntities = j.saidEntities
  BY <1>4 DEF IsJob
<1>6. /\ IsLoss(d.loss)
      /\ Lossless(d.loss) => Lossless(j.loss) /\ Lossless(l)
      /\ ~d.loss.refused => ~j.loss.refused /\ ~l.refused
  BY <1>2, <1>4, <1>5, AddIs DEF k, Vouches
<1>7. d.entities \in Nat /\ (d.entities = 0 => j.entities = 0 /\ n = 0)
  BY <1>3, <1>4, <1>5 DEF k, Vouches
<1>8. Vouches(k, S \cup mine, d.loss, d.entities)
  BY <1>2, <1>3, <1>4, <1>6, <1>7 DEF Vouches, k
<1> QED BY <1>4, <1>5, <1>8 DEF k, mine


(* The chunks of the regions before one.                                    *)
Before(j, r) == {c \in j.plan : RegionOf[c] < r}

(* A program at a place has counted the chunks it passed;                   *)
Tally(place, j) ==
  LET k == j.request.conversion IN
  /\ place \in {"check", "validate"} => Vouches(k, {}, j.loss, j.entities)
  /\ place \in {"decide", "prepare"} => Vouches(k, Before(j, j.at), j.loss, j.entities)
  /\ place = "rename" => Vouches(k, Before(j, j.at + 1), j.loss, j.entities)

(* under the report policy it has decided, before it looked at the world,   *)
(* from all of its plan;                                                    *)
HasDecided(place, j) ==
  \/ place \in {"check", "validate", "prepare", "rename"}
  \/ place = "done" /\ (j.written # {} \/ j.outcome = "done")

Verdicts(place, j) ==
  LET k == j.request.conversion IN
  CanRefuse(k) /\ HasDecided(place, j) =>
    \A c \in j.plan : ~Refuses(k, c) /\ ~Drops(k, c) /\ (Lossless(j.said) => Clean(k, c))

(* what it says in the end is about all of its plan;                        *)
Says(j) ==
  LET k == j.request.conversion IN
  j.outcome = "done" =>
    \A c \in j.plan :
      /\ Lossless(j.said) => Clean(k, c)
      /\ j.saidEntities = 0 => ~Drops(k, c)

(* and it has written every region before the one it is at that holds a     *)
(* chunk it kept.                                                           *)
Wrote(place, j) ==
  place \in {"prepare", "rename"} \/ j.outcome = "done" =>
    /\ \A c \in Before(j, j.at) :
         Clean(j.request.conversion, c) => RegionOf[c] \in j.written
    /\ j.outcome = "done" => j.at > Regions

Cost(place, j) ==
  j.request.conversion # NoConversion =>
    Tally(place, j) /\ Verdicts(place, j) /\ Says(j) /\ Wrote(place, j)

(* The counts of every program are about what it passed, and what it wrote  *)
(* about what it counted.                                                   *)
CostInv == \A e \in Program : Cost(pc[e], job[e])

(* A count of some chunks is a count of fewer.                              *)
LEMMA VouchesForFewer ==
  ASSUME NEW k, NEW S, NEW loss, NEW entities, Vouches(k, S, loss, entities),
         NEW T \in SUBSET S
  PROVE  Vouches(k, T, loss, entities)
BY DEF Vouches

(* Nothing counted is a count of nothing.                                   *)
LEMMA NothingIsCounted ==
  ASSUME NEW k
  PROVE  Vouches(k, {}, NoLoss, 0)
BY NoLossIs DEF Vouches

(* A program that stops, for any reason but that it has finished, has counted*)
(* what it had.                                                             *)
LEMMA StopCosts ==
  ASSUME TypeInv, NEW e \in Program, Inv(e), Cost(pc[e], job[e]), pc[e] \notin {"idle", "done"},
         NEW o, Stop(e, o), o # "done"
  PROVE  Cost(pc'[e], job'[e])
<1>1. pc'[e] = "done" /\ job'[e] = [job[e] EXCEPT !.outcome = o]
  BY GotoBecomes DEF Stop, Places
<1>2. PICK j, k : j = job[e] /\ k = job'[e] /\ k = [j EXCEPT !.outcome = o] /\ IsJob(j)
  BY <1>1 DEF Inv, JobInv
<1>3. /\ k.request = j.request /\ k.plan = j.plan /\ k.said = j.said
      /\ k.written = j.written /\ k.outcome = o
  BY <1>2 DEF IsJob
<1>4. j.written # {} => pc[e] \in {"prepare", "rename"}
  BY <1>2 DEF Inv, JobInv
<1>5. Cost(pc[e], j)
  BY <1>2
<1>6. Tally("done", k)
  BY DEF Tally
<1>7. j.request.conversion # NoConversion => Verdicts("done", k)
  BY <1>3, <1>4, <1>5 DEF Cost, Verdicts, HasDecided
<1>8. Says(k) /\ Wrote("done", k)
  BY <1>3 DEF Says, Wrote
<1> QED BY <1>1, <1>2, <1>3, <1>6, <1>7, <1>8 DEF Cost

(* A program that has counted the chunks of the region it is at, and is done*)
(* with it, has counted those before the next.                              *)
LEMMA AfterCosts ==
  ASSUME NEW e \in Program, JobInv(e), pc[e] # "idle", job[e].at <= Regions,
         NEW h, IsJob(h), h.plan = job[e].plan
  PROVE  LET k == After(e, h)
         IN  /\ Before(k, k.at) = Before(job[e], job[e].at)
                                    \cup {c \in job[e].plan : RegionOf[c] = job[e].at}
             /\ Before(k, k.at) = Before(h, job[e].at + 1)
<1>1. PICK j, k : /\ j = job[e] /\ k = After(e, h) /\ k.plan = j.plan
                  /\ k.at \in 1..(Regions + 1) /\ k.at > j.at
                  /\ \A r \in Wanted(j.plan) : r > j.at => r >= k.at
  BY AfterIs
<1>2. /\ j.plan \subseteq Chunk /\ j.at \in 1..Regions /\ Regions \in Nat
      /\ \A c \in j.plan : RegionOf[c] \in Wanted(j.plan) /\ RegionOf[c] \in 1..Regions
  BY <1>1, WorldAssumption DEF JobInv, Wanted
<1>3. ASSUME NEW c \in j.plan
      PROVE  /\ RegionOf[c] < k.at <=> RegionOf[c] < j.at \/ RegionOf[c] = j.at
             /\ RegionOf[c] < k.at <=> RegionOf[c] < j.at + 1
  BY <1>1, <1>2
<1>4. /\ Before(k, k.at) = {c \in j.plan : RegionOf[c] < k.at}
      /\ Before(j, j.at) = {c \in j.plan : RegionOf[c] < j.at}
      /\ Before(h, j.at + 1) = {c \in j.plan : RegionOf[c] < j.at + 1}
  BY <1>1 DEF Before
<1>5. /\ Before(k, k.at) = Before(j, j.at) \cup {c \in j.plan : RegionOf[c] = j.at}
      /\ Before(k, k.at) = Before(h, j.at + 1)
  BY <1>3, <1>4
<1> QED BY <1>1, <1>5

(* Past the last region is past every chunk of the plan, and at the first   *)
(* one that is wanted past none.                                            *)
LEMMA FromFirstToLast ==
  ASSUME NEW j, j.plan \subseteq DOMAIN Observed
  PROVE  /\ j.at > Regions /\ j.at \in 1..(Regions + 1) => Before(j, j.at) = j.plan
         /\ j.at = NextRegion(j.plan, 1) => Before(j, j.at) = {}
<1>1. /\ j.plan \in SUBSET Chunk /\ Regions \in Nat /\ 1 \in 1..(Regions + 1)
      /\ \A c \in j.plan : RegionOf[c] \in Wanted(j.plan) /\ RegionOf[c] \in 1..Regions
  BY WorldAssumption DEF Wanted
<1>2. j.at > Regions /\ j.at \in 1..(Regions + 1) => Before(j, j.at) = j.plan
  BY <1>1 DEF Before
<1>3. ASSUME j.at = NextRegion(j.plan, 1) PROVE Before(j, j.at) = {}
  <2>1. /\ j.at \in 1..(Regions + 1)
        /\ \A r \in Wanted(j.plan) : r >= 1 => r >= j.at
    BY <1>1, <1>3, NextRegionIs
  <2> QED BY <1>1, <2>1 DEF Before
<1> QED BY <1>2, <1>3

(* At the beginning nothing is passed.                                      *)
LEMMA BeginCosts ==
  ASSUME TypeInv, NEW e \in Program, NEW request, NEW place \in {"rules", "decide", "check"},
         Begin(e, request, place),
         place = "check" /\ request.conversion # NoConversion => ~CanRefuse(request.conversion)
  PROVE  Cost(pc'[e], job'[e])
<1> DEFINE held == IF Sources = {} \/ ~declared
                   THEN [Planned(request) EXCEPT !.outcome = TurnedAway(e)]
                   ELSE Planned(request)
           to == IF Sources = {} \/ ~declared THEN "done" ELSE place
           n == NextRegion(Sources, 1)
<1>1. Goto(e, to, held) /\ to \in Places
  BY DEF Begin, Places
<1> HIDE DEF n
<1>2. PICK k : /\ k = Planned(request) /\ IsJob(k) /\ k.request = request /\ k.plan = Sources
               /\ k.at = n /\ k.written = {} /\ k.outcome = "none"
               /\ k.loss = NoLoss /\ k.entities = 0
  BY PlannedIs DEF n
<1>3. /\ held.request = request /\ held.plan = Sources /\ held.at = n
      /\ held.loss = NoLoss /\ held.entities = 0 /\ held.written = {}
      /\ held.outcome # "done"
  <2>1. TurnedAway(e) # "done"
    BY DEF TurnedAway
  <2> QED BY <1>2, <2>1 DEF IsJob
<1>4. to \in {"done", "rules", "decide", "check"} /\ (to = "check" => place = "check")
  OBVIOUS
<1> HIDE DEF held, to
<1>5. pc'[e] = to /\ job'[e] = held
  BY <1>1, GotoBecomes
<1>6. Before(held, held.at) = {}
  <2>1. held.plan \subseteq DOMAIN Observed /\ held.at = NextRegion(held.plan, 1)
    BY <1>3 DEF Sources, TypeInv, n
  <2> QED BY <2>1, FromFirstToLast
<1>7. Tally(to, held)
  BY <1>3, <1>4, <1>6, NothingIsCounted DEF Tally
<1>8. held.request.conversion # NoConversion => Verdicts(to, held)
  BY <1>3, <1>4 DEF Verdicts, HasDecided
<1>9. Says(held) /\ Wrote(to, held)
  BY <1>3, <1>4 DEF Says, Wrote
<1> QED BY <1>5, <1>7, <1>8, <1>9 DEF Cost

(* The regions of the pass that decides are counted one by one,             *)
LEMMA DecideCosts ==
  ASSUME TypeInv, NEW e \in Program, Inv(e), Cost(pc[e], job[e]), Decide(e)
  PROVE  Cost(pc'[e], job'[e])
<1>1. /\ pc[e] = "decide" /\ job[e].at <= Regions /\ JobInv(e) /\ IsJob(job[e])
      /\ job[e].outcome = "none" /\ job[e].plan \subseteq DOMAIN Observed
      /\ IF Loads(e) THEN Goto(e, "decide", After(e, Count(e)))
         ELSE Stop(e, "undecodable") \/ Stop(e, "unloadable")
  BY DEF Decide, LoadFails, Inv, JobInv
<1>2. CASE ~Loads(e)
  BY <1>1, <1>2, StopCosts
<1>3. CASE Loads(e)
  <2>1. pc'[e] = "decide" /\ job'[e] = After(e, Count(e))
    BY <1>1, <1>3, GotoBecomes DEF Places
  <2>2. /\ IsJob(Count(e)) /\ Count(e).request = job[e].request
        /\ Count(e).plan = job[e].plan /\ Count(e).outcome = "none"
    BY <1>1, CountKeeps
  <2>3. PICK k : /\ k = After(e, Count(e)) /\ k.request = job[e].request
                 /\ k.plan = job[e].plan /\ k.outcome = "none"
                 /\ k.loss = Count(e).loss /\ k.entities = Count(e).entities
    BY <1>1, <2>2, AfterIs
  <2>4. Before(k, k.at) = Before(job[e], job[e].at)
                            \cup {c \in job[e].plan : RegionOf[c] = job[e].at}
    BY <1>1, <2>2, <2>3, AfterCosts
  <2>5. ASSUME IsConversion(e) PROVE Tally("decide", k)
    <3>1. Vouches(Target(e), Before(job[e], job[e].at), job[e].loss, job[e].entities)
      BY <1>1, <2>5 DEF Cost, Tally, IsConversion, Target
    <3>2. Vouches(Target(e), Before(k, k.at), k.loss, k.entities)
      BY <1>1, <2>3, <2>4, <2>5, <3>1, CountSays
    <3> QED BY <2>3, <3>2 DEF Tally, Target
  <2>6. Verdicts("decide", k) /\ Says(k) /\ Wrote("decide", k)
    BY <2>3 DEF Verdicts, HasDecided, Says, Wrote
  <2> QED BY <2>1, <2>3, <2>5, <2>6 DEF Cost, IsConversion
<1> QED BY <1>2, <1>3

(* and its verdict is about all of them.                                    *)
LEMMA DecidedCosts ==
  ASSUME TypeInv, NEW e \in Program, Inv(e), Cost(pc[e], job[e]), Decided(e)
  PROVE  Cost(pc'[e], job'[e])
<1> DEFINE h == job[e]
           n == NextRegion(h.plan, 1)
           held == [h EXCEPT !.said = h.loss, !.saidEntities = h.entities,
                             !.loss = NoLoss, !.entities = 0, !.at = n]
           ok == Verdict(Target(e), h.loss, h.entities)
<1>1. /\ pc[e] = "decide" /\ h.at > Regions /\ h.at \in 1..(Regions + 1) /\ IsJob(h)
      /\ h.outcome = "none" /\ h.plan \subseteq DOMAIN Observed
      /\ IF ~ok THEN Stop(e, "refused") ELSE Goto(e, "check", held)
  BY DEF Decided, Inv, JobInv
<1>2. CASE ~ok
  BY <1>1, <1>2, StopCosts
<1>3. CASE ok
  <2>1. pc'[e] = "check" /\ job'[e] = held
    <3>1. Goto(e, "check", held) /\ "check" \in Places
      BY <1>1, <1>3 DEF Places
    <3> HIDE DEF held
    <3> QED BY <3>1, GotoBecomes
  <2> HIDE DEF n
  <2>2. PICK j, k, l : /\ j = job[e] /\ k = held /\ l = NoLoss
                       /\ k = [j EXCEPT !.said = j.loss, !.saidEntities = j.entities,
                                        !.loss = l, !.entities = 0, !.at = n]
    OBVIOUS
  <2>3. /\ k.request = j.request /\ k.plan = j.plan /\ k.outcome = j.outcome
        /\ k.said = j.loss /\ k.loss = l /\ k.entities = 0
    <3>1. IsJob(j)
      BY <1>1, <2>2
    <3> QED BY <2>2, <3>1 DEF IsJob
  <2> HIDE DEF held
  <2>4. Tally("check", k)
    BY <2>2, <2>3, NothingIsCounted DEF Tally
  <2>5. ASSUME IsConversion(e) PROVE Verdicts("check", k)
    <3>1. Before(h, h.at) = h.plan
      BY <1>1, FromFirstToLast
    <3>2. Vouches(Target(e), h.plan, h.loss, h.entities)
      BY <1>1, <2>5, <3>1 DEF Cost, Tally, IsConversion, Target
    <3>3. CanRefuse(Target(e)) => ~h.loss.refused /\ h.entities = 0
      BY <1>3, <3>2 DEF Verdict, Vouches
    <3> QED BY <2>2, <2>3, <3>2, <3>3 DEF Verdicts, Vouches, Target
  <2>6. Says(k) /\ Wrote("check", k)
    BY <1>1, <2>2, <2>3 DEF Says, Wrote
  <2> QED BY <2>1, <2>2, <2>3, <2>4, <2>5, <2>6 DEF Cost, IsConversion
<1> QED BY <1>2, <1>3

(* Looking at the world costs nothing:                                      *)
LEMMA CheckCosts ==
  ASSUME TypeInv, NEW e \in Program, Inv(e), Cost(pc[e], job[e]), Check(e)
  PROVE  Cost(pc'[e], job'[e])
<1>1. /\ pc[e] = "check" /\ job[e].outcome = "none"
      /\ \/ Stop(e, "not a world") \/ Stop(e, "exists")
         \/ Goto(e, "validate", job[e])
  BY DEF Check, Inv, JobInv
<1>2. CASE Goto(e, "validate", job[e])
  <2>1. pc'[e] = "validate" /\ job'[e] = job[e]
    BY <1>2, GotoBecomes DEF Places
  <2>2. ASSUME IsConversion(e) PROVE Tally("validate", job[e]) /\ Verdicts("validate", job[e])
    BY <1>1, <2>2 DEF Cost, Tally, Verdicts, HasDecided, IsConversion
  <2>3. Says(job[e]) /\ Wrote("validate", job[e])
    BY <1>1 DEF Says, Wrote
  <2> QED BY <2>1, <2>2, <2>3 DEF Cost, IsConversion
<1> QED BY <1>1, <1>2, StopCosts

(* a region that is validated,                                              *)
LEMMA ValidateCosts ==
  ASSUME TypeInv, NEW e \in Program, Inv(e), Cost(pc[e], job[e]), Validate1(e)
  PROVE  Cost(pc'[e], job'[e])
<1>1. /\ pc[e] = "validate" /\ job[e].at <= Regions /\ JobInv(e) /\ IsJob(job[e])
      /\ job[e].outcome = "none"
      /\ Goto(e, "validate", After(e, job[e])) \/ Stop(e, "unreadable")
  BY DEF Validate1, Inv, JobInv
<1>2. CASE Goto(e, "validate", After(e, job[e]))
  <2>1. pc'[e] = "validate" /\ job'[e] = After(e, job[e])
    BY <1>2, GotoBecomes DEF Places
  <2>2. PICK j, k : /\ j = job[e] /\ k = job'[e] /\ k.request = j.request /\ k.plan = j.plan
                    /\ k.outcome = "none" /\ k.loss = j.loss /\ k.entities = j.entities
                    /\ k.said = j.said
    BY <1>1, <2>1, AfterIs
  <2>3. ASSUME IsConversion(e) PROVE Tally("validate", k) /\ Verdicts("validate", k)
    BY <1>1, <2>2, <2>3 DEF Cost, Tally, Verdicts, HasDecided, IsConversion
  <2>4. Says(k) /\ Wrote("validate", k)
    BY <2>2 DEF Says, Wrote
  <2> QED BY <2>1, <2>2, <2>3, <2>4 DEF Cost, IsConversion
<1> QED BY <1>1, <1>2, StopCosts

(* and all of them.                                                         *)
LEMMA ValidatedCosts ==
  ASSUME TypeInv, NEW e \in Program, Inv(e), Cost(pc[e], job[e]), Validated(e)
  PROVE  Cost(pc'[e], job'[e])
<1> DEFINE n == NextRegion(job[e].plan, 1)
           held == [job[e] EXCEPT !.at = n]
<1>1. /\ pc[e] = "validate" /\ IsJob(job[e]) /\ job[e].outcome = "none"
      /\ job[e].plan \subseteq DOMAIN Observed /\ Goto(e, "prepare", held)
  BY DEF Validated, Inv, JobInv
<1> HIDE DEF n
<1>2. PICK j, k : j = job[e] /\ k = held /\ k = [j EXCEPT !.at = n] /\ IsJob(j)
  BY <1>1
<1>3. /\ k.request = j.request /\ k.plan = j.plan /\ k.at = n /\ k.outcome = j.outcome
      /\ k.loss = j.loss /\ k.entities = j.entities /\ k.said = j.said
  BY <1>2 DEF IsJob
<1> HIDE DEF held
<1>4. pc'[e] = "prepare" /\ job'[e] = k
  BY <1>1, <1>2, GotoBecomes DEF Places
<1>5. Before(k, k.at) = {}
  BY <1>1, <1>2, <1>3, FromFirstToLast DEF n
<1>6. ASSUME IsConversion(e) PROVE Tally("prepare", k) /\ Verdicts("prepare", k)
  BY <1>1, <1>2, <1>3, <1>5, <1>6 DEF Cost, Tally, Verdicts, HasDecided, IsConversion
<1>7. Says(k) /\ Wrote("prepare", k)
  BY <1>1, <1>2, <1>3, <1>5 DEF Says, Wrote
<1> QED BY <1>2, <1>3, <1>4, <1>6, <1>7 DEF Cost, IsConversion

(* A region none of whose chunks is left has cost them all,                 *)
LEMMA SkipCosts ==
  ASSUME TypeInv, NEW e \in Program, Inv(e), Cost(pc[e], job[e]), pc[e] = "prepare",
         job[e].at <= Regions, Payload(e, job[e].at) = <<>>,
         Goto(e, "prepare", After(e, Count(e)))
  PROVE  Cost(pc'[e], job'[e])
<1>1. /\ JobInv(e) /\ IsJob(job[e]) /\ job[e].outcome = "none"
      /\ job[e].plan \subseteq DOMAIN Observed
  BY DEF Inv, JobInv
<1>2. pc'[e] = "prepare" /\ job'[e] = After(e, Count(e))
  BY GotoBecomes DEF Places
<1>3. /\ IsJob(Count(e)) /\ Count(e).request = job[e].request
      /\ Count(e).plan = job[e].plan /\ Count(e).outcome = "none"
      /\ Count(e).written = job[e].written
  BY <1>1, CountKeeps
<1>4. PICK k : /\ k = After(e, Count(e)) /\ k.request = job[e].request
               /\ k.plan = job[e].plan /\ k.outcome = "none" /\ k.written = job[e].written
               /\ k.loss = Count(e).loss /\ k.entities = Count(e).entities
               /\ k.said = Count(e).said
  BY <1>1, <1>3, AfterIs
<1> DEFINE mine == {c \in job[e].plan : RegionOf[c] = job[e].at}
<1>5. Before(k, k.at) = Before(job[e], job[e].at) \cup mine
  BY <1>1, <1>3, <1>4, AfterCosts
<1>6. ASSUME IsConversion(e) PROVE Cost("prepare", k)
  <2>1. /\ Vouches(Target(e), Before(job[e], job[e].at), job[e].loss, job[e].entities)
        /\ Verdicts("prepare", job[e]) /\ Wrote("prepare", job[e])
    BY <1>6 DEF Cost, Tally, IsConversion, Target
  <2>2. Vouches(Target(e), Before(k, k.at), k.loss, k.entities) /\ k.said = job[e].said
    BY <1>1, <1>4, <1>5, <1>6, <2>1, CountSays
  <2>3. Verdicts("prepare", k)
    BY <1>4, <2>1, <2>2 DEF Verdicts, HasDecided
  <2>4. \A c \in mine : ~Clean(Target(e), c)
    <3> SUFFICES ASSUME NEW c \in mine, Clean(Target(e), c) PROVE FALSE
      OBVIOUS
    <3>1. TranslateChunk(Target(e), Observed[c]).keep
      BY <1>1, ChunkSays DEF Clean
    <3>2. mine \subseteq DOMAIN Observed
      BY <1>1
    <3>3. DOMAIN Payload(e, job[e].at) = DOMAIN Converted(Target(e), Observed, mine)
      BY <1>6 DEF Payload, BuildAll, Prepared, Mine
    <3> HIDE DEF mine
    <3>4. DOMAIN Converted(Target(e), Observed, mine)
            = {d \in mine : TranslateChunk(Target(e), Observed[d]).keep}
      BY <3>2, ConvertedSays
    <3>5. c \in DOMAIN Payload(e, job[e].at)
      BY <3>1, <3>3, <3>4
    <3> QED BY <3>5
  <2>5. Wrote("prepare", k)
    BY <1>4, <1>5, <2>1, <2>4 DEF Wrote, Target
  <2>6. Tally("prepare", k) /\ Says(k)
    BY <1>4, <2>2 DEF Tally, Says, Target
  <2> QED BY <2>3, <2>5, <2>6 DEF Cost
<1> QED BY <1>2, <1>4, <1>6 DEF Cost, IsConversion

(* and any other is counted before it is written.                           *)
LEMMA WriteCosts ==
  ASSUME TypeInv, NEW e \in Program, Inv(e), Cost(pc[e], job[e]), pc[e] = "prepare",
         job[e].at <= Regions, Goto(e, "rename", Count(e))
  PROVE  Cost(pc'[e], job'[e])
<1>1. /\ JobInv(e) /\ IsJob(job[e]) /\ job[e].outcome = "none"
      /\ job[e].plan \subseteq DOMAIN Observed
  BY DEF Inv, JobInv
<1>2. pc'[e] = "rename" /\ job'[e] = Count(e)
  BY GotoBecomes DEF Places
<1>3. PICK k : /\ k = Count(e) /\ IsJob(k) /\ k.request = job[e].request
               /\ k.plan = job[e].plan /\ k.at = job[e].at /\ k.outcome = "none"
               /\ k.written = job[e].written
  BY <1>1, CountKeeps
<1> DEFINE mine == {c \in job[e].plan : RegionOf[c] = job[e].at}
<1>4. /\ Before(k, k.at + 1) = Before(job[e], job[e].at) \cup mine
      /\ Before(k, k.at) = Before(job[e], job[e].at)
  <2>1. Before(k, job[e].at + 1) = Before(job[e], job[e].at) \cup mine
    BY <1>1, <1>3, AfterCosts
  <2> QED BY <1>3, <2>1 DEF Before
<1>5. ASSUME IsConversion(e) PROVE Cost("rename", k)
  <2>1. /\ Vouches(Target(e), Before(job[e], job[e].at), job[e].loss, job[e].entities)
        /\ Verdicts("prepare", job[e]) /\ Wrote("prepare", job[e])
    BY <1>5 DEF Cost, Tally, IsConversion, Target
  <2>2. Vouches(Target(e), Before(k, k.at + 1), k.loss, k.entities) /\ k.said = job[e].said
    BY <1>1, <1>3, <1>4, <1>5, <2>1, CountSays
  <2>3. Verdicts("rename", k)
    BY <1>3, <2>1, <2>2 DEF Verdicts, HasDecided
  <2>4. Wrote("rename", k)
    BY <1>3, <1>4, <2>1 DEF Wrote
  <2>5. Tally("rename", k) /\ Says(k)
    BY <1>3, <2>2 DEF Tally, Says, Target
  <2> QED BY <2>3, <2>4, <2>5 DEF Cost
<1> QED BY <1>2, <1>3, <1>5 DEF Cost, IsConversion

(* So a region that is prepared is counted, if it could be loaded.          *)
LEMMA PrepareCosts ==
  ASSUME TypeInv, NEW e \in Program, Inv(e), Cost(pc[e], job[e]), Prepare(e)
  PROVE  Cost(pc'[e], job'[e])
<1>1. /\ pc[e] = "prepare" /\ job[e].at <= Regions
      /\ \/ Stop(e, "unloadable") \/ Stop(e, "undecodable")
         \/ Stop(e, "unbuildable") \/ Stop(e, "changed")
         \/ Payload(e, job[e].at) = <<>> /\ Goto(e, "prepare", After(e, Count(e)))
         \/ Goto(e, "rename", Count(e))
  BY DEF Prepare, LoadFails, Build, WriteTemp
<1> QED BY <1>1, StopCosts, SkipCosts, WriteCosts

(* What is renamed is written.                                              *)
LEMMA RenameCosts ==
  ASSUME TypeInv, NEW e \in Program, Inv(e), Cost(pc[e], job[e]), Rename(e)
  PROVE  Cost(pc'[e], job'[e])
<1> DEFINE r == job[e].at
<1>1. PICK j : /\ j = job[e] /\ IsJob(j) /\ JobInv(e) /\ j.outcome = "none"
               /\ pc[e] = "rename" /\ r <= Regions
  BY DEF Rename, Inv, JobInv
<1> DEFINE h == [j EXCEPT !.written = @ \cup {r}]
<1>2. Goto(e, "prepare", After(e, h))
  BY <1>1 DEF Rename
<1>3. /\ IsJob(h) /\ h.plan = j.plan /\ h.request = j.request /\ h.outcome = "none"
      /\ h.written = j.written \cup {r} /\ h.loss = j.loss /\ h.entities = j.entities
      /\ h.said = j.said
  <2>1. PICK k : k = h
    OBVIOUS
  <2>2. /\ IsJob(k) /\ k.plan = j.plan /\ k.request = j.request /\ k.outcome = "none"
        /\ k.written = j.written \cup {r} /\ k.loss = j.loss /\ k.entities = j.entities
        /\ k.said = j.said
    BY <1>1, <2>1 DEF IsJob
  <2> QED BY <2>1, <2>2
<1> HIDE DEF h
<1>4. PICK k : /\ k = After(e, h) /\ k.request = j.request /\ k.plan = j.plan
               /\ k.outcome = "none" /\ k.written = j.written \cup {r}
               /\ k.loss = j.loss /\ k.entities = j.entities /\ k.said = j.said
  BY <1>1, <1>3, AfterIs
<1>5. pc'[e] = "prepare" /\ job'[e] = k
  BY <1>2, <1>4, GotoBecomes DEF Places
<1>6. /\ Before(k, k.at) = Before(j, j.at) \cup {c \in j.plan : RegionOf[c] = r}
      /\ Before(k, k.at) = Before(j, j.at + 1)
  <2>1. /\ Before(k, k.at) = Before(job[e], job[e].at)
                               \cup {c \in job[e].plan : RegionOf[c] = job[e].at}
        /\ Before(k, k.at) = Before(h, job[e].at + 1)
    BY <1>1, <1>3, <1>4, AfterCosts
  <2>2. Before(h, j.at + 1) = Before(j, j.at + 1)
    BY <1>3 DEF Before
  <2> QED BY <1>1, <2>1, <2>2
<1>7. ASSUME IsConversion(e) PROVE Cost("prepare", k)
  <2>1. Tally("rename", j) /\ Verdicts("rename", j) /\ Wrote("rename", j)
    BY <1>1, <1>7 DEF Cost, IsConversion
  <2>2. Tally("prepare", k)
    BY <1>4, <1>6, <2>1 DEF Tally
  <2>3. Verdicts("prepare", k)
    BY <1>4, <2>1 DEF Verdicts, HasDecided
  <2>4. Wrote("prepare", k)
    BY <1>4, <1>6, <2>1 DEF Wrote
  <2> QED BY <1>4, <2>2, <2>3, <2>4 DEF Cost, Says
<1> QED BY <1>1, <1>4, <1>5, <1>7 DEF Cost, IsConversion

(* What is said in the end is what was counted, in the pass that decided or in*)
(* the one that wrote.                                                      *)
LEMMA FinishCosts ==
  ASSUME TypeInv, NEW e \in Program, Inv(e), Cost(pc[e], job[e]), Finish(e)
  PROVE  Cost(pc'[e], job'[e])
<1>1. PICK j : j = job[e] /\ IsJob(j)
  BY DEF Inv, JobInv
<1> DEFINE again == IsConversion(e) /\ CanRefuse(Target(e))
           s == IF again THEN j.said ELSE j.loss
           m == IF again THEN j.saidEntities ELSE j.entities
           held == [j EXCEPT !.outcome = "done", !.said = s, !.saidEntities = m]
<1>2. /\ pc[e] = "prepare" /\ j.at > Regions /\ j.at \in 1..(Regions + 1)
      /\ j.plan \subseteq DOMAIN Observed
      /\ Goto(e, "done", held)
  BY <1>1 DEF Finish, Inv, JobInv
<1>3. PICK k : /\ k = held /\ k.request = j.request /\ k.plan = j.plan /\ k.at = j.at
               /\ k.written = j.written /\ k.outcome = "done" /\ k.said = s
               /\ k.saidEntities = m
  <2>1. PICK x, y, k : x = s /\ y = m /\ k = held
    OBVIOUS
  <2>2. k = [j EXCEPT !.outcome = "done", !.said = x, !.saidEntities = y]
    BY <2>1
  <2>3. /\ k.request = j.request /\ k.plan = j.plan /\ k.at = j.at
        /\ k.written = j.written /\ k.outcome = "done" /\ k.said = x
        /\ k.saidEntities = y
    BY <1>1, <2>2 DEF IsJob
  <2> QED BY <2>1, <2>3
<1>4. pc'[e] = "done" /\ job'[e] = k
  <2>1. Goto(e, "done", held) /\ "done" \in Places
    BY <1>2 DEF Places
  <2> HIDE DEF held
  <2>2. pc'[e] = "done" /\ job'[e] = held
    BY <2>1, GotoBecomes
  <2> QED BY <1>3, <2>2
<1> HIDE DEF held
<1>5. ASSUME IsConversion(e) PROVE Cost("done", k)
  <2>1. /\ Vouches(Target(e), Before(j, j.at), j.loss, j.entities)
        /\ Verdicts("prepare", j) /\ Wrote("prepare", j)
    BY <1>1, <1>2, <1>5 DEF Cost, Tally, IsConversion, Target
  <2>2. Before(j, j.at) = j.plan /\ Before(k, k.at) = j.plan
    BY <1>2, <1>3, FromFirstToLast
  <2>3. Target(e) = k.request.conversion /\ Target(e) = j.request.conversion
    BY <1>1, <1>3 DEF Target
  <2>4. Says(k)
    <3>1. CASE CanRefuse(Target(e))
      <4>1. \A c \in j.plan : ~Drops(Target(e), c) /\ (Lossless(j.said) => Clean(Target(e), c))
        BY <2>1, <2>3, <3>1 DEF Verdicts, HasDecided
      <4>2. k.said = j.said
        BY <1>3, <1>5, <3>1
      <4> QED BY <1>3, <2>3, <4>1, <4>2 DEF Says
    <3>2. CASE ~CanRefuse(Target(e))
      BY <1>3, <2>1, <2>2, <2>3, <3>2 DEF Says, Vouches
    <3> QED BY <3>1, <3>2
  <2>5. Verdicts("done", k)
    BY <1>3, <1>5, <2>1, <2>3 DEF Verdicts, HasDecided
  <2>6. Wrote("done", k)
    BY <1>2, <1>3, <2>1, <2>2 DEF Wrote
  <2> QED BY <2>4, <2>5, <2>6 DEF Cost, Tally
<1> QED BY <1>1, <1>3, <1>4, <1>5 DEF Cost, IsConversion

(* A step of one program costs the others nothing.                          *)
LEMMA OneCosts ==
  ASSUME CostInv, NEW e \in Program, Cost(pc'[e], job'[e]),
         \A x \in Program \ {e} : Quiet(x)
  PROVE  CostInv'
<1> SUFFICES ASSUME NEW x \in Program PROVE Cost(pc'[x], job'[x])
  BY DEF CostInv
<1>1. CASE x = e
  BY <1>1
<1>2. CASE x # e
  <2>1. pc'[x] = pc[x] /\ job'[x] = job[x]
    BY <1>2 DEF Quiet
  <2> QED BY <2>1 DEF CostInv
<1> QED BY <1>1, <1>2

(* Nor does one that no program takes.                                      *)
LEMMA NobodyCosts ==
  ASSUME CostInv, UNCHANGED <<pc, job>>
  PROVE  CostInv'
BY DEF CostInv

(* Every step keeps the counts true.                                        *)
LEMMA NextCosts ==
  ASSUME IInv, CostInv, [Next]_vars
  PROVE  CostInv'
<1> USE DEF IInv
<1>0. \A e \in Program : Inv(e) /\ Cost(pc[e], job[e])
  BY DEF CostInv
<1>1. ASSUME NEW e \in Program, NEW request \in Requests, CmdExport(e, request)
      PROVE  CostInv'
  <2>1. /\ Begin(e, request, "check") /\ e # Window
        /\ request.conversion = NoConversion
    BY <1>1 DEF CmdExport
  <2>2. Cost(pc'[e], job'[e])
    BY <2>1, BeginCosts
  <2> QED BY <1>0, <2>1, <2>2, BeginKeeps, OneCosts
<1>2. ASSUME NEW e \in Program, NEW request \in Requests, CmdConvert(e, request)
      PROVE  CostInv'
  <2>1. PICK place \in {"rules", "decide", "check"} :
          /\ Begin(e, request, place) /\ e # Window
          /\ place = "check" => ~CanRefuse(request.conversion)
    BY <1>2 DEF CmdConvert
  <2>2. Cost(pc'[e], job'[e])
    BY <2>1, BeginCosts
  <2> QED BY <1>0, <2>1, <2>2, BeginKeeps, OneCosts
<1>3. ASSUME NEW e \in Program, BadRules(e) PROVE CostInv'
  <2>1. Cost(pc'[e], job'[e])
    BY <1>0, <1>3, StopCosts DEF BadRules
  <2> QED BY <1>0, <1>3, <2>1, BadRulesKeeps, OneCosts DEF Others
<1>4. ASSUME NEW e \in Program, Decide(e) PROVE CostInv'
  BY <1>0, <1>4, DecideKeeps, DecideCosts, OneCosts DEF Others
<1>5. ASSUME NEW e \in Program, Decided(e) PROVE CostInv'
  BY <1>0, <1>5, DecidedKeeps, DecidedCosts, OneCosts DEF Others
<1>6. ASSUME NEW e \in Program, Check(e) PROVE CostInv'
  BY <1>0, <1>6, CheckKeeps, CheckCosts, OneCosts DEF Others
<1>7. ASSUME NEW e \in Program, Validate1(e) PROVE CostInv'
  BY <1>0, <1>7, ValidateKeeps, ValidateCosts, OneCosts DEF Others
<1>8. ASSUME NEW e \in Program, Validated(e) PROVE CostInv'
  BY <1>0, <1>8, ValidatedKeeps, ValidatedCosts, OneCosts DEF Others
<1>9. ASSUME NEW e \in Program, Prepare(e) PROVE CostInv'
  BY <1>0, <1>9, PrepareKeeps, PrepareCosts, OneCosts DEF Others
<1>10. ASSUME NEW e \in Program, Rename(e) PROVE CostInv'
  BY <1>0, <1>10, RenameKeeps, RenameCosts, OneCosts DEF Others
<1>11. ASSUME NEW e \in Program, WriteFails(e) PROVE CostInv'
  <2>1. Cost(pc'[e], job'[e])
    BY <1>0, <1>11, StopCosts DEF WriteFails
  <2> QED BY <1>0, <1>11, <2>1, WriteFailsKeeps, OneCosts DEF Others
<1>12. ASSUME NEW e \in Program, Finish(e) PROVE CostInv'
  BY <1>0, <1>12, FinishKeeps, FinishCosts, OneCosts DEF Others
<1>13. ASSUME NEW e \in Program, Die(e) PROVE CostInv'
  <2>1. Cost(pc'[e], job'[e])
    BY <1>0, <1>13, StopCosts DEF Die
  <2> QED BY <1>0, <1>13, <2>1, DieKeeps, OneCosts DEF Others
<1>14. CASE HandleExport
  <2> DEFINE request == [overwrite |-> TRUE, conversion |-> NoConversion]
  <2>1. Begin(Window, request, "check") /\ request.conversion = NoConversion
    BY <1>14 DEF HandleExport
  <2> HIDE DEF request
  <2>2. Window \in Program
    BY WorldAssumption
  <2>3. Cost(pc'[Window], job'[Window])
    BY <2>1, <2>2, BeginCosts
  <2> QED BY <1>0, <2>1, <2>2, <2>3, BeginKeeps, OneCosts
<1>15. CASE Declare
  BY <1>15, NobodyCosts DEF Declare
<1>16. ASSUME NEW scope, Withhold(scope) PROVE CostInv'
  BY <1>16, NobodyCosts DEF Withhold
<1>17. CASE Purge
  BY <1>17, NobodyCosts DEF Purge
<1>18. ASSUME NEW r, NEW s, NEW frame, Play(r, s, frame) PROVE CostInv'
  BY <1>18, NobodyCosts DEF Play
<1>19. CASE UNCHANGED vars
  BY <1>19, NobodyCosts DEF vars
<1> QED
  BY <1>1, <1>2, <1>3, <1>4, <1>5, <1>6, <1>7, <1>8, <1>9, <1>10, <1>11, <1>12, <1>13,
     <1>14, <1>15, <1>16, <1>17, <1>18, <1>19 DEF Next

(* A program that has not begun has counted nothing.                        *)
LEMMA InitCosts ==
  ASSUME Init
  PROVE  CostInv
<1> SUFFICES ASSUME NEW e \in Program PROVE Cost(pc[e], job[e])
  BY DEF CostInv
<1>1. pc[e] = "idle" /\ job[e] = NoJob
  BY DEF Init
<1>2. job[e].request.conversion = NoConversion
  BY <1>1 DEF NoJob
<1> QED BY <1>2 DEF Cost

(* What a program has counted, what it said and what it wrote hold together,*)
(* region after region (Translator.Chunk, EachRegion, ExportByRegion).      *)
THEOREM CostCorrect == Spec => []CostInv
<1>1. Init => CostInv
  BY InitCosts
<1>2. IInv /\ CostInv /\ [Next]_vars => CostInv'
  BY NextCosts
<1> QED BY <1>1, <1>2, IInvCorrect, PTL DEF Spec

(* Under the report policy a world is written only by a conversion that loses*)
(* nothing it was not told to, however many regions it is written in and    *)
(* whatever else goes on (translation.verdict).                             *)
THEOREM ReportWritesAllOrNothingCorrect == Spec => []ReportWritesAllOrNothing
<1>1. IInv /\ CostInv => ReportWritesAllOrNothing
  <2> SUFFICES ASSUME IInv, CostInv, NEW e \in Program, IsConversion(e),
                      Target(e).policy = "report", job[e].written # {}
               PROVE  /\ ~Requested(e).refused
                      /\ DroppedEntities(Target(e), Observed, job[e].plan) = {}
    BY DEF ReportWritesAllOrNothing
  <2>1. HasDecided(pc[e], job[e]) /\ job[e].plan \subseteq DOMAIN Observed
    BY DEF IInv, Inv, JobInv, HasDecided, TypeInv, Places
  <2>2. \A c \in job[e].plan : ~Refuses(Target(e), c) /\ ~Drops(Target(e), c)
    BY <2>1 DEF CostInv, Cost, Verdicts, CanRefuse, IsConversion, Target
  <2>3. ~Losses(Target(e), Observed, job[e].plan).refused
    BY <2>1, <2>2, LossesSay
  <2>4. DroppedEntities(Target(e), Observed, job[e].plan) = {}
    BY <2>1, <2>2, ConvertedSays
  <2> QED BY <2>3, <2>4 DEF Requested
<1> QED BY <1>1, IInvCorrect, CostCorrect, PTL

(* A conversion said to have had no loss wrote every planned chunk, and every*)
(* chunk as it was seen but for its renames (printTranslationLosses).       *)
THEOREM LosslessMeansSameCorrect == Spec => []LosslessMeansSame
<1>1. IInv /\ CostInv => LosslessMeansSame
  <2> SUFFICES ASSUME IInv, CostInv, NEW e \in Program, Said(e)
               PROVE  LET to == Converted(Target(e), Observed, job[e].plan)
                      IN  /\ DOMAIN to = job[e].plan
                          /\ \A c \in job[e].plan :
                               /\ RegionOf[c] \in job[e].written
                               /\ KeptAs(Target(e), Observed[c], to[c])
    BY DEF LosslessMeansSame, KeptAs
  <2> DEFINE to == Converted(Target(e), Observed, job[e].plan)
  <2>1. /\ job[e].plan \subseteq DOMAIN Observed /\ job[e].at \in 1..(Regions + 1)
        /\ job[e].outcome = "done"
    BY DEF IInv, Inv, JobInv, Said
  <2>2. Says(job[e]) /\ Wrote(pc[e], job[e])
    BY DEF CostInv, Cost, Said, IsConversion
  <2>3. ASSUME NEW c \in job[e].plan
        PROVE  Clean(Target(e), c) /\ ~Drops(Target(e), c)
    BY <2>1, <2>2 DEF Says, Said, Target
  <2>4. ASSUME NEW c \in job[e].plan
        PROVE  c \in DOMAIN to /\ KeptAs(Target(e), Observed[c], to[c])
    BY <2>1, <2>3, CleanIsKept
  <2>5. DOMAIN to \subseteq job[e].plan
    <3>1. DOMAIN to = {c \in job[e].plan : TranslateChunk(Target(e), Observed[c]).keep}
      BY <2>1, ConvertedSays
    <3> HIDE DEF to
    <3> QED BY <3>1
  <2>6. \A c \in job[e].plan : RegionOf[c] \in job[e].written
    <3>1. Before(job[e], job[e].at) = job[e].plan
      BY <2>1, <2>2, FromFirstToLast DEF Wrote
    <3> QED BY <2>1, <2>2, <2>3, <3>1 DEF Wrote, Target
  <2> HIDE DEF to
  <2> QED BY <2>4, <2>5, <2>6 DEF to
<1> QED BY <1>1, IInvCorrect, CostCorrect, PTL

=============================================================================
