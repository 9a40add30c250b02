--------------------------- MODULE InstallerProofs ---------------------------
(***************************************************************************)
(* Setting up a game and undoing it, proved for any number of edits and    *)
(* faults and whatever parts a file of another name supplies already.      *)
(*                                                                         *)
(* Each action is first brought to one of seven kinds of step, in terms of  *)
(* sets of records: those made before the request (Base) and those the     *)
(* request made, or is to undo, and has not undone (Live).  The invariant  *)
(* says what a file is in terms of the records of it, and is kept by each  *)
(* kind of step.                                                           *)
(***************************************************************************)
EXTENDS Installer, SequenceTheorems, FiniteSetTheorems, WellFoundedInduction, TLAPS

(* A set of numbers that is not empty has a least one.                      *)
LEMMA LeastNumber ==
  ASSUME NEW T \in SUBSET Nat, T # {}
  PROVE  \E m \in T : \A n \in T : m <= n
<1> DEFINE R == OpToRel(<, Nat)
<1>1. \A i, j \in Nat : <<i, j>> \in R <=> i < j
  BY DEF OpToRel
<1>2. IsWellFoundedOn(R, Nat)
  BY NatLessThanWellFounded
<1>3. PICK m \in T : \A n \in T : ~(<<n, m>> \in R)
  <2> HIDE DEF R
  <2> QED BY <1>2, WFMin
<1>4. \A n \in T : ~(n < m)
  BY <1>1, <1>3
<1> QED BY <1>4

(* Among is built up one element at a time: were there a first length at    *)
(* which it could not be, it could be one short of it, and then at that     *)
(* length too.                                                              *)
LEMMA AmongIsBuilt ==
  ASSUME NEW S, NEW s \in Seq(S), NEW keep
  PROVE  \E p : /\ p[0] = << >>
                /\ \A i \in 1..Len(s) :
                     p[i] = IF s[i] \in keep THEN Append(p[i - 1], s[i]) ELSE p[i - 1]
                /\ Among(s, keep) = p[Len(s)]
<1> DEFINE Is(f, n) == f = [i \in 0..n |->
                              IF i = 0 THEN << >>
                              ELSE IF s[i] \in keep THEN Append(f[i - 1], s[i])
                              ELSE f[i - 1]]
           Bad == {n \in 0..Len(s) : ~\E f : Is(f, n)}
<1>1. Len(s) \in Nat
  OBVIOUS
<1>2. Bad = {}
  <2> SUFFICES ASSUME Bad # {} PROVE FALSE
    OBVIOUS
  <2>1. PICK n \in Bad : \A m \in Bad : n <= m
    <3>1. Bad \in SUBSET Nat
      BY <1>1
    <3> HIDE DEF Bad
    <3> QED BY <3>1, LeastNumber
  <2>2. n # 0
    <3>1. Is([i \in 0..0 |-> << >>], 0)
      OBVIOUS
    <3> HIDE DEF Is
    <3> QED BY <3>1
  <2>3. PICK f : Is(f, n - 1)
    <3>1. n - 1 \in 0..Len(s) /\ ~(n <= n - 1)
      BY <1>1, <2>2
    <3>2. n - 1 \notin Bad
      <4> HIDE DEF Bad
      <4> QED BY <2>1, <3>1
    <3> HIDE DEF Is
    <3> QED BY <3>1, <3>2
  <2> DEFINE g == [i \in 0..n |-> IF i < n THEN f[i]
                                  ELSE IF s[n] \in keep THEN Append(f[n - 1], s[n])
                                  ELSE f[n - 1]]
  <2>4. ASSUME NEW i \in 0..n
        PROVE  g[i] = IF i = 0 THEN << >>
                      ELSE IF s[i] \in keep THEN Append(g[i - 1], s[i]) ELSE g[i - 1]
    <3>0. n \in Nat /\ n > 0
      BY <1>1, <2>2
    <3>1. CASE i = n
      BY <3>0, <3>1
    <3>2. CASE i < n
      <4>1. i \in 0..(n - 1)
        BY <3>0, <3>2
      <4>2. f[i] = IF i = 0 THEN << >>
                   ELSE IF s[i] \in keep THEN Append(f[i - 1], s[i]) ELSE f[i - 1]
        BY <2>3, <4>1
      <4>3. g[i] = f[i] /\ (i # 0 => g[i - 1] = f[i - 1])
        BY <3>0, <3>2
      <4> HIDE DEF g
      <4> QED BY <4>2, <4>3
    <3> QED BY <3>0, <3>1, <3>2
  <2>5. g = [i \in 0..n |-> g[i]]
    OBVIOUS
  <2>6. Is(g, n)
    <3> HIDE DEF g
    <3> QED BY <2>4, <2>5
  <2> QED BY <2>6
<1> DEFINE p == CHOOSE f : Is(f, Len(s))
<1>3. Is(p, Len(s))
  <2>1. \E f : Is(f, Len(s))
    <3> HIDE DEF Is
    <3> QED BY <1>1, <1>2
  <2> HIDE DEF Is
  <2> QED BY <2>1
<1>4. Among(s, keep) = p[Len(s)]
  BY DEF Among
<1> HIDE DEF p
<1>5. ASSUME NEW i \in 0..Len(s)
      PROVE  p[i] = IF i = 0 THEN << >>
                    ELSE IF s[i] \in keep THEN Append(p[i - 1], s[i]) ELSE p[i - 1]
  BY <1>3
<1>6. /\ p[0] = << >>
      /\ \A i \in 1..Len(s) :
           p[i] = IF s[i] \in keep THEN Append(p[i - 1], s[i]) ELSE p[i - 1]
  BY <1>1, <1>5
<1> QED BY <1>4, <1>6

(* A sequence that says nothing twice.                                      *)
Once(s) == \A i, j \in DOMAIN s : s[i] = s[j] => i = j

(* Among keeps the elements that are in the set, and no others, each as     *)
(* often as it was there.                                                   *)
LEMMA AmongIs ==
  ASSUME NEW S, NEW s \in Seq(S), NEW keep
  PROVE  /\ Among(s, keep) \in Seq(S)
         /\ ToSet(Among(s, keep)) = ToSet(s) \cap keep
         /\ Once(s) => Once(Among(s, keep))
<1>1. PICK p : /\ p[0] = << >>
               /\ \A i \in 1..Len(s) :
                    p[i] = IF s[i] \in keep THEN Append(p[i - 1], s[i]) ELSE p[i - 1]
               /\ Among(s, keep) = p[Len(s)]
  BY AmongIsBuilt
<1> DEFINE Good(n) == /\ p[n] \in Seq(S)
                      /\ ToSet(p[n]) = {s[j] : j \in 1..n} \cap keep
                      /\ Once(s) => Once(p[n])
           Bad == {n \in 0..Len(s) : ~Good(n)}
<1>2. Len(s) \in Nat /\ DOMAIN s = 1..Len(s) /\ \A i \in 1..Len(s) : s[i] \in S
  OBVIOUS
<1>3. Good(0)
  BY <1>1 DEF ToSet, Once
<1>4. ASSUME NEW n \in 1..Len(s), Good(n - 1) PROVE Good(n)
  <2> DEFINE q == p[n - 1]
  <2>0. q \in Seq(S) /\ ToSet(q) = {s[j] : j \in 1..(n - 1)} \cap keep /\ (Once(s) => Once(q))
    BY <1>4
  <2>1. s[n] \in S /\ 1..n = (1..(n - 1)) \cup {n} /\ n \in Nat
    BY <1>2
  <2>2. CASE s[n] \notin keep
    <3>1. p[n] = q
      BY <1>1, <2>2
    <3>2. {s[j] : j \in 1..n} = {s[j] : j \in 1..(n - 1)} \cup {s[n]}
      BY <2>1
    <3> HIDE DEF q
    <3> QED BY <2>0, <2>2, <3>1, <3>2
  <2>3. CASE s[n] \in keep
    <3>1. p[n] = Append(q, s[n])
      BY <1>1, <2>3
    <3> HIDE DEF q
    <3>2. /\ p[n] \in Seq(S) /\ Len(p[n]) = Len(q) + 1 /\ p[n][Len(q) + 1] = s[n]
          /\ \A i \in 1..Len(q) : p[n][i] = q[i]
          /\ DOMAIN p[n] = 1..(Len(q) + 1) /\ DOMAIN q = 1..Len(q) /\ Len(q) \in Nat
      BY <2>0, <2>1, <3>1
    <3>3. ToSet(p[n]) = ToSet(q) \cup {s[n]}
      BY <3>2 DEF ToSet
    <3>4. {s[j] : j \in 1..n} = {s[j] : j \in 1..(n - 1)} \cup {s[n]}
      BY <2>1
    <3>5. ToSet(p[n]) = {s[j] : j \in 1..n} \cap keep
      BY <2>0, <2>3, <3>3, <3>4
    <3>6. ASSUME Once(s) PROVE Once(p[n])
      <4>1. s[n] \notin ToSet(q)
        <5>1. \A j \in 1..(n - 1) : s[j] # s[n]
          BY <1>2, <3>6 DEF Once
        <5> QED BY <2>0, <5>1
      <4>2. \A i \in 1..Len(q) : q[i] # s[n]
        BY <3>2, <4>1 DEF ToSet
      <4>3. \A i, j \in 1..Len(q) : q[i] = q[j] => i = j
        BY <2>0, <3>2, <3>6 DEF Once
      <4> QED BY <3>2, <4>2, <4>3 DEF Once
    <3> QED BY <3>2, <3>5, <3>6
  <2> QED BY <2>2, <2>3
<1> HIDE DEF Good
<1>5. Good(Len(s))
  <2> SUFFICES ASSUME ~Good(Len(s)) PROVE FALSE
    OBVIOUS
  <2>1. Bad \in SUBSET Nat /\ Bad # {}
    BY <1>2
  <2>2. PICK n \in Bad : \A m \in Bad : n <= m
    <3> HIDE DEF Bad
    <3> QED BY <2>1, LeastNumber
  <2>3. n # 0
    BY <1>3, <2>2
  <2>4. n \in 1..Len(s) /\ n - 1 \in 0..Len(s) /\ ~(n <= n - 1)
    BY <1>2, <2>2, <2>3
  <2>5. Good(n - 1)
    BY <2>2, <2>4
  <2> QED BY <1>4, <2>2, <2>4, <2>5
<1>6. ToSet(s) = {s[j] : j \in 1..Len(s)}
  BY <1>2 DEF ToSet
<1> QED BY <1>1, <1>5, <1>6 DEF Good

(* One record a file.                                                       *)
Distinct(records) ==
  \A i, j \in DOMAIN records : records[i].path = records[j].path => i = j

(* The merge of an earlier and a later record of one file.                  *)
Joined(r, d) == [path |-> d.path, backup |-> r.backup, digest |-> d.digest]

(* The files, their copies and the record.                                  *)
FileType ==
  /\ file \in [Path -> Content \cup {NoFile}]
  /\ theirs \in [Path -> Content \cup {NoFile}]
  /\ backups \in [Path -> SUBSET Content]
  /\ installed \subseteq Path /\ overwritten \subseteq Path
  /\ edits \in 0..MaxEdits
  /\ record \in Seq(Record) /\ Distinct(record)

(* A set-up at work has not done what it has still to do.                   *)
Applying(j) ==
  /\ j.at = "apply"
  /\ j = [at |-> "apply", held |-> j.held, steps |-> j.steps, done |-> j.done]
  /\ j.held \in Seq(Record) /\ Distinct(j.held)
  /\ j.done \in Seq(Record) /\ Distinct(j.done)
  /\ j.steps \in Seq(Path) /\ Once(j.steps)
  /\ Paths(j.done) \cap ToSet(j.steps) = {}

(* A set-up that failed.                                                    *)
Failed(j) ==
  /\ j.at = "failed"
  /\ j = [at |-> "failed", held |-> j.held, done |-> j.done]
  /\ j.held \in Seq(Record) /\ Distinct(j.held)
  /\ j.done \in Seq(Record) /\ Distinct(j.done)

(* What an undo could not carry out is behind it.                           *)
Undoing(j) ==
  /\ j.at = "undo"
  /\ j = [at |-> "undo", held |-> j.held, merges |-> j.merges,
          manifest |-> j.manifest, next |-> j.next, failed |-> j.failed]
  /\ j.held \in Seq(Record) /\ Distinct(j.held)
  /\ j.manifest \in Seq(Record) /\ Distinct(j.manifest)
  /\ ~j.merges => j.held = << >>
  /\ j.next \in 0..Len(j.manifest)
  /\ j.failed \subseteq {j.manifest[i].path : i \in (j.next + 1)..Len(j.manifest)}

(* The shape of the state.                                                  *)
TypeInv ==
  /\ FileType
  /\ job = Idle \/ Applying(job) \/ Failed(job) \/ Undoing(job)

(* The records made before the request, and by it or to be undone by it.    *)
Base == IF job.at = "idle" THEN ToSet(record) ELSE ToSet(job.held)
(* The records the request has made, or is to undo;                         *)
Fresh ==
  CASE job.at = "idle" -> {}
    [] job.at \in {"apply", "failed"} -> ToSet(job.done)
    [] job.at = "undo" -> ToSet(job.manifest)
(* those of them not undone.                                                *)
Live ==
  IF job.at # "undo" THEN Fresh
  ELSE {job.manifest[i] : i \in {k \in DOMAIN job.manifest :
          k <= job.next \/ job.manifest[k].path \in job.failed}}

(* The records of one file.                                                 *)
OfPath(records, p) == {r \in records : r.path = p}

(* Where the player's last version of a file is: in it, or among the        *)
(* copies.                                                                  *)
KeepInv(p) ==
  /\ p # "launcher" => theirs[p] \in {NoFile, Ours, file[p]} \cup backups[p]
  /\ p = "launcher" =>
       /\ file[p] = NoFile <=> theirs[p] = NoFile
       /\ file[p] # NoFile => theirs[p].version = file[p].version /\ ~theirs[p].ours

(* A record's copy was kept, and is no later than what it says was written; *)
(* where the player's own file is what it says was written, that can be had *)
(* again.                                                                   *)
RecordInv(r) ==
  /\ r.digest.version <= edits
  /\ r.backup # NoFile => r.backup.version <= edits /\ r.backup \in backups[r.path]
  /\ r.path # "launcher" /\ theirs[r.path] = r.digest =>
       theirs[r.path] \in {Ours} \cup backups[r.path]

(* Both, of every file and record; no version is later than the last edit.  *)
CopyInv ==
  /\ \A p \in Path : file[p] # NoFile => file[p].version <= edits
  /\ \A p \in Path : KeepInv(p)
  /\ \A r \in ToSet(record) \cup Base \cup Fresh : RecordInv(r)

(* A file with one record to undo: still ours, or the player's since.       *)
Single(r) ==
  \/ file[r.path] = r.digest /\ theirs[r.path] \in {r.backup, NoFile}
  \/ file[r.path] # r.digest /\ file[r.path] = theirs[r.path]

(* A file that two set-ups wrote: the later one found ours, or none.        *)
Pair(r, d) ==
  \/ /\ file[r.path] = d.digest
     /\ \/ d.backup = r.digest /\ theirs[r.path] \in {r.backup, NoFile}
        \/ d.backup = NoFile /\ theirs[r.path] = NoFile
  \/ /\ file[r.path] \notin {d.digest, r.digest} /\ file[r.path] = theirs[r.path]
     /\ d.backup \in {r.digest, NoFile}

(* What a file is, given the records of it.                                 *)
Fine(p) ==
  /\ \A r \in OfPath(Base, p), d \in OfPath(Live, p) : Pair(r, d)
  /\ \A r \in OfPath(Base, p) : OfPath(Live, p) = {} => Single(r)
  /\ \A d \in OfPath(Live, p) : OfPath(Base, p) = {} => Single(d)
  /\ OfPath(Base, p) = {} /\ OfPath(Live, p) = {} => PutBack(p)

(* The files of a set of records.                                           *)
PathsOf(records) == {r.path : r \in records}

(* The records name exactly the files we wrote and did not undo or give up. *)
ExactInv == ~interrupted => installed = PathsOf(Base) \cup PathsOf(Live)

(* Every file is what its records say, those overwritten left out; the      *)
(* launcher's list has our entry only where a record says so.               *)
RestoreInv ==
  ~interrupted =>
    /\ "launcher" \notin overwritten
    /\ \A p \in Path \ (overwritten \cup {"launcher"}) : Fine(p)
    /\ "launcher" \notin PathsOf(Base) \cup PathsOf(Live) =>
         file["launcher"] = NoFile \/ ~file["launcher"].ours

(* The files of a sequence of records are those of its set.                 *)
LEMMA PathsAre ==
  ASSUME NEW s
  PROVE  Paths(s) = PathsOf(ToSet(s))
BY DEF Paths, PathsOf, ToSet

(* In a sequence with one record a file, a file has one record.             *)
LEMMA DistinctSays ==
  ASSUME NEW s, Distinct(s)
  PROVE  \A q, r \in ToSet(s) : q.path = r.path => q = r
BY DEF Distinct, ToSet

(* No records.                                                              *)
LEMMA EmptyIs ==
  /\ << >> \in Seq(Record) /\ Distinct(<< >>)
  /\ ToSet(<< >>) = {} /\ PathsOf({}) = {}
BY DEF Distinct, ToSet, PathsOf

(* The records of some files (Of), again one a file.                        *)
LEMMA OfIs ==
  ASSUME NEW s \in Seq(Record), NEW paths
  PROVE  /\ Of(s, paths) \in Seq(Record)
         /\ ToSet(Of(s, paths)) = {r \in ToSet(s) : r.path \in paths}
         /\ Distinct(s) => Distinct(Of(s, paths))
<1> DEFINE keep == {r \in ToSet(s) : r.path \in paths}
           t == Among(s, keep)
<1>1. /\ t \in Seq(Record) /\ ToSet(t) = ToSet(s) \cap keep
      /\ Once(s) => Once(t)
  BY AmongIs
<1>2. Of(s, paths) = t
  BY DEF Of
<1>3. ToSet(t) = keep
  BY <1>1
<1>4. ASSUME Distinct(s) PROVE Distinct(t)
  <2>1. Once(t)
    BY <1>1, <1>4 DEF Distinct, Once
  <2>2. \A q, r \in ToSet(s) : q.path = r.path => q = r
    BY <1>4, DistinctSays
  <2>3. \A i \in DOMAIN t : t[i] \in ToSet(s)
    <3> HIDE DEF t
    <3> QED BY <1>1 DEF ToSet
  <2> HIDE DEF t
  <2> QED BY <2>1, <2>2, <2>3 DEF Distinct, Once
<1> HIDE DEF t
<1> QED BY <1>1, <1>2, <1>3, <1>4

(* Again keeps the earlier copy and takes the later digest, and leaves a    *)
(* record no later write touched as it was.                                 *)
LEMMA AgainIs ==
  ASSUME NEW r \in Record, NEW fresh \in Seq(Record), Distinct(fresh)
  PROVE  /\ \A d \in ToSet(fresh) : d.path = r.path => Again(r, fresh) = Joined(r, d)
         /\ r.path \notin PathsOf(ToSet(fresh)) => Again(r, fresh) = r
<1> DEFINE now == Of(fresh, {r.path})
<1>1. /\ now \in Seq(Record) /\ ToSet(now) = {d \in ToSet(fresh) : d.path = r.path}
  BY OfIs
<1>2. Again(r, fresh) = IF now = << >> THEN r ELSE [Last(now) EXCEPT !.backup = r.backup]
  BY DEF Again
<1> HIDE DEF now
<1>3. ASSUME NEW d \in ToSet(fresh), d.path = r.path PROVE Again(r, fresh) = Joined(r, d)
  <2>1. d \in ToSet(now)
    BY <1>1, <1>3
  <2>2. now # << >> /\ Last(now) \in ToSet(now) /\ Last(now) \in Record
    <3>1. /\ Len(now) \in Nat /\ DOMAIN now = 1..Len(now)
          /\ \A i \in 1..Len(now) : now[i] \in Record
      BY <1>1
    <3>2. Len(now) # 0
      BY <2>1, <3>1 DEF ToSet
    <3> QED BY <3>1, <3>2 DEF Last, ToSet
  <2>3. Last(now) = d
    BY <1>1, <1>3, <2>2, DistinctSays
  <2>4. [d EXCEPT !.backup = r.backup] = Joined(r, d)
    BY <2>2, <2>3 DEF Record, Joined
  <2> QED BY <1>2, <2>2, <2>3, <2>4
<1>4. ASSUME r.path \notin PathsOf(ToSet(fresh)) PROVE Again(r, fresh) = r
  <2>1. ToSet(now) = {}
    BY <1>1, <1>4 DEF PathsOf
  <2>2. now = << >>
    <3>1. Len(now) \in Nat /\ DOMAIN now = 1..Len(now)
      BY <1>1
    <3>2. Len(now) = 0
      <4>1. \A i \in 1..Len(now) : now[i] \in ToSet(now)
        BY <3>1 DEF ToSet
      <4> QED BY <2>1, <3>1, <4>1
    <3> QED BY <1>1, <3>2
  <2> QED BY <1>2, <2>2
<1> QED BY <1>3, <1>4

(* What merging two lists of records comes to.                              *)
Merged(merged, B, F) ==
  /\ merged \in Seq(Record) /\ Distinct(merged)
  /\ \A m \in ToSet(merged) :
       \/ \E r \in B, d \in F : r.path = d.path /\ m = Joined(r, d)
       \/ m \in B /\ m.path \notin PathsOf(F)
       \/ m \in F /\ m.path \notin PathsOf(B)
  /\ PathsOf(ToSet(merged)) = PathsOf(B) \cup PathsOf(F)

(* mergeManifests makes one record of each file that either list has,       *)
(* whatever the two lists: what Merged says.                                *)
LEMMA MergeIs ==
  ASSUME NEW held \in Seq(Record), NEW fresh \in Seq(Record), Distinct(held), Distinct(fresh)
  PROVE  Merged(mergeManifests(held, fresh), ToSet(held), ToSet(fresh))
<1> DEFINE B == ToSet(held)
           F == ToSet(fresh)
           first == [i \in DOMAIN held |-> Again(held[i], fresh)]
           rest == Of(fresh, Path \ Paths(held))
           M == first \o rest
<1>1. mergeManifests(held, fresh) = M
  BY DEF mergeManifests
<1>2. /\ Len(held) \in Nat /\ DOMAIN held = 1..Len(held)
      /\ \A i \in 1..Len(held) : held[i] \in Record /\ held[i] \in B
  BY DEF ToSet
<1>3. \A d \in F : d \in Record
  BY DEF ToSet
<1>4. ASSUME NEW i \in 1..Len(held)
      PROVE  /\ first[i] \in Record /\ first[i].path = held[i].path
             /\ \/ \E d \in F : held[i].path = d.path /\ first[i] = Joined(held[i], d)
                \/ first[i] = held[i] /\ held[i].path \notin PathsOf(F)
  <2>0. first[i] = Again(held[i], fresh) /\ held[i] \in Record
    BY <1>2
  <2>1. CASE held[i].path \in PathsOf(F)
    <3>1. PICK d \in F : d.path = held[i].path
      BY <2>1 DEF PathsOf
    <3>2. first[i] = Joined(held[i], d)
      BY <2>0, <3>1, AgainIs
    <3>3. first[i] \in Record /\ first[i].path = d.path
      BY <1>3, <2>0, <3>2 DEF Joined, Record
    <3> QED BY <3>1, <3>2, <3>3
  <2>2. CASE held[i].path \notin PathsOf(F)
    <3>1. first[i] = held[i]
      BY <2>0, <2>2, AgainIs
    <3> QED BY <2>0, <2>2, <3>1
  <2> QED BY <2>1, <2>2
<1>5. first \in Seq(Record) /\ Len(first) = Len(held)
  <2>1. first \in [1..Len(held) -> Record]
    BY <1>2, <1>4
  <2> HIDE DEF first
  <2> QED BY <1>2, <2>1
<1>6. /\ rest \in Seq(Record) /\ Distinct(rest)
      /\ ToSet(rest) = {d \in F : d.path \notin PathsOf(B)}
  <2>1. ToSet(rest) = {d \in F : d.path \in Path \ Paths(held)}
    BY OfIs
  <2>2. \A d \in F : d.path \in Path
    BY <1>3 DEF Record
  <2>3. Paths(held) = PathsOf(B)
    BY PathsAre
  <2> QED BY <2>1, <2>2, <2>3, OfIs
<1> HIDE DEF first, rest
<1>7. /\ M \in Seq(Record) /\ DOMAIN M = 1..(Len(held) + Len(rest)) /\ Len(rest) \in Nat
      /\ \A i \in 1..Len(held) : M[i] = first[i]
      /\ \A i \in 1..Len(rest) : M[Len(held) + i] = rest[i]
      /\ DOMAIN rest = 1..Len(rest)
  <2>1. rest \in Seq(Record) /\ Len(rest) \in Nat /\ DOMAIN rest = 1..Len(rest)
    BY <1>6
  <2>2. /\ M \in Seq(Record) /\ Len(M) = Len(first) + Len(rest)
        /\ \A i \in 1..(Len(first) + Len(rest)) :
             M[i] = IF i <= Len(first) THEN first[i] ELSE rest[i - Len(first)]
    BY <1>5, <2>1, ConcatProperties
  <2>3. Len(held) \in Nat /\ Len(first) = Len(held)
    BY <1>2, <1>5
  <2> HIDE DEF M
  <2>4. DOMAIN M = 1..(Len(held) + Len(rest))
    BY <2>2, <2>3
  <2>5. ASSUME NEW i \in 1..Len(held) PROVE M[i] = first[i]
    <3>1. i \in 1..(Len(first) + Len(rest)) /\ i <= Len(first)
      BY <2>1, <2>3
    <3> QED BY <2>2, <3>1
  <2>6. ASSUME NEW i \in 1..Len(rest) PROVE M[Len(held) + i] = rest[i]
    <3> DEFINE k == Len(held) + i
    <3>1. k \in 1..(Len(first) + Len(rest)) /\ ~(k <= Len(first)) /\ k - Len(first) = i
      BY <2>1, <2>3
    <3> HIDE DEF k
    <3>2. M[k] = rest[i]
      BY <2>2, <3>1
    <3> QED BY <3>2 DEF k
  <2> QED BY <2>1, <2>2, <2>4, <2>5, <2>6
<1> HIDE DEF M
<1>8. ASSUME NEW i \in DOMAIN M
      PROVE  \/ i \in 1..Len(held) /\ M[i] = first[i]
             \/ \E k \in 1..Len(rest) : i = Len(held) + k /\ M[i] = rest[k]
  <2>1. CASE i <= Len(held)
    BY <1>2, <1>7, <2>1
  <2>2. CASE i > Len(held)
    <3>1. i - Len(held) \in 1..Len(rest) /\ i = Len(held) + (i - Len(held))
      BY <1>2, <1>7, <2>2
    <3> QED BY <1>7, <3>1
  <2> QED BY <1>2, <1>7, <2>1, <2>2
<1>9. \A k \in 1..Len(rest) : rest[k] \in F /\ rest[k].path \notin PathsOf(B)
  BY <1>6, <1>7 DEF ToSet
<1>10. Distinct(M)
  <2>1. \A i \in 1..Len(held) : first[i].path \in PathsOf(B)
    BY <1>2, <1>4 DEF PathsOf
  <2>2. \A i, j \in 1..Len(held) : held[i].path = held[j].path => i = j
    BY <1>2 DEF Distinct
  <2>3. \A i, j \in 1..Len(rest) : rest[i].path = rest[j].path => i = j
    BY <1>6, <1>7 DEF Distinct
  <2> SUFFICES ASSUME NEW i \in DOMAIN M, NEW j \in DOMAIN M, M[i].path = M[j].path
               PROVE  i = j
    BY DEF Distinct
  <2>4. CASE i \in 1..Len(held) /\ M[i] = first[i]
    BY <1>4, <1>8, <1>9, <2>1, <2>2, <2>4
  <2>5. CASE \E k \in 1..Len(rest) : i = Len(held) + k /\ M[i] = rest[k]
    BY <1>8, <1>9, <2>1, <2>3, <2>5
  <2> QED BY <1>8, <2>4, <2>5
<1>11. ASSUME NEW m \in ToSet(M)
       PROVE  \/ \E r \in B, d \in F : r.path = d.path /\ m = Joined(r, d)
              \/ m \in B /\ m.path \notin PathsOf(F)
              \/ m \in F /\ m.path \notin PathsOf(B)
  <2>1. PICK i \in DOMAIN M : m = M[i]
    BY DEF ToSet
  <2> QED BY <1>2, <1>4, <1>8, <1>9, <2>1
<1>12. PathsOf(ToSet(M)) = PathsOf(B) \cup PathsOf(F)
  <2>1. ASSUME NEW m \in ToSet(M) PROVE m.path \in PathsOf(B) \cup PathsOf(F)
    <3>1. \A r \in B, d \in F : r.path = d.path => Joined(r, d).path = d.path
      BY DEF Joined
    <3> QED BY <1>11, <3>1 DEF PathsOf
  <2>2. ASSUME NEW r \in B PROVE r.path \in PathsOf(ToSet(M))
    <3>1. PICK i \in 1..Len(held) : r = held[i]
      BY <1>2 DEF ToSet
    <3>2. i \in DOMAIN M /\ M[i].path = r.path
      BY <1>2, <1>4, <1>7, <3>1
    <3>3. M[i] \in ToSet(M)
      BY <3>2 DEF ToSet
    <3> QED BY <3>2, <3>3 DEF PathsOf
  <2>3. ASSUME NEW d \in F, d.path \notin PathsOf(B) PROVE d.path \in PathsOf(ToSet(M))
    <3>0. d \in ToSet(rest)
      BY <1>6, <2>3
    <3>1. PICK k \in 1..Len(rest) : d = rest[k]
      BY <1>7, <3>0 DEF ToSet
    <3>2. Len(held) + k \in DOMAIN M
      BY <1>2, <1>7
    <3>3. M[Len(held) + k] \in ToSet(M) /\ M[Len(held) + k].path = d.path
      BY <1>7, <3>1, <3>2 DEF ToSet
    <3> QED BY <3>3 DEF PathsOf
  <2> QED BY <2>1, <2>2, <2>3 DEF PathsOf
<1> QED BY <1>1, <1>7, <1>10, <1>11, <1>12 DEF Merged

(* A set with one record a file.                                            *)
Unique(records) == \A q, r \in records : q.path = r.path => q = r

(* No request is being served.                                              *)
Idling == job = Idle /\ Base = ToSet(record) /\ Fresh = {} /\ Live = {}

(* Between two requests the records are those saved.                        *)
LEMMA IdleIs ==
  ASSUME job = Idle
  PROVE  Idling
BY DEF Idle, Idling, Base, Fresh, Live

(* What is in a sequence of records is a record.                            *)
LEMMA InRecords ==
  ASSUME NEW s \in Seq(Record)
  PROVE  ToSet(s) \subseteq Record
BY DEF ToSet

(* One record a file, before the request and of it.                         *)
LEMMA RecordsAre ==
  ASSUME TypeInv
  PROVE  /\ Base \subseteq Record /\ Unique(Base)
         /\ Fresh \subseteq Record /\ Unique(Fresh)
         /\ Live \subseteq Fresh
<1>1. CASE job = Idle
  BY <1>1, IdleIs, InRecords, DistinctSays DEF TypeInv, FileType, Idling, Unique
<1>2. CASE Applying(job)
  <2>1. PICK j : j = job /\ Applying(j)
    BY <1>2
  <2>2. Base = ToSet(j.held) /\ Fresh = ToSet(j.done) /\ Live = ToSet(j.done)
    BY <2>1 DEF Applying, Base, Fresh, Live
  <2> QED BY <2>1, <2>2, InRecords, DistinctSays DEF Applying, Unique
<1>3. CASE Failed(job)
  <2>1. PICK j : j = job /\ Failed(j)
    BY <1>3
  <2>2. Base = ToSet(j.held) /\ Fresh = ToSet(j.done) /\ Live = ToSet(j.done)
    BY <2>1 DEF Failed, Base, Fresh, Live
  <2> QED BY <2>1, <2>2, InRecords, DistinctSays DEF Failed, Unique
<1>4. CASE Undoing(job)
  <2>1. PICK j : j = job /\ Undoing(j)
    BY <1>4
  <2>2. Base = ToSet(j.held) /\ Fresh = ToSet(j.manifest)
    BY <2>1 DEF Undoing, Base, Fresh
  <2>3. Live \subseteq ToSet(j.manifest)
    BY <2>1 DEF Undoing, Live, ToSet
  <2> QED BY <2>1, <2>2, <2>3, InRecords, DistinctSays DEF Undoing, Unique
<1> QED BY <1>1, <1>2, <1>3, <1>4 DEF TypeInv

(* Seven kinds of step.  Most touch neither files nor history,              *)
Untouched == UNCHANGED <<file, theirs, backups, edits, installed, overwritten>>
SameRecords == Base' = Base /\ Fresh' = Fresh /\ Live' = Live

(* handleInstall looks, plans, and touches nothing.                         *)
LEMMA InstallBecomes ==
  ASSUME TypeInv, handleInstall
  PROVE  /\ TypeInv' /\ SameRecords
         /\ Untouched /\ UNCHANGED <<record, interrupted>>
<1>1. PICK open \in BOOLEAN :
        /\ job = Idle /\ BuildPlan(open) # << >>
        /\ job' = [at |-> "apply", held |-> record, steps |-> BuildPlan(open), done |-> << >>]
        /\ Untouched /\ UNCHANGED <<record, interrupted>>
  BY DEF handleInstall, Untouched
<1>2. BuildPlan(open) \in Seq(Path) /\ Once(BuildPlan(open))
  <2>1. Steps \in Seq(Path) /\ Once(Steps)
    BY DEF Steps, Path, ToSet, Once
  <2>2. BuildPlan(open) = Among(Steps, {step \in Path : Needs(step)})
    BY <1>1 DEF BuildPlan
  <2> QED BY <2>1, <2>2, AmongIs
<1>3. PICK j, steps : /\ j = job' /\ steps \in Seq(Path) /\ Once(steps)
                      /\ j = [at |-> "apply", held |-> record, steps |-> steps,
                              done |-> << >>]
  BY <1>1, <1>2
<1>4. Applying(j)
  <2>1. Paths(<< >>) = {}
    BY DEF Paths
  <2>2. record \in Seq(Record) /\ Distinct(record)
    BY DEF TypeInv, FileType
  <2> QED BY <1>3, <2>1, <2>2, EmptyIs DEF Applying
<1>5. Base' = ToSet(record) /\ Fresh' = {} /\ Live' = {}
  BY <1>1, <1>3, EmptyIs DEF Base, Fresh, Live
<1>6. SameRecords
  BY <1>1, <1>5, IdleIs DEF Idling, SameRecords
<1> QED BY <1>1, <1>3, <1>4, <1>6 DEF TypeInv, FileType, Untouched

(* A copy is kept of whatever a write replaces, and none is lost.           *)
LEMMA KeptGrows ==
  ASSUME FileType, NEW p \in Path
  PROVE  /\ Kept(p) \in [Path -> SUBSET Content]
         /\ \A q \in Path : backups[q] \subseteq Kept(p)[q]
         /\ file[p] # NoFile => file[p] \in Kept(p)[p]
BY DEF FileType, Kept

(* A step that fails leaves every file and every record.                    *)
LEMMA FailsBecomes ==
  ASSUME TypeInv, ApplyFails
  PROVE  /\ TypeInv' /\ SameRecords
         /\ \A q \in Path : backups[q] \subseteq backups'[q]
         /\ UNCHANGED <<file, theirs, edits, installed, overwritten, record, interrupted>>
<1>1. PICK j : j = job /\ Applying(j) /\ j.steps # << >>
  <2>1. job.at = "apply" /\ job.steps # << >>
    BY DEF ApplyFails
  <2>2. Applying(job)
    BY <2>1 DEF TypeInv, Failed, Undoing, Idle
  <2> QED BY <2>1, <2>2
<1>2. Head(j.steps) \in Path
  BY <1>1 DEF Applying
<1>3. /\ backups' = backups \/ backups' = Kept(Head(j.steps))
      /\ job' = [at |-> "failed", held |-> j.held, done |-> j.done]
      /\ UNCHANGED <<file, theirs, edits, installed, overwritten, record, interrupted>>
  BY <1>1 DEF ApplyFails
<1>4. /\ backups' \in [Path -> SUBSET Content]
      /\ \A q \in Path : backups[q] \subseteq backups'[q]
  BY <1>2, <1>3, KeptGrows DEF TypeInv, FileType
<1>5. PICK k : k = job' /\ k = [at |-> "failed", held |-> j.held, done |-> j.done]
  BY <1>3
<1>6. Failed(k)
  BY <1>1, <1>5 DEF Applying, Failed
<1>7. SameRecords
  BY <1>1, <1>5 DEF Applying, SameRecords, Base, Fresh, Live
<1> QED BY <1>3, <1>4, <1>5, <1>6, <1>7 DEF TypeInv, FileType

(* A record is saved, or the old one is left and the save has failed.       *)
LEMMA WriteBecomes ==
  ASSUME TypeInv, NEW manifest, writeRecord(manifest), manifest \in Seq(Record),
         Distinct(manifest)
  PROVE  /\ record' \in Seq(Record) /\ Distinct(record)'
         /\ \/ record' = manifest /\ interrupted' = interrupted
            \/ record' = record /\ interrupted'
<1>1. \/ record' = manifest /\ interrupted' = interrupted
      \/ record' = record /\ interrupted' = TRUE
  BY DEF writeRecord
<1> QED BY <1>1 DEF TypeInv, FileType, Distinct

(* The record of a set-up that failed is saved before it is undone.         *)
LEMMA SaveFailedBecomes ==
  ASSUME TypeInv, SaveFailed
  PROVE  /\ TypeInv' /\ SameRecords /\ Untouched
         /\ \/ record' = record
            \/ Merged(record', Base, Live)
         /\ interrupted => interrupted'
<1>1. PICK j : j = job /\ Failed(j)
  BY DEF SaveFailed, TypeInv, Applying, Undoing, Idle
<1>2. /\ writeRecord(mergeManifests(j.held, j.done)) /\ Untouched
      /\ job' = [at |-> "undo", held |-> j.held, merges |-> TRUE,
                 manifest |-> j.done, next |-> Len(j.done), failed |-> {}]
  BY <1>1 DEF SaveFailed, Untouched
<1>3. Merged(mergeManifests(j.held, j.done), ToSet(j.held), ToSet(j.done))
  BY <1>1, MergeIs DEF Failed
<1>4. /\ record' \in Seq(Record) /\ Distinct(record)'
      /\ \/ record' = mergeManifests(j.held, j.done) /\ interrupted' = interrupted
         \/ record' = record /\ interrupted'
  BY <1>2, <1>3, WriteBecomes DEF Merged
<1>5. PICK k : k = job' /\ k = [at |-> "undo", held |-> j.held, merges |-> TRUE,
                                manifest |-> j.done, next |-> Len(j.done), failed |-> {}]
  BY <1>2
<1>6. Undoing(k)
  BY <1>1, <1>5 DEF Failed, Undoing
<1>7. Base = ToSet(j.held) /\ Fresh = ToSet(j.done) /\ Live = ToSet(j.done)
  BY <1>1 DEF Failed, Base, Fresh, Live
<1>8. Base' = ToSet(j.held) /\ Fresh' = ToSet(j.done) /\ Live' = ToSet(j.done)
  <2>1. Base' = ToSet(j.held) /\ Fresh' = ToSet(j.done)
    BY <1>5 DEF Base, Fresh
  <2>2. Live' = {j.done[i] : i \in {i \in DOMAIN j.done :
                  i <= Len(j.done) \/ j.done[i].path \in {}}}
    BY <1>5 DEF Live
  <2>3. DOMAIN j.done = 1..Len(j.done) /\ Len(j.done) \in Nat
    BY <1>1 DEF Failed
  <2>4. {i \in DOMAIN j.done : i <= Len(j.done) \/ j.done[i].path \in {}} = DOMAIN j.done
    BY <2>3
  <2> QED BY <2>1, <2>2, <2>4 DEF ToSet
<1>9. TypeInv'
  BY <1>2, <1>4, <1>5, <1>6 DEF TypeInv, FileType, Untouched
<1> QED BY <1>2, <1>3, <1>4, <1>7, <1>8, <1>9 DEF SameRecords

(* A save, or one that fails.                                               *)
Saved ==
  /\ TypeInv' /\ job' = Idle /\ Untouched
  /\ \/ Merged(record', Base, Live) /\ interrupted' = interrupted
     \/ record' = record /\ interrupted'

(* A set-up that is over saves what it and the ones before it wrote,        *)
LEMMA SaveAppliedBecomes ==
  ASSUME TypeInv, SaveApplied
  PROVE  Saved
<1>1. PICK j : j = job /\ Applying(j)
  BY DEF SaveApplied, TypeInv, Failed, Undoing, Idle
<1>2. writeRecord(mergeManifests(j.held, j.done)) /\ Untouched /\ job' = Idle
  BY <1>1 DEF SaveApplied, Untouched
<1>3. Merged(mergeManifests(j.held, j.done), ToSet(j.held), ToSet(j.done))
  BY <1>1, MergeIs DEF Applying
<1>4. /\ record' \in Seq(Record) /\ Distinct(record)'
      /\ \/ record' = mergeManifests(j.held, j.done) /\ interrupted' = interrupted
         \/ record' = record /\ interrupted'
  BY <1>2, <1>3, WriteBecomes DEF Merged
<1>5. Base = ToSet(j.held) /\ Live = ToSet(j.done)
  BY <1>1 DEF Applying, Base, Fresh, Live
<1>6. TypeInv'
  BY <1>2, <1>4 DEF TypeInv, FileType, Untouched
<1> QED BY <1>2, <1>3, <1>4, <1>5, <1>6 DEF Saved

(* an undo what it could not undo and what it did not have to.              *)
LEMMA SaveUndoneBecomes ==
  ASSUME TypeInv, SaveUndone
  PROVE  Saved
<1>1. PICK j : j = job /\ Undoing(j) /\ j.next = 0
  BY DEF SaveUndone, TypeInv, Applying, Failed, Idle
<1>2. writeRecord(Left(j)) /\ Untouched /\ job' = Idle
  BY <1>1 DEF SaveUndone, Untouched
<1> DEFINE left == Remaining(j.manifest, j.failed)
<1>3. /\ left \in Seq(Record) /\ Distinct(left)
      /\ ToSet(left) = {r \in ToSet(j.manifest) : r.path \in j.failed}
  BY <1>1, OfIs DEF Remaining, Undoing
<1>4. Base = ToSet(j.held) /\ Live = ToSet(left)
  <2>1. Base = ToSet(j.held)
    BY <1>1 DEF Undoing, Base
  <2>2. Live = {j.manifest[i] : i \in {k \in DOMAIN j.manifest :
                  k <= 0 \/ j.manifest[k].path \in j.failed}}
    BY <1>1 DEF Undoing, Live
  <2>3. DOMAIN j.manifest = 1..Len(j.manifest) /\ Len(j.manifest) \in Nat
    BY <1>1 DEF Undoing
  <2>4. {k \in DOMAIN j.manifest : k <= 0 \/ j.manifest[k].path \in j.failed}
          = {k \in DOMAIN j.manifest : j.manifest[k].path \in j.failed}
    BY <2>3
  <2>5. Live = {r \in ToSet(j.manifest) : r.path \in j.failed}
    BY <2>2, <2>4 DEF ToSet
  <2> QED BY <1>3, <2>1, <2>5
<1> HIDE DEF left
<1>5. Left(j) = IF j.merges THEN mergeManifests(j.held, left) ELSE left
  BY DEF Left, left
<1>6. Merged(Left(j), Base, Live)
  <2>1. CASE j.merges
    <3>1. j.held \in Seq(Record) /\ Distinct(j.held)
      BY <1>1 DEF Undoing
    <3>2. Merged(mergeManifests(j.held, left), ToSet(j.held), ToSet(left))
      BY <1>3, <3>1, MergeIs
    <3> QED BY <1>4, <1>5, <2>1, <3>2
  <2>2. CASE ~j.merges
    <3>1. Left(j) = left /\ Base = {}
      BY <1>1, <1>4, <1>5, <2>2, EmptyIs DEF Undoing
    <3> QED BY <1>3, <1>4, <3>1, EmptyIs DEF Merged
  <2> QED BY <2>1, <2>2
<1>7. /\ record' \in Seq(Record) /\ Distinct(record)'
      /\ \/ record' = Left(j) /\ interrupted' = interrupted
         \/ record' = record /\ interrupted'
  BY <1>2, <1>6, WriteBecomes DEF Merged
<1>8. TypeInv'
  BY <1>2, <1>7 DEF TypeInv, FileType, Untouched
<1> QED BY <1>2, <1>6, <1>7, <1>8 DEF Saved

(* Remove has every record to undo.                                         *)
LEMMA UninstallBegins ==
  ASSUME TypeInv, handleUninstall
  PROVE  /\ TypeInv' /\ Untouched /\ UNCHANGED <<record, interrupted>>
         /\ Idling /\ Base' = {} /\ Fresh' = ToSet(record) /\ Live' = ToSet(record)
<1>1. /\ job = Idle /\ Untouched /\ UNCHANGED <<record, interrupted>>
      /\ job' = [at |-> "undo", held |-> << >>, merges |-> FALSE,
                 manifest |-> record, next |-> Len(record), failed |-> {}]
  BY DEF handleUninstall, Untouched
<1>2. PICK k : k = job' /\ k = [at |-> "undo", held |-> << >>, merges |-> FALSE,
                                manifest |-> record, next |-> Len(record), failed |-> {}]
  BY <1>1
<1>3. record \in Seq(Record) /\ Distinct(record)
  BY DEF TypeInv, FileType
<1>4. Undoing(k)
  BY <1>2, <1>3, EmptyIs DEF Undoing
<1>5. Base' = {} /\ Fresh' = ToSet(record)
  BY <1>2, EmptyIs DEF Base, Fresh
<1>6. Live' = ToSet(record)
  <2>1. Live' = {record[i] : i \in {i \in DOMAIN record :
                  i <= Len(record) \/ record[i].path \in {}}}
    BY <1>2 DEF Live
  <2>2. DOMAIN record = 1..Len(record) /\ Len(record) \in Nat
    BY <1>3
  <2>3. {i \in DOMAIN record : i <= Len(record) \/ record[i].path \in {}} = DOMAIN record
    BY <2>2
  <2> QED BY <2>1, <2>3 DEF ToSet
<1>7. TypeInv'
  BY <1>1, <1>2, <1>4 DEF TypeInv, FileType, Untouched
<1> QED BY <1>1, <1>5, <1>6, <1>7, IdleIs

(* The program ends, and leaves what is on the disk.                        *)
LEMMA ExitBecomes ==
  ASSUME TypeInv, Exit
  PROVE  TypeInv' /\ Untouched /\ record' = record /\ job' = Idle /\ interrupted'
<1>1. Untouched /\ record' = record /\ job' = Idle /\ interrupted'
  BY DEF Exit, Untouched
<1> QED BY <1>1 DEF TypeInv, FileType, Untouched

(* What a step writes is ours, or the player's file with ours added.        *)
LEMMA PayloadIs ==
  ASSUME FileType, NEW p \in Path, ~NothingToAddTo(p)
  PROVE  /\ Payload(p) \in Content
         /\ p \in Downloaded => Payload(p) = Ours
         /\ p # "launcher" /\ file[p] = NoFile => Payload(p) = Ours
         /\ p = "launcher" => file[p] # NoFile /\ Payload(p).version = file[p].version
         /\ file[p] # NoFile => Payload(p) = Ours \/ Payload(p).version = file[p].version
<1>1. Ours \in Content
  BY InstallerAssumption DEF Ours, Content
<1>2. file[p] # NoFile => file[p] \in Content
  BY DEF FileType
<1>3. p \in Downloaded \/ p = "contributor" \/ p = "launcher"
  BY DEF Path, Steps, ToSet, Downloaded, Mods
<1>4. CASE p \in Downloaded
  <2>1. Payload(p) = Ours /\ p # "launcher"
    BY <1>4 DEF Payload, Downloaded, Mods
  <2> QED BY <1>1, <2>1
<1>5. CASE p = "contributor"
  <2>1. Payload(p) = captureProperties(file[p]) /\ p \notin Downloaded
    BY <1>5 DEF Payload, Downloaded, Mods
  <2>2. CASE file[p] = NoFile
    BY <1>1, <1>5, <2>1, <2>2 DEF captureProperties
  <2>3. CASE file[p] # NoFile
    <3>1. PICK c : c \in Content /\ c = file[p] /\ Payload(p) = [c EXCEPT !.ours = TRUE]
      BY <1>2, <2>1, <2>3 DEF captureProperties
    <3>2. Payload(p) \in Content /\ Payload(p).version = c.version
      BY <3>1 DEF Content
    <3> QED BY <1>5, <2>1, <2>3, <3>1, <3>2
  <2> QED BY <2>2, <2>3
<1>6. CASE p = "launcher"
  <2>1. Payload(p) = launcherEntry(file[p]) /\ file[p] # NoFile /\ p \notin Downloaded
    BY <1>6 DEF Payload, NothingToAddTo, Downloaded, Mods
  <2>2. PICK c : c \in Content /\ c = file[p] /\ Payload(p) = [c EXCEPT !.ours = TRUE]
    BY <1>2, <2>1 DEF launcherEntry
  <2>3. Payload(p) \in Content /\ Payload(p).version = c.version
    BY <2>2 DEF Content
  <2> QED BY <1>6, <2>1, <2>2, <2>3
<1> QED BY <1>3, <1>4, <1>5, <1>6

(* A step of a set-up, given the record it makes.                           *)
Wrote(d) ==
  /\ d \in Record /\ d.path \notin PathsOf(Fresh)
  /\ d.backup = file[d.path] /\ d.digest = Payload(d.path) /\ ~NothingToAddTo(d.path)
  /\ file' = [file EXCEPT ![d.path] = d.digest]
  /\ backups' = Kept(d.path)
  /\ Base' = Base /\ Fresh' = Fresh \cup {d} /\ Live = Fresh /\ Live' = Fresh'
  /\ installed' = installed \cup {d.path}
  /\ overwritten \subseteq overwritten'
  /\ "launcher" \notin overwritten => "launcher" \notin overwritten'
  /\ d.path # "launcher" /\ file[d.path] # NoFile
       /\ (\E r \in Base : r.path = d.path /\ r.digest # file[d.path]) =>
     d.path \in overwritten'
  /\ UNCHANGED <<theirs, edits, record, interrupted>>

(* A record of another file is added to a sequence that has one record a    *)
(* file.                                                                    *)
LEMMA AppendIs ==
  ASSUME NEW done \in Seq(Record), NEW d \in Record, Distinct(done), d.path \notin Paths(done)
  PROVE  /\ Append(done, d) \in Seq(Record) /\ Distinct(Append(done, d))
         /\ ToSet(Append(done, d)) = ToSet(done) \cup {d}
<1> DEFINE s == Append(done, d)
<1>1. /\ s \in Seq(Record) /\ DOMAIN s = 1..(Len(done) + 1) /\ DOMAIN done = 1..Len(done)
      /\ Len(done) \in Nat /\ s[Len(done) + 1] = d
      /\ \A i \in 1..Len(done) : s[i] = done[i]
  OBVIOUS
<1> HIDE DEF s
<1>2. ToSet(s) = ToSet(done) \cup {d}
  BY <1>1 DEF ToSet
<1>3. \A i \in 1..Len(done) : done[i].path # d.path
  BY <1>1 DEF Paths
<1>4. \A i, j \in 1..Len(done) : done[i].path = done[j].path => i = j
  BY <1>1 DEF Distinct
<1>5. Distinct(s)
  BY <1>1, <1>3, <1>4 DEF Distinct
<1> QED BY <1>1, <1>2, <1>5 DEF s

(* Apply writes a file it has not written before (Wrote).                   *)
LEMMA ApplyBecomes ==
  ASSUME TypeInv, Apply
  PROVE  TypeInv' /\ \E d : Wrote(d)
<1>1. PICK j : j = job /\ Applying(j) /\ j.steps # << >>
  <2>1. job.at = "apply" /\ job.steps # << >>
    BY DEF Apply
  <2>2. Applying(job)
    BY <2>1 DEF TypeInv, Failed, Undoing, Idle
  <2> QED BY <2>1, <2>2
<1> DEFINE p == Head(j.steps)
           d == [path |-> p, backup |-> file[p], digest |-> Payload(p)]
           rest == Tail(j.steps)
           done == Append(j.done, d)
<1>2. /\ ~NothingToAddTo(p)
      /\ file' = [file EXCEPT ![p] = Payload(p)]
      /\ backups' = Kept(p)
      /\ job' = [j EXCEPT !.steps = Tail(@), !.done = Append(@, d)]
      /\ installed' = installed \cup {p}
      /\ overwritten' = IF WritesOver(p) THEN overwritten \cup {p} ELSE overwritten
      /\ UNCHANGED <<theirs, edits, record, interrupted>>
  BY <1>1 DEF Apply
<1>3. /\ p \in Path /\ rest \in Seq(Path) /\ p \in ToSet(j.steps)
      /\ ToSet(rest) \subseteq ToSet(j.steps) \ {p} /\ Once(rest)
  <2>1. /\ Len(j.steps) \in Nat \ {0} /\ DOMAIN j.steps = 1..Len(j.steps)
        /\ \A i \in 1..Len(j.steps) : j.steps[i] \in Path
        /\ p = j.steps[1] /\ rest \in Seq(Path) /\ Len(rest) = Len(j.steps) - 1
        /\ DOMAIN rest = 1..(Len(j.steps) - 1)
        /\ \A i \in 1..(Len(j.steps) - 1) : rest[i] = j.steps[i + 1]
    BY <1>1 DEF Applying
  <2>2. \A i, k \in 1..Len(j.steps) : j.steps[i] = j.steps[k] => i = k
    BY <1>1, <2>1 DEF Applying, Once
  <2> HIDE DEF rest, p
  <2>3. \A i \in 1..(Len(j.steps) - 1) :
          i + 1 \in 1..Len(j.steps) /\ i + 1 # 1 /\ 1 \in 1..Len(j.steps)
    BY <2>1
  <2>4. p \in Path /\ p \in ToSet(j.steps)
    BY <2>1 DEF ToSet
  <2>5. ASSUME NEW x \in ToSet(rest) PROVE x \in ToSet(j.steps) \ {p}
    <3>1. PICK i \in 1..(Len(j.steps) - 1) : x = rest[i]
      BY <2>1 DEF ToSet
    <3>2. x = j.steps[i + 1] /\ x # p
      BY <2>1, <2>2, <2>3, <3>1
    <3>3. x \in ToSet(j.steps)
      BY <2>1, <2>3, <3>2 DEF ToSet
    <3> QED BY <3>2, <3>3
  <2>6. Once(rest)
    <3> SUFFICES ASSUME NEW i \in 1..(Len(j.steps) - 1), NEW k \in 1..(Len(j.steps) - 1),
                        rest[i] = rest[k]
                 PROVE  i = k
      BY <2>1 DEF Once
    <3>1. i + 1 = k + 1
      BY <2>1, <2>2, <2>3
    <3> QED BY <2>1, <3>1
  <2> QED BY <2>1, <2>4, <2>5, <2>6
<1>4. FileType
  BY DEF TypeInv
<1>5. d \in Record /\ d.path = p /\ d.backup = file[p] /\ d.digest = Payload(p)
      /\ Payload(p) \in Content
  <2>1. Payload(p) \in Content
    BY <1>2, <1>3, <1>4, PayloadIs
  <2>2. file[p] \in Content \cup {NoFile}
    BY <1>3, <1>4 DEF FileType
  <2> HIDE DEF p
  <2> QED BY <1>3, <2>1, <2>2 DEF Record
<1>6. p \notin Paths(j.done)
  BY <1>1, <1>3 DEF Applying
<1> HIDE DEF p, d, rest
<1>7. /\ done \in Seq(Record) /\ Distinct(done)
      /\ ToSet(done) = ToSet(j.done) \cup {d} /\ Paths(done) = Paths(j.done) \cup {p}
  <2>1. j.done \in Seq(Record) /\ Distinct(j.done)
    BY <1>1 DEF Applying
  <2>2. /\ done \in Seq(Record) /\ Distinct(done)
        /\ ToSet(done) = ToSet(j.done) \cup {d}
    BY <1>5, <1>6, <2>1, AppendIs
  <2>3. Paths(done) = PathsOf(ToSet(done)) /\ Paths(j.done) = PathsOf(ToSet(j.done))
    BY PathsAre
  <2>4. PathsOf(ToSet(j.done) \cup {d}) = PathsOf(ToSet(j.done)) \cup {p}
    BY <1>5 DEF PathsOf
  <2> QED BY <2>2, <2>3, <2>4
<1> HIDE DEF done
<1>8. PICK k : k = job' /\ k = [at |-> "apply", held |-> j.held, steps |-> rest, done |-> done]
  BY <1>1, <1>2 DEF Applying, rest, done
<1>9. Applying(k)
  BY <1>1, <1>3, <1>7, <1>8 DEF Applying
<1>10. /\ Base = ToSet(j.held) /\ Fresh = ToSet(j.done) /\ Live = Fresh
       /\ Base' = ToSet(j.held) /\ Fresh' = ToSet(done) /\ Live' = Fresh'
  BY <1>1, <1>8 DEF Applying, Base, Fresh, Live
<1>11. /\ overwritten' \subseteq Path /\ overwritten \subseteq overwritten'
       /\ "launcher" \notin overwritten => "launcher" \notin overwritten'
  BY <1>2, <1>3, <1>4 DEF FileType, WritesOver
<1>12. ASSUME p # "launcher", file[p] # NoFile,
              NEW r \in Base, r.path = p, r.digest # file[p]
       PROVE  p \in overwritten'
  <2>1. PICK i \in DOMAIN j.held : j.held[i] = r
    BY <1>10 DEF ToSet
  <2>2. WritesOver(p)
    BY <1>1, <1>12, <2>1 DEF WritesOver
  <2> QED BY <1>2, <2>2
<1>13. p \notin PathsOf(Fresh)
  BY <1>6, <1>10, PathsAre
<1>14. Wrote(d)
  BY <1>2, <1>5, <1>7, <1>10, <1>11, <1>12, <1>13 DEF Wrote
<1>15. TypeInv'
  <2>1. /\ file' \in [Path -> Content \cup {NoFile}]
        /\ backups' \in [Path -> SUBSET Content]
    BY <1>2, <1>3, <1>4, <1>5, KeptGrows DEF FileType
  <2>2. installed' \subseteq Path
    BY <1>2, <1>3, <1>4 DEF FileType
  <2>3. FileType'
    BY <1>2, <1>4, <1>11, <2>1, <2>2 DEF FileType
  <2> QED BY <1>8, <1>9, <2>3 DEF TypeInv
<1> QED BY <1>14, <1>15

(* A step of an undo, given the record it takes up.                         *)
Undid(r) ==
  /\ r \in Live /\ r \in Record
  /\ Base' = Base /\ Fresh' = Fresh
  /\ UNCHANGED <<theirs, backups, record, edits, overwritten, interrupted>>
  /\ \/ /\ file' = [file EXCEPT ![r.path] = Undone(r)]
        /\ Live' = Live \ {r}
        /\ installed' = installed \ ({r.path} \ PathsOf(Base))
     \/ UNCHANGED <<file, installed>> /\ Live' = Live

(* What undoing a record leaves is a file or none.                          *)
LEMMA UndoneIs ==
  ASSUME FileType, NEW r \in Record
  PROVE  Undone(r) \in Content \cup {NoFile}
<1>1. r.path \in Path /\ r.backup \in Content \cup {NoFile}
  BY DEF Record
<1>2. file[r.path] \in Content \cup {NoFile}
  BY <1>1 DEF FileType
<1>3. \A c \in Content : [c EXCEPT !.ours = FALSE] \in Content
  BY DEF Content
<1>4. removeLauncherEntry(file[r.path]) \in Content \cup {NoFile}
  BY <1>2, <1>3 DEF removeLauncherEntry
<1> QED BY <1>1, <1>2, <1>4 DEF Undone

(* Uninstall undoes one record that was still to be undone, or passes it    *)
(* over (Undid).                                                            *)
LEMMA UninstallBecomes ==
  ASSUME TypeInv, Uninstall
  PROVE  TypeInv' /\ \E r : Undid(r)
<1>1. PICK j : j = job /\ Undoing(j) /\ j.next > 0
  <2>1. job.at = "undo" /\ job.next > 0
    BY DEF Uninstall
  <2>2. Undoing(job)
    BY <2>1 DEF TypeInv, Failed, Applying, Idle
  <2> QED BY <2>1, <2>2
<1> DEFINE n == j.next
           list == j.manifest
           r == list[n]
<1>2. /\ list \in Seq(Record) /\ DOMAIN list = 1..Len(list) /\ Len(list) \in Nat
      /\ \A i \in 1..Len(list) : list[i] \in Record
      /\ n \in 1..Len(list) /\ n - 1 \in 0..Len(list)
      /\ \A i, k \in 1..Len(list) : list[i].path = list[k].path => i = k
      /\ j.failed \subseteq {list[i].path : i \in (n + 1)..Len(list)}
  BY <1>1 DEF Undoing, Distinct
<1>3. /\ UNCHANGED <<theirs, backups, record, edits, overwritten, interrupted>>
      /\ \/ /\ file' = [file EXCEPT ![r.path] = Undone(r)]
            /\ job' = [j EXCEPT !.next = @ - 1]
            /\ installed' = installed \ ({r.path} \ Paths(j.held))
         \/ /\ job' = [j EXCEPT !.next = @ - 1, !.failed = @ \cup {r.path}]
            /\ UNCHANGED <<file, installed>>
  BY <1>1 DEF Uninstall
<1> HIDE DEF n, list
<1>4. Live = {list[i] : i \in {k \in 1..Len(list) : k <= n \/ list[k].path \in j.failed}}
  BY <1>1, <1>2 DEF Undoing, Live, n, list
<1>5. Base = ToSet(j.held) /\ Fresh = ToSet(list) /\ Paths(j.held) = PathsOf(Base)
  BY <1>1, PathsAre DEF Undoing, Base, Fresh, list
<1>6. r \in Live /\ r \in Record /\ r.path \in Path
  <2>1. r \in Record /\ n \in {k \in 1..Len(list) : k <= n \/ list[k].path \in j.failed}
    BY <1>2
  <2> QED BY <1>4, <2>1 DEF Record
<1>7. \A i \in (n + 1)..Len(list) : i \in 1..Len(list) /\ i # n
  BY <1>2
<1>8. r.path \notin j.failed
  BY <1>2, <1>7
<1>9. ASSUME file' = [file EXCEPT ![r.path] = Undone(r)],
             job' = [j EXCEPT !.next = @ - 1],
             installed' = installed \ ({r.path} \ Paths(j.held))
      PROVE  TypeInv' /\ Undid(r)
  <2>1. PICK k : /\ k = job'
                 /\ k = [at |-> "undo", held |-> j.held, merges |-> j.merges,
                         manifest |-> list, next |-> n - 1, failed |-> j.failed]
    BY <1>1, <1>9 DEF Undoing, n, list
  <2>2. j.failed \subseteq {list[i].path : i \in ((n - 1) + 1)..Len(list)}
    <3>1. (n + 1)..Len(list) \subseteq ((n - 1) + 1)..Len(list)
      BY <1>2
    <3> QED BY <1>2, <3>1
  <2>3. Undoing(k)
    BY <1>1, <1>2, <2>1, <2>2 DEF Undoing, list
  <2>4. Base' = Base /\ Fresh' = Fresh
    <3>1. job'.at = "undo" /\ job'.held = j.held /\ job'.manifest = list
      BY <2>1
    <3>2. Base' = ToSet(j.held) /\ Fresh' = ToSet(list)
      BY <3>1 DEF Base, Fresh
    <3> QED BY <1>5, <3>2
  <2>5. Live' = {list[i] : i \in {i \in 1..Len(list) : i <= n - 1 \/ list[i].path \in j.failed}}
    BY <1>2, <2>1 DEF Live
  <2>6. Live' = Live \ {r}
    <3>1. \A i \in 1..Len(list) : list[i] = r <=> i = n
      BY <1>2
    <3>2. \A i \in 1..Len(list) : i <= n - 1 <=> (i <= n /\ i # n)
      BY <1>2
    <3>3. ASSUME NEW x \in Live' PROVE x \in Live \ {r}
      <4>1. PICK i \in 1..Len(list) : x = list[i] /\ (i <= n - 1 \/ list[i].path \in j.failed)
        BY <2>5
      <4>2. i # n /\ (i <= n \/ list[i].path \in j.failed)
        BY <1>8, <3>2, <4>1
      <4> QED BY <1>4, <3>1, <4>1, <4>2
    <3>4. ASSUME NEW x \in Live \ {r} PROVE x \in Live'
      <4>1. PICK i \in 1..Len(list) : x = list[i] /\ (i <= n \/ list[i].path \in j.failed)
        BY <1>4
      <4>2. i <= n - 1 \/ list[i].path \in j.failed
        BY <3>1, <3>2, <3>4, <4>1
      <4> QED BY <2>5, <4>1, <4>2
    <3> QED BY <3>3, <3>4
  <2>7. file' \in [Path -> Content \cup {NoFile}] /\ installed' \subseteq Path
    <3>1. Undone(r) \in Content \cup {NoFile}
      BY <1>6, UndoneIs DEF TypeInv
    <3> HIDE DEF r
    <3> QED BY <1>9, <3>1 DEF TypeInv, FileType
  <2>8. TypeInv'
    BY <1>3, <2>1, <2>3, <2>7 DEF TypeInv, FileType
  <2> QED BY <1>3, <1>5, <1>6, <1>9, <2>4, <2>6, <2>8 DEF Undid
<1>10. ASSUME job' = [j EXCEPT !.next = @ - 1, !.failed = @ \cup {r.path}],
              UNCHANGED <<file, installed>>
       PROVE  TypeInv' /\ Undid(r)
  <2>1. PICK k : /\ k = job'
                 /\ k = [at |-> "undo", held |-> j.held, merges |-> j.merges,
                         manifest |-> list, next |-> n - 1, failed |-> j.failed \cup {r.path}]
    BY <1>1, <1>10 DEF Undoing, n, list
  <2>2. j.failed \cup {r.path} \subseteq {list[i].path : i \in ((n - 1) + 1)..Len(list)}
    <3>1. /\ (n + 1)..Len(list) \subseteq ((n - 1) + 1)..Len(list)
          /\ n \in ((n - 1) + 1)..Len(list)
      BY <1>2
    <3> QED BY <1>2, <3>1
  <2>3. Undoing(k)
    BY <1>1, <1>2, <2>1, <2>2 DEF Undoing, list
  <2>4. Base' = Base /\ Fresh' = Fresh
    <3>1. job'.at = "undo" /\ job'.held = j.held /\ job'.manifest = list
      BY <2>1
    <3>2. Base' = ToSet(j.held) /\ Fresh' = ToSet(list)
      BY <3>1 DEF Base, Fresh
    <3> QED BY <1>5, <3>2
  <2>5. Live' = {list[i] : i \in {i \in 1..Len(list) :
                   i <= n - 1 \/ list[i].path \in j.failed \cup {r.path}}}
    BY <1>2, <2>1 DEF Live
  <2>6. Live' = Live
    <3>1. \A i \in 1..Len(list) : list[i].path = r.path <=> i = n
      BY <1>2
    <3>2. \A i \in 1..Len(list) : i <= n <=> (i <= n - 1 \/ i = n)
      BY <1>2
    <3>3. \A i \in 1..Len(list) : (i <= n - 1 \/ list[i].path \in j.failed \cup {r.path})
                                    <=> (i <= n \/ list[i].path \in j.failed)
      BY <3>1, <3>2
    <3> QED BY <1>4, <2>5, <3>3
  <2>7. TypeInv'
    BY <1>3, <1>10, <2>1, <2>3 DEF TypeInv, FileType
  <2> QED BY <1>3, <1>6, <1>10, <2>4, <2>6, <2>7 DEF Undid
<1> QED BY <1>3, <1>9, <1>10

(* Somebody else writes a file.                                             *)
Edited(p, content) ==
  /\ p \in Path /\ content \in Content \cup {NoFile}
  /\ file' = [file EXCEPT ![p] = content]
  /\ edits' = edits + 1
  /\ UNCHANGED <<backups, record, job, installed, overwritten, interrupted>>

(* What somebody else writes: a file of theirs, or the launcher its list.   *)
Played ==
  \/ \E p, content : /\ Edited(p, content) /\ p # "launcher"
                     /\ theirs' = [theirs EXCEPT ![p] = content]
                     /\ \/ content = NoFile
                        \/ content = Ours /\ p \notin installed
                        \/ content # NoFile /\ content.version = edits + 1
  \/ \E list, mine : /\ Edited("launcher", list) /\ file["launcher"] # NoFile
                     /\ theirs' = [theirs EXCEPT !["launcher"] = mine]
                     /\ mine \in Content /\ list \in Content
                     /\ mine.version = edits + 1 /\ list.version = edits + 1
                     /\ ~mine.ours
                     /\ list.ours => file["launcher"].ours

(* The player and the launcher write files, and no record (Played).         *)
LEMMA PlayerBecomes ==
  ASSUME TypeInv,
         \/ \E p \in Path : PlayerWrites(p) \/ PlayerDeletes(p) \/ PlayerFetches(p)
         \/ LauncherWrites
  PROVE  TypeInv' /\ Played /\ SameRecords
<1>0. /\ \A b \in BOOLEAN : edits < MaxEdits => [ours |-> b, version |-> edits + 1] \in Content
      /\ Ours \in Content /\ "launcher" \in Path
      /\ Mods \subseteq Path /\ "launcher" \notin Mods
  BY InstallerAssumption DEF TypeInv, FileType, Content, Ours, Path, Steps, ToSet, Mods
<1>1. ASSUME NEW p \in Path, PlayerWrites(p)
      PROVE  Played /\ theirs' \in [Path -> Content \cup {NoFile}]
  <2>1. PICK named \in BOOLEAN :
          /\ p # "launcher" /\ Edit(p, [ours |-> named, version |-> edits + 1])
          /\ theirs' = [theirs EXCEPT ![p] = [ours |-> named, version |-> edits + 1]]
    BY <1>1 DEF PlayerWrites
  <2>2. PICK c : c = [ours |-> named, version |-> edits + 1]
    OBVIOUS
  <2>3. c \in Content /\ c.version = edits + 1 /\ Edited(p, c) /\ c # NoFile
    BY <1>0, <2>1, <2>2, InstallerAssumption DEF Edit, Edited, Content
  <2> QED BY <2>1, <2>2, <2>3 DEF Played, TypeInv, FileType
<1>2. ASSUME NEW p \in Path, PlayerDeletes(p)
      PROVE  Played /\ theirs' \in [Path -> Content \cup {NoFile}]
  <2>1. Edited(p, NoFile) /\ p # "launcher" /\ theirs' = [theirs EXCEPT ![p] = NoFile]
    BY <1>2 DEF PlayerDeletes, Edit, Edited
  <2> QED BY <2>1 DEF Played, TypeInv, FileType
<1>3. ASSUME NEW p \in Path, PlayerFetches(p)
      PROVE  Played /\ theirs' \in [Path -> Content \cup {NoFile}]
  <2>1. /\ Edited(p, Ours) /\ p # "launcher" /\ theirs' = [theirs EXCEPT ![p] = Ours]
        /\ p \notin installed
    BY <1>0, <1>3 DEF PlayerFetches, Edit, Edited
  <2> QED BY <1>0, <2>1 DEF Played, TypeInv, FileType
<1>4. ASSUME LauncherWrites PROVE Played /\ theirs' \in [Path -> Content \cup {NoFile}]
  <2> DEFINE mine == [ours |-> FALSE, version |-> edits + 1]
  <2>1. PICK entry \in {FALSE, file["launcher"].ours} :
          /\ file["launcher"] # NoFile
          /\ Edit("launcher", [ours |-> entry, version |-> edits + 1])
          /\ theirs' = [theirs EXCEPT !["launcher"] = mine]
    BY <1>4 DEF LauncherWrites
  <2>2. /\ entry \in BOOLEAN
        /\ entry => file["launcher"].ours
    BY <1>0, <2>1 DEF TypeInv, FileType, Content
  <2>3. PICK list : list = [ours |-> entry, version |-> edits + 1]
    OBVIOUS
  <2>4. /\ list \in Content /\ Edited("launcher", list) /\ mine \in Content
        /\ list.version = edits + 1
        /\ list.ours => file["launcher"].ours
    BY <1>0, <2>1, <2>2, <2>3 DEF Edit, Edited
  <2>5. mine.version = edits + 1 /\ ~mine.ours
    OBVIOUS
  <2> HIDE DEF mine
  <2> QED BY <1>0, <2>1, <2>4, <2>5 DEF Played, TypeInv, FileType
<1>5. Played /\ theirs' \in [Path -> Content \cup {NoFile}]
  BY <1>1, <1>2, <1>3, <1>4
<1>6. \E p, content : Edited(p, content)
  BY <1>5 DEF Played
<1>7. edits' \in 0..MaxEdits
  <2>1. edits < MaxEdits
    BY DEF PlayerWrites, PlayerDeletes, PlayerFetches, LauncherWrites, Edit
  <2> QED BY <1>6, <2>1, InstallerAssumption DEF Edited, TypeInv, FileType
<1>8. TypeInv'
  BY <1>5, <1>6, <1>7 DEF Edited, TypeInv, FileType, Distinct
<1>9. SameRecords
  BY <1>6 DEF Edited, SameRecords, Base, Fresh, Live
<1> QED BY <1>5, <1>8, <1>9

(* The records stay; they may be saved.                                     *)
Recorded ==
  /\ SameRecords /\ \A q \in Path : backups[q] \subseteq backups'[q]
  /\ UNCHANGED <<file, theirs, edits, installed, overwritten>>
  /\ \/ record' = record
     \/ Merged(record', Base, Live)
  /\ interrupted => interrupted'

(* Remove begins.                                                           *)
Begun ==
  /\ Untouched /\ UNCHANGED <<record, interrupted>>
  /\ Idling /\ Base' = {} /\ Fresh' = ToSet(record) /\ Live' = ToSet(record)

(* The program ends during a request.                                       *)
Ended == Untouched /\ record' = record /\ job' = Idle /\ interrupted'

(* A request that is over leaves the saved records.                         *)
LEMMA IdleIsNext ==
  ASSUME job' = Idle
  PROVE  Base' = ToSet(record') /\ Fresh' = {} /\ Live' = {}
BY DEF Idle, Base, Fresh, Live

(* Every step of the specification is one of seven kinds, and keeps the     *)
(* shape of the state.                                                      *)
LEMMA NextBecomes ==
  ASSUME TypeInv, [Next]_vars
  PROVE  /\ TypeInv'
         /\ \/ Recorded
            \/ Saved
            \/ Begun
            \/ Ended
            \/ \E d : Wrote(d)
            \/ \E r : Undid(r)
            \/ Played /\ SameRecords
<1>1. CASE handleInstall
  BY <1>1, InstallBecomes DEF Recorded, Untouched
<1>2. CASE Apply
  BY <1>2, ApplyBecomes
<1>3. CASE ApplyFails
  BY <1>3, FailsBecomes DEF Recorded
<1>4. CASE SaveApplied
  BY <1>4, SaveAppliedBecomes DEF Saved
<1>5. CASE SaveFailed
  BY <1>5, SaveFailedBecomes DEF Recorded, Untouched
<1>6. CASE handleUninstall
  BY <1>6, UninstallBegins DEF Begun
<1>7. CASE Uninstall
  BY <1>7, UninstallBecomes
<1>8. CASE SaveUndone
  BY <1>8, SaveUndoneBecomes DEF Saved
<1>9. CASE Exit
  BY <1>9, ExitBecomes DEF Ended
<1>10. CASE \/ \E p \in Path : PlayerWrites(p) \/ PlayerDeletes(p) \/ PlayerFetches(p)
            \/ LauncherWrites
  BY <1>10, PlayerBecomes
<1>11. CASE UNCHANGED vars
  <2>1. TypeInv' /\ SameRecords
    BY <1>11 DEF vars, TypeInv, FileType, Distinct, SameRecords, Base, Fresh, Live
  <2> QED BY <1>11, <2>1 DEF vars, Recorded
<1> QED
  BY <1>1, <1>2, <1>3, <1>4, <1>5, <1>6, <1>7, <1>8, <1>9, <1>10, <1>11 DEF Next, Serve

(* What RecordInv says of two lists of records it says of their merge.      *)
LEMMA MergedRecords ==
  ASSUME TypeInv, CopyInv, NEW merged, Merged(merged, Base, Live)
  PROVE  \A m \in ToSet(merged) : RecordInv(m)
<1>1. \A r \in Base \cup Live : RecordInv(r)
  BY RecordsAre DEF CopyInv
<1>2. ASSUME NEW r \in Base, NEW d \in Live, r.path = d.path PROVE RecordInv(Joined(r, d))
  <2>1. /\ Joined(r, d).path = r.path /\ Joined(r, d).digest = d.digest
        /\ Joined(r, d).backup = r.backup
    BY <1>2 DEF Joined
  <2> QED BY <1>1, <1>2, <2>1 DEF RecordInv
<1> QED BY <1>1, <1>2 DEF Merged

(* The invariant holds of a game nobody has set up.                         *)
LEMMA CopyInit ==
  ASSUME Init
  PROVE  TypeInv /\ CopyInv /\ ExactInv /\ RestoreInv
<1>1. /\ [ours |-> FALSE, version |-> 0] \in Content /\ 0 \in 0..MaxEdits
      /\ NoFile \notin Content /\ "launcher" \in Path
  BY InstallerAssumption DEF Content, Path, Steps, ToSet
<1>2. PICK c : /\ c = [ours |-> FALSE, version |-> 0] /\ c \in Content
               /\ c.version = 0 /\ ~c.ours
  BY <1>1
<1>3. /\ file \in [Path -> {c, NoFile}] /\ theirs = file
      /\ backups = [p \in Path |-> {}]
      /\ record = << >> /\ job = Idle /\ edits = 0
      /\ installed = {} /\ overwritten = {} /\ interrupted = FALSE
  BY <1>2 DEF Init
<1>4. Base = {} /\ Fresh = {} /\ Live = {}
  BY <1>3, IdleIs, EmptyIs DEF Idling
<1>5. TypeInv
  BY <1>1, <1>2, <1>3, EmptyIs DEF TypeInv, FileType
<1>6. CopyInv
  BY <1>1, <1>2, <1>3, <1>4, EmptyIs DEF CopyInv, KeepInv
<1>7. ExactInv
  BY <1>3, <1>4, EmptyIs DEF ExactInv
<1>8. \A p \in Path : PutBack(p)
  BY <1>3 DEF PutBack
<1>9. RestoreInv
  BY <1>1, <1>2, <1>3, <1>4, <1>8 DEF RestoreInv, Fine, OfPath
<1> QED BY <1>5, <1>6, <1>7, <1>9

(* Every kind of step keeps what is known of the copies: a write keeps what *)
(* it replaces; an undo puts back the copy of a file it knows for ours.     *)
LEMMA CopyNext ==
  ASSUME TypeInv, CopyInv, TypeInv',
         \/ Recorded
         \/ Saved
         \/ Begun
         \/ Ended
         \/ \E d : Wrote(d)
         \/ \E r : Undid(r)
         \/ Played /\ SameRecords
  PROVE  CopyInv'
<1>0. /\ NoFile \notin Content
      /\ Base \subseteq Record /\ Fresh \subseteq Record /\ Live \subseteq Fresh
      /\ ToSet(record) \subseteq Record
      /\ \A r \in Record : /\ r.path \in Path /\ r.digest \in Content
                           /\ r.backup \in Content \cup {NoFile}
      /\ \A k \in Content : k.version \in Nat
      /\ edits \in Nat
  <2>1. /\ NoFile \notin Content /\ \A k \in Content : k.version \in Nat
    BY InstallerAssumption DEF Content
  <2>2. Base \subseteq Record /\ Fresh \subseteq Record /\ Live \subseteq Fresh
    BY RecordsAre
  <2>3. ToSet(record) \subseteq Record
    BY InRecords DEF TypeInv, FileType
  <2>4. \A r \in Record : /\ r.path \in Path /\ r.digest \in Content
                        /\ r.backup \in Content \cup {NoFile}
    BY DEF Record
  <2>5. edits \in Nat
    BY InstallerAssumption DEF TypeInv, FileType
  <2> QED BY <2>1, <2>2, <2>3, <2>4, <2>5
<1>1. ASSUME UNCHANGED <<file, theirs, edits>>, \A q \in Path : backups[q] \subseteq backups'[q]
      PROVE  /\ \A q \in Path : file'[q] # NoFile => file'[q].version <= edits'
             /\ \A q \in Path : KeepInv(q)'
             /\ \A r \in Record : RecordInv(r) => RecordInv(r)'
  <2>1. \A q \in Path : KeepInv(q)'
    BY <1>1 DEF CopyInv, KeepInv
  <2>2. ASSUME NEW r \in Record, RecordInv(r) PROVE RecordInv(r)'
    BY <1>0, <1>1, <2>2 DEF RecordInv
  <2> QED BY <1>1, <2>1, <2>2 DEF CopyInv
<1>2. ASSUME Untouched
      PROVE  /\ UNCHANGED <<file, theirs, edits>>
             /\ \A q \in Path : backups[q] \subseteq backups'[q]
  BY <1>2 DEF Untouched
<1>3. CASE Recorded
  <2>1. /\ UNCHANGED <<file, theirs, edits>> /\ \A q \in Path : backups[q] \subseteq backups'[q]
        /\ Base' = Base /\ Fresh' = Fresh
    BY <1>3 DEF Recorded, SameRecords
  <2>2. /\ \A q \in Path : file'[q] # NoFile => file'[q].version <= edits'
        /\ \A q \in Path : KeepInv(q)'
        /\ \A r \in Record : RecordInv(r) => RecordInv(r)'
    BY <1>1, <2>1
  <2>3. ToSet(record') \subseteq Record /\ \A r \in ToSet(record') : RecordInv(r)
    <3>1. CASE record' = record
      BY <1>0, <3>1 DEF CopyInv
    <3>2. CASE Merged(record', Base, Live)
      BY <3>2, MergedRecords, InRecords DEF Merged
    <3> QED BY <1>3, <3>1, <3>2 DEF Recorded
  <2> QED BY <1>0, <2>1, <2>2, <2>3 DEF CopyInv
<1>4. CASE Saved \/ Ended
  <2>1. /\ UNCHANGED <<file, theirs, edits>> /\ \A q \in Path : backups[q] \subseteq backups'[q]
        /\ Base' = ToSet(record') /\ Fresh' = {}
    BY <1>2, <1>4, IdleIsNext DEF Saved, Ended
  <2>2. /\ \A q \in Path : file'[q] # NoFile => file'[q].version <= edits'
        /\ \A q \in Path : KeepInv(q)'
        /\ \A r \in Record : RecordInv(r) => RecordInv(r)'
    BY <1>1, <2>1
  <2>3. ToSet(record') \subseteq Record /\ \A r \in ToSet(record') : RecordInv(r)
    <3>1. CASE record' = record
      BY <1>0, <3>1 DEF CopyInv
    <3>2. CASE Merged(record', Base, Live)
      BY <3>2, MergedRecords, InRecords DEF Merged
    <3> QED BY <1>4, <3>1, <3>2 DEF Saved, Ended
  <2> QED BY <1>0, <2>1, <2>2, <2>3 DEF CopyInv
<1>5. CASE Begun
  <2>1. /\ UNCHANGED <<file, theirs, edits>> /\ \A q \in Path : backups[q] \subseteq backups'[q]
        /\ Base' = {} /\ Fresh' = ToSet(record) /\ record' = record
    BY <1>2, <1>5 DEF Begun
  <2>2. /\ \A q \in Path : file'[q] # NoFile => file'[q].version <= edits'
        /\ \A q \in Path : KeepInv(q)'
        /\ \A r \in Record : RecordInv(r) => RecordInv(r)'
    BY <1>1, <2>1
  <2> QED BY <1>0, <2>1, <2>2 DEF CopyInv
<1>6. ASSUME NEW d, Wrote(d) PROVE CopyInv'
  <2> DEFINE p == d.path
  <2>1. /\ d \in Record /\ p \in Path /\ d.backup = file[p] /\ d.digest = Payload(p)
        /\ ~NothingToAddTo(p)
        /\ file' = [file EXCEPT ![p] = d.digest] /\ backups' = Kept(p)
        /\ Base' = Base /\ Fresh' = Fresh \cup {d}
        /\ UNCHANGED <<theirs, edits, record>>
    BY <1>0, <1>6 DEF Wrote
  <2> HIDE DEF p
  <2>2. /\ \A q \in Path : backups[q] \subseteq backups'[q]
        /\ file[p] # NoFile => file[p] \in backups'[p]
    BY <2>1, KeptGrows DEF TypeInv
  <2>3. /\ d.digest \in Content
        /\ p = "launcher" => file[p] # NoFile /\ d.digest.version = file[p].version
        /\ file[p] = NoFile => d.digest = Ours
        /\ file[p] # NoFile => d.digest = Ours \/ d.digest.version = file[p].version
    BY <2>1, PayloadIs DEF TypeInv
  <2>4. file'[p] = d.digest /\ \A q \in Path \ {p} : file'[q] = file[q]
    BY <2>1 DEF TypeInv, FileType
  <2>5. d.digest.version <= edits
    <3>1. Ours.version = 0
      BY DEF Ours
    <3> QED BY <1>0, <2>1, <2>3, <3>1 DEF CopyInv
  <2>6. KeepInv(p)
    BY <2>1 DEF CopyInv
  <2>7. p # "launcher" => theirs[p] \in {NoFile, Ours} \cup backups'[p]
    BY <2>1, <2>2, <2>6 DEF KeepInv
  <2>8. \A q \in Path : KeepInv(q)'
    <3> TAKE q \in Path
    <3>1. CASE q # p
      BY <2>1, <2>2, <2>4, <3>1 DEF CopyInv, KeepInv
    <3>2. CASE q = p
      BY <1>0, <2>1, <2>3, <2>4, <2>6, <2>7, <3>2 DEF KeepInv
    <3> QED BY <3>1, <3>2
  <2>9. RecordInv(d)'
    <3>1. d.backup # NoFile => d.backup.version <= edits /\ d.backup \in backups'[p]
      BY <2>1, <2>2 DEF CopyInv
    <3>2. p # "launcher" /\ theirs[p] = d.digest => theirs[p] \in {Ours} \cup backups'[p]
      BY <1>0, <2>3, <2>7
    <3> QED BY <2>1, <2>5, <3>1, <3>2 DEF RecordInv, p
  <2>10. \A r \in Record : RecordInv(r) => RecordInv(r)'
    BY <1>0, <2>1, <2>2 DEF RecordInv
  <2>11. \A q \in Path : file'[q] # NoFile => file'[q].version <= edits'
    BY <2>1, <2>4, <2>5 DEF CopyInv
  <2> QED BY <1>0, <2>1, <2>8, <2>9, <2>10, <2>11 DEF CopyInv
<1>7. ASSUME NEW r, Undid(r) PROVE CopyInv'
  <2> DEFINE p == r.path
  <2>1. /\ r \in Live /\ r \in Record /\ p \in Path /\ RecordInv(r) /\ KeepInv(p)
        /\ Base' = Base /\ Fresh' = Fresh
        /\ UNCHANGED <<theirs, backups, edits, record>>
        /\ file' = file \/ file' = [file EXCEPT ![p] = Undone(r)]
    BY <1>0, <1>7 DEF Undid, CopyInv
  <2>2. \A q \in Record : RecordInv(q) => RecordInv(q)'
    BY <2>1 DEF RecordInv
  <2>3. CASE file' = file
    BY <1>0, <2>1, <2>2, <2>3 DEF CopyInv, KeepInv
  <2>4. CASE file' = [file EXCEPT ![p] = Undone(r)]
    <3> HIDE DEF p
    <3>1. file'[p] = Undone(r) /\ \A q \in Path \ {p} : file'[q] = file[q]
      BY <2>1, <2>4 DEF TypeInv, FileType
    <3>2. CASE p = "launcher"
      <4>1. Undone(r) = removeLauncherEntry(file[p])
        BY <3>2 DEF Undone, p
      <4>2. CASE file[p] = NoFile
        <5>1. file'[p] = NoFile
          BY <3>1, <4>1, <4>2 DEF removeLauncherEntry
        <5> QED BY <1>0, <2>1, <2>2, <3>1, <3>2, <4>2, <5>1 DEF CopyInv, KeepInv
      <4>3. CASE file[p] # NoFile
        <5>1. PICK k : k \in Content /\ k = file[p] /\ file'[p] = [k EXCEPT !.ours = FALSE]
          BY <2>1, <3>1, <4>1, <4>3 DEF removeLauncherEntry, TypeInv, FileType
        <5>2. file'[p] \in Content /\ file'[p].version = k.version
          BY <5>1 DEF Content
        <5> QED BY <1>0, <2>1, <2>2, <3>1, <3>2, <4>3, <5>1, <5>2 DEF CopyInv, KeepInv
      <4> QED BY <4>2, <4>3
    <3>3. CASE p # "launcher"
      <4>1. Undone(r) = IF file[p] \notin {NoFile, r.digest} THEN file[p] ELSE r.backup
        BY <3>3 DEF Undone, p
      <4>2. file'[p] # NoFile => file'[p].version <= edits
        BY <2>1, <3>1, <4>1 DEF CopyInv, RecordInv
      <4>3. theirs[p] \in {NoFile, Ours, file'[p]} \cup backups[p]
        BY <2>1, <3>1, <3>3, <4>1 DEF KeepInv, RecordInv, p
      <4>4. KeepInv(p)'
        BY <2>1, <3>3, <4>3 DEF KeepInv
      <4>5. \A q \in Path \ {p} : KeepInv(q)'
        BY <2>1, <3>1 DEF CopyInv, KeepInv
      <4> QED BY <1>0, <2>1, <2>2, <3>1, <4>2, <4>4, <4>5 DEF CopyInv
    <3> QED BY <3>2, <3>3
  <2> QED BY <2>1, <2>3, <2>4
<1>8. CASE Played /\ SameRecords
  <2>1. Base' = Base /\ Fresh' = Fresh
    BY <1>8 DEF SameRecords
  <2>2. ASSUME NEW p, NEW content, Edited(p, content), p # "launcher",
               theirs' = [theirs EXCEPT ![p] = content],
               \/ content = NoFile
               \/ content = Ours /\ p \notin installed
               \/ content # NoFile /\ content.version = edits + 1
        PROVE  CopyInv'
    <3>1. /\ p \in Path /\ file'[p] = content /\ theirs'[p] = content
          /\ \A q \in Path \ {p} : file'[q] = file[q] /\ theirs'[q] = theirs[q]
          /\ edits' = edits + 1 /\ UNCHANGED <<backups, record>>
      BY <2>2 DEF Edited, TypeInv, FileType
    <3>2. content # NoFile => content.version <= edits + 1
      <4>1. Ours.version = 0
        BY DEF Ours
      <4> QED BY <1>0, <2>2, <4>1
    <3>3. \A q \in Path : file'[q] # NoFile => file'[q].version <= edits'
      <4>1. \A q \in Path \ {p} :
              file[q] # NoFile => file[q] \in Content /\ file[q].version <= edits
        BY DEF CopyInv, TypeInv, FileType
      <4> QED BY <1>0, <3>1, <3>2, <4>1
    <3>4. \A q \in Path : KeepInv(q)'
      <4>1. KeepInv(p)'
        BY <2>2, <3>1 DEF KeepInv
      <4>2. \A q \in Path \ {p} : KeepInv(q)'
        BY <3>1 DEF CopyInv, KeepInv
      <4> QED BY <4>1, <4>2
    <3>5. ASSUME NEW r \in Record, RecordInv(r) PROVE RecordInv(r)'
      <4>1. /\ r.digest.version <= edits' /\ r.digest.version # edits + 1
            /\ r.backup # NoFile => r.backup.version <= edits'
        BY <1>0, <3>1, <3>5 DEF RecordInv
      <4>2. r.path = p /\ theirs'[p] = r.digest => theirs'[p] = Ours
        BY <1>0, <2>2, <3>1, <4>1
      <4> QED BY <1>0, <3>1, <3>5, <4>1, <4>2 DEF RecordInv
    <3> QED BY <1>0, <2>1, <3>1, <3>3, <3>4, <3>5 DEF CopyInv
  <2>3. ASSUME NEW list, NEW mine, Edited("launcher", list), file["launcher"] # NoFile,
               theirs' = [theirs EXCEPT !["launcher"] = mine],
               mine \in Content, list \in Content,
               mine.version = edits + 1, list.version = edits + 1, ~mine.ours
        PROVE  CopyInv'
    <3>1. /\ file'["launcher"] = list /\ theirs'["launcher"] = mine
          /\ \A q \in Path \ {"launcher"} : file'[q] = file[q] /\ theirs'[q] = theirs[q]
          /\ edits' = edits + 1 /\ UNCHANGED <<backups, record>>
      BY <2>3 DEF Edited, TypeInv, FileType
    <3>2. \A q \in Path : file'[q] # NoFile => file'[q].version <= edits'
      <4>1. \A q \in Path \ {"launcher"} :
              file[q] # NoFile => file[q] \in Content /\ file[q].version <= edits
        BY DEF CopyInv, TypeInv, FileType
      <4> QED BY <1>0, <2>3, <3>1, <4>1
    <3>3. \A q \in Path : KeepInv(q)'
      <4>1. KeepInv("launcher")'
        BY <1>0, <2>3, <3>1 DEF KeepInv
      <4>2. \A q \in Path \ {"launcher"} : KeepInv(q)'
        BY <3>1 DEF CopyInv, KeepInv
      <4> QED BY <4>1, <4>2
    <3>4. ASSUME NEW r \in Record, RecordInv(r) PROVE RecordInv(r)'
      <4>1. /\ r.digest.version <= edits'
            /\ r.backup # NoFile => r.backup.version <= edits'
        BY <1>0, <3>1, <3>4 DEF RecordInv
      <4> QED BY <1>0, <3>1, <3>4, <4>1 DEF RecordInv
    <3> QED BY <1>0, <2>1, <3>1, <3>2, <3>3, <3>4 DEF CopyInv
  <2> QED BY <1>8, <2>2, <2>3 DEF Played
<1> QED BY <1>3, <1>4, <1>5, <1>6, <1>7, <1>8

(* The shape of the state: one record a file in every list, and no step of  *)
(* a plan done twice.                                                       *)
THEOREM TypeCorrect == Spec => []TypeInv
<1>1. Init => TypeInv
  BY CopyInit
<1>2. TypeInv /\ [Next]_vars => TypeInv'
  BY NextBecomes
<1> QED BY <1>1, <1>2, PTL DEF Spec

(* The copies of a file are where the record and the history say.           *)
THEOREM CopyCorrect == Spec => []CopyInv
<1>1. Init => CopyInv
  BY CopyInit
<1>2. TypeInv /\ TypeInv' /\ CopyInv /\ [Next]_vars => CopyInv'
  BY NextBecomes, CopyNext
<1> QED BY <1>1, <1>2, TypeCorrect, PTL DEF Spec

(* What the player or the launcher last left in a file is still in it, or a *)
(* copy of it was kept, for any number of edits, faults and ends of the     *)
(* program at any step (KeptSomewhere; Apply, Uninstall and the saves of    *)
(* installed.json).                                                         *)
THEOREM KeptSomewhereCorrect == Spec => []KeptSomewhere
<1>1. CopyInv => KeptSomewhere
  BY DEF CopyInv, KeepInv, KeptSomewhere
<1> QED BY <1>1, CopyCorrect, PTL

(* Every kind of step keeps the records and the files we wrote equal, as    *)
(* long as no save failed and the program did not end in the middle.        *)
LEMMA ExactNext ==
  ASSUME TypeInv, ExactInv,
         \/ Recorded
         \/ Saved
         \/ Begun
         \/ Ended
         \/ \E d : Wrote(d)
         \/ \E r : Undid(r)
         \/ Played /\ SameRecords
  PROVE  ExactInv'
<1>1. CASE Recorded
  BY <1>1 DEF Recorded, SameRecords, ExactInv
<1>2. CASE Saved
  <2>1. CASE interrupted'
    BY <2>1 DEF ExactInv
  <2>2. CASE Merged(record', Base, Live) /\ interrupted' = interrupted
    <3>1. Base' = ToSet(record') /\ Live' = {}
      BY <1>2, IdleIsNext DEF Saved
    <3>2. PathsOf(Base') = PathsOf(Base) \cup PathsOf(Live) /\ PathsOf(Live') = {}
      BY <2>2, <3>1, EmptyIs DEF Merged
    <3>3. installed' = installed
      BY <1>2 DEF Saved, Untouched
    <3> QED BY <2>2, <3>2, <3>3 DEF ExactInv
  <2> QED BY <1>2, <2>1, <2>2 DEF Saved
<1>3. CASE Begun
  BY <1>3 DEF Begun, Idling, Untouched, ExactInv
<1>4. CASE Ended
  BY <1>4 DEF Ended, ExactInv
<1>5. ASSUME NEW d, Wrote(d) PROVE ExactInv'
  <2>1. /\ Base' = Base /\ Live' = Live \cup {d} /\ interrupted' = interrupted
        /\ installed' = installed \cup {d.path}
    BY <1>5 DEF Wrote
  <2>2. PathsOf(Live \cup {d}) = PathsOf(Live) \cup {d.path}
    BY DEF PathsOf
  <2> QED BY <2>1, <2>2 DEF ExactInv
<1>6. ASSUME NEW r, Undid(r) PROVE ExactInv'
  <2>1. /\ r \in Live /\ Base' = Base /\ interrupted' = interrupted
        /\ \/ /\ Live' = Live \ {r}
              /\ installed' = installed \ ({r.path} \ PathsOf(Base))
           \/ installed' = installed /\ Live' = Live
    BY <1>6 DEF Undid
  <2>2. PathsOf(Live \ {r}) = PathsOf(Live) \ {r.path}
    BY <2>1, RecordsAre DEF PathsOf, Unique
  <2> QED BY <2>1, <2>2 DEF ExactInv
<1>7. CASE Played /\ SameRecords
  BY <1>7 DEF Played, Edited, SameRecords, ExactInv
<1> QED BY <1>1, <1>2, <1>3, <1>4, <1>5, <1>6, <1>7

(* During a request too, the files we wrote and did not undo are those of   *)
(* the records made before it and of those it made and did not undo.        *)
THEOREM ExactCorrect == Spec => []ExactInv
<1>1. Init => ExactInv
  BY CopyInit
<1>2. TypeInv /\ ExactInv /\ [Next]_vars => ExactInv'
  BY NextBecomes, ExactNext
<1> QED BY <1>1, <1>2, TypeCorrect, PTL DEF Spec

(* Between two requests the record names exactly the files still to be      *)
(* undone (RecordIsExact; mergeManifests, Remaining).                       *)
THEOREM RecordIsExactCorrect == Spec => []RecordIsExact
<1>1. ExactInv => RecordIsExact
  BY IdleIs, PathsAre, EmptyIs DEF ExactInv, RecordIsExact, Idling
<1> QED BY <1>1, ExactCorrect, PTL

(* A file nobody touched, with the same records of it, is as it was.        *)
LEMMA FineStays ==
  ASSUME NEW p, Fine(p), file'[p] = file[p], theirs'[p] = theirs[p],
         backups[p] \subseteq backups'[p],
         Base' = Base, OfPath(Live', p) = OfPath(Live, p)
  PROVE  Fine(p)'
<1>1. \A r \in OfPath(Base, p) : r.path = p
  BY DEF OfPath
<1>2. \A d \in OfPath(Live, p) : d.path = p
  BY DEF OfPath
<1>3. OfPath(Base', p) = OfPath(Base, p)
  BY DEF OfPath
<1>4. \A r : r.path = p => (Single(r) => Single(r)')
  BY DEF Single
<1>5. \A r, d : r.path = p => (Pair(r, d) => Pair(r, d)')
  BY DEF Pair
<1>6. PutBack(p) => PutBack(p)'
  BY DEF PutBack
<1>7. /\ \A r \in OfPath(Base, p), d \in OfPath(Live, p) : Pair(r, d)
      /\ \A r \in OfPath(Base, p) : OfPath(Live, p) = {} => Single(r)
      /\ \A d \in OfPath(Live, p) : OfPath(Base, p) = {} => Single(d)
      /\ OfPath(Base, p) = {} /\ OfPath(Live, p) = {} => PutBack(p)
  BY DEF Fine
<1>8. \A r \in OfPath(Base, p), d \in OfPath(Live, p) : Pair(r, d)'
  BY <1>1, <1>5, <1>7
<1>9. \A r \in OfPath(Base, p) : OfPath(Live, p) = {} => Single(r)'
  BY <1>1, <1>4, <1>7
<1>10. \A d \in OfPath(Live, p) : OfPath(Base, p) = {} => Single(d)'
  BY <1>2, <1>4, <1>7
<1>11. OfPath(Base, p) = {} /\ OfPath(Live, p) = {} => PutBack(p)'
  BY <1>6, <1>7
<1> QED BY <1>3, <1>8, <1>9, <1>10, <1>11 DEF Fine

(* A save merges the two records of a file, and what each said of it        *)
(* becomes what their merge says.                                           *)
LEMMA RestoreSaved ==
  ASSUME TypeInv, RestoreInv, ~interrupted, Saved, Merged(record', Base, Live)
  PROVE  RestoreInv'
<1>1. /\ Base' = ToSet(record') /\ Live' = {}
      /\ UNCHANGED <<file, theirs, backups, overwritten>>
  BY IdleIsNext DEF Saved, Untouched
<1>2. PathsOf(Base') = PathsOf(Base) \cup PathsOf(Live) /\ PathsOf(Live') = {}
  BY <1>1, EmptyIs DEF Merged
<1>3. ASSUME NEW p \in Path \ (overwritten \cup {"launcher"})
      PROVE  Fine(p)'
  <2>1. Fine(p)
    BY <1>3 DEF RestoreInv
  <2>2. ASSUME NEW m \in OfPath(Base', p) PROVE Single(m)'
    <3>1. m \in ToSet(record') /\ m.path = p
      BY <1>1, <2>2 DEF OfPath
    <3>2. ASSUME NEW r \in Base, NEW d \in Live, r.path = d.path, m = Joined(r, d)
          PROVE  Single(m)
      <4>1. m.path = d.path /\ m.digest = d.digest /\ m.backup = r.backup
        BY <3>2 DEF Joined
      <4>2. Pair(r, d)
        BY <2>1, <3>1, <3>2, <4>1 DEF Fine, OfPath
      <4> QED BY <3>2, <4>1, <4>2 DEF Pair, Single
    <3>3. ASSUME m \in Base, m.path \notin PathsOf(Live) PROVE Single(m)
      <4>1. m \in OfPath(Base, p) /\ OfPath(Live, p) = {}
        BY <3>1, <3>3 DEF OfPath, PathsOf
      <4> QED BY <2>1, <4>1 DEF Fine
    <3>4. ASSUME m \in Live, m.path \notin PathsOf(Base) PROVE Single(m)
      <4>1. m \in OfPath(Live, p) /\ OfPath(Base, p) = {}
        BY <3>1, <3>4 DEF OfPath, PathsOf
      <4> QED BY <2>1, <4>1 DEF Fine
    <3>5. \/ \E r \in Base, d \in Live : r.path = d.path /\ m = Joined(r, d)
          \/ m \in Base /\ m.path \notin PathsOf(Live)
          \/ m \in Live /\ m.path \notin PathsOf(Base)
      BY <3>1 DEF Merged
    <3>6. Single(m)
      BY <3>2, <3>3, <3>4, <3>5
    <3> QED BY <1>1, <3>6 DEF Single
  <2>3. ASSUME OfPath(Base', p) = {} PROVE PutBack(p)'
    <3>1. p \notin PathsOf(Base')
      BY <2>3 DEF OfPath, PathsOf
    <3>2. OfPath(Base, p) = {} /\ OfPath(Live, p) = {}
      BY <1>2, <3>1 DEF OfPath, PathsOf
    <3> QED BY <1>1, <2>1, <3>2 DEF Fine, PutBack
  <2>4. OfPath(Live', p) = {}
    BY <1>1 DEF OfPath
  <2> QED BY <2>2, <2>3, <2>4 DEF Fine
<1> QED BY <1>1, <1>2, <1>3 DEF RestoreInv

(* A write records what it replaced; where an earlier set-up had written,   *)
(* that is our own file or none, or the file counts as overwritten.         *)
LEMMA RestoreWrote ==
  ASSUME TypeInv, RestoreInv, ~interrupted, NEW d, Wrote(d)
  PROVE  RestoreInv'
<1> DEFINE p == d.path
<1>1. /\ d \in Record /\ p \in Path /\ d.backup = file[p] /\ d.digest = Payload(p)
      /\ p \notin PathsOf(Fresh)
      /\ file' = [file EXCEPT ![p] = d.digest] /\ backups' = Kept(p)
      /\ Base' = Base /\ Live = Fresh /\ Live' = Live \cup {d}
      /\ overwritten \subseteq overwritten'
      /\ "launcher" \notin overwritten => "launcher" \notin overwritten'
      /\ UNCHANGED <<theirs, interrupted>>
  BY DEF Wrote, Record
<1>2. ASSUME p # "launcher", p \notin overwritten', NEW r \in Base, r.path = p
      PROVE  file[p] \in {NoFile, r.digest}
  BY <1>2 DEF Wrote
<1> HIDE DEF p
<1>3. file'[p] = d.digest /\ \A q \in Path \ {p} : file'[q] = file[q]
  BY <1>1 DEF TypeInv, FileType
<1>4. \A q \in Path : backups[q] \subseteq backups'[q]
  BY <1>1, KeptGrows DEF TypeInv
<1>5. d.path = p
  BY DEF p
<1>6. \A q \in Path \ {p} : OfPath(Live', q) = OfPath(Live, q)
  BY <1>1, <1>5 DEF OfPath
<1>7. OfPath(Live, p) = {} /\ OfPath(Live', p) = {d}
  BY <1>1, <1>5 DEF OfPath, PathsOf
<1>8. ASSUME NEW q \in Path \ (overwritten' \cup {"launcher"}) PROVE Fine(q)'
  <2>1. q \in Path /\ Fine(q)
    BY <1>1, <1>8 DEF RestoreInv
  <2>2. CASE q # p
    BY <1>1, <1>3, <1>4, <1>6, <2>1, <2>2, FineStays
  <2>3. CASE q = p
    <3>1. ASSUME NEW r \in OfPath(Base, p) PROVE Pair(r, d)'
      <4>1. r.path = p /\ r \in Base /\ Single(r) /\ r.digest \in Content
        BY <1>7, <2>1, <2>3, <3>1, RecordsAre DEF Fine, OfPath, Record
      <4>2. file[p] \in {NoFile, r.digest}
        BY <1>2, <1>8, <2>3, <4>1
      <4>3. NoFile \notin Content
        BY InstallerAssumption DEF Content
      <4> QED BY <1>1, <1>3, <4>1, <4>2, <4>3 DEF Single, Pair
    <3>2. ASSUME OfPath(Base, p) = {} PROVE Single(d)'
      <4>1. PutBack(p)
        BY <1>7, <2>1, <2>3, <3>2 DEF Fine
      <4>2. theirs[p] \in {file[p], NoFile}
        BY <4>1 DEF PutBack
      <4> QED BY <1>1, <1>3, <1>5, <4>2 DEF Single
    <3>3. OfPath(Base', p) = OfPath(Base, p)
      BY <1>1
    <3> QED BY <1>7, <2>3, <3>1, <3>2, <3>3 DEF Fine
  <2> QED BY <2>2, <2>3
<1>9. ASSUME "launcher" \notin PathsOf(Base') \cup PathsOf(Live')
      PROVE  file'["launcher"] = NoFile \/ ~file'["launcher"].ours
  <2>1. p # "launcher" /\ "launcher" \notin PathsOf(Base) \cup PathsOf(Live)
    BY <1>1, <1>5, <1>9 DEF PathsOf
  <2>2. "launcher" \in Path
    BY DEF Path, Steps, ToSet
  <2> QED BY <1>3, <2>1, <2>2 DEF RestoreInv
<1> QED BY <1>1, <1>8, <1>9 DEF RestoreInv

(* An undo takes a file back to the earlier set-up's, or to the player's.   *)
LEMMA RestoreUndid ==
  ASSUME TypeInv, CopyInv, RestoreInv, ~interrupted, NEW r, Undid(r)
  PROVE  RestoreInv'
<1> DEFINE p == r.path
<1>1. /\ r \in Live /\ r \in Record /\ p \in Path /\ Base' = Base
      /\ UNCHANGED <<theirs, backups, overwritten, interrupted>>
      /\ \/ file' = [file EXCEPT ![p] = Undone(r)] /\ Live' = Live \ {r}
         \/ file' = file /\ Live' = Live
  BY DEF Undid, Record
<1>2. CASE file' = file /\ Live' = Live
  <2>1. \A q \in Path \ (overwritten \cup {"launcher"}) : Fine(q)'
    BY <1>1, <1>2, FineStays DEF RestoreInv
  <2> QED BY <1>1, <1>2, <2>1 DEF RestoreInv
<1>3. CASE file' = [file EXCEPT ![p] = Undone(r)] /\ Live' = Live \ {r}
  <2>1. r.path = p
    BY DEF p
  <2> HIDE DEF p
  <2>2. file'[p] = Undone(r) /\ \A q \in Path \ {p} : file'[q] = file[q]
    BY <1>1, <1>3 DEF TypeInv, FileType
  <2>3. \A q \in Path \ {p} : OfPath(Live', q) = OfPath(Live, q)
    BY <1>3, <2>1 DEF OfPath
  <2>4. r \in OfPath(Live, p) /\ OfPath(Live', p) = {}
    BY <1>1, <1>3, <2>1, RecordsAre DEF OfPath, Unique
  <2>5. NoFile \notin Content
    BY InstallerAssumption DEF Content
  <2>6. RecordInv(r)
    BY <1>1, RecordsAre DEF CopyInv
  <2>7. ASSUME NEW q \in Path \ (overwritten \cup {"launcher"}) PROVE Fine(q)'
    <3>1. q \in Path /\ Fine(q)
      BY <2>7 DEF RestoreInv
    <3>2. CASE q # p
      BY <1>1, <2>2, <2>3, <3>1, <3>2, FineStays
    <3>3. CASE q = p
      <4>1. file'[p] = IF file[p] \notin {NoFile, r.digest} THEN file[p] ELSE r.backup
        BY <2>1, <2>2, <2>7, <3>3 DEF Undone
      <4>2. ASSUME NEW b \in OfPath(Base, p) PROVE Single(b)'
        <5>1. b.path = p /\ b.digest \in Content /\ Pair(b, r)
          BY <2>4, <3>1, <3>3, <4>2, RecordsAre DEF Fine, OfPath, Record
        <5> QED BY <1>1, <2>5, <4>1, <5>1 DEF Single, Pair
      <4>3. ASSUME OfPath(Base, p) = {} PROVE PutBack(p)'
        <5>1. Single(r)
          BY <2>4, <3>1, <3>3, <4>3 DEF Fine
        <5>2. r.backup \in {NoFile} \cup backups[p]
          BY <2>1, <2>6 DEF RecordInv
        <5> QED BY <1>1, <2>1, <4>1, <5>1, <5>2 DEF Single, PutBack
      <4>4. OfPath(Base', p) = OfPath(Base, p)
        BY <1>1
      <4> QED BY <2>4, <3>3, <4>2, <4>3, <4>4 DEF Fine
    <3> QED BY <3>2, <3>3
  <2>8. ASSUME "launcher" \notin PathsOf(Base') \cup PathsOf(Live')
        PROVE  file'["launcher"] = NoFile \/ ~file'["launcher"].ours
    <3>1. "launcher" \in Path
      BY DEF Path, Steps, ToSet
    <3>2. CASE p # "launcher"
      <4>1. "launcher" \notin PathsOf(Base) \cup PathsOf(Live)
        BY <1>1, <1>3, <2>1, <2>8, <3>2 DEF PathsOf
      <4> QED BY <2>2, <3>1, <3>2, <4>1 DEF RestoreInv
    <3>3. CASE p = "launcher"
      <4>1. file'[p] = removeLauncherEntry(file[p])
        BY <2>1, <2>2, <3>3 DEF Undone
      <4>2. CASE file[p] = NoFile
        BY <3>3, <4>1, <4>2 DEF removeLauncherEntry
      <4>3. CASE file[p] # NoFile
        <5>1. PICK k : k \in Content /\ file'[p] = [k EXCEPT !.ours = FALSE]
          BY <1>1, <4>1, <4>3 DEF removeLauncherEntry, TypeInv, FileType
        <5>2. ~file'[p].ours
          BY <5>1 DEF Content
        <5> QED BY <3>3, <5>2
      <4> QED BY <4>2, <4>3
    <3> QED BY <3>2, <3>3
  <2> QED BY <1>1, <2>7, <2>8 DEF RestoreInv
<1> QED BY <1>1, <1>2, <1>3

(* An edit is told from what we wrote by its content; a copy of the         *)
(* published file is fetched only where the record names none, by ExactInv. *)
LEMMA RestorePlayed ==
  ASSUME TypeInv, CopyInv, ExactInv, RestoreInv, ~interrupted, Played, SameRecords
  PROVE  RestoreInv'
<1>0. /\ "launcher" \in Path /\ NoFile \notin Content
      /\ Base' = Base /\ Live' = Live
  BY InstallerAssumption DEF Path, Steps, ToSet, Content, SameRecords
<1>1. ASSUME NEW p, NEW content, Edited(p, content), p # "launcher",
             theirs' = [theirs EXCEPT ![p] = content],
             \/ content = NoFile
             \/ content = Ours /\ p \notin installed
             \/ content # NoFile /\ content.version = edits + 1
      PROVE  RestoreInv'
  <2>1. /\ p \in Path /\ file'[p] = content /\ theirs'[p] = content
        /\ \A q \in Path \ {p} : file'[q] = file[q] /\ theirs'[q] = theirs[q]
        /\ UNCHANGED <<backups, overwritten, interrupted>>
    BY <1>1 DEF Edited, TypeInv, FileType
  <2>2. ASSUME NEW r \in Base \cup Live, r.path = p PROVE content # r.digest
    <3>1. CASE content = NoFile
      BY <1>0, <2>2, <3>1, RecordsAre DEF Record
    <3>2. CASE content = Ours /\ p \notin installed
      BY <2>2, <3>2 DEF ExactInv, PathsOf
    <3>3. CASE content # NoFile /\ content.version = edits + 1
      <4>1. r.digest.version <= edits /\ r \in Record
        BY RecordsAre DEF CopyInv, RecordInv
      <4>2. edits \in Nat /\ r.digest.version \in Nat
        BY <4>1, InstallerAssumption DEF TypeInv, FileType, Record, Content
      <4> QED BY <3>3, <4>1, <4>2
    <3> QED BY <1>1, <3>1, <3>2, <3>3
  <2>3. ASSUME NEW q \in Path \ (overwritten \cup {"launcher"}) PROVE Fine(q)'
    <3>1. q \in Path /\ Fine(q)
      BY <2>3 DEF RestoreInv
    <3>2. CASE q # p
      BY <1>0, <2>1, <3>1, <3>2, FineStays
    <3>3. CASE q = p
      <4>1. ASSUME NEW r \in OfPath(Base, p), NEW d \in OfPath(Live, p) PROVE Pair(r, d)'
        <5>1. /\ r.path = p /\ d.path = p /\ content \notin {d.digest, r.digest}
              /\ Pair(r, d)
          BY <2>2, <3>1, <3>3, <4>1 DEF OfPath, Fine
        <5>2. d.backup \in {r.digest, NoFile}
          BY <5>1 DEF Pair
        <5> QED BY <2>1, <5>1, <5>2 DEF Pair
      <4>2. ASSUME NEW r \in OfPath(Base, p) \cup OfPath(Live, p) PROVE Single(r)'
        <5>1. r.path = p /\ content # r.digest
          BY <2>2 DEF OfPath
        <5> QED BY <2>1, <5>1 DEF Single
      <4>3. PutBack(p)'
        BY <2>1 DEF PutBack
      <4>4. OfPath(Base', p) = OfPath(Base, p) /\ OfPath(Live', p) = OfPath(Live, p)
        BY <1>0
      <4> QED BY <3>3, <4>1, <4>2, <4>3, <4>4 DEF Fine
    <3> QED BY <3>2, <3>3
  <2> QED BY <1>0, <1>1, <2>1, <2>3 DEF RestoreInv
<1>2. ASSUME NEW list, NEW mine, Edited("launcher", list), file["launcher"] # NoFile,
             theirs' = [theirs EXCEPT !["launcher"] = mine],
             list.ours => file["launcher"].ours
      PROVE  RestoreInv'
  <2>1. /\ file'["launcher"] = list
        /\ \A q \in Path \ {"launcher"} : file'[q] = file[q] /\ theirs'[q] = theirs[q]
        /\ UNCHANGED <<backups, overwritten, interrupted>>
    BY <1>0, <1>2 DEF Edited, TypeInv, FileType
  <2>2. \A q \in Path \ (overwritten \cup {"launcher"}) : Fine(q)'
    BY <1>0, <2>1, FineStays DEF RestoreInv
  <2>3. "launcher" \notin PathsOf(Base) \cup PathsOf(Live) => ~list.ours
    BY <1>2 DEF RestoreInv
  <2> QED BY <1>0, <2>1, <2>2, <2>3 DEF RestoreInv
<1> QED BY <1>1, <1>2 DEF Played

(* Every kind of step keeps what a file is in terms of its records.         *)
LEMMA RestoreNext ==
  ASSUME TypeInv, CopyInv, ExactInv, RestoreInv,
         \/ Recorded
         \/ Saved
         \/ Begun
         \/ Ended
         \/ \E d : Wrote(d)
         \/ \E r : Undid(r)
         \/ Played /\ SameRecords
  PROVE  RestoreInv'
<1> SUFFICES ASSUME ~interrupted' PROVE RestoreInv'
  BY DEF RestoreInv
<1>1. CASE Recorded
  <2>1. /\ ~interrupted /\ Base' = Base /\ Live' = Live
        /\ UNCHANGED <<file, theirs, overwritten>>
        /\ \A q \in Path : backups[q] \subseteq backups'[q]
    BY <1>1 DEF Recorded, SameRecords
  <2>2. \A q \in Path \ (overwritten \cup {"launcher"}) : Fine(q)'
    BY <2>1, FineStays DEF RestoreInv
  <2> QED BY <2>1, <2>2 DEF RestoreInv
<1>2. CASE Saved
  BY <1>2, RestoreSaved DEF Saved
<1>3. CASE Begun
  <2>1. /\ ~interrupted /\ Base' = {} /\ Live' = Base /\ Live = {}
        /\ UNCHANGED <<file, theirs, backups, overwritten>>
    BY <1>3 DEF Begun, Idling, Untouched
  <2>2. ASSUME NEW p \in Path \ (overwritten \cup {"launcher"}) PROVE Fine(p)'
    <3>1. /\ \A r \in OfPath(Base, p) : Single(r)
          /\ OfPath(Base, p) = {} => PutBack(p)
      BY <2>1, <2>2 DEF RestoreInv, Fine, OfPath
    <3>2. OfPath(Base', p) = {} /\ OfPath(Live', p) = OfPath(Base, p)
      BY <2>1 DEF OfPath
    <3>3. (PutBack(p) => PutBack(p)') /\ \A r : Single(r) => Single(r)'
      BY <2>1 DEF PutBack, Single
    <3> QED BY <3>1, <3>2, <3>3 DEF Fine
  <2>3. PathsOf(Base') \cup PathsOf(Live') = PathsOf(Base) \cup PathsOf(Live)
    BY <2>1, EmptyIs
  <2> QED BY <2>1, <2>2, <2>3 DEF RestoreInv
<1>4. CASE Ended
  BY <1>4 DEF Ended
<1>5. ASSUME NEW d, Wrote(d) PROVE RestoreInv'
  <2>1. ~interrupted
    BY <1>5 DEF Wrote
  <2> QED BY <1>5, <2>1, RestoreWrote
<1>6. ASSUME NEW r, Undid(r) PROVE RestoreInv'
  <2>1. ~interrupted
    BY <1>6 DEF Undid
  <2> QED BY <1>6, <2>1, RestoreUndid
<1>7. CASE Played /\ SameRecords
  <2>1. ~interrupted
    BY <1>7 DEF Played, Edited
  <2> QED BY <1>7, <2>1, RestorePlayed
<1> QED BY <1>1, <1>2, <1>3, <1>4, <1>5, <1>6, <1>7

(* At every step, a file is what its records, or the lack of one, say.      *)
THEOREM RestoreCorrect == Spec => []RestoreInv
<1>1. Init => RestoreInv
  BY CopyInit
<1>2. TypeInv /\ CopyInv /\ ExactInv /\ RestoreInv /\ [Next]_vars => RestoreInv'
  BY NextBecomes, RestoreNext
<1> QED BY <1>1, <1>2, TypeCorrect, CopyCorrect, ExactCorrect, PTL DEF Spec

(* Between two requests a file the record does not name is as the player    *)
(* left it, unless a later set-up wrote over an edit of it (UndoRestores;   *)
(* Undone, mergeManifests), for any plans, edits and failures.              *)
THEOREM UndoRestoresCorrect == Spec => []UndoRestores
<1>1. ASSUME TypeInv, CopyInv, RestoreInv PROVE UndoRestores
  <2> SUFFICES ASSUME job = Idle, ~interrupted,
                      NEW p \in Path \ (Paths(record) \cup overwritten)
               PROVE  PutBack(p)
    BY DEF UndoRestores
  <2>1. Base = ToSet(record) /\ Live = {} /\ p \notin PathsOf(Base)
    BY IdleIs, PathsAre DEF Idling
  <2>2. CASE p # "launcher"
    <3>1. Fine(p)
      BY <1>1, <2>2 DEF RestoreInv
    <3> QED BY <2>1, <3>1 DEF Fine, OfPath, PathsOf
  <2>3. CASE p = "launcher"
    <3>1. /\ file[p] = NoFile \/ ~file[p].ours
          /\ KeepInv(p)
      BY <1>1, <2>1, <2>3, EmptyIs DEF RestoreInv, CopyInv
    <3>2. file[p] \in Content \cup {NoFile} /\ theirs[p] \in Content \cup {NoFile}
      BY <1>1 DEF TypeInv, FileType
    <3>3. CASE file[p] = NoFile
      BY <2>3, <3>1, <3>3 DEF KeepInv, PutBack
    <3>4. CASE file[p] # NoFile
      <4>1. /\ file[p] \in Content /\ theirs[p] \in Content
            /\ ~file[p].ours /\ ~theirs[p].ours /\ theirs[p].version = file[p].version
            /\ theirs[p] # NoFile
        BY <2>3, <3>1, <3>2, <3>4 DEF KeepInv
      <4>2. \A j, k \in Content : ~j.ours /\ ~k.ours /\ j.version = k.version => j = k
        BY DEF Content
      <4> QED BY <4>1, <4>2 DEF PutBack
    <3> QED BY <3>3, <3>4
  <2> QED BY <2>2, <2>3
<1> QED BY <1>1, TypeCorrect, CopyCorrect, RestoreCorrect, PTL

(* Type correctness.                                                        *)
THEOREM TypeOKCorrect == Spec => []TypeOK
<1> DEFINE Counted == faults \in 0..MaxFaults /\ interrupted \in BOOLEAN
<1>1. Init => Counted
  <2>1. Init => faults = 0 /\ interrupted = FALSE
    BY DEF Init
  <2>2. 0 \in 0..MaxFaults
    BY InstallerAssumption
  <2> QED BY <2>1, <2>2
<1>2. ASSUME Counted, [Next]_vars PROVE Counted'
  <2>1. \/ faults' = faults
        \/ faults < MaxFaults /\ faults' = faults + 1
    BY <1>2
    DEF Next, Serve, vars, handleInstall, Apply, ApplyFails, writeRecord, SaveApplied,
                SaveFailed, handleUninstall, Uninstall, SaveUndone, Exit, Edit, PlayerWrites,
                PlayerDeletes, PlayerFetches, LauncherWrites
  <2>2. interrupted' = interrupted \/ interrupted' = TRUE
    BY <1>2
    DEF Next, Serve, vars, handleInstall, Apply, ApplyFails, writeRecord, SaveApplied,
                SaveFailed, handleUninstall, Uninstall, SaveUndone, Exit, Edit, PlayerWrites,
                PlayerDeletes, PlayerFetches, LauncherWrites
  <2>3. faults' \in 0..MaxFaults
    BY <1>2, <2>1, InstallerAssumption
  <2>4. interrupted' \in BOOLEAN
    BY <1>2, <2>2
  <2> QED BY <2>3, <2>4
<1>3. TypeInv /\ Counted => TypeOK
  BY DEF TypeInv, FileType, TypeOK
<1> HIDE DEF Counted
<1>4. Counted /\ [Next]_vars => Counted'
  BY <1>2
<1> QED BY <1>1, <1>3, <1>4, TypeCorrect, PTL DEF Spec

=============================================================================
