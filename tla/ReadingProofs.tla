---------------------------- MODULE ReadingProofs ----------------------------
(***************************************************************************)
(* What an archive says, proved for any number of people, chunks, states   *)
(* and moments, any window and any order of ids.  What is read is worked   *)
(* out from what the archive holds at that moment, so each property        *)
(* follows from what the operators of Epoch.tla do to finitely many        *)
(* observations.                                                           *)
(***************************************************************************)
EXTENDS Reading, FiniteSetTheorems, WellFoundedInduction, TLAPS

(* Everybody's last look,                                                   *)
Looks(S) == {o \in S : \A p \in S : p # o /\ Key[p.by] = Key[o.by] => Before(p, o)}
(* what was seen by a moment,                                               *)
By(S, t) == {o \in S : o.at <= t}
(* no two looks of one person,                                              *)
OnePerPerson(L) == \A o, p \in L : Key[o.by] = Key[p.by] => o = p
(* the looks within one window of the last,                                 *)
Near(L) == {o \in L : o.at + Window >= MostRecent(L).at}
(* and those that saw what it saw.                                          *)
Same(L) == {o \in L : o.state = MostRecent(L).state}
(* The state a chunk is in at a moment.                                     *)
Digest(S, u) == StateDigest(SelectChunk(S, u))
(* What an archive holds, and what has been declared.                       *)
DataInv ==
  /\ records \in SUBSET Observation /\ IsFiniteSet(records)
  /\ redactions \in SUBSET Redaction

-----------------------------------------------------------------------------
(* Of finitely many sets of things one contains no other: what induction    *)
(* over a finite set comes down to.                                         *)
LEMMA SmallestSet ==
  ASSUME NEW S, IsFiniteSet(S), NEW F \in SUBSET SUBSET S, F # {}
  PROVE  \E T \in F : \A U \in F : U \subseteq T => U = T
<1> DEFINE R == StrictSubsetOrdering(S)
<1>1. F \subseteq FiniteSubsetsOf(S)
  BY FS_FiniteSubsetsOfFinite
<1>2. IsWellFoundedOn(R, FiniteSubsetsOf(S))
  BY FS_StrictSubsetOrderingWellFounded
<1>3. PICK T \in F : \A U \in F : ~(<<U, T>> \in R)
  <2> HIDE DEF R
  <2> QED BY <1>1, <1>2, WFMin
<1>4. ASSUME NEW U \in F, U \subseteq T PROVE U = T
  <2>1. U \in SUBSET S /\ T \in SUBSET S
    OBVIOUS
  <2>2. U # T => <<U, T>> \in R
    BY <1>4, <2>1 DEF StrictSubsetOrdering
  <2> QED BY <1>3, <2>2
<1> QED BY <1>4

(* Before orders the observations strictly and totally, since no two have   *)
(* one id (observationBefore).                                              *)
LEMMA BeforeIsTotal ==
  /\ \A o, p \in Observation : o # p => Before(o, p) \/ Before(p, o)
  /\ \A o, p, q \in Observation : Before(o, p) /\ Before(p, q) => Before(o, q)
  /\ \A o, p \in Observation : Before(o, p) => ~Before(p, o) /\ o # p /\ o.at <= p.at
<1>1. \A o \in Observation : o.at \in Nat
  BY DEF Observation, Time
<1>2. \A o \in Observation : Id[o] \in Nat
  BY IdAssumption
<1> QED BY <1>1, <1>2, IdAssumption DEF Before

(* So any finite number of them has a last.                                 *)
LEMMA LastExists ==
  ASSUME NEW S \in SUBSET Observation, IsFiniteSet(S), S # {}
  PROVE  \E o \in S : \A p \in S \ {o} : Before(p, o)
<1> DEFINE Bad == {T \in SUBSET S : T # {} /\ ~\E o \in T : \A p \in T \ {o} : Before(p, o)}
<1> SUFFICES ASSUME Bad # {} PROVE FALSE
  OBVIOUS
<1>1. PICK T \in Bad : \A U \in Bad : U \subseteq T => U = T
  <2>1. Bad \in SUBSET SUBSET S
    OBVIOUS
  <2> HIDE DEF Bad
  <2> QED BY <2>1, SmallestSet
<1>2. PICK x \in T : TRUE
  BY <1>1
<1>3. T \subseteq Observation
  BY <1>1
<1>4. CASE T \ {x} = {}
  BY <1>1, <1>2, <1>4
<1>5. CASE T \ {x} # {}
  <2>1. T \ {x} \notin Bad
    BY <1>1, <1>2
  <2>2. PICK o \in T \ {x} : \A p \in (T \ {x}) \ {o} : Before(p, o)
    BY <2>1, <1>1, <1>5
  <2>3. CASE Before(x, o)
    BY <2>2, <2>3, <1>1
  <2>4. CASE Before(o, x)
    <3>1. \A p \in T \ {x} : Before(p, x)
      BY <2>2, <2>4, <1>2, <1>3, BeforeIsTotal
    <3> QED BY <3>1, <1>1, <1>2
  <2> QED BY <2>2, <2>3, <2>4, <1>2, <1>3, BeforeIsTotal
<1> QED BY <1>4, <1>5

(* MostRecent is that one, whatever order the observations come in.         *)
LEMMA MostRecentIsLast ==
  ASSUME NEW S \in SUBSET Observation, IsFiniteSet(S), S # {}
  PROVE  /\ MostRecent(S) \in S
         /\ \A p \in S \ {MostRecent(S)} : Before(p, MostRecent(S))
         /\ \A p \in S : p.at <= MostRecent(S).at
         /\ \A o \in S : (\A p \in S \ {o} : Before(p, o)) => o = MostRecent(S)
<1>1. /\ MostRecent(S) \in S
      /\ \A p \in S \ {MostRecent(S)} : Before(p, MostRecent(S))
  BY LastExists DEF MostRecent
<1>2. \A p \in S : p.at <= MostRecent(S).at
  <2> TAKE p \in S
  <2>1. p.at \in Nat
    BY DEF Observation, Time
  <2> QED BY <1>1, <2>1, BeforeIsTotal
<1>3. \A o \in S : (\A p \in S \ {o} : Before(p, o)) => o = MostRecent(S)
  BY <1>1, BeforeIsTotal
<1> QED BY <1>1, <1>2, <1>3

(* latestPerContributor keeps each person's last look, under whichever      *)
(* spelling of the name it was recorded.                                    *)
LEMMA LatestPerContributorLooks ==
  ASSUME NEW S \in SUBSET Observation, IsFiniteSet(S), NEW t
  PROVE  LatestPerContributor(S, t) = Looks(By(S, t))
<1> DEFINE known == By(S, t)
           Of(k) == {o \in known : Key[o.by] = k}
<1>1. known \in SUBSET Observation /\ IsFiniteSet(known)
  BY FS_Subset DEF By
<1>2. \A k \in Contributors(known) :
        /\ Of(k) \in SUBSET Observation /\ IsFiniteSet(Of(k)) /\ Of(k) # {}
  BY <1>1, FS_Subset DEF Contributors
<1>3. LatestPerContributor(S, t) = {MostRecent(Of(k)) : k \in Contributors(known)}
  BY DEF LatestPerContributor, By
<1>4. ASSUME NEW k \in Contributors(known) PROVE MostRecent(Of(k)) \in Looks(known)
  <2> DEFINE o == MostRecent(Of(k))
  <2>1. /\ o \in Of(k) /\ \A p \in Of(k) \ {o} : Before(p, o)
    <3> HIDE DEF Of
    <3> QED BY <1>2, MostRecentIsLast
  <2> QED BY <2>1 DEF Looks
<1>5. ASSUME NEW o \in Looks(known) PROVE \E k \in Contributors(known) : o = MostRecent(Of(k))
  <2>1. o \in known /\ Key[o.by] \in Contributors(known)
    BY DEF Looks, Contributors
  <2>2. o \in Of(Key[o.by]) /\ \A p \in Of(Key[o.by]) \ {o} : Before(p, o)
    BY <2>1 DEF Looks
  <2>3. o = MostRecent(Of(Key[o.by]))
    <3> HIDE DEF Of
    <3> QED BY <1>2, <2>1, <2>2, MostRecentIsLast
  <2> QED BY <2>1, <2>3
<1> HIDE DEF known, Of
<1>6. LatestPerContributor(S, t) = Looks(known)
  BY <1>3, <1>4, <1>5
<1> QED BY <1>6 DEF known

(* More than one, in terms of members.                                      *)
LEMMA SeveralMeansTwo ==
  ASSUME NEW S, IsFiniteSet(S)
  PROVE  /\ Cardinality(S) \in Nat
         /\ Cardinality(S) > 1 <=> \E x, y \in S : x # y
<1>1. Cardinality(S) \in Nat
  BY FS_CardinalityType
<1>2. Cardinality(S) = 0 <=> S = {}
  BY FS_EmptySet
<1>3. Cardinality(S) = 1 <=> \E x : S = {x}
  BY FS_Singleton
<1>4. (\E x, y \in S : x # y) <=> ~(S = {}) /\ ~\E x : S = {x}
  OBVIOUS
<1>5. Cardinality(S) > 1 <=> ~(Cardinality(S) = 0) /\ ~(Cardinality(S) = 1)
  BY <1>1
<1> QED BY <1>1, <1>2, <1>3, <1>4, <1>5

(* The largest of some integers is the one none exceeds,                    *)
LEMMA MaxIs ==
  ASSUME NEW S \in SUBSET Int, NEW m \in S, \A n \in S : n <= m
  PROVE  Max(S) = m
<1>1. \A n \in S : m >= n
  OBVIOUS
<1>2. Max(S) \in S /\ \A n \in S : Max(S) >= n
  BY <1>1 DEF Max
<1>3. Max(S) \in Int /\ m \in Int /\ Max(S) >= m /\ Max(S) <= m
  BY <1>2
<1> QED BY <1>3

(* and the smallest the one that exceeds none.                              *)
LEMMA MinIs ==
  ASSUME NEW S \in SUBSET Int, NEW m \in S, \A n \in S : m <= n
  PROVE  Min(S) = m
<1>2. Min(S) \in S /\ \A n \in S : Min(S) <= n
  BY DEF Min
<1>3. Min(S) \in Int /\ m \in Int /\ Min(S) >= m /\ Min(S) <= m
  BY <1>2
<1> QED BY <1>3

(* splitByRecency measures its window from the last look.                   *)
LEMMA ContemporaryIsNear ==
  ASSUME NEW L \in SUBSET Observation, IsFiniteSet(L), L # {}
  PROVE  Contemporary(L) = {o \in L : o.at + Window >= MostRecent(L).at}
<1>1. \A o \in L : o.at \in Nat
  BY DEF Observation, Time
<1>2. MostRecent(L) \in L /\ \A p \in L : p.at <= MostRecent(L).at
  BY MostRecentIsLast
<1>3. Max({o.at : o \in L}) = MostRecent(L).at
  <2>1. {o.at : o \in L} \in SUBSET Int /\ MostRecent(L).at \in {o.at : o \in L}
    BY <1>1, <1>2
  <2> QED BY <2>1, <1>2, MaxIs
<1>4. \A o \in L : o.at + Window >= MostRecent(L).at <=> o.at >= MostRecent(L).at - Window
  BY <1>1, <1>2, BoundAssumption
<1> QED BY <1>3, <1>4 DEF Contemporary

(* Of the groups by state, the one with the last look leads.                *)
LEMMA LeadingGroup ==
  ASSUME NEW L \in SUBSET Observation, IsFiniteSet(L), L # {}
  PROVE  MostRecentGroup(GroupByState(L)) = {o \in L : o.state = MostRecent(L).state}
<1> DEFINE G(s) == {o \in L : o.state = s}
           last == MostRecent(L)
           g == G(last.state)
<1>1. last \in L /\ \A p \in L \ {last} : Before(p, last)
  BY MostRecentIsLast
<1>2. ASSUME NEW s \in StatesOf(L)
      PROVE  MostRecent(G(s)) \in G(s)
  <2>1. G(s) \in SUBSET Observation /\ IsFiniteSet(G(s)) /\ G(s) # {}
    BY <1>2, FS_Subset DEF StatesOf
  <2> HIDE DEF G
  <2> QED BY <2>1, MostRecentIsLast
<1>3. last.state \in StatesOf(L)
  BY <1>1 DEF StatesOf
<1>4. MostRecent(g) = last
  <2>1. g \in SUBSET Observation /\ IsFiniteSet(g) /\ g # {} /\ last \in g
    BY <1>1, FS_Subset
  <2>2. \A p \in g \ {last} : Before(p, last)
    BY <1>1
  <2> HIDE DEF g, last
  <2> QED BY <2>1, <2>2, MostRecentIsLast
<1>5. GroupByState(L) = {G(s) : s \in StatesOf(L)}
  BY DEF GroupByState
<1>6. g \in GroupByState(L)
  BY <1>3, <1>5
<1>7. \A h \in GroupByState(L) \ {g} :
        MostRecent(h) \in Observation /\ Before(MostRecent(h), last)
  <2> SUFFICES ASSUME NEW s \in StatesOf(L), G(s) # g
               PROVE  MostRecent(G(s)) \in Observation /\ Before(MostRecent(G(s)), last)
    BY <1>5
  <2>1. MostRecent(G(s)) \in L \ {last}
    BY <1>2
  <2> QED BY <1>1, <2>1
<1> HIDE DEF G, g, last
<1>8. \A h \in GroupByState(L) \ {g} : Before(MostRecent(h), MostRecent(g))
  BY <1>4, <1>7
<1>9. \A h \in GroupByState(L) \ {g} : ~Before(MostRecent(g), MostRecent(h))
  BY <1>1, <1>4, <1>7, BeforeIsTotal
<1>10. MostRecentGroup(GroupByState(L)) = g
  BY <1>6, <1>8, <1>9 DEF MostRecentGroup
<1> QED BY <1>10 DEF g, G, last

(* The last look is within its own window, and the last of it.              *)
LEMMA NearHasLast ==
  ASSUME NEW L \in SUBSET Observation, IsFiniteSet(L), L # {}
  PROVE  /\ MostRecent(L) \in Near(L) \cap Same(L)
         /\ Near(L) \subseteq L /\ Same(L) \subseteq L
         /\ Contemporary(L) = Near(L)
         /\ MostRecent(Near(L)) = MostRecent(L)
         /\ IsFiniteSet(Near(L)) /\ IsFiniteSet(Same(L))
<1>1. MostRecent(L) \in L /\ \A p \in L \ {MostRecent(L)} : Before(p, MostRecent(L))
  BY MostRecentIsLast
<1>2. MostRecent(L).at + Window >= MostRecent(L).at
  <2>1. MostRecent(L).at \in Nat
    BY <1>1 DEF Observation, Time
  <2> QED BY <2>1, BoundAssumption
<1>3. Near(L) \subseteq L /\ Same(L) \subseteq L /\ MostRecent(L) \in Near(L) \cap Same(L)
  BY <1>1, <1>2 DEF Near, Same
<1>4. IsFiniteSet(Near(L)) /\ IsFiniteSet(Same(L))
  BY <1>3, FS_Subset
<1>5. MostRecent(Near(L)) = MostRecent(L)
  <2>1. Near(L) \in SUBSET Observation /\ Near(L) # {} /\ MostRecent(L) \in Near(L)
    BY <1>3
  <2>2. \A p \in Near(L) \ {MostRecent(L)} : Before(p, MostRecent(L))
    BY <1>1, <1>3
  <2> QED BY <1>4, <2>1, <2>2, MostRecentIsLast
<1> QED BY <1>3, <1>4, <1>5, ContemporaryIsNear DEF Near

(* The looks of the window conflict when they do not all say what the last  *)
(* one says.                                                                *)
LEMMA DisputedMeansTwo ==
  ASSUME NEW L \in SUBSET Observation, IsFiniteSet(L), L # {}
  PROVE  Cardinality(StatesOf(Near(L))) > 1 <=> ~(Near(L) \subseteq Same(L))
<1>1. IsFiniteSet(StatesOf(Near(L)))
  <2> DEFINE f == [o \in Near(L) |-> o.state]
  <2>1. f \in Surjection(Near(L), StatesOf(Near(L)))
    BY DEF Surjection, StatesOf
  <2> QED BY <2>1, NearHasLast, FS_Surjection
<1>2. Cardinality(StatesOf(Near(L))) > 1 <=> \E x, y \in StatesOf(Near(L)) : x # y
  BY <1>1, SeveralMeansTwo
<1>3. (\E x, y \in StatesOf(Near(L)) : x # y) <=>
        \E o \in Near(L) : o.state # MostRecent(L).state
  BY NearHasLast DEF StatesOf
<1>4. (\E o \in Near(L) : o.state # MostRecent(L).state) <=> ~(Near(L) \subseteq Same(L))
  BY NearHasLast DEF Same
<1> QED BY <1>2, <1>3, <1>4

(* Among one look a person, looks and people are equally many.              *)
LEMMA ContributorsCount ==
  ASSUME NEW L \in SUBSET Observation, IsFiniteSet(L), OnePerPerson(L)
  PROVE  Cardinality(Contributors(L)) >= 2 <=> Cardinality(L) > 1
<1>1. IsFiniteSet(Contributors(L))
  <2> DEFINE f == [o \in L |-> Key[o.by]]
  <2>1. f \in Surjection(L, Contributors(L))
    BY DEF Surjection, Contributors
  <2> QED BY <2>1, FS_Surjection
<1>2. Cardinality(Contributors(L)) > 1 <=> \E x, y \in Contributors(L) : x # y
  BY <1>1, SeveralMeansTwo
<1>3. Cardinality(L) > 1 <=> \E x, y \in L : x # y
  BY SeveralMeansTwo
<1>4. (\E x, y \in Contributors(L) : x # y) <=> \E x, y \in L : x # y
  BY DEF Contributors, OnePerPerson
<1>5. Cardinality(Contributors(L)) \in Nat
  BY <1>1, SeveralMeansTwo
<1>6. Cardinality(Contributors(L)) >= 2 <=> Cardinality(Contributors(L)) > 1
  BY <1>5
<1> QED BY <1>2, <1>3, <1>4, <1>6

(* What is selected among one look a person, and what is said of it         *)
(* (SelectChunkWithin).                                                     *)
LEMMA SelectAmongLooks ==
  ASSUME NEW L \in SUBSET Observation, IsFiniteSet(L), L # {}, OnePerPerson(L)
  PROVE  LET s == SelectAmong(L) IN
         /\ s.selected = MostRecent(L)
         /\ UNION s.rejected = L \ Same(L)
         /\ s.support = IF Near(L) \subseteq Same(L) THEN Same(L) ELSE Near(L) \cap Same(L)
         /\ s.counted + s.earlier = Cardinality(L)
         /\ s.status = "conflict" <=> \E o \in Near(L) : o.state # MostRecent(L).state
         /\ s.status = "corroborated" <=>
              Near(L) \subseteq Same(L) /\ Cardinality(Same(L)) > 1
         /\ s.status = "superseded" <=>
              Near(L) = Same(L) /\ Same(L) = {MostRecent(L)} /\ L # Same(L)
         /\ s.status = "single-source" <=> L = {MostRecent(L)}
<1> DEFINE now == Near(L)
           earlier == L \ now
           conflict == Cardinality(StatesOf(now)) > 1
           leading == MostRecentGroup(GroupByState(now))
           last == MostRecent(L)
           selected == IF Near(L) \subseteq Same(L) THEN Same(L) ELSE Near(L) \cap Same(L)
           s == SelectAmong(L)
<1>1. SelectAmong(L) = Selection(L, now)
  BY NearHasLast DEF SelectAmong
<1>2. conflict <=> ~(now \subseteq Same(L))
  BY DisputedMeansTwo
<1>3. leading = now \cap Same(L)
  <2>1. now \in SUBSET Observation /\ IsFiniteSet(now) /\ now # {} /\ now \subseteq L
    BY NearHasLast
  <2>2. leading = {o \in now : o.state = MostRecent(now).state}
    BY <2>1, LeadingGroup
  <2> QED BY <2>1, <2>2, NearHasLast DEF Same
<1>4. (CHOOSE o \in leading : TRUE).state = last.state
  <2>1. (CHOOSE o \in leading : TRUE) \in leading
    BY <1>3, NearHasLast
  <2> QED BY <2>1, <1>3 DEF Same
<1>5. selected = IF conflict THEN leading
                 ELSE leading \cup {o \in earlier : o.state = last.state}
  <2>1. CASE conflict
    BY <2>1, <1>2, <1>3
  <2>2. CASE ~conflict
    BY <2>2, <1>2, <1>3, NearHasLast DEF Same
  <2> QED BY <2>1, <2>2
<1>6. /\ selected \in SUBSET Observation /\ IsFiniteSet(selected)
      /\ last \in selected /\ selected \subseteq L /\ OnePerPerson(selected)
  BY NearHasLast, FS_Subset DEF OnePerPerson
<1>7. MostRecent(selected) = last
  <2>1. \A p \in selected \ {last} : Before(p, last)
    BY <1>6, MostRecentIsLast
  <2> QED BY <1>6, <2>1, MostRecentIsLast
<1> DEFINE st == (CHOOSE o \in leading : TRUE).state
           sel(v) == IF conflict THEN leading ELSE leading \cup {o \in earlier : o.state = v}
           record(v, t) ==
             [status |-> StatusOf(conflict, Contributors(t), \E o \in earlier : o.state # v),
              selected |-> MostRecent(t),
              contributors |-> Contributors(t),
              rejected |-> GroupByState({o \in L : o.state # v}),
              support |-> t,
              counted |-> Cardinality(now), earlier |-> Cardinality(earlier)]
<1>8. s = record(st, sel(st))
  BY <1>1 DEF Selection
<1>9. s = record(last.state, selected)
  <2>1. st = last.state /\ sel(last.state) = selected
    BY <1>4, <1>5
  <2> HIDE DEF st, record, sel, s, last, selected
  <2> QED BY <1>8, <2>1
<1>10. /\ s.status = StatusOf(conflict, Contributors(selected),
                               \E o \in earlier : o.state # last.state)
       /\ s.selected = last
       /\ s.rejected = GroupByState({o \in L : o.state # last.state})
       /\ s.support = selected
       /\ s.counted = Cardinality(now) /\ s.earlier = Cardinality(earlier)
  <2> HIDE DEF s, now, earlier, conflict, leading, last, selected
  <2> QED BY <1>7, <1>9
<1>11. UNION s.rejected = L \ Same(L)
  <2>1. UNION GroupByState({o \in L : o.state # last.state}) = {o \in L : o.state # last.state}
    BY DEF GroupByState, StatesOf
  <2> HIDE DEF s
  <2> QED BY <2>1, <1>10 DEF Same
<1>12. s.counted + s.earlier = Cardinality(L)
  <2>1. now \subseteq L /\ IsFiniteSet(now) /\ IsFiniteSet(earlier)
    BY NearHasLast, FS_Subset
  <2>2. now \cup earlier = L /\ now \cap earlier = {}
    BY <2>1
  <2> HIDE DEF s, now, earlier
  <2>3. Cardinality(L) = Cardinality(now) + Cardinality(earlier) - Cardinality({})
    BY <2>1, <2>2, FS_Union
  <2>4. Cardinality(now) \in Nat /\ Cardinality(earlier) \in Nat /\ Cardinality({}) = 0
    BY <2>1, FS_CardinalityType, FS_EmptySet
  <2> QED BY <2>3, <2>4, <1>10
<1> HIDE DEF s
<1>13. Cardinality(Contributors(selected)) >= 2 <=> Cardinality(selected) > 1
  BY <1>6, ContributorsCount
<1>14. /\ conflict \in BOOLEAN
       /\ Cardinality(Contributors(selected)) < 2 <=>
            ~(Cardinality(Contributors(selected)) >= 2)
  <2>1. IsFiniteSet(Contributors(selected))
    <3> DEFINE f == [o \in selected |-> Key[o.by]]
    <3>1. f \in Surjection(selected, Contributors(selected))
      BY DEF Surjection, Contributors
    <3> HIDE DEF selected, f
    <3> QED BY <3>1, <1>6, FS_Surjection
  <2> HIDE DEF selected
  <2> QED BY <2>1, FS_CardinalityType
<1>15. s.status = IF conflict THEN "conflict"
                  ELSE IF Cardinality(selected) > 1 THEN "corroborated"
                  ELSE IF \E o \in earlier : o.state # last.state THEN "superseded"
                  ELSE "single-source"
  <2> HIDE DEF conflict, selected, earlier, last
  <2> QED BY <1>10, <1>13, <1>14 DEF StatusOf
<1>16. Cardinality(selected) > 1 <=> selected # {last}
  <2> HIDE DEF selected, last
  <2> QED BY <1>6, SeveralMeansTwo
<1>17. conflict <=> \E o \in Near(L) : o.state # MostRecent(L).state
  BY <1>2, NearHasLast DEF Same
<1>18. ~conflict => selected = Same(L)
  BY <1>2
<1>19. /\ ~conflict /\ selected = {last} =>
            ((\E o \in earlier : o.state # last.state) <=> L # {last})
       /\ L = {last} => ~conflict /\ selected = {last}
  <2>1. last \in Near(L) \cap Same(L) /\ Near(L) \subseteq L /\ Same(L) \subseteq L
    BY NearHasLast
  <2>2. ASSUME ~conflict, selected = {last}
        PROVE  (\E o \in earlier : o.state # last.state) <=> L # {last}
    <3>1. Near(L) \subseteq Same(L) /\ Same(L) = {last} /\ Near(L) = {last}
      BY <2>1, <2>2, <1>2, <1>18
    <3> QED BY <3>1, <2>1 DEF Same
  <2>3. L = {last} => Near(L) = {last} /\ Same(L) = {last}
    BY <2>1
  <2> QED BY <2>2, <2>3, <1>2, <1>18
<1>20. /\ conflict => ~(Near(L) \subseteq Same(L))
       /\ Near(L) = Same(L) /\ Same(L) = {MostRecent(L)} <=> ~conflict /\ selected = {last}
  BY <1>2, <1>18, NearHasLast
<1> HIDE DEF conflict, earlier
<1>21. s.status = "conflict" <=> conflict
  BY <1>15
<1>22. s.status = "corroborated" <=> ~conflict /\ selected # {last}
  BY <1>15, <1>16
<1>23. s.status = "superseded" <=> ~conflict /\ selected = {last} /\ L # {last}
  BY <1>15, <1>16, <1>19
<1>24. s.status = "single-source" <=> L = {last}
  BY <1>15, <1>16, <1>19
<1>25. (Near(L) \subseteq Same(L) /\ Cardinality(Same(L)) > 1) <=>
         ~conflict /\ selected # {last}
  BY <1>2, <1>16, <1>18
<1>26. (Near(L) = Same(L) /\ Same(L) = {MostRecent(L)} /\ L # Same(L)) <=>
         ~conflict /\ selected = {last} /\ L # {last}
  BY <1>20
<1>27. s.selected = last /\ s.support = selected
  BY <1>10
<1> QED
  BY <1>11, <1>12, <1>17, <1>21, <1>22, <1>23, <1>24, <1>25, <1>26, <1>27
  DEF s, selected, last

(* Everybody's last look is one look a person, the last of all among them.  *)
LEMMA LooksFacts ==
  ASSUME NEW S \in SUBSET Observation, IsFiniteSet(S)
  PROVE  /\ Looks(S) \in SUBSET Observation /\ IsFiniteSet(Looks(S)) /\ Looks(S) \subseteq S
         /\ OnePerPerson(Looks(S))
         /\ Looks(S) = {} <=> S = {}
         /\ S # {} => MostRecent(Looks(S)) = MostRecent(S) /\ MostRecent(S) \in Looks(S)
<1>1. Looks(S) \subseteq S /\ IsFiniteSet(Looks(S))
  <2>1. Looks(S) \subseteq S
    BY DEF Looks
  <2> QED BY <2>1, FS_Subset
<1>2. OnePerPerson(Looks(S))
  BY <1>1, BeforeIsTotal DEF Looks, OnePerPerson
<1>3. ASSUME S # {}
      PROVE  MostRecent(S) \in Looks(S) /\ MostRecent(Looks(S)) = MostRecent(S)
  <2>1. MostRecent(S) \in S /\ \A p \in S \ {MostRecent(S)} : Before(p, MostRecent(S))
    BY <1>3, MostRecentIsLast
  <2>2. MostRecent(S) \in Looks(S)
    BY <2>1 DEF Looks
  <2>3. \A p \in Looks(S) \ {MostRecent(S)} : Before(p, MostRecent(S))
    BY <2>1, <1>1
  <2>4. Looks(S) \in SUBSET Observation /\ Looks(S) # {}
    BY <1>1, <2>2
  <2> QED BY <1>1, <2>2, <2>3, <2>4, MostRecentIsLast
<1> QED BY <1>1, <1>2, <1>3

(* Nothing is selected where nobody had looked, and the last look where     *)
(* somebody had.                                                            *)
LEMMA SelectChunkCases ==
  ASSUME NEW S \in SUBSET Observation, IsFiniteSet(S), NEW t
  PROVE  /\ By(S, t) \in SUBSET Observation /\ IsFiniteSet(By(S, t))
         /\ By(S, t) = {} => SelectChunk(S, t) = Unknown
         /\ By(S, t) # {} => /\ SelectChunk(S, t) = SelectAmong(Looks(By(S, t)))
                             /\ Looks(By(S, t)) # {}
                             /\ SelectChunk(S, t).selected = MostRecent(By(S, t))
         /\ Known(SelectChunk(S, t)) <=> By(S, t) # {}
<1>1. By(S, t) \in SUBSET Observation /\ IsFiniteSet(By(S, t))
  <2>1. By(S, t) \subseteq S
    BY DEF By
  <2> QED BY <2>1, FS_Subset
<1>2. SelectChunk(S, t) = SelectAmong(Looks(By(S, t)))
  BY LatestPerContributorLooks DEF SelectChunk
<1>3. ASSUME By(S, t) = {} PROVE SelectChunk(S, t) = Unknown /\ ~Known(SelectChunk(S, t))
  <2>1. Looks(By(S, t)) = {}
    BY <1>1, <1>3, LooksFacts
  <2> QED BY <1>2, <2>1 DEF SelectAmong, Unknown, Known
<1>4. ASSUME By(S, t) # {}
      PROVE  /\ Looks(By(S, t)) # {} /\ SelectChunk(S, t).selected = MostRecent(By(S, t))
             /\ Known(SelectChunk(S, t))
  <2>1. /\ Looks(By(S, t)) \in SUBSET Observation /\ IsFiniteSet(Looks(By(S, t)))
        /\ Looks(By(S, t)) # {} /\ OnePerPerson(Looks(By(S, t)))
        /\ MostRecent(Looks(By(S, t))) = MostRecent(By(S, t))
    BY <1>1, <1>4, LooksFacts
  <2>2. SelectChunk(S, t).selected = MostRecent(By(S, t))
    BY <1>2, <2>1, SelectAmongLooks
  <2>3. MostRecent(By(S, t)) \in Observation
    BY <1>1, <1>4, MostRecentIsLast
  <2> QED BY <2>1, <2>2, <2>3, NothingAssumption DEF Known
<1> QED BY <1>1, <1>2, <1>3, <1>4

(* What a command gathers is part of what the archive holds, and finite.    *)
LEMMA GatherTyped ==
  ASSUME DataInv
  PROVE  /\ Gather \in SUBSET Observation /\ IsFiniteSet(Gather) /\ Gather \subseteq records
         /\ \A c : /\ OfChunk(Gather, c) \in SUBSET Observation
                   /\ IsFiniteSet(OfChunk(Gather, c)) /\ OfChunk(Gather, c) \subseteq Gather
<1>1. Gather \subseteq records
  BY DEF Gather, Filter
<1>2. \A c : OfChunk(Gather, c) \subseteq Gather
  BY DEF OfChunk
<1> QED BY <1>1, <1>2, FS_Subset DEF DataInv

(* The archive holds finitely many observations, and what was declared are  *)
(* redactions.                                                              *)
THEOREM DataCorrect == Spec => []DataInv
<1>1. Init => DataInv
  BY FS_EmptySet DEF Init, DataInv
<1>2. DataInv /\ [Next]_vars => DataInv'
  <2> SUFFICES ASSUME DataInv, [Next]_vars PROVE DataInv'
    OBVIOUS
  <2>1. ASSUME NEW o \in Captures \ records, Import(o) PROVE DataInv'
    <3>1. o \in Observation /\ records' = records \cup {o} /\ redactions' = redactions
      BY <2>1, InputAssumption DEF Import
    <3>2. IsFiniteSet(records \cup {o})
      BY FS_AddElement DEF DataInv
    <3> QED BY <3>1, <3>2 DEF DataInv
  <2>2. ASSUME NEW r \in Scopes, Declare(r) PROVE DataInv'
    BY <2>2, InputAssumption DEF Declare, Stored, DataInv
  <2>3. ASSUME NEW r \in redactions, Withdraw(r) PROVE DataInv'
    BY <2>3 DEF Withdraw, DataInv
  <2>4. CASE Purge
    <3>1. records' \subseteq records /\ redactions' = redactions
      BY <2>4 DEF Purge
    <3> QED BY <3>1, FS_Subset DEF DataInv
  <2>5. CASE UNCHANGED vars
    BY <2>5 DEF vars, DataInv
  <2> QED BY <2>1, <2>2, <2>3, <2>4, <2>5 DEF Next
<1> QED BY <1>1, <1>2, PTL DEF Spec

(* SelectsTheLatest holds of whatever an archive holds.                     *)
LEMMA SelectionIsLatest == DataInv => SelectsTheLatest
<1> SUFFICES ASSUME DataInv, NEW c \in Chunk, NEW t \in Time
             PROVE  LET by    == {o \in OfChunk(Gather, c) : o.at <= t}
        s     == SelectChunk(OfChunk(Gather, c), t)
        last  == MostRecent(by)
        looks == {o \in by : \A p \in by :
                    p # o /\ Key[p.by] = Key[o.by] => Before(p, o)}
        near  == {o \in looks : o.at + Window >= last.at}
        same  == {o \in looks : o.state = last.state}
    IN  IF by = {} THEN ~Known(s)
        ELSE /\ s.selected = last
             /\ UNION s.rejected = looks \ same
             /\ s.support = IF near \subseteq same THEN same ELSE near \cap same
             /\ s.counted + s.earlier = Cardinality(looks)
             /\ s.status = "conflict" <=> \E o \in near : o.state # last.state
             /\ s.status = "corroborated" <=>
                  near \subseteq same /\ Cardinality(same) > 1
             /\ s.status = "superseded" <=>
                  near = same /\ same = {last} /\ looks # same
             /\ s.status = "single-source" <=> looks = {last}
  BY Zenon DEF SelectsTheLatest
<1> DEFINE S == OfChunk(Gather, c)
           by == By(S, t)
           L == Looks(by)
<1>1. S \in SUBSET Observation /\ IsFiniteSet(S)
  BY GatherTyped
<1>2. CASE by = {}
  BY <1>1, <1>2, SelectChunkCases DEF By
<1>3. CASE by # {}
  <2>1. /\ SelectChunk(S, t) = SelectAmong(L) /\ L # {}
        /\ by \in SUBSET Observation /\ IsFiniteSet(by)
    BY <1>1, <1>3, SelectChunkCases
  <2>2. /\ L \in SUBSET Observation /\ IsFiniteSet(L) /\ OnePerPerson(L)
        /\ MostRecent(L) = MostRecent(by)
    BY <1>3, <2>1, LooksFacts
  <2>3. by = {o \in OfChunk(Gather, c) : o.at <= t}
    BY DEF By
  <2>4. L = {o \in by : \A p \in by : p # o /\ Key[p.by] = Key[o.by] => Before(p, o)}
    BY DEF Looks
  <2>5. /\ Near(L) = {o \in L : o.at + Window >= MostRecent(by).at}
        /\ Same(L) = {o \in L : o.state = MostRecent(by).state}
    BY <2>2 DEF Near, Same
  <2> DEFINE s == SelectChunk(S, t)
             last == MostRecent(by)
             near == {o \in L : o.at + Window >= last.at}
             same == {o \in L : o.state = last.state}
  <2>6. /\ SelectAmong(L).selected = MostRecent(L)
        /\ UNION SelectAmong(L).rejected = L \ Same(L)
        /\ SelectAmong(L).support =
             IF Near(L) \subseteq Same(L) THEN Same(L) ELSE Near(L) \cap Same(L)
        /\ SelectAmong(L).counted + SelectAmong(L).earlier = Cardinality(L)
        /\ SelectAmong(L).status = "conflict" <=>
             \E o \in Near(L) : o.state # MostRecent(L).state
        /\ SelectAmong(L).status = "corroborated" <=>
             Near(L) \subseteq Same(L) /\ Cardinality(Same(L)) > 1
        /\ SelectAmong(L).status = "superseded" <=>
             Near(L) = Same(L) /\ Same(L) = {MostRecent(L)} /\ L # Same(L)
        /\ SelectAmong(L).status = "single-source" <=> L = {MostRecent(L)}
    <3> HIDE DEF by, L
    <3> QED BY <2>1, <2>2, SelectAmongLooks
  <2>7. /\ s = SelectAmong(L) /\ last = MostRecent(L) /\ near = Near(L) /\ same = Same(L)
    BY <2>1, <2>2, <2>5
  <2>8. /\ s.selected = last
        /\ UNION s.rejected = L \ same
        /\ s.support = IF near \subseteq same THEN same ELSE near \cap same
        /\ s.counted + s.earlier = Cardinality(L)
        /\ s.status = "conflict" <=> \E o \in near : o.state # last.state
        /\ s.status = "corroborated" <=>
             near \subseteq same /\ Cardinality(same) > 1
        /\ s.status = "superseded" <=>
             near = same /\ same = {last} /\ L # same
        /\ s.status = "single-source" <=> L = {last}
    <3> HIDE DEF by, L, s, last, near, same
    <3> QED BY <2>6, <2>7
  <2> QED BY <1>3, <2>8 DEF By, Looks
<1> QED BY <1>2, <1>3

(* What a chunk is said to hold is what the last person to look saw there,  *)
(* and the status says of everybody's last look what its name says          *)
(* (SelectsTheLatest).                                                      *)
THEOREM SelectsTheLatestCorrect == Spec => []SelectsTheLatest
BY DataCorrect, SelectionIsLatest, PTL

(* What is behind or beside a selection was seen, and by then.              *)
LEMMA SelectionStaysWithin ==
  ASSUME NEW S \in SUBSET Observation, IsFiniteSet(S), NEW t
  PROVE  /\ SelectChunk(S, t).support \subseteq By(S, t)
         /\ UNION SelectChunk(S, t).rejected \subseteq By(S, t)
<1>1. CASE By(S, t) = {}
  BY <1>1, SelectChunkCases DEF Unknown
<1>2. CASE By(S, t) # {}
  <2> DEFINE L == Looks(By(S, t))
  <2>1. /\ SelectChunk(S, t) = SelectAmong(L) /\ L # {}
        /\ By(S, t) \in SUBSET Observation /\ IsFiniteSet(By(S, t))
    BY <1>2, SelectChunkCases
  <2>2. L \in SUBSET Observation /\ IsFiniteSet(L) /\ OnePerPerson(L) /\ L \subseteq By(S, t)
    BY <2>1, LooksFacts
  <2>3. /\ UNION SelectAmong(L).rejected = L \ Same(L)
        /\ SelectAmong(L).support =
             IF Near(L) \subseteq Same(L) THEN Same(L) ELSE Near(L) \cap Same(L)
    <3> HIDE DEF L
    <3> QED BY <2>1, <2>2, SelectAmongLooks
  <2>4. Same(L) \subseteq L
    BY DEF Same
  <2> HIDE DEF L
  <2> QED BY <2>1, <2>2, <2>3, <2>4
<1> QED BY <1>1, <1>2

(* What a snapshot says of a chunk: a state where somebody had looked, and  *)
(* otherwise that nothing is known.                                         *)
LEMMA SnapshotFacts ==
  ASSUME NEW G \in SUBSET Observation, IsFiniteSet(G), NEW t
  PROVE  /\ DOMAIN BuildSnapshot(G, t) = Positions(G)
         /\ Positions(G) \subseteq Chunk /\ IsFiniteSet(Positions(G))
         /\ \A c \in Positions(G) :
              LET b == BuildSnapshot(G, t)[c]
              IN  /\ b = SelectChunk(OfChunk(G, c), t)
                  /\ Known(b) <=> By(OfChunk(G, c), t) # {}
                  /\ ~Known(b) => b = Unknown
                  /\ Known(b) => StateDigest(b) \in State /\ StateDigest(b) = b.selected.state
                  /\ ~Known(b) => StateDigest(b) = Nothing
                  /\ Known(b) <=> StateDigest(b) # Nothing
<1>1. DOMAIN BuildSnapshot(G, t) = Positions(G)
  BY DEF BuildSnapshot
<1>2. Positions(G) \subseteq Chunk
  BY DEF Positions, Observation
<1>3. IsFiniteSet(Positions(G))
  <2> DEFINE f == [o \in G |-> o.chunk]
  <2>1. f \in Surjection(G, Positions(G))
    BY DEF Surjection, Positions
  <2> HIDE DEF f
  <2> QED BY <2>1, FS_Surjection
<1>4. ASSUME NEW c \in Positions(G), NEW b, b = BuildSnapshot(G, t)[c]
      PROVE  /\ b = SelectChunk(OfChunk(G, c), t)
             /\ Known(b) <=> By(OfChunk(G, c), t) # {}
             /\ ~Known(b) => b = Unknown
             /\ Known(b) => StateDigest(b) \in State /\ StateDigest(b) = b.selected.state
             /\ ~Known(b) => StateDigest(b) = Nothing
             /\ Known(b) <=> StateDigest(b) # Nothing
  <2> DEFINE S == OfChunk(G, c)
  <2>1. b = SelectChunk(S, t)
    BY <1>4 DEF BuildSnapshot
  <2>2. S \in SUBSET Observation /\ IsFiniteSet(S)
    <3>1. S \subseteq G
      BY DEF OfChunk
    <3> QED BY <3>1, FS_Subset
  <2> HIDE DEF S
  <2>3. /\ Known(b) <=> By(S, t) # {}
        /\ ~Known(b) => b = Unknown
        /\ Known(b) => b.selected = MostRecent(By(S, t))
        /\ By(S, t) \in SUBSET Observation /\ IsFiniteSet(By(S, t))
    BY <2>1, <2>2, SelectChunkCases
  <2>4. Known(b) => b.selected \in Observation
    BY <2>3, MostRecentIsLast
  <2>5. /\ Known(b) => StateDigest(b) \in State /\ StateDigest(b) = b.selected.state
        /\ ~Known(b) => StateDigest(b) = Nothing
    BY <2>4 DEF StateDigest, Observation
  <2> QED BY <2>1, <2>3, <2>5, NothingAssumption DEF S
<1> QED BY <1>1, <1>2, <1>3, <1>4

(* WithheldIsNowhere holds of whatever an archive holds and has declared.   *)
LEMMA WithheldIsHidden == DataInv => WithheldIsNowhere
<1> SUFFICES ASSUME DataInv, NEW t \in Time
             PROVE
    LET snapshot == SnapshotAt(t)
        diff     == BuildDiff(Gather, 0, t)
        said     == (UNION {snapshot[c].support \cup UNION snapshot[c].rejected :
                              c \in DOMAIN snapshot})
                    \cup (UNION {diff[c].revisits : c \in DOMAIN diff})
        hidden   == {o \in records : \E r \in redactions :
                       /\ PersonOf(r) \in {Everyone, Key[o.by]}
                       /\ o.chunk \in r.area}
    IN  /\ said \cap hidden = {}
        /\ hidden = {} <=> \A r \in redactions : RedactList[r] = 0
        /\ \A area \in SUBSET Chunk :
             /\ LandmarkObserved(snapshot, area) =
                  {c \in area : \E o \in records \ hidden :
                                  o.chunk = c /\ o.at <= t}
             /\ World(RestrictToLandmark(snapshot, area)) =
                  World(snapshot) \cap (area \X State)
  BY DEF WithheldIsNowhere
<1> DEFINE snapshot == SnapshotAt(t)
           diff     == BuildDiff(Gather, 0, t)
           held     == UNION {snapshot[c].support \cup UNION snapshot[c].rejected :
                                c \in DOMAIN snapshot}
           visited  == UNION {diff[c].revisits : c \in DOMAIN diff}
           said     == (UNION {snapshot[c].support \cup UNION snapshot[c].rejected :
                                 c \in DOMAIN snapshot})
                       \cup (UNION {diff[c].revisits : c \in DOMAIN diff})
           hidden   == {o \in records : \E r \in redactions :
                          /\ PersonOf(r) \in {Everyone, Key[o.by]}
                          /\ o.chunk \in r.area}
<1>1. \A o \in records, r \in redactions :
        Matches(r, o) <=> PersonOf(r) \in {Everyone, Key[o.by]} /\ o.chunk \in r.area
  <2> TAKE o \in records, r \in redactions
  <2>1. o \in Observation /\ r \in Redaction
    BY DEF DataInv
  <2>2. /\ r.by \in Label \cup {Everyone} /\ Everyone \notin Label
        /\ o.by \in Label
    BY <2>1, NothingAssumption DEF Redaction, Everyone, Observation
  <2>3. Key[o.by] \in Label /\ (r.by # Everyone => Key[r.by] \in Label)
    BY <2>2, KeyAssumption
  <2> QED BY <2>2, <2>3 DEF Matches, PersonOf
<1>2. Gather = records \ hidden
  BY <1>1 DEF Gather, Filter
<1>3. /\ Gather \in SUBSET Observation /\ IsFiniteSet(Gather)
      /\ \A c : /\ OfChunk(Gather, c) \in SUBSET Observation
                /\ IsFiniteSet(OfChunk(Gather, c)) /\ OfChunk(Gather, c) \subseteq Gather
  BY GatherTyped
<1>4. /\ DOMAIN snapshot = Positions(Gather) /\ Positions(Gather) \subseteq Chunk
      /\ \A c \in Positions(Gather) :
           /\ snapshot[c] = SelectChunk(OfChunk(Gather, c), t)
           /\ Known(snapshot[c]) <=> By(OfChunk(Gather, c), t) # {}
           /\ Known(snapshot[c]) => snapshot[c].selected.state \in State
  BY <1>3, SnapshotFacts DEF SnapshotAt
<1>5. said \subseteq Gather
  <2>0. said = held \cup visited
    OBVIOUS
  <2>1. ASSUME NEW c \in DOMAIN snapshot
        PROVE  /\ snapshot[c].support \subseteq Gather
               /\ UNION snapshot[c].rejected \subseteq Gather
    <3>1. By(OfChunk(Gather, c), t) \subseteq Gather
      BY <1>3 DEF By
    <3> QED BY <1>3, <1>4, <2>1, <3>1, SelectionStaysWithin
  <2>2. ASSUME NEW c \in DOMAIN diff PROVE diff[c].revisits \subseteq Gather
    <3>1. diff[c].revisits = RevisitsWithin(OfChunk(Gather, c), Min({0, t}), Max({0, t}))
      BY <2>2 DEF BuildDiff, CompareChunk, Change
    <3> QED BY <1>3, <3>1 DEF RevisitsWithin
  <2> HIDE DEF snapshot, diff
  <2>3. \A c \in DOMAIN snapshot :
          snapshot[c].support \cup UNION snapshot[c].rejected \subseteq Gather
    BY <2>1
  <2>4. held \subseteq Gather
    BY <2>3
  <2>5. visited \subseteq Gather
    BY <2>2
  <2> HIDE DEF held, visited, said
  <2> QED BY <2>0, <2>4, <2>5
<1>6. said \cap hidden = {}
  <2> HIDE DEF said, hidden
  <2> QED BY <1>2, <1>5
<1>7. hidden = {} <=> \A r \in redactions : RedactList[r] = 0
  <2>1. ASSUME NEW r \in redactions
        PROVE  RedactList[r] = 0 <=> \A o \in records : ~Matches(r, o)
    <3>1. RedactList[r] = Cardinality(Matching({r}))
      BY DEF RedactList
    <3>2. Matching({r}) = {o \in records : Matches(r, o)}
      BY DEF Matching, Filter
    <3>3. IsFiniteSet(Matching({r}))
      BY <3>2, FS_Subset DEF DataInv
    <3>4. RedactList[r] = 0 <=> Matching({r}) = {}
      BY <3>1, <3>3, FS_EmptySet
    <3> QED BY <3>2, <3>4
  <2> QED BY <1>1, <2>1
<1>8. ASSUME NEW area \in SUBSET Chunk
      PROVE  /\ LandmarkObserved(snapshot, area) =
                  {c \in area : \E o \in records \ hidden : o.chunk = c /\ o.at <= t}
             /\ World(RestrictToLandmark(snapshot, area)) =
                  World(snapshot) \cap (area \X State)
  <2> HIDE DEF snapshot, hidden
  <2>1. LandmarkObserved(snapshot, area) =
          {c \in area : \E o \in Gather : o.chunk = c /\ o.at <= t}
    BY <1>4 DEF LandmarkObserved, Positions, OfChunk, By
  <2> DEFINE part == RestrictToLandmark(snapshot, area)
  <2>2. DOMAIN part = area \cap DOMAIN snapshot /\ \A c \in DOMAIN part : part[c] = snapshot[c]
    BY DEF RestrictToLandmark
  <2>3. World(part) = World(snapshot) \cap (area \X State)
    <3> HIDE DEF part
    <3>1. \A p : p \in World(part) <=>
            \E c \in DOMAIN part : Known(part[c]) /\ p = <<c, part[c].selected.state>>
      BY DEF World
    <3>2. \A p : p \in World(snapshot) <=>
            \E c \in DOMAIN snapshot :
               Known(snapshot[c]) /\ p = <<c, snapshot[c].selected.state>>
      BY DEF World
    <3>3. \A p \in World(part) : p \in World(snapshot) /\ p \in area \X State
      BY <2>2, <3>1, <3>2, <1>4
    <3>4. \A p \in World(snapshot) : p \in area \X State => p \in World(part)
      BY <2>2, <3>1, <3>2
    <3> QED BY <3>3, <3>4
  <2> QED BY <1>2, <2>1, <2>3
<1> QED BY <1>6, <1>7, <1>8

(* Nothing a redaction covers is in anything built to be shared             *)
(* (WithheldIsNowhere).                                                     *)
THEOREM WithheldIsNowhereCorrect == Spec => []WithheldIsNowhere
BY DataCorrect, WithheldIsHidden, PTL

(* What was said of a moment changes only with what is shown of it          *)
(* (HistoryIsStable).                                                       *)
THEOREM HistoryIsStableCorrect == Spec => HistoryIsStable
<1>1. [Next]_vars => [\A t \in Time, c \in Chunk :
         {o \in Gather : o.at <= t /\ o.chunk = c}
           = {o \in Gather' : o.at <= t /\ o.chunk = c} =>
         SelectChunk(OfChunk(Gather, c), t)
           = SelectChunk(OfChunk(Gather', c), t)]_vars
  <2> SUFFICES ASSUME NEW t \in Time, NEW c \in Chunk,
                      {o \in Gather : o.at <= t /\ o.chunk = c}
                        = {o \in Gather' : o.at <= t /\ o.chunk = c}
               PROVE  SelectChunk(OfChunk(Gather, c), t)
                        = SelectChunk(OfChunk(Gather', c), t)
    OBVIOUS
  <2>1. {o \in OfChunk(Gather, c) : o.at <= t} = {o \in OfChunk(Gather', c) : o.at <= t}
    BY DEF OfChunk
  <2> QED BY <2>1 DEF SelectChunk, LatestPerContributor
<1> QED BY <1>1, PTL DEF Spec, HistoryIsStable

(* What was seen by the later of two moments was seen by the earlier one or *)
(* after it, and then the last visit is the last look.                      *)
LEMMA TwoMoments ==
  ASSUME NEW S \in SUBSET Observation, IsFiniteSet(S), NEW u \in Time, NEW v \in Time, u < v
  PROVE  /\ By(S, v) = By(S, u) \cup RevisitsWithin(S, u, v)
         /\ By(S, u) \cap RevisitsWithin(S, u, v) = {}
         /\ RevisitsWithin(S, u, v) # {} =>
              MostRecent(RevisitsWithin(S, u, v)) = MostRecent(By(S, v))
<1> DEFINE R == RevisitsWithin(S, u, v)
<1>1. \A o \in S : o.at \in Nat
  BY DEF Observation, Time
<1>2. u \in Nat /\ v \in Nat
  BY DEF Time
<1>3. By(S, v) = By(S, u) \cup R /\ By(S, u) \cap R = {}
  BY <1>1, <1>2 DEF By, RevisitsWithin
<1>4. ASSUME R # {} PROVE MostRecent(R) = MostRecent(By(S, v))
  <2>1. /\ By(S, v) \in SUBSET Observation /\ IsFiniteSet(By(S, v))
        /\ R \in SUBSET Observation /\ IsFiniteSet(R)
    <3>1. By(S, v) \subseteq S /\ R \subseteq S
      BY DEF By, RevisitsWithin
    <3> QED BY <3>1, FS_Subset
  <2>2. MostRecent(R) \in R /\ \A p \in R \ {MostRecent(R)} : Before(p, MostRecent(R))
    BY <1>4, <2>1, MostRecentIsLast
  <2>3. \A p \in By(S, u) : Before(p, MostRecent(R))
    <3> TAKE p \in By(S, u)
    <3>1. p.at <= u /\ u < MostRecent(R).at /\ p.at \in Nat /\ MostRecent(R).at \in Nat
      BY <1>1, <2>2 DEF By, RevisitsWithin
    <3> QED BY <3>1, <1>2 DEF Before
  <2>4. /\ MostRecent(R) \in By(S, v)
        /\ \A p \in By(S, v) \ {MostRecent(R)} : Before(p, MostRecent(R))
    BY <1>3, <2>2, <2>3
  <2> HIDE DEF R
  <2> QED BY <2>1, <2>4, MostRecentIsLast
<1> QED BY <1>3, <1>4

(* The state a chunk is in is the one last seen.                            *)
LEMMA DigestIs ==
  ASSUME NEW S \in SUBSET Observation, IsFiniteSet(S), NEW u
  PROVE  By(S, u) # {} => Digest(S, u) = MostRecent(By(S, u)).state
BY SelectChunkCases DEF Digest, StateDigest

(* The kinds a comparison tells apart, in terms of what was seen by the two *)
(* moments and between them (compareChunk).                                 *)
LEMMA KindsOfChange ==
  ASSUME NEW S \in SUBSET Observation, IsFiniteSet(S), NEW u \in Time, NEW v \in Time, u < v,
         NEW k, k = CompareChunk(S, u, v).kind
  PROVE  /\ k = "never-seen" <=> By(S, v) = {}
         /\ k = "first-seen" <=> By(S, u) = {} /\ By(S, v) # {}
         /\ k = "changed" <=> By(S, u) # {} /\ By(S, v) # {} /\ Digest(S, u) # Digest(S, v)
         /\ k = "not-revisited" <=> By(S, u) # {} /\ RevisitsWithin(S, u, v) = {}
<1>1. k = KindOf(SelectChunk(S, u), SelectChunk(S, v), RevisitsWithin(S, u, v))
  BY DEF CompareChunk, Change
<1>2. /\ Known(SelectChunk(S, u)) <=> By(S, u) # {}
      /\ Known(SelectChunk(S, v)) <=> By(S, v) # {}
  BY SelectChunkCases
<1>3. RevisitsWithin(S, u, v) = {} => By(S, u) = By(S, v)
  BY TwoMoments
<1>4. By(S, u) \subseteq By(S, v)
  BY TwoMoments
<1>5. By(S, u) # {} /\ By(S, u) = By(S, v) => Digest(S, u) = Digest(S, v)
  BY DigestIs
<1> HIDE DEF Digest
<1> QED BY <1>1, <1>2, <1>3, <1>4, <1>5 DEF KindOf, Digest

(* DiffHalvesAgree holds of whatever an archive holds.                      *)
LEMMA HalvesAgree == DataInv => DiffHalvesAgree
<1> SUFFICES ASSUME DataInv, NEW s \in Time, NEW m \in Time, NEW t \in Time, s < m, m < t,
                    NEW c \in Positions(Gather),
                    NEW whole, whole = BuildDiff(Gather, t, s)[c],
                    NEW first, first = BuildDiff(Gather, s, m)[c].kind,
                    NEW then, then = BuildDiff(Gather, m, t)[c].kind,
                    NEW before, before = SelectChunk(OfChunk(Gather, c), s)
             PROVE  /\ whole.kind \in {"never-seen", "not-revisited"} <=>
                         whole.revisits = {}
                    /\ \A k \in {"never-seen", "not-revisited"} :
                         whole.kind = k <=> first = k /\ then = k
                    /\ whole.kind = "first-seen" <=> "first-seen" \in {first, then}
                    /\ whole.kind = "changed" => "changed" \in {first, then}
                    /\ before.selected \notin whole.revisits
                    /\ whole.kind \in {"changed", "unchanged", "first-seen"} =>
                         MostRecent(whole.revisits).state = whole.to
  BY DEF DiffHalvesAgree
<1> DEFINE S == OfChunk(Gather, c)
<1>1. S \in SUBSET Observation /\ IsFiniteSet(S)
  BY GatherTyped
<1>2. /\ s \in Nat /\ m \in Nat /\ t \in Nat
      /\ {t, s} \in SUBSET Int /\ {s, m} \in SUBSET Int /\ {m, t} \in SUBSET Int
  BY DEF Time
<1>3. /\ Min({t, s}) = s /\ Max({t, s}) = t /\ Min({s, m}) = s /\ Max({s, m}) = m
      /\ Min({m, t}) = m /\ Max({m, t}) = t
  <2>1. /\ \A n \in {t, s} : s <= n /\ n <= t
        /\ \A n \in {s, m} : s <= n /\ n <= m
        /\ \A n \in {m, t} : m <= n /\ n <= t
    BY <1>2
  <2> QED BY <1>2, <2>1, MaxIs, MinIs
<1>4. /\ BuildDiff(Gather, t, s)[c] = CompareChunk(S, Min({t, s}), Max({t, s}))
      /\ BuildDiff(Gather, s, m)[c] = CompareChunk(S, Min({s, m}), Max({s, m}))
      /\ BuildDiff(Gather, m, t)[c] = CompareChunk(S, Min({m, t}), Max({m, t}))
  BY DEF BuildDiff
<1>5. /\ whole = CompareChunk(S, s, t)
      /\ first = CompareChunk(S, s, m).kind
      /\ then = CompareChunk(S, m, t).kind
  BY <1>3, <1>4
<1> HIDE DEF S
<1>6. s < t
  BY <1>2
<1> DEFINE R == RevisitsWithin(S, s, t)
<1>7. /\ whole.revisits = R /\ whole.to = Digest(S, t)
      /\ whole.kind = KindOf(SelectChunk(S, s), SelectChunk(S, t), R)
  BY <1>5 DEF CompareChunk, Change, Digest
<1>8. /\ By(S, t) = By(S, s) \cup R /\ By(S, s) \cap R = {}
      /\ By(S, m) = By(S, s) \cup RevisitsWithin(S, s, m)
      /\ By(S, t) = By(S, m) \cup RevisitsWithin(S, m, t)
      /\ R # {} => MostRecent(R) = MostRecent(By(S, t))
  BY <1>1, <1>6, TwoMoments
<1>9. R = {} <=> RevisitsWithin(S, s, m) = {} /\ RevisitsWithin(S, m, t) = {}
  <2>1. \A o \in S : o.at \in Nat
    BY <1>1 DEF Observation, Time
  <2>2. R = RevisitsWithin(S, s, m) \cup RevisitsWithin(S, m, t)
    BY <1>2, <2>1 DEF RevisitsWithin
  <2> QED BY <2>2
<1>10. /\ whole.kind = "never-seen" <=> By(S, t) = {}
       /\ whole.kind = "first-seen" <=> By(S, s) = {} /\ By(S, t) # {}
       /\ whole.kind = "changed" <=>
            By(S, s) # {} /\ By(S, t) # {} /\ Digest(S, s) # Digest(S, t)
       /\ whole.kind = "not-revisited" <=> By(S, s) # {} /\ R = {}
  BY <1>1, <1>5, <1>6, KindsOfChange
<1>11. /\ first = "never-seen" <=> By(S, m) = {}
       /\ first = "first-seen" <=> By(S, s) = {} /\ By(S, m) # {}
       /\ first = "changed" <=> By(S, s) # {} /\ By(S, m) # {} /\ Digest(S, s) # Digest(S, m)
       /\ first = "not-revisited" <=> By(S, s) # {} /\ RevisitsWithin(S, s, m) = {}
  BY <1>1, <1>5, KindsOfChange
<1>12. /\ then = "never-seen" <=> By(S, t) = {}
       /\ then = "first-seen" <=> By(S, m) = {} /\ By(S, t) # {}
       /\ then = "changed" <=> By(S, m) # {} /\ By(S, t) # {} /\ Digest(S, m) # Digest(S, t)
       /\ then = "not-revisited" <=> By(S, m) # {} /\ RevisitsWithin(S, m, t) = {}
  BY <1>1, <1>5, KindsOfChange
<1> HIDE DEF R
<1>13. whole.kind \in {"never-seen", "not-revisited"} <=> whole.revisits = {}
  BY <1>7, <1>8, <1>10
<1>14. \A k \in {"never-seen", "not-revisited"} : whole.kind = k <=> first = k /\ then = k
  <2>1. whole.kind = "never-seen" <=> first = "never-seen" /\ then = "never-seen"
    BY <1>8, <1>10, <1>11, <1>12
  <2>2. whole.kind = "not-revisited" <=> first = "not-revisited" /\ then = "not-revisited"
    BY <1>8, <1>9, <1>10, <1>11, <1>12
  <2> QED BY <2>1, <2>2
<1>15. whole.kind = "first-seen" <=> "first-seen" \in {first, then}
  BY <1>8, <1>10, <1>11, <1>12
<1>16. whole.kind = "changed" => "changed" \in {first, then}
  BY <1>8, <1>10, <1>11, <1>12
<1>17. before.selected \notin whole.revisits
  <2>1. CASE By(S, s) = {}
    <3>1. before.selected = Nothing
      BY <1>1, <2>1, SelectChunkCases DEF Unknown, S
    <3>2. R \subseteq Observation
      BY <1>1 DEF R, RevisitsWithin
    <3> QED BY <1>7, <3>1, <3>2, NothingAssumption
  <2>2. CASE By(S, s) # {}
    <3>1. before.selected = MostRecent(By(S, s)) /\ MostRecent(By(S, s)) \in By(S, s)
      BY <1>1, <2>2, SelectChunkCases, MostRecentIsLast DEF S
    <3> QED BY <1>7, <1>8, <3>1
  <2> QED BY <2>1, <2>2
<1>18. ASSUME whole.kind \in {"changed", "unchanged", "first-seen"}
       PROVE  MostRecent(whole.revisits).state = whole.to
  <2>1. R # {} /\ By(S, t) # {}
    BY <1>7, <1>8, <1>13, <1>18
  <2> QED BY <1>1, <1>7, <1>8, <2>1, DigestIs
<1> QED BY <1>13, <1>14, <1>15, <1>16, <1>17, <1>18

(* A diff over an interval agrees with the diffs over its two parts         *)
(* (DiffHalvesAgree).                                                       *)
THEOREM DiffHalvesAgreeCorrect == Spec => []DiffHalvesAgree
BY DataCorrect, HalvesAgree, PTL

(* ComparisonAgrees holds of whatever an archive holds, for any part of it. *)
LEMMA ComparisonIsExact == DataInv => ComparisonAgrees
<1> SUFFICES ASSUME DataInv, NEW t \in Time, NEW part \in SUBSET Gather
             PROVE
    LET other == BuildSnapshot(part, t)
        local == BuildManifest(SnapshotAt(t), t)
        c     == CompareManifests(local, BuildManifest(other, t))
        told  == EpochComparison(Gather, t, BuildManifest(other, t))
    IN  /\ c.sameWorld <=>
             c.mismatched \cup c.onlyLocal \cup c.onlyRemote = {}
        /\ c.sameWorld => World(SnapshotAt(t)) = World(other)
        /\ told # Refused => (told.same <=> told.differ + told.oneKnows = 0)
        /\ World(SnapshotAt(t)) \ World(other) \subseteq
             (c.mismatched \cup c.onlyLocal) \X State
        /\ \A d \in c.confidence : Known(SnapshotAt(t)[d])
  BY DEF ComparisonAgrees
<1> DEFINE here   == BuildSnapshot(Gather, t)
           other  == BuildSnapshot(part, t)
           local  == BuildManifest(here, t)
           remote == BuildManifest(other, t)
           c      == CompareManifests(local, remote)
           told   == EpochComparison(Gather, t, remote)
           H == Positions(Gather)
           O == Positions(part)
           Differ == {d \in H \cap O : StateDigest(here[d]) # StateDigest(other[d])}
<1>1. /\ Gather \in SUBSET Observation /\ IsFiniteSet(Gather)
      /\ part \in SUBSET Observation /\ IsFiniteSet(part)
  BY GatherTyped, FS_Subset
<1>2. /\ DOMAIN here = H /\ H \subseteq Chunk /\ IsFiniteSet(H)
      /\ \A d \in H :
           /\ Known(here[d]) <=> StateDigest(here[d]) # Nothing
           /\ Known(here[d]) => /\ StateDigest(here[d]) \in State
                                /\ StateDigest(here[d]) = here[d].selected.state
           /\ ~Known(here[d]) => here[d] = Unknown
  BY <1>1, SnapshotFacts
<1>3. /\ DOMAIN other = O /\ O \subseteq Chunk /\ IsFiniteSet(O)
      /\ \A d \in O :
           /\ Known(other[d]) <=> StateDigest(other[d]) # Nothing
           /\ Known(other[d]) => /\ StateDigest(other[d]) \in State
                                 /\ StateDigest(other[d]) = other[d].selected.state
           /\ ~Known(other[d]) => other[d] = Unknown
  BY <1>1, SnapshotFacts
<1> HIDE DEF here, other, H, O
<1>4. /\ DOMAIN local.chunks = H /\ DOMAIN remote.chunks = O
      /\ local.at = t /\ remote.at = t
      /\ \A d \in H : /\ local.chunks[d].state = StateDigest(here[d])
                      /\ local.chunks[d].status = here[d].status
      /\ \A d \in O : /\ remote.chunks[d].state = StateDigest(other[d])
                      /\ remote.chunks[d].status = other[d].status
  BY <1>2, <1>3 DEF BuildManifest
<1> HIDE DEF local, remote
<1>5. /\ c.mismatched = Differ
      /\ c.onlyLocal = H \ O /\ c.onlyRemote = O \ H
      /\ c.sameWorld = (Root(local) = Root(remote))
      /\ \A d \in c.confidence : /\ d \in H \cap O /\ d \notin Differ
                                 /\ here[d].status # other[d].status
  <2>1. {d \in DOMAIN local.chunks \cap DOMAIN remote.chunks :
            local.chunks[d].state # remote.chunks[d].state} = Differ
    BY <1>4
  <2> HIDE DEF Differ
  <2> QED BY <1>4, <2>1 DEF CompareManifests
<1> DEFINE f == [d \in DOMAIN local.chunks |-> local.chunks[d].state]
           g == [d \in DOMAIN remote.chunks |-> remote.chunks[d].state]
<1>6. c.sameWorld <=> H = O /\ Differ = {}
  <2>1. Root(local) = Root(remote) <=> f = g
    BY <1>4 DEF Root
  <2>2. f = g <=> H = O /\ \A d \in H : StateDigest(here[d]) = StateDigest(other[d])
    <3>1. f = [d \in H |-> StateDigest(here[d])] /\ g = [d \in O |-> StateDigest(other[d])]
      BY <1>4
    <3> HIDE DEF f, g
    <3>2. DOMAIN f = H /\ DOMAIN g = O
      BY <3>1
    <3>3. ASSUME f = g PROVE H = O /\ \A d \in H : StateDigest(here[d]) = StateDigest(other[d])
      <4>1. H = O
        BY <3>2, <3>3
      <4>2. \A d \in H : f[d] = StateDigest(here[d]) /\ g[d] = StateDigest(other[d])
        BY <3>1, <4>1
      <4> QED BY <3>3, <4>1, <4>2
    <3>4. ASSUME H = O, \A d \in H : StateDigest(here[d]) = StateDigest(other[d]) PROVE f = g
      BY <3>1, <3>4
    <3> QED BY <3>3, <3>4
  <2> HIDE DEF f, g, c
  <2> QED BY <1>5, <2>1, <2>2
<1> HIDE DEF c
<1>7. c.sameWorld <=> c.mismatched \cup c.onlyLocal \cup c.onlyRemote = {}
  BY <1>5, <1>6
<1>8. \A p : p \in World(here) <=>
        \E d \in H : Known(here[d]) /\ p = <<d, here[d].selected.state>>
  BY <1>2 DEF World
<1>9. \A p : p \in World(other) <=>
        \E d \in O : Known(other[d]) /\ p = <<d, other[d].selected.state>>
  BY <1>3 DEF World
<1>10. \A d \in (H \cap O) \ Differ :
         /\ Known(here[d]) <=> Known(other[d])
         /\ Known(here[d]) => here[d].selected.state = other[d].selected.state
  BY <1>2, <1>3
<1>11. c.sameWorld => World(here) = World(other)
  <2> SUFFICES ASSUME H = O, Differ = {} PROVE World(here) = World(other)
    BY <1>6
  <2> HIDE DEF Differ
  <2>1. \A p : p \in World(here) <=> p \in World(other)
    BY <1>8, <1>9, <1>10
  <2> QED BY <2>1
<1>12. World(here) \ World(other) \subseteq (c.mismatched \cup c.onlyLocal) \X State
  <2> HIDE DEF Differ
  <2> SUFFICES ASSUME NEW p \in World(here), p \notin World(other)
               PROVE  p \in (Differ \cup (H \ O)) \X State
    BY <1>5
  <2>1. PICK d \in H : Known(here[d]) /\ p = <<d, here[d].selected.state>>
    BY <1>8
  <2>2. d \in Differ \cup (H \ O)
    BY <1>9, <1>10, <2>1
  <2> QED BY <1>2, <2>1, <2>2
<1>13. \A d \in c.confidence : Known(here[d])
  BY <1>2, <1>3, <1>5
<1>14. told # Refused => (told.same <=> told.differ + told.oneKnows = 0)
  <2>1. CASE Gather = {}
    BY <2>1 DEF EpochComparison
  <2>2. CASE Gather # {} /\ c = Refused
    <3>1. told = Refused
      BY <2>2 DEF EpochComparison, c, local, here
    <3> QED BY <3>1
  <2>3. CASE Gather # {} /\ c # Refused
    <3>1. /\ told.same = c.sameWorld
          /\ told.differ = Cardinality(c.mismatched)
          /\ told.oneKnows = Cardinality(c.onlyLocal) + Cardinality(c.onlyRemote)
      BY <2>3 DEF EpochComparison, c, local, here
    <3>2. IsFiniteSet(c.mismatched) /\ IsFiniteSet(c.onlyLocal) /\ IsFiniteSet(c.onlyRemote)
      <4>1. c.mismatched \subseteq H /\ c.onlyLocal \subseteq H /\ c.onlyRemote \subseteq O
        BY <1>5
      <4> QED BY <1>2, <1>3, <4>1, FS_Subset
    <3>3. /\ Cardinality(c.mismatched) \in Nat /\ Cardinality(c.onlyLocal) \in Nat
          /\ Cardinality(c.onlyRemote) \in Nat
          /\ Cardinality(c.mismatched) = 0 <=> c.mismatched = {}
          /\ Cardinality(c.onlyLocal) = 0 <=> c.onlyLocal = {}
          /\ Cardinality(c.onlyRemote) = 0 <=> c.onlyRemote = {}
      BY <3>2, FS_CardinalityType, FS_EmptySet
    <3>4. told.differ + told.oneKnows = 0 <=>
            c.mismatched = {} /\ c.onlyLocal = {} /\ c.onlyRemote = {}
      <4> HIDE DEF told
      <4>1. \A i, j, k \in Nat : i + (j + k) = 0 <=> i = 0 /\ j = 0 /\ k = 0
        OBVIOUS
      <4>2. told.differ + told.oneKnows =
              Cardinality(c.mismatched) + (Cardinality(c.onlyLocal) + Cardinality(c.onlyRemote))
        BY <3>1
      <4> QED BY <3>3, <4>1, <4>2
    <3> HIDE DEF told
    <3> QED BY <1>7, <3>1, <3>4
  <2> QED BY <2>1, <2>2, <2>3
<1>15. SnapshotAt(t) = here
  BY DEF SnapshotAt, here
<1> QED BY <1>7, <1>11, <1>12, <1>13, <1>14, <1>15 DEF c, local, remote, other

(* Two manifests of one moment have one root exactly when nothing differs,  *)
(* and then both archives export one world (ComparisonAgrees).              *)
THEOREM ComparisonAgreesCorrect == Spec => []ComparisonAgrees
BY DataCorrect, ComparisonIsExact, PTL

-----------------------------------------------------------------------------
(* What the commands and the pages make of it.                              *)

(* Of finitely many things that each have a number one has the least,       *)
LEMMA LeastExists ==
  ASSUME NEW S, IsFiniteSet(S), S # {}, NEW w \in [S -> Int]
  PROVE  \E x \in S : \A y \in S : w[x] <= w[y]
<1> DEFINE Below(x) == {y \in S : w[y] <= w[x]}
           F == {Below(x) : x \in S}
<1>1. PICK T \in F : \A U \in F : U \subseteq T => U = T
  <2>1. F \in SUBSET SUBSET S
    OBVIOUS
  <2>2. \A x \in S : Below(x) \in F
    OBVIOUS
  <2> HIDE DEF F, Below
  <2>3. F # {}
    BY <2>2
  <2> QED BY <2>1, <2>3, SmallestSet
<1>2. PICK x \in S : T = Below(x)
  OBVIOUS
<1>3. ASSUME NEW y \in S, w[y] < w[x] PROVE FALSE
  <2>1. \A z \in S : w[z] \in Int
    OBVIOUS
  <2>2. Below(y) \subseteq Below(x) /\ x \in Below(x) /\ x \notin Below(y)
    BY <1>3, <2>1
  <2>3. Below(y) \in F
    OBVIOUS
  <2> HIDE DEF F, Below
  <2> QED BY <1>1, <1>2, <2>2, <2>3
<1> QED BY <1>3

(* so that of finitely many integers one is the largest and one the smallest.*)
LEMMA ExtremesExist ==
  ASSUME NEW S \in SUBSET Int, IsFiniteSet(S), S # {}
  PROVE  /\ Max(S) \in S /\ \A n \in S : n <= Max(S)
         /\ Min(S) \in S /\ \A n \in S : Min(S) <= n
<1> DEFINE id == [n \in S |-> n]
           less == [n \in S |-> -n]
<1>1. id \in [S -> Int] /\ less \in [S -> Int]
  OBVIOUS
<1>2. /\ \E x \in S : \A y \in S : id[x] <= id[y]
      /\ \E x \in S : \A y \in S : less[x] <= less[y]
  <2> HIDE DEF id, less
  <2> QED BY <1>1, LeastExists
<1>3. \A n \in S : n \in Int /\ id[n] = n /\ less[n] = -n
  OBVIOUS
<1> HIDE DEF id, less
<1>4. PICK k \in S : \A n \in S : id[k] <= id[n]
  BY <1>2
<1>5. PICK m \in S : \A n \in S : less[m] <= less[n]
  BY <1>2
<1>6. \A n \in S : k <= n /\ n <= m
  BY <1>3, <1>4, <1>5
<1>7. Max(S) = m /\ Min(S) = k
  BY <1>6, MaxIs, MinIs
<1> QED BY <1>6, <1>7

(* A list of some things by a number each has, the largest first.           *)
Sorts(w, T, s) ==
  /\ s \in [1..Cardinality(T) -> T]
  /\ \A i, j \in 1..Cardinality(T) : i < j => s[i] # s[j] /\ w[s[i]] >= w[s[j]]

(* Finitely many things can be listed so: of the sets that cannot, a        *)
(* smallest one would be a listed set and a last element.                   *)
LEMMA SortedExists ==
  ASSUME NEW S, IsFiniteSet(S), NEW w \in [S -> Int]
  PROVE  \E s : Sorts(w, S, s)
<1> DEFINE F == {T \in SUBSET S : ~\E s : Sorts(w, T, s)}
<1> SUFFICES ASSUME F # {} PROVE FALSE
  OBVIOUS
<1>1. PICK T \in F : \A U \in F : U \subseteq T => U = T
  <2>1. F \in SUBSET SUBSET S
    OBVIOUS
  <2> HIDE DEF F
  <2> QED BY <2>1, SmallestSet
<1>2. T \in SUBSET S /\ IsFiniteSet(T) /\ ~\E s : Sorts(w, T, s)
  BY FS_Subset
<1>3. T # {}
  <2> SUFFICES ASSUME T = {} PROVE FALSE
    OBVIOUS
  <2>1. Cardinality(T) = 0
    BY FS_EmptySet
  <2>2. 1..Cardinality(T) = {}
    BY <2>1
  <2> DEFINE s == [i \in {} |-> i]
  <2>3. s \in [1..Cardinality(T) -> T]
    BY <2>2
  <2> HIDE DEF s
  <2>4. Sorts(w, T, s)
    BY <2>2, <2>3 DEF Sorts
  <2> QED BY <1>2, <2>4
<1>4. PICK x \in T : \A y \in T : w[x] <= w[y]
  <2> DEFINE v == [y \in T |-> w[y]]
  <2>1. v \in [T -> Int]
    BY <1>2
  <2>2. \E x \in T : \A y \in T : v[x] <= v[y]
    <3> HIDE DEF v
    <3> QED BY <1>2, <1>3, <2>1, LeastExists
  <2> QED BY <2>2
<1> DEFINE U == T \ {x}
           n == Cardinality(U)
<1>5. IsFiniteSet(U) /\ n \in Nat /\ Cardinality(T) = n + 1
  <2>1. IsFiniteSet(U) /\ Cardinality(U) = Cardinality(T) - 1
    BY <1>2, FS_RemoveElement
  <2>2. Cardinality(U) \in Nat /\ Cardinality(T) \in Nat
    BY <1>2, <2>1, FS_CardinalityType
  <2> HIDE DEF U
  <2> QED BY <2>1, <2>2
<1>6. PICK s : Sorts(w, U, s)
  <2>1. U \notin F
    <3> HIDE DEF F
    <3> QED BY <1>1
  <2> QED BY <1>2, <2>1
<1> DEFINE t == [i \in 1..(n + 1) |-> IF i = n + 1 THEN x ELSE s[i]]
<1>7. /\ s \in [1..n -> U]
      /\ \A i, j \in 1..n : i < j => s[i] # s[j] /\ w[s[i]] >= w[s[j]]
  BY <1>6 DEF Sorts
<1>8. \A i \in 1..n : s[i] \in T /\ s[i] # x /\ s[i] \in S
  BY <1>2, <1>7
<1> HIDE DEF n, F
<1>9. t \in [1..(n + 1) -> T]
  BY <1>5, <1>8
<1>10. ASSUME NEW i \in 1..(n + 1), NEW j \in 1..(n + 1), i < j
       PROVE  t[i] # t[j] /\ w[t[i]] >= w[t[j]]
  <2>1. i \in 1..n /\ t[i] = s[i]
    BY <1>5, <1>10
  <2>2. CASE j = n + 1
    <3>1. t[j] = x
      BY <1>5, <2>2
    <3>2. w[s[i]] \in Int /\ w[x] \in Int /\ w[x] <= w[s[i]]
      BY <1>2, <1>4, <1>8, <2>1
    <3> QED BY <1>8, <2>1, <3>1, <3>2
  <2>3. CASE j # n + 1
    <3>1. j \in 1..n /\ t[j] = s[j]
      BY <1>5, <2>3
    <3> QED BY <1>7, <1>10, <2>1, <3>1
  <2> QED BY <2>2, <2>3
<1> HIDE DEF t
<1>11. Sorts(w, T, t)
  BY <1>5, <1>9, <1>10 DEF Sorts
<1> QED BY <1>2, <1>11

(* The rectangle around some chunks has all of them in it.                  *)
LEMMA BoundsHold ==
  ASSUME NEW D \in SUBSET Chunk, IsFiniteSet(D)
  PROVE  \A c \in D : Position[c] \in BoundsOf(D)
<1> DEFINE xs == {Position[c][1] : c \in D}
           zs == {Position[c][2] : c \in D}
<1>1. \A c \in D : Position[c] = <<Position[c][1], Position[c][2]>>
                   /\ Position[c][1] \in Int /\ Position[c][2] \in Int
  BY PositionAssumption
<1>2. xs \in SUBSET Int /\ zs \in SUBSET Int
  BY <1>1
<1>3. IsFiniteSet(xs) /\ IsFiniteSet(zs)
  <2> DEFINE f == [c \in D |-> Position[c][1]]
             g == [c \in D |-> Position[c][2]]
  <2>1. f \in Surjection(D, xs) /\ g \in Surjection(D, zs)
    BY DEF Surjection
  <2> HIDE DEF f, g, xs, zs
  <2> QED BY <2>1, FS_Surjection
<1>4. ASSUME NEW c \in D PROVE Position[c] \in BoundsOf(D)
  <2>1. Position[c][1] \in xs /\ Position[c][2] \in zs
    OBVIOUS
  <2> HIDE DEF xs, zs
  <2>2. /\ Min(xs) \in Int /\ Max(xs) \in Int /\ Min(zs) \in Int /\ Max(zs) \in Int
        /\ Min(xs) <= Position[c][1] /\ Position[c][1] <= Max(xs)
        /\ Min(zs) <= Position[c][2] /\ Position[c][2] <= Max(zs)
    BY <1>2, <1>3, <2>1, ExtremesExist
  <2>3. Position[c][1] \in Min(xs)..Max(xs) /\ Position[c][2] \in Min(zs)..Max(zs)
    BY <1>1, <2>2
  <2>4. Position[c] \in (Min(xs)..Max(xs)) \X (Min(zs)..Max(zs))
    BY <1>1, <2>3
  <2> QED BY <2>4 DEF BoundsOf, xs, zs
<1> QED BY <1>4

(* A chunk has one of the statuses, and is unknown where nobody had looked. *)
LEMMA StatusIs ==
  ASSUME NEW S \in SUBSET Observation, IsFiniteSet(S), NEW t
  PROVE  /\ SelectChunk(S, t).status \in Statuses
         /\ SelectChunk(S, t).status = "unknown" <=> By(S, t) = {}
<1>1. CASE By(S, t) = {}
  BY <1>1, SelectChunkCases DEF Unknown, Statuses
<1>2. CASE By(S, t) # {}
  <2> DEFINE L == Looks(By(S, t))
             st == SelectAmong(L).status
  <2>1. /\ SelectChunk(S, t) = SelectAmong(L) /\ L # {}
        /\ By(S, t) \in SUBSET Observation /\ IsFiniteSet(By(S, t))
    BY <1>2, SelectChunkCases
  <2>2. L \in SUBSET Observation /\ IsFiniteSet(L) /\ OnePerPerson(L)
    BY <2>1, LooksFacts
  <2> HIDE DEF L
  <2>3. /\ st = "conflict" <=> \E o \in Near(L) : o.state # MostRecent(L).state
        /\ st = "corroborated" <=> Near(L) \subseteq Same(L) /\ Cardinality(Same(L)) > 1
        /\ st = "superseded" <=>
             Near(L) = Same(L) /\ Same(L) = {MostRecent(L)} /\ L # Same(L)
        /\ st = "single-source" <=> L = {MostRecent(L)}
    BY <2>1, <2>2, SelectAmongLooks
  <2>4. /\ MostRecent(L) \in Near(L) \cap Same(L) /\ Near(L) \subseteq L
        /\ IsFiniteSet(Same(L))
    BY <2>1, <2>2, NearHasLast
  <2>5. Cardinality(Same(L)) > 1 <=> \E x, y \in Same(L) : x # y
    BY <2>4, SeveralMeansTwo
  <2>6. (\E o \in Near(L) : o.state # MostRecent(L).state) <=> ~(Near(L) \subseteq Same(L))
    BY <2>4 DEF Same
  <2> HIDE DEF st
  <2>7. CASE ~(Near(L) \subseteq Same(L))
    BY <1>2, <2>1, <2>3, <2>6, <2>7 DEF Statuses, st
  <2>8. CASE Near(L) \subseteq Same(L) /\ Cardinality(Same(L)) > 1
    BY <1>2, <2>1, <2>3, <2>8 DEF Statuses, st
  <2>9. CASE Near(L) \subseteq Same(L) /\ ~(Cardinality(Same(L)) > 1)
    <3>1. Same(L) = {MostRecent(L)} /\ Near(L) = Same(L)
      BY <2>4, <2>5, <2>9
    <3> QED BY <1>2, <2>1, <2>3, <3>1 DEF Statuses, st
  <2> QED BY <1>2, <2>1, <2>7, <2>8, <2>9
<1> QED BY <1>1, <1>2

(* What the picture of a snapshot shows under a status is what is drawn     *)
(* under it: no two chunks lie in one place.                                *)
LEMMA PictureShows ==
  ASSUME NEW H \in SUBSET Chunk, IsFiniteSet(H),
         NEW snapshot, DOMAIN snapshot = H, NEW scale,
         RenderPNG(snapshot, scale) # Refused,
         NEW status \in Statuses \ {"unknown"}
  PROVE  {c \in Chunk : /\ Position[c] \in DOMAIN RenderPNG(snapshot, scale)
                        /\ RenderPNG(snapshot, scale)[Position[c]] = status}
           = {c \in H : snapshot[c].status = status}
<1> DEFINE drawn == Drawn(snapshot)
           picture == RenderPNG(snapshot, scale)
           At(p) == CHOOSE c \in drawn : Position[c] = p
<1>1. drawn \in SUBSET Chunk /\ IsFiniteSet(drawn) /\ drawn \subseteq H
  <2>1. drawn \subseteq H
    BY DEF Drawn
  <2> QED BY <2>1, FS_Subset
<1>2. picture = [p \in BoundsOf(drawn) |->
                   IF \E c \in drawn : Position[c] = p
                   THEN snapshot[At(p)].status ELSE "background"]
  BY DEF RenderPNG
<1>3. \A c \in drawn : Position[c] \in BoundsOf(drawn)
  BY <1>1, BoundsHold
<1> HIDE DEF drawn, picture
<1>4. ASSUME NEW c \in drawn
      PROVE  Position[c] \in DOMAIN picture /\ picture[Position[c]] = snapshot[c].status
  <2>1. At(Position[c]) \in drawn /\ Position[At(Position[c])] = Position[c]
    OBVIOUS
  <2>2. At(Position[c]) = c
    BY <1>1, <2>1, PositionAssumption
  <2> HIDE DEF At
  <2> QED BY <1>2, <1>3, <2>2
<1>5. ASSUME NEW c \in Chunk \ drawn, Position[c] \in DOMAIN picture
      PROVE  picture[Position[c]] = "background"
  <2>1. ~\E d \in drawn : Position[d] = Position[c]
    BY <1>1, PositionAssumption
  <2> HIDE DEF At
  <2> QED BY <1>2, <1>5, <2>1
<1>6. \A c \in H : snapshot[c].status = status => c \in drawn
  BY DEF drawn, Drawn
<1>7. status # "background"
  BY DEF Statuses
<1> HIDE DEF At
<1>8. {c \in Chunk : Position[c] \in DOMAIN picture /\ picture[Position[c]] = status}
        = {c \in H : snapshot[c].status = status}
  BY <1>1, <1>4, <1>5, <1>6, <1>7
<1> QED BY <1>8 DEF picture

(* What coverage says of a moment agrees with who had looked by then.       *)
LEMMA CoverageAgrees ==
  ASSUME DataInv, NEW t \in Time, NEW scale \in 1..2
  PROVE  LET told == Coverage(Gather, t, {}, Chunk, scale)
             seen == {o.chunk : o \in {p \in Gather : p.at <= t}}
         IN  /\ told = Refused <=> Gather = {}
             /\ told # Refused =>
                  /\ Cardinality(told.disputed) = told.summary["conflict"]
                  /\ told.picture = Refused <=>
                       seen = {} \/ TooWide(seen, scale)
                  /\ told.picture # Refused =>
                       \A status \in Statuses \ {"unknown"} :
                         LET shown == {c \in Chunk :
                               /\ Position[c] \in DOMAIN told.picture
                               /\ told.picture[Position[c]] = status}
                         IN  /\ shown \subseteq seen
                             /\ Cardinality(shown) = told.summary[status]
                  /\ seen = {} <=>
                       told.summary["unknown"] = Cardinality(Positions(Gather))
<1> DEFINE told == Coverage(Gather, t, {}, Chunk, scale)
           seen == {o.chunk : o \in {p \in Gather : p.at <= t}}
           snap == BuildSnapshot(Gather, t)
           H == Positions(Gather)
           Of(status) == {c \in H : snap[c].status = status}
           picture == RenderPNG(snap, scale)
<1>1. Gather \in SUBSET Observation /\ IsFiniteSet(Gather)
  BY GatherTyped
<1>2. /\ DOMAIN snap = H /\ H \subseteq Chunk /\ IsFiniteSet(H)
      /\ \A c \in H : snap[c] = SelectChunk(OfChunk(Gather, c), t)
  BY <1>1, SnapshotFacts
<1>3. \A c \in H : /\ snap[c].status \in Statuses
                   /\ snap[c].status = "unknown" <=> By(OfChunk(Gather, c), t) = {}
  <2> HIDE DEF snap, H
  <2> QED BY <1>2, GatherTyped, StatusIs
<1>4. seen = {c \in H : By(OfChunk(Gather, c), t) # {}}
  BY DEF By, OfChunk, Positions
<1>5. seen = {c \in H : snap[c].status # "unknown"}
  <2> HIDE DEF seen, snap, H
  <2> QED BY <1>3, <1>4
<1>6. RestrictToLandmark(snap, Chunk) = snap
  <2>1. snap = [c \in H |-> snap[c]] /\ Chunk \cap DOMAIN snap = H
    BY <1>2 DEF BuildSnapshot
  <2> HIDE DEF snap, H
  <2> QED BY <2>1 DEF RestrictToLandmark
<1>7. H = {} <=> Gather = {}
  BY DEF Positions
<1>8. told = IF H = {} THEN Refused
             ELSE [summary |-> Summary(snap), disputed |-> Disputed(snap),
                   landmarks |-> [a \in {} |-> Cardinality(LandmarkObserved(snap, a))],
                   picture |-> picture]
  <2> HIDE DEF H, picture
  <2> QED BY <1>2, <1>6 DEF Coverage, picture
<1>9. told = Refused <=> Gather = {}
  <2>1. \A s, d, l, p : [summary |-> s, disputed |-> d, landmarks |-> l, picture |-> p] # <<>>
    <3> TAKE s, d, l, p
    <3>1. "summary" \in DOMAIN [summary |-> s, disputed |-> d, landmarks |-> l, picture |-> p]
      OBVIOUS
    <3>2. DOMAIN <<>> = {}
      OBVIOUS
    <3> QED BY <3>1, <3>2
  <2> HIDE DEF told, H, snap, picture
  <2> QED BY <1>7, <1>8, <2>1 DEF Refused
<1>10. ASSUME told # Refused
       PROVE  /\ told.summary = Summary(snap) /\ told.disputed = Disputed(snap)
              /\ told.picture = picture
  <2> HIDE DEF told, H, snap, picture
  <2> QED BY <1>8, <1>10
<1>11. \A status \in Statuses :
         /\ Summary(snap)[status] = Cardinality(Of(status))
         /\ Of(status) \subseteq H /\ IsFiniteSet(Of(status))
  <2> TAKE status \in Statuses
  <2>1. Summary(snap)[status] = Cardinality(Of(status))
    BY <1>2 DEF Summary
  <2>2. Of(status) \subseteq H
    OBVIOUS
  <2> HIDE DEF Of, H, snap
  <2> QED BY <1>2, <2>1, <2>2, FS_Subset
<1> HIDE DEF snap, H, told, seen
<1>12. Cardinality(Disputed(snap)) = Summary(snap)["conflict"]
  <2> DEFINE D == Of("conflict")
             f == [c \in D |-> [chunk |-> c, used |-> snap[c].selected.state,
                                by |-> snap[c].contributors,
                                others |-> Cardinality(snap[c].rejected)]]
  <2>1. Disputed(snap) = {f[c] : c \in D}
    BY <1>2 DEF Disputed
  <2>2. \A c, d \in D : f[c] = f[d] => c = d
    <3>1. \A c \in D : f[c].chunk = c
      OBVIOUS
    <3> HIDE DEF f, D
    <3> QED BY <3>1
  <2>3. f = [c \in D |-> f[c]]
    OBVIOUS
  <2> HIDE DEF f, D
  <2>4. f \in Bijection(D, Disputed(snap))
    <3>1. f \in [D -> Disputed(snap)]
      BY <2>1, <2>3
    <3>2. \A r \in Disputed(snap) : \E c \in D : f[c] = r
      BY <2>1
    <3> QED BY <2>2, <3>1, <3>2 DEF Bijection, Injection, Surjection, IsInjective
  <2>5. ExistsBijection(D, Disputed(snap))
    BY <2>4 DEF ExistsBijection
  <2>6. IsFiniteSet(D) /\ Summary(snap)["conflict"] = Cardinality(D)
    BY <1>11 DEF D, Statuses
  <2> QED BY <2>5, <2>6, FS_Bijection
<1>13. Drawn(snap) = seen /\ seen \in SUBSET Chunk /\ IsFiniteSet(seen)
  <2>1. Drawn(snap) = seen
    BY <1>2, <1>5 DEF Drawn
  <2>2. seen \subseteq H
    BY <1>5
  <2> QED BY <1>2, <2>1, <2>2, FS_Subset
<1>14. picture = Refused <=> seen = {} \/ TooWide(seen, scale)
  <2>1. seen # {} => BoundsOf(seen) # {}
    BY <1>13, BoundsHold
  <2>2. ASSUME seen # {}, ~TooWide(seen, scale) PROVE DOMAIN picture = BoundsOf(seen)
    BY <1>13, <2>2 DEF RenderPNG
  <2>3. seen = {} \/ TooWide(seen, scale) => picture = Refused
    BY <1>13 DEF RenderPNG
  <2>4. DOMAIN Refused = {}
    BY DEF Refused
  <2> HIDE DEF picture
  <2> QED BY <2>1, <2>2, <2>3, <2>4
<1>15. ASSUME picture # Refused, NEW status \in Statuses \ {"unknown"}
       PROVE  LET shown == {c \in Chunk : /\ Position[c] \in DOMAIN picture
                                          /\ picture[Position[c]] = status}
              IN  shown \subseteq seen /\ Cardinality(shown) = Summary(snap)[status]
  <2>1. {c \in Chunk : /\ Position[c] \in DOMAIN picture
                       /\ picture[Position[c]] = status} = Of(status)
    BY <1>2, <1>15, PictureShows
  <2>2. Of(status) \subseteq seen
    BY <1>5
  <2> HIDE DEF picture, Of
  <2> QED BY <1>11, <2>1, <2>2
<1>16. seen = {} <=> Summary(snap)["unknown"] = Cardinality(H)
  <2>1. Of("unknown") = H \ seen /\ seen \subseteq H
    BY <1>5
  <2>2. Of("unknown") \in SUBSET H
    BY <2>1
  <2>3. Cardinality(H) = Cardinality(Of("unknown")) => H = Of("unknown")
    <3> HIDE DEF Of
    <3> QED BY <1>2, <2>2, FS_Subset
  <2>4. Summary(snap)["unknown"] = Cardinality(Of("unknown"))
    BY <1>11 DEF Statuses
  <2> HIDE DEF Of
  <2> QED BY <2>1, <2>3, <2>4
<1> HIDE DEF picture, Of
<1>17. ASSUME told # Refused
       PROVE  /\ Cardinality(told.disputed) = told.summary["conflict"]
              /\ told.picture = Refused <=> seen = {} \/ TooWide(seen, scale)
              /\ told.picture # Refused =>
                   \A status \in Statuses \ {"unknown"} :
                     LET shown == {c \in Chunk :
                           /\ Position[c] \in DOMAIN told.picture
                           /\ told.picture[Position[c]] = status}
                     IN  /\ shown \subseteq seen
                         /\ Cardinality(shown) = told.summary[status]
              /\ seen = {} <=> told.summary["unknown"] = Cardinality(H)
  BY <1>10, <1>12, <1>14, <1>15, <1>16, <1>17
<1> QED BY <1>9, <1>17 DEF told, seen, H

(* The page of moments offers each hour at its last observation.            *)
LEMMA MomentFacts ==
  ASSUME DataInv, NEW m \in Moments(Gather)
  PROVE  /\ m.at \in Time
         /\ m.at \div Hour = m.hour
         /\ \A o \in InHour(Gather, m.hour) : o.at <= m.at
<1>1. PICK h \in {o.at \div Hour : o \in Gather} :
        m = [hour |-> h, at |-> Max({o.at : o \in InHour(Gather, h)}),
             chunks |-> Cardinality(InHour(Gather, h))]
  BY DEF Moments
<1> DEFINE I == InHour(Gather, h)
           ats == {o.at : o \in I}
<1>2. m.hour = h /\ m.at = Max(ats)
  BY <1>1
<1>3. I \subseteq Gather /\ I # {}
  BY DEF InHour
<1>4. I \in SUBSET Observation /\ IsFiniteSet(I)
  BY <1>3, GatherTyped, FS_Subset
<1>5. ats \in SUBSET Time /\ ats \in SUBSET Int /\ ats # {}
  BY <1>3, <1>4 DEF Observation, Time
<1>6. IsFiniteSet(ats)
  <2> DEFINE f == [o \in I |-> o.at]
  <2>1. f \in Surjection(I, ats)
    BY DEF Surjection
  <2> HIDE DEF f, I, ats
  <2> QED BY <1>4, <2>1, FS_Surjection
<1>7. Max(ats) \in ats /\ \A n \in ats : n <= Max(ats)
  <2> HIDE DEF ats
  <2> QED BY <1>5, <1>6, ExtremesExist
<1>8. \A n \in ats : n \div Hour = h
  BY DEF InHour
<1>9. \A o \in I : o.at \in ats
  OBVIOUS
<1> HIDE DEF ats
<1> QED BY <1>2, <1>5, <1>7, <1>8, <1>9

(* What lies in an earlier hour was earlier.                                *)
LEMMA EarlierHour ==
  ASSUME NEW a \in Nat, NEW b \in Nat, a \div Hour < b \div Hour
  PROVE  a < b
<1> DEFINE q == a \div Hour
           r == b \div Hour
<1>1. Hour \in Nat /\ Hour > 0
  BY SizeAssumption
<1>2. /\ q \in Int /\ r \in Int
      /\ a = Hour * q + (a % Hour) /\ b = Hour * r + (b % Hour)
      /\ a % Hour \in 0..(Hour - 1) /\ b % Hour \in 0..(Hour - 1)
  BY <1>1
<1> HIDE DEF q, r
<1>3. q + 1 <= r
  BY <1>2 DEF q, r
<1>4. Hour * (q + 1) <= Hour * r
  BY <1>1, <1>2, <1>3
<1>5. Hour * (q + 1) = Hour * q + Hour
  BY <1>1, <1>2
<1>6. Hour * q \in Int /\ Hour * r \in Int
  BY <1>1, <1>2
<1> QED BY <1>1, <1>2, <1>4, <1>5, <1>6

(* A moment offered knows its hour, and travelling to it from an earlier    *)
(* one finds it looked at.                                                  *)
LEMMA MomentsAgree ==
  ASSUME DataInv, NEW m \in Moments(Gather), NEW n \in Moments(Gather),
         NEW o \in InHour(Gather, m.hour)
  PROVE  /\ Known(SnapshotAt(m.at)[o.chunk])
         /\ n.hour < m.hour =>
              Travel(Gather, n.at, m.at).kinds[o.chunk]
                \in {"changed", "unchanged", "first-seen"}
<1> DEFINE S == OfChunk(Gather, o.chunk)
<1>1. /\ o \in Gather /\ o.chunk \in Positions(Gather) /\ o \in S
      /\ o.at \div Hour = m.hour
  BY DEF InHour, Positions, OfChunk
<1>2. S \in SUBSET Observation /\ IsFiniteSet(S)
  BY GatherTyped
<1>3. m.at \in Time /\ n.at \in Time /\ o.at <= m.at /\ n.at \div Hour = n.hour
  BY MomentFacts
<1>4. m.at \in Nat /\ n.at \in Nat /\ o.at \in Nat
  BY <1>1, <1>2, <1>3 DEF Time, Observation
<1>5. Known(SnapshotAt(m.at)[o.chunk])
  <2>1. o \in By(S, m.at)
    BY <1>1, <1>3 DEF By
  <2>2. SnapshotAt(m.at)[o.chunk] = SelectChunk(S, m.at)
    BY <1>1 DEF SnapshotAt, BuildSnapshot
  <2> HIDE DEF S
  <2> QED BY <1>2, <2>1, <2>2, SelectChunkCases
<1>6. ASSUME n.hour < m.hour
      PROVE  Travel(Gather, n.at, m.at).kinds[o.chunk]
               \in {"changed", "unchanged", "first-seen"}
  <2> DEFINE k == CompareChunk(S, n.at, m.at).kind
  <2>1. n.at < o.at
    BY <1>1, <1>3, <1>4, <1>6, EarlierHour
  <2>2. n.at < m.at
    BY <1>3, <1>4, <2>1
  <2>3. Min({n.at, m.at}) = n.at /\ Max({n.at, m.at}) = m.at
    <3>1. {n.at, m.at} \in SUBSET Int /\ \A i \in {n.at, m.at} : n.at <= i /\ i <= m.at
      BY <1>4, <2>2
    <3> QED BY <3>1, MaxIs, MinIs
  <2>4. Travel(Gather, n.at, m.at).kinds[o.chunk] = k
    <3>1. /\ o.chunk \in DOMAIN BuildDiff(Gather, n.at, m.at)
          /\ BuildDiff(Gather, n.at, m.at)[o.chunk] = CompareChunk(S, n.at, m.at)
      BY <1>1, <2>3 DEF BuildDiff
    <3> HIDE DEF S
    <3> QED BY <3>1 DEF Travel, Shown
  <2>5. o \in RevisitsWithin(S, n.at, m.at) /\ o \in By(S, m.at)
    BY <1>1, <1>3, <2>1 DEF RevisitsWithin, By
  <2> HIDE DEF S
  <2>6. /\ k = "never-seen" <=> By(S, m.at) = {}
        /\ k = "not-revisited" <=> By(S, n.at) # {} /\ RevisitsWithin(S, n.at, m.at) = {}
    BY <1>2, <1>3, <2>2, KindsOfChange
  <2>7. k \in Kinds
    BY DEF CompareChunk, Change, KindOf, Kinds
  <2> HIDE DEF k
  <2> QED BY <2>4, <2>5, <2>6, <2>7 DEF Kinds
<1> QED BY <1>5, <1>6

(* An interval that is not refused begins before it ends, at the first      *)
(* observation if nobody said where (resolveInterval).                      *)
LEMMA IntervalFacts ==
  ASSUME DataInv, NEW from \in Time \cup {Nothing}, NEW to \in Time, NEW interval,
         interval = ResolveInterval(Gather, from, to, Nothing, MaxTime),
         interval # Refused
  PROVE  /\ interval.from \in Time /\ interval.to = to /\ interval.from < to
         /\ Gather # {}
<1> DEFINE first == ObservedSpan(Gather).first
           start == CASE Given(from) -> from
                      [] ~Given(from) /\ Given(Nothing) -> to - Nothing
                      [] ~Given(from) /\ ~Given(Nothing) -> first
<1>1. Given(to) /\ ~Given(Nothing)
  BY NothingAssumption DEF Given
<1>2. interval = IF \/ Gather = {} \/ (Given(from) /\ Given(Nothing))
                    \/ (Given(Nothing) /\ Nothing <= 0) \/ start >= to
                 THEN Refused ELSE [from |-> start, to |-> to]
  BY <1>1 DEF ResolveInterval
<1> HIDE DEF start
<1>3. Gather # {} /\ ~(start >= to) /\ interval = [from |-> start, to |-> to]
  BY <1>2
<1>4. start \in Time
  <2>1. CASE Given(from)
    BY <2>1 DEF start, Given
  <2>2. CASE ~Given(from)
    <3> DEFINE ats == {o.at : o \in Gather}
               f == [o \in Gather |-> o.at]
    <3>1. start = Min(ats)
      BY <1>1, <2>2 DEF start, ObservedSpan
    <3>2. ats \in SUBSET Time /\ ats \in SUBSET Int /\ ats # {}
      BY <1>3, GatherTyped DEF Observation, Time
    <3>3. f \in Surjection(Gather, ats)
      BY DEF Surjection
    <3> HIDE DEF f, ats
    <3>4. IsFiniteSet(ats)
      BY <3>3, GatherTyped, FS_Surjection
    <3> QED BY <3>1, <3>2, <3>4, ExtremesExist
  <2> QED BY <2>1, <2>2
<1>5. start < to
  BY <1>3, <1>4 DEF Time
<1> QED BY <1>3, <1>4, <1>5

(* What was seen within an interval,                                        *)
Between(u, v) == {o \in Gather : u < o.at /\ o.at <= v}

(* and what a diff says of it.                                              *)
LEMMA DiffFacts ==
  ASSUME DataInv, NEW u \in Time, NEW v \in Time, u < v, NEW diff,
         diff = BuildDiff(Gather, u, v)
  PROVE  /\ diff = BuildDiff(Gather, v, u)
         /\ DOMAIN diff = Positions(Gather) /\ IsFiniteSet(Positions(Gather))
         /\ \A c \in Positions(Gather) :
              /\ diff[c].revisits = {o \in Between(u, v) : o.chunk = c}
              /\ diff[c].kind \in Kinds
              /\ diff[c].kind = "changed" => diff[c].revisits # {}
              /\ diff[c].kind \in {"changed", "unchanged"} <=>
                   /\ \E o \in Gather : o.chunk = c /\ o.at <= u
                   /\ \E o \in Between(u, v) : o.chunk = c
<1>1. Min({u, v}) = u /\ Max({u, v}) = v /\ {u, v} = {v, u}
  <2>1. {u, v} \in SUBSET Int /\ \A i \in {u, v} : u <= i /\ i <= v
    BY DEF Time
  <2> QED BY <2>1, MaxIs, MinIs
<1>2. diff = BuildDiff(Gather, v, u)
  BY <1>1 DEF BuildDiff
<1>3. DOMAIN diff = Positions(Gather) /\ IsFiniteSet(Positions(Gather))
  <2>1. IsFiniteSet(Positions(Gather))
    BY GatherTyped, SnapshotFacts
  <2> QED BY <2>1 DEF BuildDiff
<1>4. ASSUME NEW c \in Positions(Gather)
      PROVE  /\ diff[c].revisits = {o \in Between(u, v) : o.chunk = c}
             /\ diff[c].kind \in Kinds
             /\ diff[c].kind = "changed" => diff[c].revisits # {}
             /\ diff[c].kind \in {"changed", "unchanged"} <=>
                  /\ \E o \in Gather : o.chunk = c /\ o.at <= u
                  /\ \E o \in Between(u, v) : o.chunk = c
  <2> DEFINE S == OfChunk(Gather, c)
             R == RevisitsWithin(S, u, v)
             k == diff[c].kind
  <2>1. diff[c] = CompareChunk(S, u, v)
    BY <1>1 DEF BuildDiff
  <2>2. S \in SUBSET Observation /\ IsFiniteSet(S)
    BY GatherTyped
  <2>3. diff[c].revisits = R
    BY <2>1 DEF CompareChunk, Change
  <2>4. R = {o \in Between(u, v) : o.chunk = c}
    BY DEF RevisitsWithin, OfChunk, Between
  <2>5. By(S, u) # {} <=> \E o \in Gather : o.chunk = c /\ o.at <= u
    BY DEF By, OfChunk
  <2>6. R # {} <=> \E o \in Between(u, v) : o.chunk = c
    BY <2>4
  <2>7. k \in Kinds
    BY <2>1 DEF CompareChunk, Change, KindOf, Kinds
  <2> HIDE DEF S
  <2>8. /\ k = "never-seen" <=> By(S, v) = {}
        /\ k = "first-seen" <=> By(S, u) = {} /\ By(S, v) # {}
        /\ k = "changed" <=> By(S, u) # {} /\ By(S, v) # {} /\ Digest(S, u) # Digest(S, v)
        /\ k = "not-revisited" <=> By(S, u) # {} /\ R = {}
    BY <2>1, <2>2, KindsOfChange
  <2>9. By(S, v) = By(S, u) \cup R
    BY <2>2, TwoMoments
  <2> HIDE DEF R, k
  <2>10. k = "changed" => R # {}
    BY <2>8
  <2>11. k \in {"changed", "unchanged"} <=> By(S, u) # {} /\ R # {}
    BY <2>7, <2>8, <2>9 DEF Kinds
  <2> QED BY <2>3, <2>4, <2>5, <2>6, <2>7, <2>10, <2>11 DEF k
<1> QED BY <1>2, <1>3, <1>4

(* A diff names who looked within its interval, and calls itself empty when *)
(* it compared nothing.                                                     *)
LEMMA ReportSays ==
  ASSUME DataInv, NEW u \in Time, NEW v \in Time, u < v, NEW diff,
         diff = BuildDiff(Gather, u, v)
  PROVE  /\ UNION {Contributors(diff[c].revisits) : c \in DOMAIN diff}
              = Contributors(Between(u, v))
         /\ Covered(DiffSummary(diff)) = 0 <=>
              ~\E c \in Positions(Between(u, v)) :
                 \E o \in OfChunk(Gather, c) : o.at <= u
         /\ Advice(Gather) # Refused
<1> DEFINE H == Positions(Gather)
           during == Between(u, v)
<1>1. /\ DOMAIN diff = H /\ IsFiniteSet(H)
      /\ \A c \in H :
           /\ diff[c].revisits = {o \in during : o.chunk = c}
           /\ diff[c].kind \in {"changed", "unchanged"} <=>
                /\ \E o \in Gather : o.chunk = c /\ o.at <= u
                /\ \E o \in during : o.chunk = c
  BY DiffFacts
<1>2. during \subseteq Gather /\ \A o \in during : o.chunk \in H
  BY DEF Between, Positions
<1> HIDE DEF H, during
<1>3. UNION {Contributors(diff[c].revisits) : c \in DOMAIN diff} = Contributors(during)
  BY <1>1, <1>2 DEF Contributors
<1>4. Covered(DiffSummary(diff)) = 0 <=>
        ~\E c \in H : diff[c].kind \in {"changed", "unchanged"}
  <2> DEFINE Of(k) == {c \in H : diff[c].kind = k}
  <2>1. /\ DiffSummary(diff)["changed"] = Cardinality(Of("changed"))
        /\ DiffSummary(diff)["unchanged"] = Cardinality(Of("unchanged"))
    BY <1>1 DEF DiffSummary, Kinds
  <2>2. Of("changed") \subseteq H /\ Of("unchanged") \subseteq H
    OBVIOUS
  <2>3. Of("changed") = {} /\ Of("unchanged") = {} <=>
          ~\E c \in H : diff[c].kind \in {"changed", "unchanged"}
    OBVIOUS
  <2> HIDE DEF Of
  <2>4. IsFiniteSet(Of("changed")) /\ IsFiniteSet(Of("unchanged"))
    BY <1>1, <2>2, FS_Subset
  <2>5. /\ Cardinality(Of("changed")) \in Nat /\ Cardinality(Of("unchanged")) \in Nat
        /\ Cardinality(Of("changed")) = 0 <=> Of("changed") = {}
        /\ Cardinality(Of("unchanged")) = 0 <=> Of("unchanged") = {}
    BY <2>4, FS_CardinalityType, FS_EmptySet
  <2>6. Covered(DiffSummary(diff))
          = Cardinality(Of("changed")) + Cardinality(Of("unchanged"))
    BY <2>1 DEF Covered
  <2>7. Covered(DiffSummary(diff)) = 0 <=> Of("changed") = {} /\ Of("unchanged") = {}
    BY <2>5, <2>6
  <2> QED BY <2>3, <2>7
<1>5. (\E c \in H : diff[c].kind \in {"changed", "unchanged"}) <=>
        \E c \in Positions(during) : \E o \in OfChunk(Gather, c) : o.at <= u
  <2>1. \A c : c \in Positions(during) <=> c \in H /\ \E o \in during : o.chunk = c
    BY <1>2 DEF Positions
  <2>2. \A c : (\E o \in OfChunk(Gather, c) : o.at <= u) <=>
                 \E o \in Gather : o.chunk = c /\ o.at <= u
    BY DEF OfChunk
  <2> QED BY <1>1, <2>1, <2>2
<1>6. Advice(Gather) # Refused
  <2>1. \A a, b : [from |-> a, to |-> b] # <<>>
    <3> TAKE a, b
    <3>1. "from" \in DOMAIN [from |-> a, to |-> b]
      OBVIOUS
    <3>2. DOMAIN <<>> = {}
      OBVIOUS
    <3> QED BY <3>1, <3>2
  <2> QED BY <2>1 DEF Advice, Refused
<1> QED BY <1>3, <1>4, <1>5, <1>6 DEF during

(* The list of a diff has every chunk that changed, the latest visited      *)
(* first.                                                                   *)
LEMMA ListingFacts ==
  ASSUME DataInv, NEW u \in Time, NEW v \in Time, u < v, NEW diff,
         diff = BuildDiff(Gather, u, v)
  PROVE  /\ Len(Listing(diff)) = DiffSummary(diff)["changed"]
         /\ \A i \in 1..Len(Listing(diff)), o \in Between(u, v) :
              o.chunk = Listing(diff)[i] =>
                \A j \in 1..i : \E p \in Between(u, v) :
                  p.chunk = Listing(diff)[j] /\ p.at >= o.at
<1> DEFINE H == Positions(Gather)
           during == Between(u, v)
           changed == {c \in DOMAIN diff : diff[c].kind = "changed"}
           n == Cardinality(changed)
           w == [c \in changed |-> LatestRevisit(diff[c])]
           list == Listing(diff)
<1>1. /\ DOMAIN diff = H /\ IsFiniteSet(H)
      /\ \A c \in H :
           /\ diff[c].revisits = {o \in during : o.chunk = c}
           /\ diff[c].kind = "changed" => diff[c].revisits # {}
  BY DiffFacts
<1>2. changed \in SUBSET H /\ IsFiniteSet(changed) /\ n \in Nat
  <2>1. changed \in SUBSET H
    BY <1>1
  <2> HIDE DEF changed
  <2> QED BY <1>1, <2>1, FS_Subset, FS_CardinalityType
<1>3. ASSUME NEW c \in changed
      PROVE  /\ LatestRevisit(diff[c]) \in Int
             /\ \E p \in during : p.chunk = c /\ p.at = LatestRevisit(diff[c])
             /\ \A o \in during : o.chunk = c => o.at <= LatestRevisit(diff[c])
  <2> DEFINE R == {o \in during : o.chunk = c}
             ats == {o.at : o \in R}
             f == [o \in R |-> o.at]
  <2>1. diff[c].revisits = R /\ R # {}
    BY <1>1, <1>2
  <2>2. LatestRevisit(diff[c]) = Max(ats)
    BY <2>1 DEF LatestRevisit
  <2>3. R \subseteq Gather
    BY DEF Between
  <2>4. R \subseteq Observation /\ IsFiniteSet(R)
    <3> HIDE DEF R
    <3> QED BY <2>3, GatherTyped, FS_Subset
  <2>5. ats \in SUBSET Int /\ ats # {}
    BY <2>1, <2>4 DEF Observation, Time
  <2>6. f \in Surjection(R, ats)
    BY DEF Surjection
  <2>7. IsFiniteSet(ats)
    <3> HIDE DEF f, R, ats
    <3> QED BY <2>4, <2>6, FS_Surjection
  <2>8. Max(ats) \in ats /\ \A i \in ats : i <= Max(ats)
    <3> HIDE DEF ats
    <3> QED BY <2>5, <2>7, ExtremesExist
  <2>9. \A o \in R : o.at \in ats
    OBVIOUS
  <2>10. \E p \in R : p.at = Max(ats)
    BY <2>8
  <2>11. Max(ats) \in Int
    BY <2>5, <2>8
  <2> HIDE DEF ats
  <2>12. \A o \in R : o.at <= Max(ats)
    BY <2>8, <2>9
  <2>13. \A o : o \in R <=> o \in during /\ o.chunk = c
    OBVIOUS
  <2> HIDE DEF R
  <2> QED BY <2>2, <2>10, <2>11, <2>12, <2>13
<1> DEFINE Ordered(s) == \A i, j \in DOMAIN s : i < j =>
             s[i] # s[j] /\ LatestRevisit(diff[s[i]]) >= LatestRevisit(diff[s[j]])
<1>4. list \in [1..n -> changed] /\ Ordered(list)
  <2>1. w \in [changed -> Int]
    BY <1>3
  <2>2. \A c \in changed : w[c] = LatestRevisit(diff[c])
    OBVIOUS
  <2>3. PICK s : Sorts(w, changed, s)
    <3> HIDE DEF w, changed
    <3> QED BY <1>2, <2>1, SortedExists
  <2> HIDE DEF w, changed
  <2>4. s \in [1..n -> changed] /\ Ordered(s)
    BY <2>2, <2>3 DEF Sorts
  <2>5. list = CHOOSE l \in [1..n -> changed] : Ordered(l)
    BY DEF Listing, changed
  <2> HIDE DEF Ordered, list, n
  <2> QED BY <2>4, <2>5
<1>5. Len(list) = n
  <2> HIDE DEF n, changed, list
  <2> QED BY <1>2, <1>4
<1>6. DiffSummary(diff)["changed"] = n
  BY DEF DiffSummary, Kinds
<1> HIDE DEF w, changed, n, list
<1>7. ASSUME NEW i \in 1..n, NEW o \in during, o.chunk = list[i], NEW j \in 1..i
      PROVE  \E p \in during : p.chunk = list[j] /\ p.at >= o.at
  <2>1. i \in Nat /\ j \in Nat /\ j <= i /\ j \in 1..n
    BY <1>2
  <2>2. list[i] \in changed /\ list[j] \in changed
    BY <1>4, <2>1
  <2>3. LatestRevisit(diff[list[j]]) >= LatestRevisit(diff[list[i]])
    <3>1. CASE i = j
      BY <1>3, <2>2, <3>1
    <3>2. CASE j < i
      BY <1>4, <2>1, <3>2
    <3> QED BY <2>1, <3>1, <3>2
  <2>4. PICK p \in during : p.chunk = list[j] /\ p.at = LatestRevisit(diff[list[j]])
    BY <1>3, <2>2
  <2>5. o.at <= LatestRevisit(diff[list[i]])
    BY <1>3, <1>7, <2>2
  <2>6. o.at \in Int
    BY GatherTyped DEF Between, Observation, Time
  <2>7. p.at >= o.at
    BY <1>3, <2>2, <2>3, <2>4, <2>5, <2>6
  <2> QED BY <2>4, <2>7
<1> QED BY <1>5, <1>6, <1>7 DEF list, during

(* What a diff reports of an interval is what happened in it.               *)
LEMMA ReportAgrees ==
  ASSUME DataInv, NEW from \in Time \cup {Nothing}, NEW to \in Time
  PROVE  LET interval == ResolveInterval(Gather, from, to, Nothing, MaxTime)
             report   == DiffReport(Gather, interval)
             during   == {o \in Gather : interval.from < o.at /\ o.at <= to}
         IN  interval # Refused =>
               /\ report.by = Contributors(during)
               /\ report.summary = Travel(Gather, to, interval.from).summary
               /\ report.advice = Refused <=> \E c \in Positions(during) :
                    \E o \in OfChunk(Gather, c) : o.at <= interval.from
               /\ Len(report.listing) = report.summary["changed"]
               /\ \A i \in 1..Len(report.listing), o \in during :
                    o.chunk = report.listing[i] =>
                      \A j \in 1..i : \E p \in during :
                        p.chunk = report.listing[j] /\ p.at >= o.at
<1> DEFINE interval == ResolveInterval(Gather, from, to, Nothing, MaxTime)
           u == interval.from
           diff == BuildDiff(Gather, u, to)
           report == DiffReport(Gather, interval)
           during == Between(u, to)
<1> SUFFICES ASSUME interval # Refused
             PROVE  /\ report.by = Contributors(during)
                    /\ report.summary = Travel(Gather, to, u).summary
                    /\ report.advice = Refused <=> \E c \in Positions(during) :
                         \E o \in OfChunk(Gather, c) : o.at <= u
                    /\ Len(report.listing) = report.summary["changed"]
                    /\ \A i \in 1..Len(report.listing), o \in during :
                         o.chunk = report.listing[i] =>
                           \A j \in 1..i : \E p \in during :
                             p.chunk = report.listing[j] /\ p.at >= o.at
  BY DEF Between
<1>1. u \in Time /\ u < to /\ interval.to = to
  <2> HIDE DEF interval
  <2> QED BY IntervalFacts DEF interval
<1>2. /\ report.summary = DiffSummary(diff)
      /\ report.by = UNION {Contributors(diff[c].revisits) : c \in DOMAIN diff}
      /\ report.listing = Listing(diff)
      /\ report.advice = IF Covered(DiffSummary(diff)) = 0 THEN Advice(Gather) ELSE Refused
  <2>1. report = Reported(Gather, diff)
    BY <1>1 DEF DiffReport
  <2> HIDE DEF report, diff
  <2> QED BY <2>1 DEF Reported
<1>3. Travel(Gather, to, u).summary = DiffSummary(diff)
  <2>1. BuildDiff(Gather, to, u) = diff
    <3> HIDE DEF u
    <3> QED BY <1>1, DiffFacts
  <2> QED BY <2>1 DEF Travel, Shown
<1> HIDE DEF interval, u, report
<1>4. /\ UNION {Contributors(diff[c].revisits) : c \in DOMAIN diff} = Contributors(during)
      /\ Covered(DiffSummary(diff)) = 0 <=>
           ~\E c \in Positions(during) : \E o \in OfChunk(Gather, c) : o.at <= u
      /\ Advice(Gather) # Refused
  BY <1>1, ReportSays
<1>5. /\ Len(Listing(diff)) = DiffSummary(diff)["changed"]
      /\ \A i \in 1..Len(Listing(diff)), o \in during :
           o.chunk = Listing(diff)[i] =>
             \A j \in 1..i : \E p \in during :
               p.chunk = Listing(diff)[j] /\ p.at >= o.at
  BY <1>1, ListingFacts
<1> HIDE DEF diff, during
<1>6. report.advice = Refused <=>
        \E c \in Positions(during) : \E o \in OfChunk(Gather, c) : o.at <= u
  BY <1>2, <1>4
<1> QED BY <1>2, <1>3, <1>4, <1>5, <1>6

(* ReadersAgree holds of whatever an archive holds.                         *)
LEMMA ReadersAreOne == DataInv => ReadersAgree
<1> SUFFICES ASSUME DataInv PROVE ReadersAgree
  OBVIOUS
<1>1. \A t \in Time, scale \in 1..2 :
        LET told == Coverage(Gather, t, {}, Chunk, scale)
            seen == {o.chunk : o \in {p \in Gather : p.at <= t}}
        IN  /\ told = Refused <=> Gather = {}
            /\ told # Refused =>
                 /\ Cardinality(told.disputed) = told.summary["conflict"]
                 /\ told.picture = Refused <=>
                      seen = {} \/ TooWide(seen, scale)
                 /\ told.picture # Refused =>
                      \A status \in Statuses \ {"unknown"} :
                        LET shown == {c \in Chunk :
                              /\ Position[c] \in DOMAIN told.picture
                              /\ told.picture[Position[c]] = status}
                        IN  /\ shown \subseteq seen
                            /\ Cardinality(shown) = told.summary[status]
                 /\ seen = {} <=>
                      told.summary["unknown"] = Cardinality(Positions(Gather))
  BY CoverageAgrees
<1>2. \A m, n \in Moments(Gather) :
        LET travel == Travel(Gather, n.at, m.at)
        IN  \A o \in InHour(Gather, m.hour) :
              /\ Known(SnapshotAt(m.at)[o.chunk])
              /\ n.hour < m.hour =>
                   travel.kinds[o.chunk] \in {"changed", "unchanged", "first-seen"}
  BY MomentsAgree
<1>3. \A from \in Time \cup {Nothing}, to \in Time :
        LET interval == ResolveInterval(Gather, from, to, Nothing, MaxTime)
            report   == DiffReport(Gather, interval)
            during   == {o \in Gather : interval.from < o.at /\ o.at <= to}
        IN  interval # Refused =>
              /\ report.by = Contributors(during)
              /\ report.summary = Travel(Gather, to, interval.from).summary
              /\ report.advice = Refused <=> \E c \in Positions(during) :
                   \E o \in OfChunk(Gather, c) : o.at <= interval.from
              /\ Len(report.listing) = report.summary["changed"]
              /\ \A i \in 1..Len(report.listing), o \in during :
                   o.chunk = report.listing[i] =>
                     \A j \in 1..i : \E p \in during :
                       p.chunk = report.listing[j] /\ p.at >= o.at
  BY ReportAgrees
<1> QED BY Zenon, <1>1, <1>2, <1>3 DEF ReadersAgree

(* The pages and the commands tell one story of one archive                 *)
(* (ReadersAgree).                                                          *)
THEOREM ReadersAgreeCorrect == Spec => []ReadersAgree
BY DataCorrect, ReadersAreOne, PTL
=============================================================================
