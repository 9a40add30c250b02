----------------------------- MODULE MCReading -----------------------------
(* Two people, one of them under two spellings, or three people; ids in an  *)
(* order that agrees with neither time nor contributor.                     *)
EXTENDS Reading

CONSTANTS ann, Ann, bob, cat, c1, c2

MCLabels == {ann, Ann, bob, cat}
MCKey == [l \in Label |-> IF l = Ann THEN ann ELSE l]

Ord(l) == CASE l = ann -> 0 [] l = Ann -> 1 [] l = bob -> 2 [] l = cat -> 3
MCId == [o \in Observation |->
           ((IF o.chunk = c1 THEN 0 ELSE 1) * 16 + Ord(o.by)) * 100
             + o.at * 10 + o.state]

\* Everything anybody could see of c1, and a little of c2.
MCCaptures ==
  {o \in Observation : o.chunk = c1}
    \cup {o \in Observation :
            o.chunk = c2 /\ o.by \in {ann, bob} /\ o.state = 1 /\ o.at \in {0, 2}}

\* The two chunks lie apart, with one between them.
MCPosition == [c \in Chunk |-> IF c = c1 THEN <<0, 4>> ELSE <<2, 4>>]

MCScopes == {[by |-> ann, area |-> Chunk], [by |-> Ann, area |-> Chunk],
             [by |-> Everyone, area |-> {c2}]}
=============================================================================
