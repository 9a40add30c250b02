------------------------------ MODULE MCArchive ------------------------------
(***************************************************************************)
(* Instances of Archive for TLC: two observations of one chunk that share  *)
(* an object, as two contributors who saw the same chunk do, and one of    *)
(* another chunk.                                                          *)
(***************************************************************************)
EXTENDS Archive

CONSTANTS o1, o2, o3, c1, c2, x1, x2

MCChunkOf == [o \in Obs |-> IF o = o3 THEN c2 ELSE c1]
MCRefs == [o \in Obs |-> IF o = o1 THEN {x1} ELSE IF o = o2 THEN {x1, x2} ELSE {x2}]

=============================================================================
