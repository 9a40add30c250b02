------------------------------ MODULE MCTransfer ------------------------------
(***************************************************************************)
(* Instances of Transfer for TLC: two sites, three observations of two     *)
(* chunks, two objects; o1 and o2 share one, o2 and o3 the other.          *)
(***************************************************************************)
EXTENDS Transfer, TLC

CONSTANTS here, there, v1, w1, c1, c2, o1, o2, o3, x1, x2

MCServerOf == [w \in World |-> v1]
MCWorldOf == [c \in Chunk |-> w1]
MCChunkOf == (o1 :> c1) @@ (o2 :> c2) @@ (o3 :> c2)
MCRefs == (o1 :> {x1}) @@ (o2 :> {x1, x2}) @@ (o3 :> {x2})
MCCaptured == (here :> {o1, o2}) @@ (there :> {o2, o3})

ScopeShared == (here :> {o2}) @@ (there :> {o2, o3})
SignsOne == (here :> {o1}) @@ (there :> {})
OneWay == (here :> 1) @@ (there :> 0)

=============================================================================
