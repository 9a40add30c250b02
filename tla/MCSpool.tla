-------------------------------- MODULE MCSpool --------------------------------
(***************************************************************************)
(* Instances of Spool for TLC: bundles of one component and a manifest.    *)
(***************************************************************************)
EXTENDS Spool, TLC

CONSTANTS b1, b2, b3

MCSymmetry == Permutations({b1, b2, b3})

=============================================================================
