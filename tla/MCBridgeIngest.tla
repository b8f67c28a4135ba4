--------------------------- MODULE MCBridgeIngest ---------------------------
(* Instances of BridgeIngest for TLC.                                       *)
EXTENDS BridgeIngest, TLC

\* Below the smallest packet, between the limits, above the largest.
MCRequests == {1, 2, 9}
Symmetry == Permutations(Conns) \cup Permutations(Sources)
=============================================================================
