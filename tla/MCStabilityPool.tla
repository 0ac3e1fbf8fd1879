--------------------------- MODULE MCStabilityPool --------------------------
(* Instances of StabilityPool for TLC.                                     *)
EXTENDS StabilityPool, TLC

CONSTANTS d1, d2

TwoDepositors == {d1, d2}
Symmetry == Permutations(TwoDepositors)
=============================================================================
