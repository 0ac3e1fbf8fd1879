-------------------------------- MODULE MCVe --------------------------------
(***************************************************************************)
(* Instances of VeDistributor, and of Ve in it, for TLC.                   *)
(***************************************************************************)
EXTENDS VeDistributor, TLC

CONSTANTS A, B, LP

TwoAccounts == {A, B}
OneAccount == {A}
AccountSymmetry == Permutations({A, B})

\* The second token counts less than SHADY and has other decimals, so that its part of the
\* derived amount is rounded twice.
BothTokens == {SHADY, LP}
OneToken == {SHADY}
OneOrBoth == {<<SHADY>>, <<SHADY, LP>>}
OnlySHADY == {<<SHADY>>}
Weights == [token \in StakingTokens |-> IF token = SHADY THEN WEIGHT_DENOMINATOR ELSE 3]
Units == [token \in StakingTokens |-> IF token = SHADY THEN WAD ELSE 2 * WAD]
=============================================================================
