----------------------------- MODULE MCProtocol -----------------------------
(* Instances of Protocol for TLC, with ratios in percent.                  *)
EXTENDS Protocol, TLC

CONSTANTS A, B, C

ThreeAccounts == {A, B, C}

\* A base rate halves every minute.
Halving(minutes) == DECIMAL_PRECISION \div 2^minutes

AccountSymmetry == Permutations(Accounts)
=============================================================================
