--------------------------- MODULE MCSortedTroves ---------------------------
(* Instances of SortedTroves for TLC.                                      *)
EXTENDS SortedTroves

CONSTANTS A, B, C, D

FourIds == {A, B, C, D}
ThreeRatios == 1..3
Infinite == 9
=============================================================================
