---------------------------- MODULE MCPriceFeed -----------------------------
(* Instances of PriceFeed for TLC, prices with one digit after the point.  *)
EXTENDS PriceFeed

\* Pyth answers in units or in tenths, or with an exponent that cannot be scaled.
SomeExpos == {-1, 0, 1}

\* API3 may answer a negative value.
SomeValues == {-20, 20, 21, 40}
=============================================================================
