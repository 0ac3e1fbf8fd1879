---------------------------- MODULE LiquityMath -----------------------------
(***************************************************************************)
(* The fixed-point arithmetic of LiquityMath.sol: 1 is DECIMAL_PRECISION.  *)
(***************************************************************************)
EXTENDS Integers

CONSTANT DECIMAL_PRECISION      \* 1e18 in the contracts

\* The exponent of _decPow is capped at the minutes of a thousand years.
MAX_MINUTES == 525600000

_min(a, b) == IF a < b THEN a ELSE b

\* Product of two decimals, rounded to the nearest.
decMul(x, y) == (x * y + DECIMAL_PRECISION \div 2) \div DECIMAL_PRECISION

\* base to the power of minutes, by squaring: y collects the factors of odd exponents.
_decPow(base, minutes) ==
    LET squared[x \in Nat, y \in Nat, n \in Nat] ==
            IF n <= 1 THEN decMul(x, y)
            ELSE squared[decMul(x, x), IF n % 2 = 0 THEN y ELSE decMul(x, y), n \div 2]
    IN  IF minutes = 0 THEN DECIMAL_PRECISION
        ELSE squared[base, DECIMAL_PRECISION, _min(minutes, MAX_MINUTES)]
=============================================================================
