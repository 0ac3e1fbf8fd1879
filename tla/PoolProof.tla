----------------------------- MODULE PoolProof ------------------------------
(***************************************************************************)
(* Theorems about StabilityPool: for any precision and scale factor that   *)
(* are related as in the contract, when an offset cannot be stopped by the *)
(* pool's own arithmetic.                                                  *)
(***************************************************************************)
EXTENDS StabilityPool, TLAPS

-----------------------------------------------------------------------------
(* Arithmetic.                                                             *)

\* A quotient is the largest number of times the divisor fits.
LEMMA QuotientFits ==
    ASSUME NEW a \in Nat, NEW b \in Nat \ {0}
    PROVE  a \div b \in Nat /\ b * (a \div b) <= a /\ a < b * (a \div b) + b
OBVIOUS

LEMMA QuotientAtLeast ==
    ASSUME NEW a \in Nat, NEW b \in Nat \ {0}, NEW k \in Nat, k * b <= a
    PROVE  a \div b >= k
<1>1. PICK q \in Nat : q = a \div b /\ a < b * q + b
      BY QuotientFits
<1>2. k * b < (q + 1) * b
      BY <1>1
<1>3. ASSUME k >= q + 1
      PROVE  k * b >= (q + 1) * b
  <2>1. PICK e \in Nat : k = (q + 1) + e
        BY <1>3
  <2>2. k * b = (q + 1) * b + e * b /\ e * b \in Nat /\ (q + 1) * b \in Nat
        BY <2>1
  <2> QED BY <2>2
<1>4. k * b \in Nat /\ (q + 1) * b \in Nat
      OBVIOUS
<1>5. ~(k >= q + 1)
      BY <1>2, <1>3, <1>4
<1> QED BY <1>1, <1>5

\* Products of larger numbers are larger.
LEMMA ProductAtLeast ==
    ASSUME NEW a \in Nat, NEW b \in Nat, NEW c \in Nat, a <= b
    PROVE  a * c \in Nat /\ b * c \in Nat /\ a * c <= b * c
<1>1. PICK e \in Nat : b = a + e
      OBVIOUS
<1>2. b * c = a * c + e * c /\ a * c \in Nat /\ e * c \in Nat
      BY <1>1
<1> QED BY <1>2

\* The loss per unit, T being the deposits, of which debt is taken off but for the error.
LEMMA LossBounds ==
    ASSUME NEW D \in Nat \ {0}, NEW T \in Nat \ {0}, NEW debt \in 1..T, debt # T,
           NEW error \in Nat, error <= debt * D
    PROVE  LET n == debt * D - error
               loss == n \div T + 1
           IN  /\ n \in Nat /\ loss \in 1..D
               /\ loss * T - n \in 1..T
               /\ loss * T <= debt * D + T
<1>1. PICK x \in Nat : x = debt * D
      OBVIOUS
<1>2. PICK n \in Nat : n = x - error /\ n <= x
      BY <1>1
<1>3. PICK q \in Nat : q = n \div T /\ T * q <= n /\ n < T * q + T
      BY QuotientFits
<1>4. (q + 1) * T = T * q + T /\ T * q \in Nat
      OBVIOUS
<1>5. q < D
  <2>1. PICK r \in Nat \ {0} : T = debt + r
        OBVIOUS
  <2>2. T * D = x + r * D /\ r * D \in Nat /\ r * D >= 1
    <3>1. r * D \in Nat /\ (debt + r) * D = debt * D + r * D
          OBVIOUS
    <3>2. r * D >= 1
          BY ProductAtLeast
    <3> QED BY <1>1, <2>1, <3>1, <3>2
  <2>3. T * q < T * D
        BY <1>2, <1>3, <1>4, <2>2
  <2>4. q >= D => T * D <= T * q
        BY ProductAtLeast
  <2> QED BY <1>4, <2>2, <2>3, <2>4
<1>6. q + 1 \in 1..D /\ (q + 1) * T - n \in 1..T /\ (q + 1) * T <= x + T
      BY <1>2, <1>3, <1>4, <1>5
<1> QED BY <1>1, <1>2, <1>3, <1>6

-----------------------------------------------------------------------------
(* The invariant.                                                          *)

\* What the offsets need of the state: amounts are natural numbers, the product is not zero, whoever
\* has a deposit has a product to divide by, and the error carried over was less than the pool.
PoolInv ==
    /\ P \in Nat \ {0}
    /\ totalSIMDeposits \in 0..MaxDeposits
    /\ lastSIMLossError_Offset \in 0..MaxDeposits
    /\ offsets \in Nat
    /\ deposits \in [Depositors -> Nat]
    /\ depositSnapshots = [d \in Depositors |-> depositSnapshots[d]]
    /\ \A d \in Depositors : deposits[d] > 0 => depositSnapshots[d].P \in Nat \ {0}

LEMMA CompoundedType ==
    ASSUME PoolInv, NEW d \in Depositors
    PROVE  getCompoundedSIMDeposit(d) \in Nat
<1>1. CASE deposits[d] = 0
      BY <1>1 DEF getCompoundedSIMDeposit
<1>2. CASE deposits[d] # 0
  <2>1. deposits[d] * P \in Nat /\ depositSnapshots[d].P \in Nat \ {0} /\ SCALE_FACTOR \in Nat \ {0}
        BY <1>2, PoolAssumption DEF PoolInv
  <2>2. PICK at \in Nat : at = (deposits[d] * P) \div depositSnapshots[d].P
        BY <2>1, QuotientFits
  <2>3. PICK scaled \in Nat : scaled = at \div SCALE_FACTOR
        BY <2>1, QuotientFits
  <2> QED BY <2>2, <2>3 DEF getCompoundedSIMDeposit
<1> QED BY <1>1, <1>2

\* The loss, the factor and the error of an offset.
LEMMA OffsetBounds ==
    ASSUME PoolInv, NEW debt \in 1..totalSIMDeposits,
           debt # totalSIMDeposits => 0 <= _SIMLossNumerator(debt)
    PROVE  /\ _SIMLossPerUnitStaked(debt) \in 1..DECIMAL_PRECISION
           /\ newProductFactor(debt) \in 0..DECIMAL_PRECISION
           /\ _SIMLossError(debt) \in 0..MaxDeposits
           /\ debt # totalSIMDeposits =>
                 _SIMLossPerUnitStaked(debt) * totalSIMDeposits <= debt * DECIMAL_PRECISION + totalSIMDeposits
<1>1. PICK D \in Nat \ {0} : D = DECIMAL_PRECISION
      BY PoolAssumption
<1>2. PICK T \in Nat \ {0}, error \in Nat : T = totalSIMDeposits /\ error = lastSIMLossError_Offset /\ T <= MaxDeposits
      BY PoolAssumption DEF PoolInv
<1>3. debt \in 1..T /\ MaxDeposits \in Nat
      BY <1>2, PoolAssumption
<1>4. CASE debt = T
      BY <1>1, <1>2, <1>3, <1>4 DEF _SIMLossPerUnitStaked, newProductFactor, _SIMLossError
<1>5. CASE debt # T
  <2>1. PICK n \in Int : n = debt * D - error /\ n = _SIMLossNumerator(debt)
        BY <1>1, <1>2, <1>3 DEF _SIMLossNumerator
  <2>2. debt * D \in Nat /\ error <= debt * D
        BY <1>2, <1>3, <1>5, <2>1
  <2>3. PICK loss \in 1..D : /\ loss = n \div T + 1 /\ loss * T - n \in 1..T
                             /\ loss * T <= debt * D + T
        BY <1>3, <1>5, <2>1, <2>2, LossBounds
  <2>4. _SIMLossPerUnitStaked(debt) = loss
        BY <1>2, <1>5, <2>1, <2>3 DEF _SIMLossPerUnitStaked
  <2>5. _SIMLossError(debt) = loss * T - n
        BY <1>2, <1>5, <2>1, <2>4 DEF _SIMLossError
  <2>6. newProductFactor(debt) = D - loss
        BY <1>1, <2>4 DEF newProductFactor
  <2> QED BY <1>1, <1>2, <1>3, <1>5, <2>3, <2>4, <2>5, <2>6
<1> QED BY <1>4, <1>5

\* The new product.
LEMMA NewProduct ==
    ASSUME PoolInv, NEW debt \in 1..totalSIMDeposits, newProductFactor(debt) \in 0..DECIMAL_PRECISION
    PROVE  /\ newP(debt) \in Nat
           /\ newProductFactor(debt) = 0 => newP(debt) = DECIMAL_PRECISION
           /\ P >= SCALE_FACTOR => newP(debt) > 0
           /\ P * newProductFactor(debt) >= DECIMAL_PRECISION => newP(debt) >= SCALE_FACTOR
<1>1. PICK D \in Nat \ {0}, S \in Nat \ {0}, f \in Nat, p \in Nat :
          /\ D = DECIMAL_PRECISION /\ S = SCALE_FACTOR /\ f = newProductFactor(debt) /\ p = P
          /\ D <= S * S
      BY PoolAssumption DEF PoolInv
<1>2. p * f \in Nat /\ p * f * S \in Nat
      OBVIOUS
<1>3. PICK m \in Nat : m = (p * f) \div D
      BY <1>2, QuotientFits
<1>4. PICK s \in Nat : s = (p * f * S) \div D
      BY <1>2, QuotientFits
<1>5. newP(debt) = IF f = 0 THEN D ELSE IF m < S THEN s ELSE m
      BY <1>1, <1>3, <1>4 DEF newP, _multipliedP
<1>6. f # 0 /\ p >= S => s >= 1
  <2> SUFFICES ASSUME f # 0, p >= S
               PROVE  s >= 1
      OBVIOUS
  <2>1. S * 1 <= p * f
    <3>1. S * f <= p * f /\ S * f \in Nat
          BY ProductAtLeast
    <3>2. 1 * S <= f * S
          BY ProductAtLeast
    <3> QED BY <1>2, <3>1, <3>2
  <2>2. S * S <= p * f * S
        BY <1>2, <2>1, ProductAtLeast
  <2>3. 1 * D <= p * f * S
        BY <1>1, <1>2, <2>2
  <2> QED BY ONLY <1>1, <1>2, <1>4, <2>3, QuotientAtLeast
<1>7. p * f >= D => s >= S
  <2> SUFFICES ASSUME p * f >= D
               PROVE  s >= S
      OBVIOUS
  <2>1. D * S <= p * f * S
        BY <1>2, ProductAtLeast
  <2>2. S * D <= p * f * S
        BY <2>1
  <2> QED BY ONLY <1>1, <1>2, <1>4, <2>2, QuotientAtLeast
<1>8. D >= S
      BY <1>1, PoolAssumption
<1> QED BY <1>1, <1>5, <1>6, <1>7, <1>8

-----------------------------------------------------------------------------
(* The steps.                                                              *)

LEMMA PoolStart == Init => PoolInv /\ P >= SCALE_FACTOR
<1> SUFFICES ASSUME Init
             PROVE  PoolInv /\ P >= SCALE_FACTOR
    OBVIOUS
<1> QED BY PoolAssumption DEF Init, PoolInv

\* A depositor's operation leaves the product alone.
LEMMA DepositKeeps ==
    ASSUME PoolInv, NEW d \in Depositors, NEW value \in Nat, _updateDepositAndSnapshots(d, value),
           totalSIMDeposits' \in 0..MaxDeposits, UNCHANGED productVars, UNCHANGED offsets
    PROVE  PoolInv' /\ P' = P
<1>1. P' = P /\ lastSIMLossError_Offset' = lastSIMLossError_Offset /\ offsets' = offsets
      BY DEF productVars
<1>2. /\ deposits' = [deposits EXCEPT ![d] = value]
      /\ depositSnapshots' = [depositSnapshots EXCEPT ![d] =
             IF value = 0 THEN noSnapshot
             ELSE [S |-> epochToScaleToSum[here], P |-> P, G |-> epochToScaleToG'[here],
                   scale |-> currentScale, epoch |-> currentEpoch]]
      BY DEF _updateDepositAndSnapshots
<1>3. deposits' \in [Depositors -> Nat]
      BY <1>2 DEF PoolInv
<1>4. depositSnapshots' = [e \in Depositors |-> depositSnapshots'[e]]
      BY <1>2 DEF PoolInv
<1>5. ASSUME NEW e \in Depositors, deposits'[e] > 0
      PROVE  depositSnapshots'[e].P \in Nat \ {0}
  <2>1. CASE e = d
    <3>1. value # 0
          BY <1>2, <1>5, <2>1 DEF PoolInv
    <3>2. depositSnapshots'[d] = [S |-> epochToScaleToSum[here], P |-> P, G |-> epochToScaleToG'[here],
                                  scale |-> currentScale, epoch |-> currentEpoch]
          BY <1>2, <3>1 DEF PoolInv
    <3> QED BY <2>1, <3>2 DEF PoolInv
  <2>2. CASE e # d
    <3>1. deposits'[e] = deposits[e] /\ depositSnapshots'[e] = depositSnapshots[e]
          BY <1>2, <2>2 DEF PoolInv
    <3> QED BY <1>5, <3>1 DEF PoolInv
  <2> QED BY <2>1, <2>2
<1> QED BY <1>1, <1>3, <1>4, <1>5 DEF PoolInv

\* What an offset does to the product, the deposits and the error.
LEMMA OffsetKeeps ==
    ASSUME PoolInv, NEW debt \in 1..MaxDeposits, NEW coll \in Colls, offset(debt, coll)
    PROVE  /\ PoolInv' /\ debt \in 1..totalSIMDeposits /\ P' = newP(debt)
           /\ totalSIMDeposits' = totalSIMDeposits - debt
           /\ debt # totalSIMDeposits => 0 <= _SIMLossNumerator(debt)
<1>1. /\ debt \in 1..totalSIMDeposits /\ _offsetGoesThrough(debt)
      /\ lastSIMLossError_Offset' = _SIMLossError(debt)
      /\ P' = newP(debt) /\ totalSIMDeposits' = totalSIMDeposits - debt
      /\ UNCHANGED <<deposits, depositSnapshots>> /\ offsets' = offsets + 1
      BY DEF offset, _updateRewardSumAndProduct, PoolInv
<1>2. (debt # totalSIMDeposits => 0 <= _SIMLossNumerator(debt)) /\ newP(debt) > 0
      BY <1>1 DEF _offsetGoesThrough
<1>3. newProductFactor(debt) \in 0..DECIMAL_PRECISION /\ _SIMLossError(debt) \in 0..MaxDeposits
      BY <1>1, <1>2, OffsetBounds
<1>4. newP(debt) \in Nat \ {0}
      BY <1>1, <1>2, <1>3, NewProduct
<1>5. totalSIMDeposits' \in 0..MaxDeposits
      BY <1>1, PoolAssumption DEF PoolInv
<1> QED BY <1>1, <1>2, <1>3, <1>4, <1>5 DEF PoolInv

LEMMA PoolStep ==
    ASSUME PoolInv, [Next]_vars
    PROVE  /\ PoolInv'
           /\ \/ P' = P
              \/ \E debt \in 1..totalSIMDeposits :
                    /\ P' = newP(debt) /\ offsets' # offsets
                    /\ totalSIMDeposits' = totalSIMDeposits - debt
                    /\ debt # totalSIMDeposits => 0 <= _SIMLossNumerator(debt)
<1>1. ASSUME NEW d \in Depositors, NEW amount \in Amounts, provideToSP(d, amount)
      PROVE  PoolInv' /\ P' = P
  <2>1. PICK c \in Nat : c = getCompoundedSIMDeposit(d)
        BY CompoundedType
  <2>2. amount \in Nat /\ c + amount \in Nat
        BY PoolAssumption
  <2>3. totalSIMDeposits' \in 0..MaxDeposits
        BY <1>1, <2>2, PoolAssumption DEF provideToSP, PoolInv
  <2>4. _updateDepositAndSnapshots(d, c + amount) /\ UNCHANGED productVars /\ UNCHANGED offsets
        BY <1>1, <2>1 DEF provideToSP
  <2> QED BY <2>2, <2>3, <2>4, DepositKeeps
<1>2. ASSUME NEW d \in Depositors, NEW amount \in Amounts \cup {0}, withdrawFromSP(d, amount)
      PROVE  PoolInv' /\ P' = P
  <2>1. PICK c \in Nat : c = getCompoundedSIMDeposit(d)
        BY CompoundedType
  <2>2. amount \in Nat
        BY PoolAssumption
  <2>3. PICK w \in Nat : w = _min(amount, c) /\ w <= c
        BY <2>2 DEF _min
  <2>4. w <= totalSIMDeposits /\ totalSIMDeposits' = totalSIMDeposits - w
        BY <1>2, <2>1, <2>3 DEF withdrawFromSP
  <2>5. _updateDepositAndSnapshots(d, c - w) /\ UNCHANGED productVars /\ UNCHANGED offsets
        BY <1>2, <2>1, <2>3 DEF withdrawFromSP
  <2>6. totalSIMDeposits' \in 0..MaxDeposits /\ c - w \in Nat
        BY <2>3, <2>4, PoolAssumption DEF PoolInv
  <2> QED BY <2>5, <2>6, DepositKeeps
<1>3. ASSUME NEW d \in Depositors, withdrawWSTETHGainToTrove(d)
      PROVE  PoolInv' /\ P' = P
  <2>1. PICK c \in Nat : c = getCompoundedSIMDeposit(d)
        BY CompoundedType
  <2>2. /\ _updateDepositAndSnapshots(d, c) /\ UNCHANGED productVars /\ UNCHANGED offsets
        /\ totalSIMDeposits' = totalSIMDeposits
        BY <1>3, <2>1 DEF withdrawWSTETHGainToTrove
  <2>3. totalSIMDeposits' \in 0..MaxDeposits
        BY <2>2 DEF PoolInv
  <2> QED BY <2>2, <2>3, DepositKeeps
<1>4. ASSUME NEW debt \in 1..MaxDeposits, NEW coll \in Colls, offset(debt, coll)
      PROVE  /\ PoolInv' /\ debt \in 1..totalSIMDeposits /\ P' = newP(debt) /\ offsets' # offsets
             /\ totalSIMDeposits' = totalSIMDeposits - debt
             /\ debt # totalSIMDeposits => 0 <= _SIMLossNumerator(debt)
  <2>1. offsets' = offsets + 1 /\ offsets < MaxOffsets
        BY <1>4 DEF offset
  <2>2. offsets' # offsets
        BY <2>1 DEF PoolInv
  <2> QED BY <1>4, <2>2, OffsetKeeps
<1>5. CASE TimePasses \/ UNCHANGED vars
      BY <1>5 DEF TimePasses, vars, productVars, PoolInv
<1> QED BY <1>1, <1>2, <1>3, <1>4, <1>5 DEF Next
-----------------------------------------------------------------------------
(* The theorems.                                                           *)

\* While the product is not below the scale factor, no debt of a trove is refused.
LEMMA ProductSuffices ==
    ASSUME PoolInv, P >= SCALE_FACTOR, NEW debt \in 1..totalSIMDeposits, _sizeable(debt)
    PROVE  _offsetGoesThrough(debt)
<1>1. PICK x \in Nat : x = debt * DECIMAL_PRECISION
      BY PoolAssumption DEF PoolInv
<1>2. lastSIMLossError_Offset \in Nat /\ lastSIMLossError_Offset <= x
      BY <1>1, PoolAssumption DEF PoolInv, _sizeable
<1>3. 0 <= _SIMLossNumerator(debt)
      BY <1>1, <1>2 DEF _SIMLossNumerator
<1>4. /\ _SIMLossPerUnitStaked(debt) \in 1..DECIMAL_PRECISION
      /\ newProductFactor(debt) \in 0..DECIMAL_PRECISION
      BY <1>3, OffsetBounds
<1>5. newP(debt) > 0
      BY <1>4, NewProduct
<1>6. _SIMLossPerUnitStaked(debt) <= DECIMAL_PRECISION
      BY <1>4, PoolAssumption
<1> QED BY <1>3, <1>5, <1>6 DEF _offsetGoesThrough

\* The amounts stay natural numbers, and the product P is never zero (the premise of every division
\* by a snapshot of P in _getCompoundedStakeFromSnapshots and in the gains).
THEOREM PoolInvariant == Spec => []PoolInv
<1>1. Init => PoolInv
      BY PoolStart
<1>2. PoolInv /\ [Next]_vars => PoolInv'
      BY PoolStep
<1> QED BY <1>1, <1>2, PTL DEF Spec

\* offset: from a product that is not below the scale factor no offset of a trove's debt is stopped
\* by a checked subtraction of _computeRewardsPerUnitStaked or by an assertion of
\* _updateRewardSumAndProduct, whatever the pool went through before.
THEOREM OffsetsNeverRevert == Spec => []OffsetNeverReverts
<1>1. PoolInv => OffsetNeverReverts
      BY ProductSuffices DEF OffsetNeverReverts
<1> QED BY <1>1, PoolInvariant, PTL

\* An offset that leaves something, but no more than about a SCALE_FACTOR-th part of the pool (1e-9
\* in the contract).
DeepOffset ==
    /\ offsets' # offsets
    /\ totalSIMDeposits' > 0
    /\ totalSIMDeposits' * SCALE_FACTOR * DECIMAL_PRECISION
           < totalSIMDeposits * (DECIMAL_PRECISION + SCALE_FACTOR)

\* An offset that is not deep keeps the product at the scale factor or above.
LEMMA GentleKeeps ==
    ASSUME PoolInv, P >= SCALE_FACTOR, NEW debt \in 1..totalSIMDeposits,
           debt # totalSIMDeposits => 0 <= _SIMLossNumerator(debt),
           ~ /\ totalSIMDeposits - debt > 0
             /\ (totalSIMDeposits - debt) * SCALE_FACTOR * DECIMAL_PRECISION
                    < totalSIMDeposits * (DECIMAL_PRECISION + SCALE_FACTOR)
    PROVE  newP(debt) >= SCALE_FACTOR
<1>1. PICK D \in Nat \ {0}, S \in Nat \ {0}, T \in Nat \ {0}, p \in Nat :
          /\ D = DECIMAL_PRECISION /\ S = SCALE_FACTOR /\ T = totalSIMDeposits /\ p = P
          /\ S <= D /\ S <= p
      BY PoolAssumption DEF PoolInv
<1>2. debt \in 1..T
      BY <1>1
<1>3. PICK f \in 0..D, loss \in 1..D :
          /\ f = newProductFactor(debt) /\ loss = _SIMLossPerUnitStaked(debt) /\ f = D - loss
          /\ debt # T => loss * T <= debt * D + T
      BY <1>1, OffsetBounds DEF newProductFactor
<1>4. CASE debt = T
  <2>1. newProductFactor(debt) = 0
        BY <1>1, <1>4, PoolAssumption DEF newProductFactor, _SIMLossPerUnitStaked
  <2> QED BY <1>1, <1>3, <2>1, NewProduct
<1>5. CASE debt # T
  <2>1. PICK r \in Nat \ {0} : r = T - debt
        BY <1>2, <1>5
  <2>2. T * (D + S) <= r * S * D
    <3>1. r * S * D \in Nat /\ T * (D + S) \in Nat
          OBVIOUS
    <3> QED BY <1>1, <2>1, <3>1
  <2>3. r * D <= f * T + T
    <3>1. (f + loss) * T = f * T + loss * T /\ f * T \in Nat /\ loss * T \in Nat
          OBVIOUS
    <3>2. (debt + r) * D = debt * D + r * D /\ debt * D \in Nat /\ r * D \in Nat
          BY <1>2
    <3>3. f + loss = D /\ debt + r = T /\ D * T = T * D
          BY <1>2, <1>3, <2>1
    <3>4. f * T + loss * T = debt * D + r * D
          BY <3>1, <3>2, <3>3
    <3>5. loss * T <= debt * D + T
          BY <1>3, <1>5
    <3> QED BY ONLY <3>1, <3>2, <3>4, <3>5, T \in Nat
  <2>4. T * D <= S * f * T
    <3>1. r * D * S <= (f * T + T) * S
          BY <2>3, ProductAtLeast
    <3>2. r * D * S = r * S * D /\ (f * T + T) * S = S * f * T + T * S /\ T * (D + S) = T * D + T * S
          OBVIOUS
    <3>3. T * S \in Nat /\ T * D \in Nat /\ S * f * T \in Nat /\ r * S * D \in Nat
          OBVIOUS
    <3> QED BY <2>2, <3>1, <3>2, <3>3
  <2>5. D <= S * f
    <3>1. PICK y \in Nat : y = S * f
          OBVIOUS
    <3>2. D * T <= y * T
          BY <2>4, <3>1
    <3>3. ASSUME y + 1 <= D
          PROVE  y * T + T <= D * T
      <4>1. (y + 1) * T <= D * T /\ (y + 1) * T = y * T + T
            BY <3>3, ProductAtLeast
      <4> QED BY <4>1
    <3>4. y * T \in Nat /\ D * T \in Nat
          OBVIOUS
    <3>5. ~(y + 1 <= D)
          BY <3>2, <3>3, <3>4
    <3> QED BY <3>1, <3>5
  <2>6. S * f <= p * f /\ S * f \in Nat /\ p * f \in Nat
        BY <1>1, ProductAtLeast
  <2>7. p * f >= D
        BY <2>5, <2>6
  <2>8. P * newProductFactor(debt) >= DECIMAL_PRECISION
        BY <1>1, <1>3, <2>7
  <2> QED BY <1>1, <1>3, <2>8, NewProduct
<1> QED BY <1>4, <1>5

\* As long as no liquidation leaves less than about a billionth of the pool behind, except nothing at
\* all, every later offset of a trove's debt goes through: the product P never falls below the
\* scale factor, so one change of scale is always enough for assert(newP > 0).
THEOREM GentleOffsetsGoThrough ==
    Spec /\ [][~DeepOffset]_vars
        => [](\A debt \in 1..totalSIMDeposits : _sizeable(debt) => _offsetGoesThrough(debt))
<1> DEFINE HighInv == PoolInv /\ P >= SCALE_FACTOR
           AllGoThrough == \A debt \in 1..totalSIMDeposits : _sizeable(debt) => _offsetGoesThrough(debt)
<1>1. Init => HighInv
      BY PoolStart
<1>2. HighInv /\ [Next]_vars /\ [~DeepOffset]_vars => HighInv'
  <2> SUFFICES ASSUME HighInv, [Next]_vars, [~DeepOffset]_vars
               PROVE  HighInv'
      OBVIOUS
  <2>1. PoolInv' /\ (\/ P' = P
                     \/ \E debt \in 1..totalSIMDeposits :
                           /\ P' = newP(debt) /\ offsets' # offsets
                           /\ totalSIMDeposits' = totalSIMDeposits - debt
                           /\ debt # totalSIMDeposits => 0 <= _SIMLossNumerator(debt))
        BY PoolStep
  <2>2. CASE P' = P
        BY <2>1, <2>2
  <2>3. ASSUME NEW debt \in 1..totalSIMDeposits,
               P' = newP(debt), offsets' # offsets,
               totalSIMDeposits' = totalSIMDeposits - debt,
               debt # totalSIMDeposits => 0 <= _SIMLossNumerator(debt)
        PROVE  P' >= SCALE_FACTOR
    <3>1. ~DeepOffset
          BY <2>3 DEF vars
    <3>2. ~ /\ totalSIMDeposits - debt > 0
            /\ (totalSIMDeposits - debt) * SCALE_FACTOR * DECIMAL_PRECISION
                   < totalSIMDeposits * (DECIMAL_PRECISION + SCALE_FACTOR)
          BY <2>3, <3>1 DEF DeepOffset
    <3>3. newP(debt) >= SCALE_FACTOR
          BY <2>3, <3>2, GentleKeeps
    <3> QED BY <2>3, <3>3
  <2> QED BY <2>1, <2>2, <2>3
<1>3. HighInv => AllGoThrough
      BY ProductSuffices
<1> QED BY <1>1, <1>2, <1>3, PTL DEF Spec
=============================================================================
