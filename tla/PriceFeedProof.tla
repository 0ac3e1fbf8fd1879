--------------------------- MODULE PriceFeedProof ---------------------------
(***************************************************************************)
(* What fetchPrice remembers of a broken oracle, for any prices, bounds    *)
(* and behaviour of the oracles.                                           *)
(***************************************************************************)
EXTENDS PriceFeed, TLAPS

\* An oracle is in exactly one condition.
LEMMA Conditions ==
    ASSUME NEW value, NEW timestamp
    PROVE  _condition(value, timestamp) \in {"broken", "frozen", "live"}
BY DEF _condition

\* Every way out of fetchPrice names its next status.
LEMMA FetchRemembers ==
    ASSUME fetchPrice
    PROVE  /\ status' \in Statuses
           /\ API3Is("broken") => status' \in {"usingPythAPI3Untrusted", "bothOraclesUntrusted"}
           /\ PythIs("broken") => status' \in {"usingAPI3PythUntrusted", "bothOraclesUntrusted"}
<1> USE Conditions DEF API3Is, PythIs, _tryPyth, _useLastGoodPrice, _storePrice,
        _storeAPI3Price, _storePythPrice, Statuses, _bothOraclesLiveAndUnbrokenAndSimilarPrice
<1>1. CASE WhenAPI3Working
      BY <1>1 DEF WhenAPI3Working
<1>2. CASE WhenUsingPythAPI3Untrusted
      BY <1>2 DEF WhenUsingPythAPI3Untrusted
<1>3. CASE WhenBothOraclesUntrusted
      BY <1>3 DEF WhenBothOraclesUntrusted
<1>4. CASE WhenUsingPythAPI3Frozen
      BY <1>4 DEF WhenUsingPythAPI3Frozen
<1>5. CASE WhenUsingAPI3PythUntrusted
      BY <1>5 DEF WhenUsingAPI3PythUntrusted
<1> QED BY <1>1, <1>2, <1>3, <1>4, <1>5 DEF fetchPrice

\* Every way out of fetchPrice that keeps the old price has found the oracle of the
\* next status dead, and every other stores that oracle's price.
LEMMA FetchFollows ==
    ASSUME fetchPrice
    PROVE  /\ status' = "api3Working" => API3Is("live")
           /\ status' \in {"api3Working", "usingAPI3PythUntrusted"} /\ API3Is("live") =>
                 lastGoodPrice' = _worth(_scaleAPI3PriceByDigits)
           /\ status' \in {"usingPythAPI3Untrusted", "usingPythAPI3Frozen"} /\ PythIs("live") =>
                 lastGoodPrice' = _worth(_scalePythPriceByDigits)
<1> USE Conditions DEF API3Is, PythIs, _tryPyth, _useLastGoodPrice, _storePrice,
        _storeAPI3Price, _storePythPrice, _bothOraclesLiveAndUnbrokenAndSimilarPrice
<1>1. CASE WhenAPI3Working
      BY <1>1 DEF WhenAPI3Working
<1>2. CASE WhenUsingPythAPI3Untrusted
      BY <1>2 DEF WhenUsingPythAPI3Untrusted
<1>3. CASE WhenBothOraclesUntrusted
      BY <1>3 DEF WhenBothOraclesUntrusted
<1>4. CASE WhenUsingPythAPI3Frozen
      BY <1>4 DEF WhenUsingPythAPI3Frozen
<1>5. CASE WhenUsingAPI3PythUntrusted
      BY <1>5 DEF WhenUsingAPI3PythUntrusted
<1> QED BY <1>1, <1>2, <1>3, <1>4, <1>5 DEF fetchPrice

\* The answers do not change while a price is fetched.
LEMMA ConditionsUnchanged ==
    ASSUME UNCHANGED externalVars
    PROVE  /\ \A c : API3Is(c)' = API3Is(c) /\ PythIs(c)' = PythIs(c)
           /\ UNCHANGED <<_worth(_scaleAPI3PriceByDigits), _worth(_scalePythPriceByDigits)>>
BY DEF externalVars, API3Is, PythIs, _condition, _isBroken, _isFrozen, _worth,
       _scaleAPI3PriceByDigits, _scalePythPriceByDigits

\* BrokenOracleRemembered for every instance: whichever of the five cases fetchPrice
\* takes, an oracle that answers broken data is distrusted when it returns.
THEOREM BrokenOracleIsRemembered == Spec => []BrokenOracleRemembered
<1>1. Init => BrokenOracleRemembered
      BY DEF Init, BrokenOracleRemembered
<1>2. BrokenOracleRemembered /\ [Next]_vars => BrokenOracleRemembered'
      <2> SUFFICES ASSUME BrokenOracleRemembered, [Next]_vars
                   PROVE  BrokenOracleRemembered'
          OBVIOUS
      <2>1. CASE fetchPrice
            <3>1. UNCHANGED externalVars
                  BY <2>1 DEF fetchPrice
            <3> QED BY <2>1, <3>1, FetchRemembers, ConditionsUnchanged
                    DEF BrokenOracleRemembered, API3Distrusted, PythDistrusted
      <2>2. CASE External
            BY <2>2 DEF External, BrokenOracleRemembered
      <2>3. CASE UNCHANGED vars
            <3>1. UNCHANGED externalVars /\ UNCHANGED <<status, fetched>>
                  BY <2>3 DEF vars, externalVars, feedVars
            <3> QED BY <3>1, ConditionsUnchanged
                    DEF BrokenOracleRemembered, API3Distrusted, PythDistrusted
      <2> QED BY <2>1, <2>2, <2>3 DEF Next
<1> QED BY <1>1, <1>2, PTL DEF Spec

\* LiveOracleIsFollowed for every instance: fetchPrice never keeps an old price while
\* the oracle it says it uses is live.
THEOREM LiveOracleAlwaysFollowed == Spec => []LiveOracleIsFollowed
<1>1. Init => LiveOracleIsFollowed
      BY DEF Init, LiveOracleIsFollowed
<1>2. LiveOracleIsFollowed /\ [Next]_vars => LiveOracleIsFollowed'
      <2> SUFFICES ASSUME LiveOracleIsFollowed, [Next]_vars
                   PROVE  LiveOracleIsFollowed'
          OBVIOUS
      <2>1. CASE fetchPrice
            <3>1. UNCHANGED externalVars
                  BY <2>1 DEF fetchPrice
            <3> QED BY <2>1, <3>1, FetchFollows, ConditionsUnchanged DEF LiveOracleIsFollowed
      <2>2. CASE External
            BY <2>2 DEF External, LiveOracleIsFollowed
      <2>3. CASE UNCHANGED vars
            <3>1. UNCHANGED externalVars /\ UNCHANGED <<status, lastGoodPrice, fetched>>
                  BY <2>3 DEF vars, externalVars, feedVars
            <3> QED BY <3>1, ConditionsUnchanged DEF LiveOracleIsFollowed
      <2> QED BY <2>1, <2>2, <2>3 DEF Next
<1> QED BY <1>1, <1>2, PTL DEF Spec

-----------------------------------------------------------------------------
(* Prices are numbers, and a distrusted oracle's price is not stored.      *)

\* A live answer has a positive price.
LEMMA LiveIsPositive ==
    ASSUME NEW value \in Int, NEW timestamp, _condition(value, timestamp) = "live"
    PROVE  value > 0
BY DEF _condition, _isBroken

\* The oracles answer integers.
LEMMA AnswersAreNumbers ==
    /\ \A a \in API3Answers : a.value \in Int
    /\ \A a \in PythAnswers : a.price \in Int /\ a.expo \in Int
<1>1. \A a \in API3Answers : a.value \in API3Values \cup {0}
      BY DEF API3Answers
<1>2. \A a \in PythAnswers : a.price \in PythPrices \cup {0} /\ a.expo \in Expos \cup {0}
      BY DEF PythAnswers
<1>3. /\ \A v \in API3Values \cup {0} : v \in Int
      /\ \A v \in PythPrices \cup {0} : v \in Int
      /\ \A v \in Expos \cup {0} : v \in Int
      BY FeedAssumption
<1> QED BY <1>1, <1>2, <1>3

\* The scaled prices, and what they are worth.
LEMMA ScaledPrices ==
    ASSUME TypeOK
    PROVE  /\ _scaleAPI3PriceByDigits \in Int
           /\ API3Is("live") => _scaleAPI3PriceByDigits > 0
           /\ PythIs("live") /\ _scalable => /\ _scalePythPriceByDigits \in Int
                                             /\ _scalePythPriceByDigits > 0
<1>1. api3.value \in Int /\ pyth.price \in Int /\ pyth.expo \in Int
      BY AnswersAreNumbers DEF TypeOK
<1>2. API3Is("live") => api3.value > 0
      BY <1>1, LiveIsPositive DEF API3Is
<1>3. ASSUME PythIs("live"), _scalable
      PROVE  _scalePythPriceByDigits \in Int /\ _scalePythPriceByDigits > 0
      <2>1. pyth.price > 0
            BY <1>1, <1>3, LiveIsPositive DEF PythIs
      <2>2. TARGET_DIGITS + pyth.expo \in 0..TARGET_DIGITS
            BY <1>1, <1>3, FeedAssumption DEF _scalable
      <2>3. PICK n \in 0..TARGET_DIGITS : n = TARGET_DIGITS + pyth.expo
            BY <2>2
      <2>4. 10^n \in Int /\ 10^n > 0
            BY PowersAssumption, FeedAssumption
      <2>5. PICK k \in Int : k = 10^n /\ k > 0
            BY <2>4
      <2>6. _scalePythPriceByDigits = pyth.price * k
            BY <2>3, <2>5 DEF _scalePythPriceByDigits
      <2> QED BY <1>1, <2>1, <2>5, <2>6
<1> QED BY <1>1, <1>2, <1>3 DEF _scaleAPI3PriceByDigits

\* A positive ETH price is worth a natural number.
LEMMA WorthIsNatural ==
    ASSUME TypeOK, NEW p \in Int, p > 0
    PROVE  _worth(p) \in Nat
<1>1. rate \in Nat
      BY FeedAssumption DEF TypeOK
<1>2. PICK n \in Int : n = p * rate /\ n >= 0
      BY <1>1
<1>3. n \div DECIMAL_PRECISION \in Nat
      BY <1>2, FeedAssumption
<1> QED BY <1>2, <1>3 DEF _worth

\* What a way out of fetchPrice may make of the prices.
Outcome ==
    \/ lastGoodPrice' = lastGoodPrice /\ price' = lastGoodPrice
    \/ /\ API3Is("live")
       /\ lastGoodPrice' = _worth(_scaleAPI3PriceByDigits)
       /\ price' = _scaleAPI3PriceByDigits
       /\ API3Distrusted => PythIs("live") /\ _scalable /\ _bothOraclesSimilarPrice
    \/ /\ PythIs("live") /\ _scalable /\ ~PythDistrusted
       /\ lastGoodPrice' = _worth(_scalePythPriceByDigits)
       /\ price' = _scalePythPriceByDigits

\* Every way out of fetchPrice keeps the price or stores one of a trusted oracle.
LEMMA FetchOutcome ==
    ASSUME fetchPrice
    PROVE  Outcome
<1> USE Conditions DEF API3Is, PythIs, _tryPyth, _useLastGoodPrice, _storePrice,
        _storeAPI3Price, _storePythPrice, _bothOraclesLiveAndUnbrokenAndSimilarPrice,
        Outcome, API3Distrusted, PythDistrusted
<1>1. CASE WhenAPI3Working
      BY <1>1 DEF WhenAPI3Working
<1>2. CASE WhenUsingPythAPI3Untrusted
      BY <1>2 DEF WhenUsingPythAPI3Untrusted
<1>3. CASE WhenBothOraclesUntrusted
      BY <1>3 DEF WhenBothOraclesUntrusted
<1>4. CASE WhenUsingPythAPI3Frozen
      BY <1>4 DEF WhenUsingPythAPI3Frozen
<1>5. CASE WhenUsingAPI3PythUntrusted
      BY <1>5 DEF WhenUsingAPI3PythUntrusted
<1> QED BY <1>1, <1>2, <1>3, <1>4, <1>5 DEF fetchPrice

\* TypeOK for every instance: the prices stored and returned are natural numbers.
THEOREM FeedTypes == Spec => []TypeOK
<1>1. Init => TypeOK
      <2> SUFFICES ASSUME Init PROVE TypeOK
          OBVIOUS
      <2>1. /\ status \in Statuses /\ api3 \in API3Answers /\ pyth \in PythAnswers
            /\ rate \in Rates /\ now \in 1..MaxTime /\ fetched \in BOOLEAN
            <3>1. now \in 1..MaxTime
                  BY FeedAssumption DEF Init
            <3>2. fetched \in BOOLEAN
                  BY Zenon DEF Init
            <3> QED BY <3>1, <3>2, Zenon DEF Init, Statuses
      <2>2. api3.value \in Int /\ api3.value > 0
            <3>1. api3.value \in Int
                  BY <2>1, AnswersAreNumbers
            <3> QED BY <3>1, LiveIsPositive DEF Init, API3Is
      <2>3. rate \in Nat
            BY <2>1, FeedAssumption
      <2>4. PICK n \in Int : n = api3.value * rate /\ n >= 0
            BY <2>2, <2>3
      <2>5. n \div DECIMAL_PRECISION \in Nat
            BY <2>4, FeedAssumption
      <2>6. lastGoodPrice \in Nat /\ price \in Nat
            BY <2>4, <2>5 DEF Init, _worth, _scaleAPI3PriceByDigits
      <2> QED BY <2>1, <2>6 DEF TypeOK
<1>2. TypeOK /\ [Next]_vars => TypeOK'
      <2> SUFFICES ASSUME TypeOK, [Next]_vars
                   PROVE  TypeOK'
          OBVIOUS
      <2>1. CASE fetchPrice
            <3>1. lastGoodPrice' \in Nat /\ price' \in Nat
                  <4>1. Outcome
                        BY <2>1, FetchOutcome
                  <4>2. API3Is("live") => /\ _worth(_scaleAPI3PriceByDigits) \in Nat
                                          /\ _scaleAPI3PriceByDigits \in Nat
                        BY ScaledPrices, WorthIsNatural
                  <4>3. PythIs("live") /\ _scalable =>
                              /\ _worth(_scalePythPriceByDigits) \in Nat
                              /\ _scalePythPriceByDigits \in Nat
                        BY ScaledPrices, WorthIsNatural
                  <4>4. lastGoodPrice \in Nat
                        BY DEF TypeOK
                  <4> QED BY <4>1, <4>2, <4>3, <4>4 DEF Outcome
            <3>2. status' \in Statuses /\ fetched' \in BOOLEAN /\ UNCHANGED externalVars
                  BY <2>1, FetchRemembers DEF fetchPrice
            <3> QED BY <3>1, <3>2 DEF TypeOK, externalVars
      <2>2. CASE External
            <3>1. now' \in 1..MaxTime
                  BY <2>2, FeedAssumption DEF External, API3Changes, PythChanges, RateChanges,
                     TimePasses, TypeOK
            <3>2. api3' \in API3Answers /\ pyth' \in PythAnswers /\ rate' \in Rates
                  BY <2>2 DEF External, API3Changes, PythChanges, RateChanges, TimePasses, TypeOK
            <3>3. fetched' \in BOOLEAN /\ UNCHANGED feedVars
                  BY <2>2, Zenon DEF External
            <3> QED BY <3>1, <3>2, <3>3 DEF feedVars, TypeOK
      <2>3. CASE UNCHANGED vars
            BY <2>3 DEF vars, feedVars, externalVars, TypeOK
      <2> QED BY <2>1, <2>2, <2>3 DEF Next
<1> QED BY <1>1, <1>2, PTL DEF Spec

\* What a quotient at most m says of the numerator.
LEMMA QuotientBound ==
    ASSUME NEW x \in Int, NEW y \in Int, NEW m \in Int, y > 0, x \div y <= m
    PROVE  x < (m + 1) * y
OBVIOUS

\* The test of the two prices, by a quotient rounded down, bounds how far apart they
\* are.
LEMMA SimilarPricesAgree ==
    ASSUME TypeOK, API3Is("live"), PythIs("live"), _scalable, _bothOraclesSimilarPrice
    PROVE  PricesAgree
<1>1. PICK a \in Int : a = _scaleAPI3PriceByDigits /\ a > 0
      BY ScaledPrices
<1>2. PICK p \in Int : p = _scalePythPriceByDigits /\ p > 0
      BY ScaledPrices
<1>3. PICK m \in Nat : m = MAX_PRICE_DIFFERENCE_BETWEEN_ORACLES
      BY FeedAssumption
<1>4. PICK d \in Nat : d = DECIMAL_PRECISION /\ d > 0
      BY FeedAssumption
<1>5. ASSUME NEW x \in Int, NEW y \in Int, x > 0, y > 0,
             x >= y => ((x - y) * d) \div y <= m
      PROVE  (x - y) * d < (m + 1) * y
      <2>1. CASE x >= y
            <3>1. PICK n \in Int : n = (x - y) * d
                  BY <1>4
            <3> QED BY <1>5, <2>1, <3>1, <1>3, QuotientBound
      <2>2. CASE x < y
            <3>1. (x - y) * d <= 0
                  BY <1>4, <1>5, <2>2
            <3>2. (m + 1) * y > 0
                  BY <1>3, <1>5
            <3> QED BY <1>3, <1>4, <1>5, <3>1, <3>2
      <2> QED BY <1>5, <2>1, <2>2
<1>6. a < p => ((p - a) * d) \div a <= m
      BY <1>1, <1>2, <1>3, <1>4 DEF _bothOraclesSimilarPrice
<1>7. ~(a < p) => ((a - p) * d) \div p <= m
      BY <1>1, <1>2, <1>3, <1>4 DEF _bothOraclesSimilarPrice
<1>8. \A y \in Int : y > 0 => ((y - y) * d) \div y <= m
      <2> TAKE y \in Int
      <2> HAVE y > 0
      <2>1. (y - y) * d = 0
            BY <1>4
      <2>2. 0 \div y = 0
            OBVIOUS
      <2> QED BY <2>1, <2>2, <1>3
<1>9. /\ (a - p) * d < (m + 1) * p /\ (p - a) * d < (m + 1) * a
      /\ (a - a) * d < (m + 1) * a /\ (p - p) * d < (m + 1) * p
      <2>1. a = p => ((p - a) * d) \div a <= m
            BY <1>8, <1>1
      <2>2. (a - p) * d < (m + 1) * p
            BY <1>5, <1>1, <1>2, <1>7
      <2>3. (p - a) * d < (m + 1) * a
            BY <1>5, <1>1, <1>2, <1>6, <2>1
      <2>4. (a - a) * d < (m + 1) * a
            BY <1>5, <1>8, <1>1
      <2>5. (p - p) * d < (m + 1) * p
            BY <1>5, <1>8, <1>2
      <2> QED BY <2>2, <2>3, <2>4, <2>5
<1> QED BY <1>1, <1>2, <1>3, <1>4, <1>9 DEF PricesAgree

\* PriceOnlyFromTrustedOracle for every instance: fetchPrice stores no price of an
\* oracle it distrusts, unless both are live and agree.
THEOREM DistrustedPriceIsNotStored == Spec => PriceOnlyFromTrustedOracle
<1>1. TypeOK /\ [Next]_vars =>
        [lastGoodPrice' # lastGoodPrice =>
          \/ /\ API3Is("live") /\ lastGoodPrice' = _worth(_scaleAPI3PriceByDigits)
             /\ API3Distrusted => PythIs("live") /\ PricesAgree
          \/ /\ PythIs("live") /\ lastGoodPrice' = _worth(_scalePythPriceByDigits)
             /\ ~PythDistrusted]_vars
      <2> SUFFICES ASSUME TypeOK, Next, lastGoodPrice' # lastGoodPrice
                   PROVE  \/ /\ API3Is("live") /\ lastGoodPrice' = _worth(_scaleAPI3PriceByDigits)
                             /\ API3Distrusted => PythIs("live") /\ PricesAgree
                          \/ /\ PythIs("live") /\ lastGoodPrice' = _worth(_scalePythPriceByDigits)
                             /\ ~PythDistrusted
          BY DEF vars, feedVars
      <2>1. fetchPrice
            BY DEF Next, External, feedVars
      <2> QED BY <2>1, FetchOutcome, SimilarPricesAgree DEF Outcome
<1>2. Spec => []TypeOK
      BY FeedTypes
<1> QED BY <1>1, <1>2, PTL DEF Spec, PriceOnlyFromTrustedOracle
=============================================================================
