----------------------------- MODULE PriceFeed ------------------------------
(***************************************************************************)
(* PriceFeed.sol: the price of wstETH from two oracles, API3 and Pyth as   *)
(* its fallback, and a memory (status) of which of them may be trusted.    *)
(*                                                                         *)
(* The oracles and the rate receiver are external: they answer anything at *)
(* any time.  A read that fails is caught and answers zeros.  fetchPrice   *)
(* is one transaction.  A definition marked as a variant is a mistake the  *)
(* properties are tried against; the specification does not use it.        *)
(***************************************************************************)
EXTENDS Integers

CONSTANTS TIMEOUT,              \* age beyond which an answer is frozen
          MAX_PRICE_DIFFERENCE_BETWEEN_ORACLES,
          DECIMAL_PRECISION,    \* 100%, and a rate of one
          TARGET_DIGITS,        \* digits of a price; API3 answers with as many
          API3Values,           \* values API3 may answer
          PythPrices, Expos,    \* mantissas and exponents Pyth may answer
          Rates,                \* wstETH/ETH rates
          MaxTime               \* bound on the clock

ASSUME FeedAssumption ==
    /\ TIMEOUT \in Nat /\ MaxTime \in Nat \ {0} /\ TARGET_DIGITS \in Nat
    /\ DECIMAL_PRECISION \in Nat \ {0}
    /\ MAX_PRICE_DIFFERENCE_BETWEEN_ORACLES \in Nat
    /\ API3Values \subseteq Int /\ PythPrices \subseteq Int /\ Expos \subseteq Int
    /\ Rates \subseteq Nat

\* Arithmetic, of the powers that scale a price; the provers have no theory of ^.
ASSUME PowersAssumption == \A n \in 0..TARGET_DIGITS : 10^n > 0

VARIABLES status, lastGoodPrice,
          price,                \* what the last fetchPrice returned
          api3, pyth, rate,     \* what the external contracts answer now
          now,                  \* block.timestamp
          fetched               \* fetchPrice has run since anything external changed

feedVars == <<status, lastGoodPrice, price>>
externalVars == <<api3, pyth, rate, now>>
vars == <<feedVars, externalVars, fetched>>

Statuses == {"api3Working", "usingPythAPI3Untrusted", "usingPythAPI3Frozen",
             "bothOraclesUntrusted", "usingAPI3PythUntrusted"}
API3Answers == [value : API3Values \cup {0}, timestamp : 0..MaxTime]
PythAnswers == [price : PythPrices \cup {0}, expo : Expos \cup {0}, publishTime : 0..MaxTime]

-----------------------------------------------------------------------------
(* What the answers are worth.                                             *)

_isBroken(value, timestamp) == value <= 0 \/ timestamp = 0 \/ timestamp > now
_isFrozen(timestamp) == now - timestamp > TIMEOUT

_condition(value, timestamp) ==
    IF _isBroken(value, timestamp) THEN "broken"
    ELSE IF _isFrozen(timestamp) THEN "frozen" ELSE "live"

API3Is(c) == _condition(api3.value, api3.timestamp) = c
PythIs(c) == _condition(pyth.price, pyth.publishTime) = c

\* The power of ten in _scalePythPriceByDigits reverts for other exponents.
_scalable == pyth.expo \in -TARGET_DIGITS..0
_scalePythPriceByDigits == pyth.price * 10^(TARGET_DIGITS + pyth.expo)
_scaleAPI3PriceByDigits == api3.value

\* Variant: any two prices are taken for similar.
_bothOraclesSimilarPrice_any == TRUE

_bothOraclesSimilarPrice ==
    LET a == _scaleAPI3PriceByDigits
        p == _scalePythPriceByDigits
        minPrice == IF a < p THEN a ELSE p
        maxPrice == IF a < p THEN p ELSE a
    IN ((maxPrice - minPrice) * DECIMAL_PRECISION) \div minPrice
            <= MAX_PRICE_DIFFERENCE_BETWEEN_ORACLES

_bothOraclesLiveAndUnbrokenAndSimilarPrice ==
    PythIs("live") /\ API3Is("live") /\ _bothOraclesSimilarPrice

\* What _storePrice makes of an ETH price: the price of wstETH.
_worth(ETHPrice) == (ETHPrice * rate) \div DECIMAL_PRECISION

-----------------------------------------------------------------------------
(* The ways out of fetchPrice.                                             *)

_useLastGoodPrice(newStatus) ==
    /\ status' = newStatus
    /\ price' = lastGoodPrice
    /\ UNCHANGED lastGoodPrice

_storePrice(newStatus, scaledPrice) ==
    /\ status' = newStatus
    /\ lastGoodPrice' = _worth(scaledPrice)
    /\ price' = scaledPrice

_storeAPI3Price(newStatus) == _storePrice(newStatus, _scaleAPI3PriceByDigits)

_storePythPrice(newStatus) == _scalable /\ _storePrice(newStatus, _scalePythPriceByDigits)

\* Variant: the test for a frozen answer is the wrong way round.
_tryPyth_inverted(newStatus) ==
    \/ PythIs("live") /\ _useLastGoodPrice(newStatus)
    \/ PythIs("frozen") /\ _storePythPrice(newStatus)

\* Pyth is not broken: use it unless it is frozen.
_tryPyth(newStatus) ==
    \/ PythIs("frozen") /\ _useLastGoodPrice(newStatus)
    \/ PythIs("live") /\ _storePythPrice(newStatus)

-----------------------------------------------------------------------------
(* The five cases of fetchPrice.                                           *)

WhenAPI3Working ==
    /\ status = "api3Working"
    /\ \/ API3Is("broken") /\ PythIs("broken") /\ _useLastGoodPrice("bothOraclesUntrusted")
       \/ API3Is("broken") /\ _tryPyth("usingPythAPI3Untrusted")
       \/ API3Is("frozen") /\ PythIs("broken") /\ _useLastGoodPrice("usingAPI3PythUntrusted")
       \/ API3Is("frozen") /\ _tryPyth("usingPythAPI3Frozen")
       \/ API3Is("live") /\ PythIs("broken") /\ _storeAPI3Price("usingAPI3PythUntrusted")
       \/ API3Is("live") /\ ~PythIs("broken") /\ _storeAPI3Price("api3Working")

\* Variant: a broken fallback is taken for a frozen one.
WhenUsingPythAPI3Untrusted_lax ==
    /\ status = "usingPythAPI3Untrusted"
    /\ PythIs("live") /\ API3Is("live") => _scalable
    /\ \/ _bothOraclesLiveAndUnbrokenAndSimilarPrice /\ _storeAPI3Price("api3Working")
       \/ PythIs("broken") /\ _useLastGoodPrice("usingPythAPI3Untrusted")
       \/ ~_bothOraclesLiveAndUnbrokenAndSimilarPrice /\ _tryPyth("usingPythAPI3Untrusted")

WhenUsingPythAPI3Untrusted ==
    /\ status = "usingPythAPI3Untrusted"
    /\ PythIs("live") /\ API3Is("live") => _scalable
    /\ \/ _bothOraclesLiveAndUnbrokenAndSimilarPrice /\ _storeAPI3Price("api3Working")
       \/ PythIs("broken") /\ _useLastGoodPrice("bothOraclesUntrusted")
       \/ ~_bothOraclesLiveAndUnbrokenAndSimilarPrice /\ _tryPyth("usingPythAPI3Untrusted")

\* Variant: the feed does not come back from distrust of both.
WhenBothOraclesUntrusted_stuck ==
    status = "bothOraclesUntrusted" /\ _useLastGoodPrice("bothOraclesUntrusted")

WhenBothOraclesUntrusted ==
    /\ status = "bothOraclesUntrusted"
    /\ PythIs("live") /\ API3Is("live") => _scalable
    /\ \/ _bothOraclesLiveAndUnbrokenAndSimilarPrice /\ _storeAPI3Price("api3Working")
       \/ ~_bothOraclesLiveAndUnbrokenAndSimilarPrice /\ _useLastGoodPrice("bothOraclesUntrusted")

WhenUsingPythAPI3Frozen ==
    /\ status = "usingPythAPI3Frozen"
    /\ \/ API3Is("broken") /\ PythIs("broken") /\ _useLastGoodPrice("bothOraclesUntrusted")
       \/ API3Is("broken") /\ _tryPyth("usingPythAPI3Untrusted")
       \/ API3Is("frozen") /\ PythIs("broken") /\ _useLastGoodPrice("usingAPI3PythUntrusted")
       \/ API3Is("frozen") /\ _tryPyth("usingPythAPI3Frozen")
       \/ API3Is("live") /\ PythIs("broken") /\ _storeAPI3Price("usingAPI3PythUntrusted")
       \/ API3Is("live") /\ PythIs("frozen") /\ _useLastGoodPrice("usingPythAPI3Frozen")
       \/ /\ API3Is("live") /\ PythIs("live") /\ _scalable
          /\ IF _bothOraclesSimilarPrice THEN _storeAPI3Price("api3Working")
                                         ELSE _storePythPrice("usingPythAPI3Untrusted")

WhenUsingAPI3PythUntrusted ==
    /\ status = "usingAPI3PythUntrusted"
    /\ PythIs("live") /\ API3Is("live") => _scalable
    /\ \/ API3Is("broken") /\ _useLastGoodPrice("bothOraclesUntrusted")
       \/ API3Is("frozen") /\ _useLastGoodPrice("usingAPI3PythUntrusted")
       \/ _bothOraclesLiveAndUnbrokenAndSimilarPrice /\ _storeAPI3Price("api3Working")
       \/ /\ API3Is("live")
          /\ ~_bothOraclesLiveAndUnbrokenAndSimilarPrice
          /\ _storeAPI3Price("usingAPI3PythUntrusted")

fetchPrice ==
    /\ \/ WhenAPI3Working
       \/ WhenUsingPythAPI3Untrusted
       \/ WhenBothOraclesUntrusted
       \/ WhenUsingPythAPI3Frozen
       \/ WhenUsingAPI3PythUntrusted
    /\ fetched' = TRUE
    /\ UNCHANGED externalVars

-----------------------------------------------------------------------------
(* The external contracts.                                                 *)

API3Changes ==
    api3' \in API3Answers /\ UNCHANGED <<pyth, rate, now>>
PythChanges ==
    pyth' \in PythAnswers /\ UNCHANGED <<api3, rate, now>>
RateChanges ==
    rate' \in Rates /\ UNCHANGED <<api3, pyth, now>>
TimePasses ==
    now < MaxTime /\ now' = now + 1 /\ UNCHANGED <<api3, pyth, rate>>

External ==
    /\ API3Changes \/ PythChanges \/ RateChanges \/ TimePasses
    /\ fetched' = FALSE
    /\ UNCHANGED feedVars

\* setAddresses has run: API3 was live and its price is the first good one.
Init ==
    /\ now = 1
    /\ api3 \in API3Answers /\ pyth \in PythAnswers /\ rate \in Rates
    /\ API3Is("live")
    /\ status = "api3Working"
    /\ lastGoodPrice = _worth(_scaleAPI3PriceByDigits)
    /\ price = lastGoodPrice
    /\ fetched = FALSE

Next == fetchPrice \/ External

Spec == Init /\ [][Next]_vars

\* Every transaction of the protocol that needs a price fetches it, and anyone may.
FairSpec == Spec /\ WF_vars(fetchPrice)

-----------------------------------------------------------------------------
(* Properties.                                                             *)

TypeOK ==
    /\ status \in Statuses
    /\ lastGoodPrice \in Nat
    /\ price \in Nat
    /\ api3 \in API3Answers
    /\ pyth \in PythAnswers
    /\ rate \in Rates
    /\ now \in 1..MaxTime
    /\ fetched \in BOOLEAN

API3Distrusted == status \in {"usingPythAPI3Untrusted", "bothOraclesUntrusted"}
PythDistrusted == status \in {"usingAPI3PythUntrusted", "bothOraclesUntrusted"}

\* A price has just been fetched from an oracle that answers broken data: from
\* whatever status, fetchPrice has come out in one that distrusts the oracle.
BrokenOracleRemembered ==
    fetched => (API3Is("broken") => API3Distrusted) /\ (PythIs("broken") => PythDistrusted)

\* fetchPrice does not hold on to an old price while the oracle its status says it
\* uses is live, and it says api3Working only of a live API3.
LiveOracleIsFollowed ==
    fetched =>
        /\ status = "api3Working" => API3Is("live")
        /\ status \in {"api3Working", "usingAPI3PythUntrusted"} /\ API3Is("live") =>
              lastGoodPrice = _worth(_scaleAPI3PriceByDigits)
        /\ status \in {"usingPythAPI3Untrusted", "usingPythAPI3Frozen"} /\ PythIs("live") =>
              lastGoodPrice = _worth(_scalePythPriceByDigits)

\* Neither price exceeds the other by more than the difference allowed.
PricesAgree ==
    \A x, y \in {_scaleAPI3PriceByDigits, _scalePythPriceByDigits} :
        (x - y) * DECIMAL_PRECISION < (MAX_PRICE_DIFFERENCE_BETWEEN_ORACLES + 1) * y

\* A new price is stored only from an oracle that is live, and from one that was
\* distrusted only once both are live and agree; Pyth, when it was distrusted,
\* regains trust first and is used later.
PriceOnlyFromTrustedOracle ==
    [][lastGoodPrice' # lastGoodPrice =>
          \/ /\ API3Is("live") /\ lastGoodPrice' = _worth(_scaleAPI3PriceByDigits)
             /\ API3Distrusted => PythIs("live") /\ PricesAgree
          \/ /\ PythIs("live") /\ lastGoodPrice' = _worth(_scalePythPriceByDigits)
             /\ ~PythDistrusted]_vars

Healthy == API3Is("live") /\ PythIs("live") /\ _scalable /\ PricesAgree

\* Whatever happened before, once both oracles stay live and agree the feed comes
\* back to API3 for good.
TrustReturns == <>[]Healthy => <>[](status = "api3Working")

\* What the tests of fetchPrice take for granted when they read lastGoodPrice: the
\* price it returns is the price it stores.
ReturnsStoredPrice == fetched => price = lastGoodPrice
=============================================================================
