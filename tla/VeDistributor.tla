--------------------------- MODULE VeDistributor ----------------------------
(***************************************************************************)
(* VeDistributor.sol, on top of Ve: what arrives is spread over the weeks  *)
(* since the last checkpoint, and the owners of NFTs claim their part of   *)
(* every week by the power the NFT had at its beginning.                   *)
(*                                                                         *)
(* Three records are kept apart and have to agree: the tokens of each      *)
(* week, the total power at its beginning, and for every NFT how far it    *)
(* has claimed.  The tokens come from BorrowerOperations and TroveManager, *)
(* which send them and call checkpoint in the same transaction.            *)
(***************************************************************************)
EXTENDS Ve

CONSTANTS DISTRIBUTOR_WEEKS,    \* 20 iterations of the two checkpoint loops
          CLAIM_STEPS,          \* 50 iterations of the claim loop
          Rewards,              \* tokens that arrive at once
          MaxReceived,          \* bound: tokens that arrive in all
          MaxInitTime           \* bound: the time by which the distributor is initialised

ASSUME DistributorAssumption ==
    /\ DISTRIBUTOR_WEEKS \in Nat \ {0} /\ CLAIM_STEPS \in Nat \ {0}
    /\ Rewards \subseteq Nat /\ MaxReceived \in Nat /\ MaxInitTime \in Nat

VARIABLES startTime,            \* zero before init
          activePeriod, lastTokenTime, timeCursor,
          tokensPerWeek, veSupply,
          tokenLastBalance,
          balance,              \* the distributor's balance of the reward token
          cursors,              \* timeCursorOf and userEpochOf of every NFT
          onTheDot              \* history, for ClaimsCovered: weeks in whose first second a
                                \* checkpoint was made; no action reads it

weekVars == <<activePeriod, lastTokenTime, timeCursor, tokensPerWeek, veSupply>>
vars == <<veVars, startTime, weekVars, tokenLastBalance, balance, cursors, onTheDot>>

Init ==
    /\ VeInit
    /\ startTime = 0
    /\ activePeriod = 0 /\ lastTokenTime = 0 /\ timeCursor = 0
    /\ tokensPerWeek = [w \in Weeks |-> 0] /\ veSupply = [w \in Weeks |-> 0]
    /\ tokenLastBalance = 0 /\ balance = 0
    /\ cursors = [id \in Ids |-> [week |-> 0, userEpoch |-> 0]]
    /\ onTheDot = {}

init ==
    /\ startTime = 0 /\ now <= MaxInitTime
    /\ startTime' = weekOf(now) /\ lastTokenTime' = weekOf(now) /\ timeCursor' = weekOf(now)
    /\ UNCHANGED <<veVars, activePeriod, tokensPerWeek, veSupply, tokenLastBalance, balance, cursors, onTheDot>>

Initialised == startTime # 0
OnlyPoints == UNCHANGED <<now, tokens, tokenId, locked, nft, held, gov>>

-----------------------------------------------------------------------------
(* Checkpoints.                                                            *)

adjustToDistribute(toDistribute, t0, t1, sinceLast) ==
    IF t0 <= t1 \/ sinceLast = 0 THEN toDistribute ELSE (toDistribute * (t0 - t1)) \div sinceLast

\* _checkpointToken: every week since the last checkpoint, up to the limit, gets the part of the
\* tokens that is its part of the time.
_tokensPerWeekAfter(toDistribute) ==
    LET first == weekOf(lastTokenTime)
        part(w) == adjustToDistribute(toDistribute, Min({now, w + WEEK}), Max({w, lastTokenTime}),
                                      now - lastTokenTime)
    IN  [w \in Weeks |-> tokensPerWeek[w] +
            IF w \in first..now /\ w - first < DISTRIBUTOR_WEEKS * WEEK THEN part(w) ELSE 0]

\* Variant: a point made in the first second of the week is missed.
_pointAt_before(pointHistory, t) ==
    pointHistory[Max({1} \cup {e \in DOMAIN pointHistory : pointHistory[e].ts < t})]

\* findTimestampEpoch: the last epoch not after t, or the first if there is none.
_pointAt(pointHistory, t) ==
    pointHistory[Max({1} \cup {e \in DOMAIN pointHistory : pointHistory[e].ts <= t})]

adjustVeSupply(t, point) ==
    IF t < point.ts THEN 0 ELSE positiveInt128(point.bias - point.slope * (t - point.ts))

\* _checkpointTotalSupply: after a checkpoint of Ve the total at the beginning of every week not
\* yet written, up to the limit.
_supplyWeeks == {w \in Weeks : w \in timeCursor..now /\ w - timeCursor < DISTRIBUTOR_WEEKS * WEEK}

_veSupplyAfter(pointHistory) ==
    LET weeks == _supplyWeeks
    IN  [w \in Weeks |-> IF w \in weeks THEN adjustVeSupply(w, _pointAt(pointHistory, w)) ELSE veSupply[w]]

_checkpointTotalSupply ==
    /\ points' = _filled(points)
    /\ veSupply' = _veSupplyAfter(points'.pointHistory)
    /\ timeCursor' = Max({timeCursor} \cup {w + WEEK : w \in _supplyWeeks})
    /\ onTheDot' = onTheDot \cup (Weeks \cap {now})

\* checkpoint does something once a week only; amount has arrived before.
receive(amount) ==
    LET newBalance == balance + amount
        newWeek == now >= activePeriod + WEEK
    IN  /\ Initialised
        /\ balance + amount <= MaxReceived
        /\ amount > 0 \/ newWeek
        /\ balance' = newBalance
        /\ IF newWeek
           THEN /\ activePeriod' = weekOf(now)
                /\ tokensPerWeek' = _tokensPerWeekAfter(newBalance - tokenLastBalance)
                /\ tokenLastBalance' = newBalance
                /\ lastTokenTime' = now
                /\ _checkpointTotalSupply
           ELSE UNCHANGED <<weekVars, tokenLastBalance, points, onTheDot>>
        /\ UNCHANGED <<startTime, cursors, calls>> /\ OnlyPoints

\* With no week to write it is a checkpoint of Ve and nothing else.
checkpointTotalSupply ==
    /\ Initialised
    /\ now >= timeCursor
    /\ _checkpointTotalSupply
    /\ UNCHANGED <<startTime, activePeriod, lastTokenTime, tokensPerWeek, tokenLastBalance, balance, cursors, calls>>
    /\ OnlyPoints

-----------------------------------------------------------------------------
(* Claims.                                                                 *)

noPoint == Point(0, 0, 0)

\* One iteration of calculateToDistribute: on to the next point of the NFT, or the part of a week.
_claimStep(history, supply, x) ==
    LET balanceOf == positiveInt128(x.old.bias - (x.week - x.old.ts) * x.old.slope)
    IN  IF x.done \/ x.week >= weekOf(lastTokenTime) THEN [x EXCEPT !.done = TRUE]
        ELSE IF x.week >= x.point.ts /\ x.userEpoch <= Len(history)
        THEN [x EXCEPT !.userEpoch = @ + 1, !.old = x.point,
                       !.point = IF x.userEpoch + 1 > Len(history) THEN noPoint ELSE history[x.userEpoch + 1]]
        ELSE IF balanceOf = 0 /\ x.userEpoch > Len(history) THEN [x EXCEPT !.done = TRUE]
        ELSE IF supply[x.week] = 0 THEN [x EXCEPT !.done = TRUE, !.reverts = TRUE]
        ELSE [x EXCEPT !.toDistribute = @ + (balanceOf * tokensPerWeek[x.week]) \div supply[x.week],
                       !.week = @ + WEEK]

\* _claim: what the NFT gets, and how far it has claimed then.
_claimed(id, supply) ==
    LET history == points.userPointHistory[id]
        userEpoch == IF cursors[id].week = 0
                     THEN Max({1} \cup {e \in DOMAIN history : history[e].ts <= startTime})
                     ELSE Max({1, cursors[id].userEpoch})
        week == IF cursors[id].week = 0 THEN weekOf(history[userEpoch].ts + WEEK - 1) ELSE cursors[id].week
        after[i \in 0..CLAIM_STEPS] ==
            IF i = 0 THEN [week |-> Max({week, startTime}), userEpoch |-> userEpoch,
                           point |-> history[userEpoch], old |-> noPoint,
                           toDistribute |-> 0, reverts |-> FALSE, done |-> FALSE]
            ELSE _claimStep(history, supply, after[i - 1])
        result == after[CLAIM_STEPS]
    IN  IF history = << >> \/ week >= lastTokenTime
        THEN [toDistribute |-> 0, reverts |-> FALSE, cursor |-> cursors[id]]
        ELSE [toDistribute |-> result.toDistribute, reverts |-> result.reverts,
              cursor |-> [week |-> result.week, userEpoch |-> Min({Len(history), result.userEpoch - 1})]]

\* The tokens go to the owner, so that a claim for a burnt NFT reverts if it has any.
_claims(ids) ==
    LET claimed == [id \in ids |-> _claimed(id, veSupply')]
        total == MapThenSumSet(LAMBDA id : claimed[id].toDistribute, ids)
    IN  /\ Initialised
        /\ IF now >= timeCursor THEN _checkpointTotalSupply ELSE UNCHANGED <<points, veSupply, timeCursor, onTheDot>>
        /\ \A id \in ids : ~claimed[id].reverts /\ (claimed[id].toDistribute # 0 => nft.idToOwner[id] # NULL)
        /\ total <= balance /\ total <= tokenLastBalance
        /\ balance' = balance - total
        /\ tokenLastBalance' = tokenLastBalance - total
        /\ cursors' = [id \in Ids |-> IF id \in ids THEN claimed[id].cursor ELSE cursors[id]]
        /\ UNCHANGED <<startTime, activePeriod, lastTokenTime, tokensPerWeek, calls>> /\ OnlyPoints

claim(id) == _claims({id})
claimMany(ids) == _claims(ids)

-----------------------------------------------------------------------------

Distribute ==
    \/ init
    \/ \E amount \in Rewards \cup {0} : receive(amount)
    \/ checkpointTotalSupply
    \/ \E id \in 1..tokenId : claim(id)
    \/ \E ids \in {ids \in SUBSET (1..tokenId) : Cardinality(ids) > 1} : claimMany(ids)

\* Time goes on to the bound.
TimePasses ==
    /\ now' = Min({now + 1, MaxTime})
    /\ UNCHANGED <<tokens, tokenId, locked, points, nft, held, gov, calls,
                   startTime, weekVars, tokenLastBalance, balance, cursors, onTheDot>>

Next ==
    \/ VeNext /\ UNCHANGED <<startTime, weekVars, tokenLastBalance, balance, cursors, onTheDot>>
    \/ Distribute
    \/ TimePasses

Spec == Init /\ [][Next]_vars

-----------------------------------------------------------------------------
(* Properties.                                                             *)

\* A checkpoint spreads over the weeks what has arrived since the one before ("Adjust value
\* based on time since last update") and no more.
SpreadOnce ==
    [][tokensPerWeek' # tokensPerWeek =>
          MapThenSumSet(LAMBDA w : tokensPerWeek'[w] - tokensPerWeek[w], Weeks) <= balance' - tokenLastBalance]_vars

\* The power an NFT had at a time, by its own history.
_powerAt(id, t) ==
    LET before == {e \in DOMAIN points.userPointHistory[id] : points.userPointHistory[id][e].ts <= t}
    IN  IF before = {} THEN 0
        ELSE LET p == points.userPointHistory[id][Max(before)] IN positiveInt128(p.bias - p.slope * (t - p.ts))
_totalPowerAt(t) == MapThenSumSet(LAMBDA id : _powerAt(id, t), Ids)

\* Weeks that are over and whose tokens an NFT has not claimed.
_unclaimed(id) == {w \in Weeks : w >= Max({startTime, cursors[id].week}) /\ w < weekOf(lastTokenTime)}
_owed(id) ==
    MapThenSumSet(LAMBDA w : IF _powerAt(id, w) = 0 THEN 0
                             ELSE (_powerAt(id, w) * tokensPerWeek[w]) \div _totalPowerAt(w), _unclaimed(id))

\* Whoever claims first, the others can still be paid: the total power _checkpointTotalSupply wrote
\* for a week is that of all NFTs at its beginning, unless a checkpoint was made in the week's first
\* second, when a lock made later in that second is missing from the total; and what is owed for
\* finished weeks is there as long as there was no such checkpoint, which also gives the tokens of
\* the weeks before to the new week once more (SpreadOnce).
ClaimsCovered ==
    startTime # 0 =>
        /\ tokenLastBalance <= balance
        /\ \A w \in Weeks \ onTheDot :
              w >= startTime /\ w < timeCursor => veSupply[w] = _totalPowerAt(w)
        /\ onTheDot = {} => MapThenSumSet(_owed, Ids) <= tokenLastBalance
=============================================================================
