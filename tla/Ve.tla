--------------------------------- MODULE Ve ---------------------------------
(***************************************************************************)
(* Ve.sol: staking tokens locked for up to MAX_TIME in NFTs whose power     *)
(* falls in a straight line to nothing at the end of the lock.             *)
(*                                                                         *)
(* Nothing visits all locks.  Every lock leaves a point (bias and slope)   *)
(* in its own history, and the total has a history of its own: its slope   *)
(* falls at the ends of locks, which are weeks, by amounts written down    *)
(* beforehand in slopeChanges.  Every change of a lock has to correct the  *)
(* total, its slope and the scheduled changes together.                    *)
(*                                                                         *)
(* A call is one step; what it does is computed on a copy of the state, so *)
(* that a call that deposits or withdraws several times is a fold.  Block  *)
(* numbers, and the views that estimate times from them, are left out.     *)
(***************************************************************************)
EXTENDS Integers, SequencesExt

CONSTANTS Accounts, NULL,
          StakingTokens, SHADY,   \* tokens governance may add, and the first one
          InitialTokens,          \* lists of tokens to begin with: the first, and those added since
          tokenWeights,           \* the weight each is given when added
          TokenUnit,              \* 10 ** decimals of each
          WAD,                    \* 1e18
          WEIGHT_DENOMINATOR,     \* 100e18, of weights and of percents
          WEEK, MAX_TIME,         \* 16 weeks
          CHECKPOINT_WEEKS,       \* 255 iterations of the loop in _checkpoint
          GOV_ACTION_TIME_LOCK,   \* 18 hours
          Values, Durations, Percents,  \* arguments of the calls
          Kinds,                  \* bound: calls that are made at all, of "lock", "checkpoint", "nft", "governance"
          MaxIds,                 \* bound: NFTs
          StartTime, MaxTime,     \* bounds: the time of deployment and the last one
          MaxCalls, LastCall      \* bounds: calls of users and of governance, and the time of the last

ASSUME VeAssumption ==
    /\ NULL \notin Accounts /\ SHADY \in StakingTokens
    /\ \A list \in InitialTokens : list \in Seq(StakingTokens) /\ Head(list) = SHADY /\ IsInjective(list)
    /\ WEEK \in Nat \ {0} /\ MAX_TIME \in Nat \ {0} /\ CHECKPOINT_WEEKS \in Nat \ {0}
    /\ WAD \in Nat \ {0} /\ WEIGHT_DENOMINATOR \in Nat \ {0} /\ GOV_ACTION_TIME_LOCK \in Nat
    /\ tokenWeights \in [StakingTokens -> Nat \ {0}] /\ TokenUnit \in [StakingTokens -> Nat \ {0}]
    /\ Values \subseteq Nat \ {0} /\ Durations \subseteq Nat /\ Percents \subseteq 1..(WEIGHT_DENOMINATOR - 1)
    /\ MaxIds \in Nat /\ StartTime \in Nat /\ MaxTime \in Nat /\ MaxCalls \in Nat /\ LastCall \in Nat
    /\ StartTime <= MaxTime
    /\ StartTime >= WEEK    \* a time of zero means none to the contracts

VARIABLES now,
          tokens,         \* in the order they were added
          tokenId,        \* the number of NFTs made so far
          locked,         \* lockedAmounts, lockedDerivedAmount and lockedEnd of every NFT
          points,         \* the two histories and the scheduled changes of slope
          nft,            \* owners, approvals and the lists of owners' NFTs
          held,           \* staking tokens this contract has
          gov,            \* time locks of governance and the transfer whitelist
          calls           \* how many there were, for the bound

veVars == <<now, tokens, tokenId, locked, points, nft, held, gov, calls>>

Ids == 1..MaxIds
weekOf(t) == (t \div WEEK) * WEEK
Weeks == {w \in 0..(MaxTime + MAX_TIME) : w % WEEK = 0}
positiveInt128(x) == IF x < 0 THEN 0 ELSE x
Point(bias, slope, ts) == [bias |-> bias, slope |-> slope, ts |-> ts]
noLock == [amounts |-> [token \in StakingTokens |-> 0], derived |-> 0, end |-> 0]

VeInit ==
    /\ now = StartTime
    /\ tokens \in InitialTokens
    /\ tokenId = 0
    /\ locked = [id \in Ids |-> noLock]
    /\ points = [pointHistory |-> <<Point(0, 0, StartTime)>>,   \* epoch 0 is at index 1
                 userPointHistory |-> [id \in Ids |-> << >>],   \* epoch 1 is at index 1
                 slopeChanges |-> [w \in Weeks |-> 0]]
    /\ nft = [idToOwner |-> [id \in Ids |-> NULL], idToApprovals |-> [id \in Ids |-> NULL],
              ownerToNFTokenIdList |-> [a \in Accounts |-> << >>],
              tokenToOwnerIndex |-> [id \in Ids |-> 0],
              ownerToOperators |-> {}]
    /\ held = [token \in StakingTokens |-> 0]
    /\ gov = [timeLock |-> [type \in {"ADD_TOKEN", "WHITELIST_TRANSFER"} |-> 0],
              isWhitelistedTransfer |-> {}]
    /\ calls = 0

-----------------------------------------------------------------------------
(* Points.                                                                 *)

\* Where the loops over weeks stop on their way from one time to another: at every week
\* and at the end.
_stops(from, to) ==
    LET weeks == [i \in 1..((weekOf(to) - weekOf(from)) \div WEEK) |-> weekOf(from) + i * WEEK]
        stops == IF weeks # << >> /\ Last(weeks) = to THEN weeks ELSE Append(weeks, to)
    IN  SubSeq(stops, 1, Min({CHECKPOINT_WEEKS, Len(stops)}))

\* The change of slope due at a stop; at the end of a walk only if that is a new week.
_dSlope(slopeChanges, from, ti) == IF ti > from /\ ti % WEEK = 0 THEN slopeChanges[ti] ELSE 0

\* The point of the total at the next stop.
_nextPoint(slopeChanges, q, ti) ==
    Point(positiveInt128(q.bias - q.slope * (ti - q.ts)),
          positiveInt128(q.slope + _dSlope(slopeChanges, q.ts, ti)), ti)

\* The first half of _checkpoint: the history of the total up to now, week by week.
_lastPoint(p) == IF Len(p.pointHistory) = 1 THEN Point(0, 0, now) ELSE Last(p.pointHistory)
_walk(p) == FoldLeft(LAMBDA h, ti : Append(h, _nextPoint(p.slopeChanges, Last(h), ti)),
                     <<_lastPoint(p)>>, _stops(_lastPoint(p).ts, now))
_filled(p) == [p EXCEPT !.pointHistory = @ \o Tail(_walk(p))]

\* What a lock of this amount and end counts for from now on.
_userPoint(derivedAmount, end) ==
    LET slope == derivedAmount \div MAX_TIME
    IN  IF end > now THEN Point(slope * (end - now), slope, now) ELSE Point(0, 0, now)

\* Variant: an extended lock keeps its old change of slope too.
_newSlopeChanges_keepsOld(slopeChanges, info, uOld, uNew) ==
    [w \in Weeks |-> slopeChanges[w]
        - (IF w = info.newEnd /\ info.newEnd > now THEN uNew.slope ELSE 0)
        + (IF w = info.oldEnd /\ info.oldEnd = info.newEnd /\ info.oldEnd > now THEN uOld.slope ELSE 0)]

\* The slope of the old lock no longer falls at its old end, that of the new one does at the new.
_newSlopeChanges(slopeChanges, info, uOld, uNew) ==
    [w \in Weeks |-> slopeChanges[w]
        + (IF w = info.oldEnd /\ info.oldEnd > now
           THEN uOld.slope - (IF info.newEnd = info.oldEnd THEN uNew.slope ELSE 0) ELSE 0)
        - (IF w = info.newEnd /\ info.newEnd > now /\ info.newEnd > info.oldEnd
           THEN uNew.slope ELSE 0)]

\* _checkpoint for an NFT: the total is corrected by the difference this change makes.
_checkpoint(p, info) ==
    LET uOld == _userPoint(info.oldDerivedAmount, info.oldEnd)
        uNew == _userPoint(info.newDerivedAmount, info.newEnd)
        filled == _filled(p)
        lastPoint == Last(filled.pointHistory)
        corrected == [lastPoint EXCEPT !.slope = positiveInt128(@ + (uNew.slope - uOld.slope)),
                                       !.bias = positiveInt128(@ + (uNew.bias - uOld.bias))]
    IN  [pointHistory |-> ReplaceAt(filled.pointHistory, Len(filled.pointHistory), corrected),
         slopeChanges |-> _newSlopeChanges(p.slopeChanges, info, uOld, uNew),
         userPointHistory |-> [p.userPointHistory EXCEPT ![info.tokenId] = Append(@, uNew)]]

-----------------------------------------------------------------------------
(* Locks.                                                                  *)

_divUp(a, b) == (a + b - 1) \div b

\* What is locked is counted by weight.  The part of the old amount is taken off rounded up, the
\* new one added rounded down.
_calculateDerivedAmount(currentAmount, oldDerivedAmount, newAmount, token) ==
    LET current == _divUp(_divUp(currentAmount * WAD, TokenUnit[token]) * tokenWeights[token], WEIGHT_DENOMINATOR)
        rest == IF currentAmount # 0 THEN positiveInt128(oldDerivedAmount - current) ELSE oldDerivedAmount
        added == (((newAmount * WAD) \div TokenUnit[token]) * tokenWeights[token]) \div WEIGHT_DENOMINATOR
    IN  rest + added

\* The state a call works on, and its result.
ve == [locked |-> locked, points |-> points, nft |-> nft, held |-> held]
becomes(s) == locked' = s.locked /\ points' = s.points /\ nft' = s.nft /\ held' = s.held

_depositFor(s, info) ==
    LET newDerived == IF info.value = 0 THEN info.lockedDerivedAmount
                      ELSE _calculateDerivedAmount(info.lockedAmount, info.lockedDerivedAmount,
                                                   info.lockedAmount + info.value, info.stakingToken)
        newEnd == IF info.unlockTime = 0 THEN info.lockedEnd ELSE info.unlockTime
        lock == s.locked[info.tokenId]
        deposited == IF info.value = 0 THEN lock
                     ELSE [lock EXCEPT !.amounts[info.stakingToken] = info.lockedAmount + info.value,
                                       !.derived = newDerived]
        pulled == IF info.depositType = "MERGE_TYPE" \/ info.value = 0 THEN s.held
                  ELSE [s.held EXCEPT ![info.stakingToken] = @ + info.value]
    IN  [s EXCEPT !.locked[info.tokenId] =
                      IF info.unlockTime = 0 THEN deposited ELSE [deposited EXCEPT !.end = info.unlockTime],
                  !.points = _checkpoint(@, [tokenId |-> info.tokenId,
                                             oldDerivedAmount |-> info.lockedDerivedAmount,
                                             newDerivedAmount |-> newDerived,
                                             oldEnd |-> info.lockedEnd, newEnd |-> newEnd]),
                  !.held = pulled]

-----------------------------------------------------------------------------
(* NFTs.                                                                   *)

_addTokenTo(n, to, id) ==
    [n EXCEPT !.idToOwner[id] = to,
              !.tokenToOwnerIndex[id] = Len(n.ownerToNFTokenIdList[to]),
              !.ownerToNFTokenIdList[to] = Append(@, id)]

\* Variant: the NFT that fills the gap keeps its old index.
_removeTokenFrom_index(n, from, id) ==
    LET list == n.ownerToNFTokenIdList[from]
    IN  [n EXCEPT !.idToOwner[id] = NULL,
                  !.ownerToNFTokenIdList[from] =
                      Front(ReplaceAt(list, n.tokenToOwnerIndex[id] + 1, Last(list))),
                  !.tokenToOwnerIndex[id] = 0]

\* The last NFT of the owner's list fills the gap, and its index follows.
_removeTokenFrom(n, from, id) ==
    LET list == n.ownerToNFTokenIdList[from]
        index == n.tokenToOwnerIndex[id]
    IN  [n EXCEPT !.idToOwner[id] = NULL,
                  !.ownerToNFTokenIdList[from] = Front(ReplaceAt(list, index + 1, Last(list))),
                  !.tokenToOwnerIndex = [@ EXCEPT ![Last(list)] = index, ![id] = 0]]

_isOperator(n, owner, a) == <<owner, a>> \in n.ownerToOperators

isApprovedOrOwner(n, spender, id) ==
    \/ n.idToOwner[id] = spender
    \/ n.idToApprovals[id] = spender
    \/ _isOperator(n, n.idToOwner[id], spender)

\* The requirements of approve.  _burn goes through them with the zero address.
_mayApprove(n, caller, approved, id) ==
    LET owner == n.idToOwner[id]
    IN  owner # NULL /\ approved # owner /\ (owner = caller \/ _isOperator(n, owner, caller))

_burnt(n, id) == _removeTokenFrom([n EXCEPT !.idToApprovals[id] = NULL], n.idToOwner[id], id)

-----------------------------------------------------------------------------
(* Calls.                                                                  *)

Counted == calls < MaxCalls /\ now <= LastCall /\ calls' = calls + 1
OnlyLocksChange == UNCHANGED <<now, tokens, gov>>

\* The state with a new NFT.
_mint(to, id) == [ve EXCEPT !.nft = _addTokenTo(@, to, id)]

\* _createLock, of createLock and of createLockFor.
createLockFor(token, value, lockDuration, to) ==
    LET unlockTime == weekOf(now + lockDuration)
        id == tokenId + 1
    IN  /\ Counted
        /\ tokenId < MaxIds
        /\ unlockTime > now /\ unlockTime <= now + MAX_TIME
        /\ token \in ToSet(tokens)
        /\ tokenId' = id
        /\ becomes(_depositFor(_mint(to, id),
               [stakingToken |-> token, tokenId |-> id, value |-> value, unlockTime |-> unlockTime,
                lockedAmount |-> 0, lockedDerivedAmount |-> 0, lockedEnd |-> 0,
                depositType |-> "CREATE_LOCK_TYPE"]))
        /\ OnlyLocksChange

increaseAmount(token, id, value) ==
    /\ Counted
    /\ locked[id].derived > 0
    /\ locked[id].end > now
    /\ token \in ToSet(tokens)
    /\ becomes(_depositFor(ve,
           [stakingToken |-> token, tokenId |-> id, value |-> value, unlockTime |-> 0,
            lockedAmount |-> locked[id].amounts[token], lockedDerivedAmount |-> locked[id].derived,
            lockedEnd |-> locked[id].end, depositType |-> "INCREASE_LOCK_AMOUNT"]))
    /\ UNCHANGED tokenId /\ OnlyLocksChange

increaseUnlockTime(caller, id, lockDuration) ==
    LET unlockTime == weekOf(now + lockDuration)
    IN  /\ Counted
        /\ locked[id].derived > 0
        /\ locked[id].end > now
        /\ unlockTime > locked[id].end /\ unlockTime <= now + MAX_TIME
        /\ isApprovedOrOwner(nft, caller, id)
        /\ becomes(_depositFor(ve,
               [stakingToken |-> NULL, tokenId |-> id, value |-> 0, unlockTime |-> unlockTime,
                lockedAmount |-> 0, lockedDerivedAmount |-> locked[id].derived,
                lockedEnd |-> locked[id].end, depositType |-> "INCREASE_UNLOCK_TIME"]))
        /\ UNCHANGED tokenId /\ OnlyLocksChange

\* Variant: the merged lock keeps the end of the one it goes into.
_mergedEnd_to(from, to) == locked[to].end

_mergedEnd(from, to) == Max({locked[from].end, locked[to].end})

\* What one NFT has of a token moves to the other, under the later of the two ends.  The deposit
\* made first carries the old end of the other NFT, those after it the new one.
_mergeToken(s, token, from, to) ==
    LET amount == s.locked[from].amounts[token]
    IN  IF amount = 0 THEN s
        ELSE _depositFor([s EXCEPT !.locked[from].amounts[token] = 0],
                 [stakingToken |-> token, tokenId |-> to, value |-> amount,
                  unlockTime |-> _mergedEnd(from, to), lockedAmount |-> s.locked[to].amounts[token],
                  lockedDerivedAmount |-> s.locked[to].derived,
                  lockedEnd |-> s.locked[to].end, depositType |-> "MERGE_TYPE"])

_merged(from, to) == FoldLeft(LAMBDA s, token : _mergeToken(s, token, from, to), ve, tokens)

merge(caller, from, to) ==
    LET merged == _merged(from, to)
    IN  /\ Counted
        /\ from # to
        /\ nft.idToOwner[from] = caller /\ nft.idToOwner[to] = caller
        /\ locked[from].end > now /\ locked[to].end > now
        /\ becomes([merged EXCEPT
               !.locked[from] = [@ EXCEPT !.derived = 0, !.end = 0],
               !.points = _checkpoint(@, [tokenId |-> from, oldDerivedAmount |-> locked[from].derived,
                                          newDerivedAmount |-> 0, oldEnd |-> locked[from].end,
                                          newEnd |-> locked[from].end]),
               !.nft = _burnt(@, from)])
        /\ UNCHANGED tokenId /\ OnlyLocksChange

\* A percentage of every token moves to a new NFT with the same end.
_part(token, id, percent) == (locked[id].amounts[token] * percent) \div WEIGHT_DENOMINATOR

_splitToken(x, token, id, newId, percent) ==
    LET amount == locked[id].amounts[token]
        rest == amount - _part(token, id, percent)
    IN  IF amount = 0 THEN x
        ELSE [derived |-> _calculateDerivedAmount(amount, x.derived, rest, token),
              s |-> _depositFor([x.s EXCEPT !.locked[id].amounts[token] = rest],
                        [stakingToken |-> token, tokenId |-> newId, value |-> _part(token, id, percent),
                         unlockTime |-> locked[id].end, lockedAmount |-> 0,
                         lockedDerivedAmount |-> x.s.locked[newId].derived,
                         lockedEnd |-> locked[id].end, depositType |-> "MERGE_TYPE"])]

_split(caller, id, newId, percent) ==
    FoldLeft(LAMBDA x, token : _splitToken(x, token, id, newId, percent),
             [derived |-> locked[id].derived, s |-> _mint(caller, newId)], tokens)

split(caller, id, percent) ==
    LET newId == tokenId + 1
        end == locked[id].end
        all == _split(caller, id, newId, percent)
    IN  /\ Counted
        /\ tokenId < MaxIds
        /\ nft.idToOwner[id] = caller
        /\ end > now
        /\ \A token \in ToSet(tokens) : locked[id].amounts[token] # 0 => _part(token, id, percent) # 0
        /\ tokenId' = newId
        /\ becomes([all.s EXCEPT
               !.locked[id].derived = all.derived,
               !.points = _checkpoint(@, [tokenId |-> id, oldDerivedAmount |-> locked[id].derived,
                                          newDerivedAmount |-> all.derived, oldEnd |-> end, newEnd |-> end])])
        /\ OnlyLocksChange

\* The derived amount left when all of one token is withdrawn; at zero the NFT is burnt, which
\* only the owner and the owner's operators may do.
_derivedWithout(s, token, id) ==
    _calculateDerivedAmount(s.locked[id].amounts[token], s.locked[id].derived, 0, token)

_mayWithdraw(s, caller, token, id) ==
    /\ isApprovedOrOwner(s.nft, caller, id)
    /\ now >= s.locked[id].end
    /\ s.locked[id].amounts[token] > 0
    /\ _derivedWithout(s, token, id) = 0 => _mayApprove(s.nft, caller, NULL, id)

_withdrawn(s, token, id) ==
    LET lock == s.locked[id]
        derived == _derivedWithout(s, token, id)
        newEnd == IF derived = 0 THEN 0 ELSE lock.end
    IN  [s EXCEPT !.locked[id] = [amounts |-> [lock.amounts EXCEPT ![token] = 0],
                                  derived |-> derived, end |-> newEnd],
                  !.points = _checkpoint(@, [tokenId |-> id, oldDerivedAmount |-> lock.derived,
                                             newDerivedAmount |-> derived,
                                             oldEnd |-> lock.end, newEnd |-> newEnd]),
                  !.nft = IF derived = 0 THEN _burnt(@, id) ELSE @,
                  !.held[token] = @ - lock.amounts[token]]

withdraw(caller, token, id) ==
    /\ Counted
    /\ _mayWithdraw(ve, caller, token, id)
    /\ becomes(_withdrawn(ve, token, id))
    /\ UNCHANGED tokenId /\ OnlyLocksChange

\* The first withdrawal that may not be made undoes those before it.  With nothing to withdraw
\* the call does nothing.
_withdrawToken(x, token, caller, id) ==
    IF x.s.locked[id].amounts[token] = 0 THEN x
    ELSE IF x.ok /\ _mayWithdraw(x.s, caller, token, id)
    THEN [ok |-> TRUE, s |-> _withdrawn(x.s, token, id)]
    ELSE [ok |-> FALSE, s |-> x.s]

_withdrawnAll(caller, id) ==
    FoldLeft(LAMBDA x, token : _withdrawToken(x, token, caller, id), [ok |-> TRUE, s |-> ve], tokens)

withdrawAll(caller, id) ==
    LET all == _withdrawnAll(caller, id)
    IN  /\ Counted
        /\ all.ok /\ all.s # ve
        /\ becomes(all.s)
        /\ UNCHANGED tokenId /\ OnlyLocksChange

checkpoint ==
    /\ Counted
    /\ points' = _filled(points)
    /\ UNCHANGED <<now, tokens, tokenId, locked, nft, held, gov>>

\* The NFT itself changes hands only from or to a whitelisted address.
OnlyNFTsChange == UNCHANGED <<now, tokens, tokenId, locked, points, held, gov>>

safeTransferFrom(caller, from, to, id) ==
    /\ Counted
    /\ to \in gov.isWhitelistedTransfer \/ from \in gov.isWhitelistedTransfer
    /\ isApprovedOrOwner(nft, caller, id)
    /\ nft.idToOwner[id] = from
    /\ nft' = _addTokenTo(_removeTokenFrom([nft EXCEPT !.idToApprovals[id] = NULL], from, id), to, id)
    /\ OnlyNFTsChange

approve(caller, approved, id) ==
    /\ Counted
    /\ _mayApprove(nft, caller, approved, id)
    /\ nft' = [nft EXCEPT !.idToApprovals[id] = approved]
    /\ OnlyNFTsChange

setApprovalForAll(caller, operator, approved) ==
    /\ Counted
    /\ operator # caller
    /\ nft' = [nft EXCEPT !.ownerToOperators =
                   IF approved THEN @ \cup {<<caller, operator>>} ELSE @ \ {<<caller, operator>>}]
    /\ OnlyNFTsChange

-----------------------------------------------------------------------------
(* Governance, which has to announce what it will do.                      *)

_unlocked(type) == gov.timeLock[type] # 0 /\ gov.timeLock[type] < now
OnlyGovernance == UNCHANGED <<now, tokenId, locked, points, nft, held>>

announceAction(type) ==
    /\ Counted
    /\ gov.timeLock[type] = 0
    /\ gov' = [gov EXCEPT !.timeLock[type] = now + GOV_ACTION_TIME_LOCK]
    /\ UNCHANGED tokens /\ OnlyGovernance

whitelistTransferFor(value) ==
    /\ Counted
    /\ _unlocked("WHITELIST_TRANSFER")
    /\ gov' = [gov EXCEPT !.timeLock["WHITELIST_TRANSFER"] = 0, !.isWhitelistedTransfer = @ \cup {value}]
    /\ UNCHANGED tokens /\ OnlyGovernance

addToken(token) ==
    /\ Counted
    /\ _unlocked("ADD_TOKEN")
    /\ token \notin ToSet(tokens)
    /\ tokens' = Append(tokens, token)
    /\ gov' = [gov EXCEPT !.timeLock["ADD_TOKEN"] = 0]
    /\ OnlyGovernance

-----------------------------------------------------------------------------

LockCall ==
    \/ \E token \in StakingTokens, value \in Values, duration \in Durations, to \in Accounts :
          createLockFor(token, value, duration, to)
    \/ \E token \in StakingTokens, id \in Ids, value \in Values : increaseAmount(token, id, value)
    \/ \E caller \in Accounts, id \in Ids, duration \in Durations : increaseUnlockTime(caller, id, duration)
    \/ \E caller \in Accounts, from, to \in Ids : merge(caller, from, to)
    \/ \E caller \in Accounts, id \in Ids, percent \in Percents : split(caller, id, percent)
    \/ \E caller \in Accounts, token \in StakingTokens, id \in Ids : withdraw(caller, token, id)
    \/ \E caller \in Accounts, id \in Ids : withdrawAll(caller, id)

NFTCall ==
    \/ \E caller, from, to \in Accounts, id \in Ids : safeTransferFrom(caller, from, to, id)
    \/ \E caller \in Accounts, approved \in Accounts \cup {NULL}, id \in Ids : approve(caller, approved, id)
    \/ \E caller, operator \in Accounts, approved \in BOOLEAN : setApprovalForAll(caller, operator, approved)

GovernanceCall ==
    \/ \E type \in DOMAIN gov.timeLock : announceAction(type)
    \/ \E value \in Accounts : whitelistTransferFor(value)
    \/ \E token \in StakingTokens : addToken(token)

VeNext ==
    \/ "lock" \in Kinds /\ LockCall
    \/ "checkpoint" \in Kinds /\ checkpoint
    \/ "nft" \in Kinds /\ NFTCall
    \/ "governance" \in Kinds /\ GovernanceCall

-----------------------------------------------------------------------------
(* Properties.                                                             *)

\* _balanceOfNFT: the power of an NFT at a time not before its last point.
_balanceOfNFT(id, t) ==
    LET history == points.userPointHistory[id]
    IN  IF history = << >> THEN 0
        ELSE positiveInt128(Last(history).bias - Last(history).slope * (t - Last(history).ts))

\* _supplyAt walks on from a point; totalSupplyAtT answers with the last point of the total.
_supplyPoint(q, ti) ==
    Point(q.bias - q.slope * (ti - q.ts), q.slope + _dSlope(points.slopeChanges, q.ts, ti), ti)
_supplyAt(point, t) == FoldLeft(LAMBDA q, ti : _supplyPoint(q, ti), point, _stops(point.ts, t))
totalSupplyAtT(t) == positiveInt128(_supplyAt(Last(points.pointHistory), t).bias)

\* The total power, now and at any later time, is that of all NFTs together, however locks were
\* made, extended, merged, split and left to expire, and whenever checkpoints were made.
SupplyIsSum ==
    \A t \in now..(MaxTime + MAX_TIME) :
        totalSupplyAtT(t) = SumFunctionOnSet([id \in Ids |-> _balanceOfNFT(id, t)], Ids)

\* The contract has the tokens it owes.
TokensHeld ==
    \A token \in StakingTokens :
        held[token] = SumFunctionOnSet([id \in Ids |-> locked[id].amounts[token]], Ids)

\* The lists, indices and owners of NFTs agree.
OwnersListed ==
    \A id \in Ids, a \in Accounts :
        nft.idToOwner[id] = a <=>
            LET list == nft.ownerToNFTokenIdList[a]
            IN  nft.tokenToOwnerIndex[id] < Len(list) /\ list[nft.tokenToOwnerIndex[id] + 1] = id

\* What one change of a lock may lose to rounding: for every token the part taken off exceeds what
\* the token counted for by no more than this.
_roundingLoss(token) == 1 + _divUp(tokenWeights[token], WEIGHT_DENOMINATOR)
_lossOf(T) == SumFunctionOnSet([token \in StakingTokens |-> _roundingLoss(token)], T)

\* What is locked belongs to somebody, but for dust: what would count for no more than the rounding
\* of the changes of the lock before the NFT was burnt.
OnlyDustIsLost ==
    \A id \in Ids : nft.idToOwner[id] = NULL =>
        /\ locked[id].derived = 0 /\ locked[id].end = 0
        /\ \A token \in StakingTokens :
              _calculateDerivedAmount(0, 0, locked[id].amounts[token], token)
                  <= Len(points.userPointHistory[id]) * _lossOf(ToSet(tokens))

\* The contract has the tokens it owes, and owes them to the owners of NFTs, who are listed as such.
LocksBacked == TokensHeld /\ OwnersListed /\ OnlyDustIsLost

\* What is locked until some time in the future stays locked until then: no call, and no merge,
\* split or transfer between NFTs, gets it out earlier.
_lockedUntil(token, t) ==
    SumFunctionOnSet([id \in Ids |-> IF locked[id].end >= t THEN locked[id].amounts[token] ELSE 0], Ids)
LockedStaysLocked ==
    [][\A token \in StakingTokens, t \in Weeks : t > now => _lockedUntil(token, t)' >= _lockedUntil(token, t)]_veVars
=============================================================================
