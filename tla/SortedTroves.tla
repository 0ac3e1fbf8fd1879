---------------------------- MODULE SortedTroves ----------------------------
(***************************************************************************)
(* SortedTroves.sol: the doubly linked list that keeps troves ordered by   *)
(* nominal collateral ratio, with hint-assisted insertion.                 *)
(*                                                                         *)
(* An operation runs inside one transaction, so nothing interleaves with   *)
(* it; the two search loops are still unrolled into steps, one iteration   *)
(* each, because that is where the list could be walked wrongly or for     *)
(* ever.  "call" is the frame of the running operation.  A require that    *)
(* fails reverts the transaction, which is no step at all.                 *)
(***************************************************************************)
EXTENDS Integers, FiniteSets, Sequences

CONSTANTS Ids,          \* addresses that can own a trove
          NULL,         \* address(0)
          NICRs,        \* nominal collateral ratios callers may pass
          NoNICR,       \* 2**256 - 1, getNominalICR of an address without debt
          MaxSize       \* _size given to setParams

ASSUME IdsAssumption == IsFiniteSet(Ids) /\ NULL \notin Ids
ASSUME RatioAssumption ==
    /\ NICRs \subseteq Nat \ {0}
    /\ NoNICR \in Nat
    /\ \A r \in NICRs : r < NoNICR
ASSUME SizeAssumption == MaxSize \in Nat \ {0}

VARIABLES head, tail,   \* data.head, data.tail
          size,         \* data.size
          nodes,        \* data.nodes
          nicr,         \* TroveManager.getNominalICR of every address
          call          \* frame of the running operation

data == <<head, tail, size, nodes>>
vars == <<head, tail, size, nodes, nicr, call>>

Addresses == Ids \cup {NULL}
Node == [exists : BOOLEAN, nextId : Addresses, prevId : Addresses]
emptyNode == [exists |-> FALSE, nextId |-> NULL, prevId |-> NULL]

idle == [at |-> "idle"]
Frame == [at : {"find", "descend", "ascend", "link"}, id : Ids, NICR : NICRs,
          prevId : Addresses, nextId : Addresses]

Init ==
    /\ head = NULL
    /\ tail = NULL
    /\ size = 0
    /\ nodes = [a \in Addresses |-> emptyNode]
    /\ nicr = [id \in Ids |-> NoNICR]
    /\ call = idle

-----------------------------------------------------------------------------
(* Views.                                                                  *)

contains(a) == nodes[a].exists
isFull == size = MaxSize
isEmpty == size = 0

\* The zero address has no debt, hence the maximal ratio.
getNominalICR(a) == IF a = NULL THEN NoNICR ELSE nicr[a]

\* Variant: the ratio of the following node is not looked at.
validInsertPosition_upperOnly(NICR, prevId, nextId) ==
    CASE prevId = NULL /\ nextId = NULL -> isEmpty
      [] prevId = NULL /\ nextId # NULL -> head = nextId
      [] prevId # NULL /\ nextId = NULL -> tail = prevId /\ NICR <= getNominalICR(prevId)
      [] OTHER -> nodes[prevId].nextId = nextId /\ getNominalICR(prevId) >= NICR

validInsertPosition(NICR, prevId, nextId) ==
    CASE prevId = NULL /\ nextId = NULL -> isEmpty
      [] prevId = NULL /\ nextId # NULL ->
            head = nextId /\ NICR >= getNominalICR(nextId)
      [] prevId # NULL /\ nextId = NULL ->
            tail = prevId /\ NICR <= getNominalICR(prevId)
      [] OTHER ->
            /\ nodes[prevId].nextId = nextId
            /\ getNominalICR(prevId) >= NICR
            /\ NICR >= getNominalICR(nextId)

-----------------------------------------------------------------------------
(* The caller: BorrowerOperations stores the trove's new ratio before it   *)
(* calls, TroveManager's redemption stores it after the call returns.      *)

Enter(id, NICR, prevId, nextId) ==
    call' = [at |-> "find", id |-> id, NICR |-> NICR,
             prevId |-> prevId, nextId |-> nextId]

insert(id, NICR, prevId, nextId) ==
    /\ call = idle
    /\ ~isFull
    /\ ~contains(id)
    /\ nicr' = [nicr EXCEPT ![id] = NICR]
    /\ Enter(id, NICR, prevId, nextId)
    /\ UNCHANGED data

\* data.nodes after _remove(id): the neighbours are joined and the node deleted.
Unlinked(id) ==
    LET p == nodes[id].prevId
        n == nodes[id].nextId
        joinsNext(a) == size > 1 /\ id # head /\ a = p
        joinsPrev(a) == size > 1 /\ (id = head \/ id # tail) /\ a = n
    IN [a \in Addresses |->
          IF a = id THEN emptyNode
          ELSE [exists |-> nodes[a].exists,
                nextId |-> IF joinsNext(a) THEN (IF id = tail THEN NULL ELSE n)
                                           ELSE nodes[a].nextId,
                prevId |-> IF joinsPrev(a) THEN (IF id = head THEN NULL ELSE p)
                                           ELSE nodes[a].prevId]]

\* Variant: the last node goes without data.tail moving up.
_remove_keepsTail(id) ==
    /\ head' = IF size > 1 /\ id = head THEN nodes[id].nextId
               ELSE IF size > 1 THEN head ELSE NULL
    /\ tail' = IF size > 1 THEN tail ELSE NULL
    /\ nodes' = Unlinked(id)
    /\ size' = size - 1

_remove(id) ==
    /\ head' = IF size > 1
               THEN IF id = head THEN nodes[id].nextId ELSE head
               ELSE NULL
    /\ tail' = IF size > 1
               THEN IF id # head /\ id = tail THEN nodes[id].prevId ELSE tail
               ELSE NULL
    /\ nodes' = Unlinked(id)
    /\ size' = size - 1

\* TroveManager._closeTrove has zeroed the trove before it removes it.
remove(id) ==
    /\ call = idle
    /\ contains(id)
    /\ _remove(id)
    /\ nicr' = [nicr EXCEPT ![id] = NoNICR]
    /\ UNCHANGED call

reInsert(id, NICR, prevId, nextId, stored) ==
    /\ call = idle
    /\ contains(id)
    /\ _remove(id)
    /\ nicr' = IF stored THEN [nicr EXCEPT ![id] = NICR] ELSE nicr
    /\ Enter(id, NICR, prevId, nextId)

-----------------------------------------------------------------------------
(* _findInsertPosition and its loops.                                      *)

At(place, prevId, nextId) ==
    call' = [call EXCEPT !.at = place, !.prevId = prevId, !.nextId = nextId]

\* Variant: the comparison at the head is the wrong way round.
StartDescent_swapped(startId) ==
    IF head = startId /\ call.NICR <= getNominalICR(startId)
    THEN At("link", NULL, startId)
    ELSE At("descend", startId, nodes[startId].nextId)

\* The part of _descendList before its loop.
StartDescent(startId) ==
    IF head = startId /\ call.NICR >= getNominalICR(startId)
    THEN At("link", NULL, startId)
    ELSE At("descend", startId, nodes[startId].nextId)

\* The part of _ascendList before its loop.
StartAscent(startId) ==
    IF tail = startId /\ call.NICR <= getNominalICR(startId)
    THEN At("link", startId, NULL)
    ELSE At("ascend", nodes[startId].prevId, startId)

\* The hint itself if it is a valid position; otherwise the half of the hint
\* that is still on the right side of the new ratio says where to search from.
FindInsertPosition ==
    LET prevId == IF /\ call.prevId # NULL
                     /\ contains(call.prevId)
                     /\ call.NICR <= getNominalICR(call.prevId)
                  THEN call.prevId ELSE NULL
        nextId == IF /\ call.nextId # NULL
                     /\ contains(call.nextId)
                     /\ call.NICR >= getNominalICR(call.nextId)
                  THEN call.nextId ELSE NULL
    IN /\ call.at = "find"
       /\ CASE validInsertPosition(call.NICR, call.prevId, call.nextId) ->
                  At("link", call.prevId, call.nextId)
            [] ~validInsertPosition(call.NICR, call.prevId, call.nextId)
               /\ prevId # NULL -> StartDescent(prevId)
            [] ~validInsertPosition(call.NICR, call.prevId, call.nextId)
               /\ prevId = NULL /\ nextId # NULL -> StartAscent(nextId)
            [] OTHER -> StartDescent(head)
       /\ UNCHANGED <<data, nicr>>

\* Variant: the loop body moves nextId but not prevId.
DescendList_stuck ==
    /\ call.at = "descend"
    /\ IF call.prevId # NULL /\ ~validInsertPosition(call.NICR, call.prevId, call.nextId)
       THEN At("descend", call.prevId, nodes[call.prevId].nextId)
       ELSE At("link", call.prevId, call.nextId)
    /\ UNCHANGED <<data, nicr>>

\* One evaluation of the loop condition of _descendList, and the body if it holds.
DescendList ==
    /\ call.at = "descend"
    /\ LET nextId == nodes[call.prevId].nextId
       IN IF call.prevId # NULL /\ ~validInsertPosition(call.NICR, call.prevId, call.nextId)
          THEN At("descend", nextId, nodes[nextId].nextId)
          ELSE At("link", call.prevId, call.nextId)
    /\ UNCHANGED <<data, nicr>>

AscendList ==
    /\ call.at = "ascend"
    /\ LET prevId == nodes[call.nextId].prevId
       IN IF call.nextId # NULL /\ ~validInsertPosition(call.NICR, call.prevId, call.nextId)
          THEN At("ascend", nodes[prevId].prevId, prevId)
          ELSE At("link", call.prevId, call.nextId)
    /\ UNCHANGED <<data, nicr>>

-----------------------------------------------------------------------------
(* The end of _insert: link the node in at the position found.             *)

\* data.nodes after the assignments that link id in between prevId and nextId;
\* at either end of the list the neighbour is data.head or data.tail.
Linked(id, prevId, nextId) ==
    LET p == IF nextId = NULL THEN tail ELSE prevId
        n == IF prevId = NULL THEN head ELSE nextId
    IN [a \in Addresses |->
          IF a = id
          THEN [exists |-> TRUE,
                nextId |-> IF nextId # NULL THEN n ELSE nodes[id].nextId,
                prevId |-> IF prevId # NULL THEN p ELSE nodes[id].prevId]
          ELSE [exists |-> nodes[a].exists,
                nextId |-> IF prevId # NULL /\ a = p THEN id ELSE nodes[a].nextId,
                prevId |-> IF nextId # NULL /\ a = n THEN id ELSE nodes[a].prevId]]

Link ==
    /\ call.at = "link"
    /\ nodes' = Linked(call.id, call.prevId, call.nextId)
    /\ head' = IF call.prevId = NULL THEN call.id ELSE head
    /\ tail' = IF call.nextId = NULL THEN call.id ELSE tail
    /\ size' = size + 1
    /\ nicr' = [nicr EXCEPT ![call.id] = call.NICR]
    /\ call' = idle

-----------------------------------------------------------------------------
(* A liquidation or a redemption elsewhere moves the ratios of the listed  *)
(* troves (pending rewards); an address without a trove keeps NoNICR.      *)

Drift ==
    /\ call = idle
    /\ nicr' \in [Ids -> NICRs \cup {NoNICR}]
    /\ \A id \in Ids : nicr'[id] = NoNICR <=> ~contains(id)
    /\ UNCHANGED <<data, call>>

Operation ==
    \/ \E id \in Ids, NICR \in NICRs, p, n \in Addresses : insert(id, NICR, p, n)
    \/ \E id \in Ids, NICR \in NICRs, p, n \in Addresses, stored \in BOOLEAN :
          reInsert(id, NICR, p, n, stored)
    \/ \E id \in Ids : remove(id)

Search == FindInsertPosition \/ DescendList \/ AscendList \/ Link

Next == Operation \/ Search \/ Drift

Spec == Init /\ [][Next]_vars

\* A transaction runs to its end: once an operation has begun, its steps go on.
FairSpec == Spec /\ WF_vars(Search)

-----------------------------------------------------------------------------
(* Properties.                                                             *)

TypeOK ==
    /\ head \in Addresses
    /\ tail \in Addresses
    /\ size \in 0..MaxSize
    /\ nodes \in [Addresses -> Node]
    /\ nicr \in [Ids -> NICRs \cup {NoNICR}]
    /\ call \in Frame \cup {idle}

\* The sequence order is what the pointers spell: following nextId from head and
\* prevId from tail visits exactly the nodes that exist, each once.
Spells(order) ==
    /\ \A i, j \in 1..size : order[i] = order[j] => i = j
    /\ \A i \in 1..size :
          /\ contains(order[i])
          /\ nodes[order[i]].nextId = (IF i = size THEN NULL ELSE order[i + 1])
          /\ nodes[order[i]].prevId = (IF i = 1 THEN NULL ELSE order[i - 1])
    /\ \A a \in Ids : contains(a) => \E i \in 1..size : order[i] = a
    /\ head = IF size = 0 THEN NULL ELSE order[1]
    /\ tail = IF size = 0 THEN NULL ELSE order[size]

\* The list is one chain: no cycle, no node cut off from head or tail, data.size
\* counts the nodes, and a node that was deleted or never inserted (the zero address
\* included) names nobody.  _insert and _remove must keep this through each of their
\* branches, for any hint and however unsorted the list has become.
ListIntact ==
    /\ \E order \in [1..size -> Ids] : Spells(order)
    /\ \A a \in Addresses : ~contains(a) => nodes[a] = emptyNode
    /\ ~contains(NULL)

\* Whatever the hints and however stale the order of the list, the search loops
\* hand _insert a position that validInsertPosition accepts: they never run off
\* the end of the list and make _insert overwrite head or tail.
FoundPositionIsValid ==
    call.at = "link" => validInsertPosition(call.NICR, call.prevId, call.nextId)

Sorted ==
    \A a \in Ids : contains(a) /\ nodes[a].nextId # NULL => nicr[a] >= nicr[nodes[a].nextId]

\* The header's promise, "Nodes remain sorted by current NICR": once the nodes are in descending
\* order they stay so, in the middle of an operation too, through every insertion, removal and
\* search, and through every change of the ratios that keeps the order of the listed ones, as the
\* header says liquidations do.
NodesRemainSorted ==
    [][(/\ Sorted
        /\ \A a, b \in Ids : contains(a) /\ contains(b) /\ nicr[a] >= nicr[b] => nicr'[a] >= nicr'[b])
        => Sorted']_vars

\* The ids in list order, reached by following nextId from head.
Walk ==
    LET visit[k \in 1..size] == IF k = 1 THEN head ELSE nodes[visit[k - 1]].nextId
    IN [k \in 1..size |-> visit[k]]

SL == INSTANCE SortedList WITH list <- Walk

\* Refinement: the linked list behaves like the abstract list; insertion with any
\* hint puts the id at a position its ratio fits and disturbs nobody else.
ImplementsSortedList == SL!Spec

\* Every operation comes to its end: the search loops terminate from any hint,
\* on any list, sorted or not.
OperationsEnd == call # idle ~> call = idle
=============================================================================
