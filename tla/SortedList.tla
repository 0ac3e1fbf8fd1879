----------------------------- MODULE SortedList -----------------------------
(***************************************************************************)
(* What SortedTroves.sol promises to its callers, without pointers: a list *)
(* of distinct ids.  A step takes one id out and leaves the order of the   *)
(* others alone, puts one id between two neighbours whose nominal          *)
(* collateral ratios bracket the ratio it came with, or changes the ratios *)
(* (a liquidation redistributes debt and collateral over all troves).      *)
(*                                                                         *)
(* The list itself is NOT required to be sorted: getNominalICR moves       *)
(* underneath it.  SortedTroves.tla checks sortedness where the ratios     *)
(* move the way the contract's header says they do.                        *)
(***************************************************************************)
EXTENDS Integers, Sequences, SequencesExt

CONSTANTS Ids,          \* addresses that can own a trove
          NICRs,        \* nominal collateral ratios of open troves
          NoNICR,       \* getNominalICR of an address without debt
          MaxSize       \* data.maxSize

VARIABLES list,         \* ids, largest ratio first
          nicr          \* TroveManager.getNominalICR

vars == <<list, nicr>>

\* Position k lies between elements k and k + 1 of the list.
Brackets(NICR, k) ==
    /\ k >= 1 => nicr[list[k]] >= NICR
    /\ k < Len(list) => NICR >= nicr[list[k + 1]]

Init ==
    /\ list = << >>
    /\ nicr = [id \in Ids |-> NoNICR]

InsertNode(id, NICR) ==
    /\ ~Contains(list, id)
    /\ Len(list) < MaxSize
    /\ \E k \in 0..Len(list) :
          /\ Brackets(NICR, k)
          /\ list' = InsertAt(list, k + 1, id)
    /\ nicr' = [nicr EXCEPT ![id] = NICR]

\* The caller has already changed, or is about to change, the id's own ratio.
RemoveNode(id) ==
    /\ Contains(list, id)
    /\ list' = RemoveFirst(list, id)
    /\ \E r \in NICRs \cup {NoNICR} : nicr' = [nicr EXCEPT ![id] = r]

\* Ratios move without an operation on the list.
Drift ==
    /\ list' = list
    /\ nicr' \in [Ids -> NICRs \cup {NoNICR}]

Next ==
    \/ \E id \in Ids, NICR \in NICRs : InsertNode(id, NICR)
    \/ \E id \in Ids : RemoveNode(id)
    \/ Drift

Spec == Init /\ [][Next]_vars
=============================================================================
