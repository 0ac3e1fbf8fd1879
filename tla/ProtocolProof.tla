--------------------------- MODULE ProtocolProof ----------------------------
(***************************************************************************)
(* The inductive invariant of the protocol and the theorems that follow:   *)
(* Troves, TroveOwners and the sorted list agree in every state, in the    *)
(* middle of a liquidation or redemption too, and the system never loses   *)
(* its last trove.                                                         *)
(***************************************************************************)
EXTENDS Protocol, DataTheorems

-----------------------------------------------------------------------------
(* Troves, their owners and the sorted list: what opening, closing and     *)
(* re-inserting a trove do to the agreement of the three.                  *)

PairT == [WSTETH : Int, SIMDebt : Int]
TroveT == [debt : Int, coll : Int, stake : Int, status : Statuses, arrayIndex : Nat]
FundsT == [counter : [PoolNames -> Int], balance : [Holders -> Int]]
DebtT == [{"activePool", "defaultPool"} -> Int]
SIMT == [totalSupply : Int, balances : [SIMHolders -> Int]]

TrovesT == [Accounts -> TroveT]

\* OwnersAgree as a relation between troves t, owners o and list s, and the list
\* without repeats.
OwnersOK(t, o, s) ==
    /\ o \in Seq(Accounts) /\ s \in Seq(Accounts)
    /\ Len(s) = Len(o)
    /\ NoRepeats(s)
    /\ \A b \in Accounts : t[b].status = "active" =>
          /\ t[b].arrayIndex + 1 \in 1..Len(o)
          /\ o[t[b].arrayIndex + 1] = b
          /\ \E i \in 1..Len(s) : s[i] = b
    /\ \A i \in 1..Len(o) : t[o[i]].status = "active" /\ t[o[i]].arrayIndex + 1 = i
    /\ \A i \in 1..Len(s) : t[s[i]].status = "active"
    /\ \A b \in Accounts : t[b].status # "active" =>
          t[b].debt = 0 /\ t[b].coll = 0 /\ t[b].stake = 0

\* Solidity's division by a positive integer stays in the integers.
LEMMA DivInt == \A a, b \in Int : b > 0 => a \div b \in Int
OBVIOUS

\* Every move of wstETH between pools and accounts keeps the shape of the counters and
\* balances, and no amount leaves the integers.
LEMMA FundsTyped ==
    ASSUME NEW f \in FundsT, NEW x \in Int, NEW h
    PROVE  /\ sendWSTETH(f, h, x) \in FundsT
           /\ sendWSTETHToActivePool(f, x) \in FundsT
           /\ _activePoolAddColl(f, h, x) \in FundsT
           /\ _payGain(f, h, x) \in FundsT
<1>1. sendWSTETH(f, h, x) \in FundsT
      BY DEF FundsT, PoolNames, Contracts, sendWSTETH, receiveWSTETH, Transferred
<1>2. sendWSTETHToActivePool(f, x) \in FundsT
      BY DEF FundsT, PoolNames, Contracts, sendWSTETHToActivePool, receiveWSTETH, Transferred
<1>3. _activePoolAddColl(f, h, x) \in FundsT
      BY DEF FundsT, PoolNames, Contracts, _activePoolAddColl, receiveWSTETH, Transferred
<1>4. _payGain(f, h, x) \in FundsT
      BY DEF FundsT, PoolNames, Contracts, _payGain, Transferred
<1> QED BY <1>1, <1>2, <1>3, <1>4

\* Minting, burning and transferring SIM keep the shape of the token's ledger.
LEMMA SIMTyped ==
    ASSUME NEW s \in SIMT, NEW x \in Int, NEW h \in SIMHolders, NEW g
    PROVE  /\ mint(s, h, x) \in SIMT
           /\ burn(s, h, x) \in SIMT
           /\ SentSIM(s, g, h, x) \in SIMT
<1>1. mint(s, h, x) \in SIMT
      BY DEF SIMT, mint
<1>2. burn(s, h, x) \in SIMT
      BY DEF SIMT, burn
<1>3. SentSIM(s, g, h, x) \in SIMT
      BY DEF SIMT, SentSIM, Transferred
<1> QED BY <1>1, <1>2, <1>3

-----------------------------------------------------------------------------
(* Owners, statuses and the sorted list.                                   *)

\* Amounts of active troves may change.
LEMMA AmountsKeepOwners ==
    ASSUME NEW t \in TrovesT, NEW u \in TrovesT, NEW o, NEW s, OwnersOK(t, o, s),
           \A b \in Accounts : /\ u[b].status = t[b].status /\ u[b].arrayIndex = t[b].arrayIndex
                               /\ t[b].status # "active" => u[b] = t[b]
    PROVE  OwnersOK(u, o, s)
<1>1. \A i \in 1..Len(o) : o[i] \in Accounts
      BY DEF OwnersOK
<1>2. \A i \in 1..Len(s) : s[i] \in Accounts
      BY DEF OwnersOK
<1> QED BY <1>1, <1>2 DEF OwnersOK

\* Closing an active trove that is not the only one.
LEMMA CloseKeepsOwners ==
    ASSUME Troves \in TrovesT, OwnersOK(Troves, TroveOwners, sortedTroves),
           NEW b \in Accounts, isActive(b), Len(TroveOwners) > 1,
           NEW st \in Statuses \ {"active"}, _closeTrove(b, st)
    PROVE  /\ Troves' \in TrovesT
           /\ OwnersOK(Troves', TroveOwners', sortedTroves')
           /\ Len(TroveOwners') = Len(TroveOwners) - 1
<1> DEFINE n == Len(TroveOwners)
           moved == TroveOwners[n]
           index == Troves[b].arrayIndex
<1>1. /\ n \in Nat /\ n > 1 /\ index \in Nat /\ index + 1 \in 1..n /\ TroveOwners[index + 1] = b
      /\ moved \in Accounts /\ Troves[moved].status = "active" /\ Troves[moved].arrayIndex + 1 = n
      /\ TroveOwners \in Seq(Accounts)
      <2>1. n \in Nat /\ n > 1 /\ TroveOwners \in Seq(Accounts)
            BY DEF OwnersOK
      <2>2. index + 1 \in 1..n /\ TroveOwners[index + 1] = b
            BY DEF OwnersOK, isActive
      <2>3. index \in Nat
            BY DEF TrovesT, TroveT
      <2>4. n \in 1..n
            BY <2>1
      <2>5. Troves[moved].status = "active" /\ Troves[moved].arrayIndex + 1 = n
            BY <2>4 DEF OwnersOK
      <2>6. moved \in Accounts
            BY <2>1, <2>4
      <2> HIDE DEF n, moved, index
      <2> QED BY <2>1, <2>2, <2>3, <2>5, <2>6
<1>2. moved = Last(TroveOwners)
      BY DEF Last
<1>3. /\ Troves' \in TrovesT
      /\ Troves'[b].status = st
      /\ Troves'[b].debt = 0 /\ Troves'[b].coll = 0 /\ Troves'[b].stake = 0
      /\ \A x \in Accounts \ {b, moved} : Troves'[x] = Troves[x]
      /\ moved # b => /\ Troves'[moved].status = "active"
                      /\ Troves'[moved].arrayIndex = index
      <2>1. Troves' = [[Troves EXCEPT ![b] = [debt |-> 0, coll |-> 0, stake |-> 0,
                                              status |-> st, arrayIndex |-> index]]
                          EXCEPT ![moved].arrayIndex = index]
            BY <1>2 DEF _closeTrove, _closed
      <2> DEFINE t == [Troves EXCEPT ![b] = [debt |-> 0, coll |-> 0, stake |-> 0,
                                             status |-> st, arrayIndex |-> index]]
      <2> HIDE DEF n, moved, index
      <2>2. st \in Statuses
            OBVIOUS
      <2>3. [debt |-> 0, coll |-> 0, stake |-> 0, status |-> st, arrayIndex |-> index] \in TroveT
            BY <2>2, <1>1 DEF TroveT
      <2>4. /\ t \in TrovesT
            /\ t[b] = [debt |-> 0, coll |-> 0, stake |-> 0, status |-> st, arrayIndex |-> index]
            /\ \A x \in Accounts \ {b} : t[x] = Troves[x]
            BY <2>3 DEF TrovesT
      <2>5. Troves' = [t EXCEPT ![moved] = [t[moved] EXCEPT !.arrayIndex = index]]
            BY <2>1
      <2> HIDE DEF t
      <2>6. t[moved] \in TroveT
            BY <2>4, <1>1 DEF TrovesT
      <2>7. /\ [t[moved] EXCEPT !.arrayIndex = index] \in TroveT
            /\ [t[moved] EXCEPT !.arrayIndex = index].status = t[moved].status
            /\ [t[moved] EXCEPT !.arrayIndex = index].debt = t[moved].debt
            /\ [t[moved] EXCEPT !.arrayIndex = index].coll = t[moved].coll
            /\ [t[moved] EXCEPT !.arrayIndex = index].stake = t[moved].stake
            /\ [t[moved] EXCEPT !.arrayIndex = index].arrayIndex = index
            BY <2>6, <1>1 DEF TroveT
      <2> DEFINE m == [t[moved] EXCEPT !.arrayIndex = index]
      <2> HIDE DEF m
      <2>8. /\ Troves' \in TrovesT
            /\ Troves'[moved] = m
            /\ \A x \in Accounts \ {moved} : Troves'[x] = t[x]
            BY <2>4, <2>5, <2>7, <1>1 DEF TrovesT, m
      <2>9. /\ m.status = t[moved].status /\ m.debt = t[moved].debt /\ m.coll = t[moved].coll
            /\ m.stake = t[moved].stake /\ m.arrayIndex = index
            BY <2>7 DEF m
      <2>10. CASE moved = b
            BY <2>4, <2>8, <2>9, <2>10
      <2>11. CASE moved # b
            BY <2>4, <2>8, <2>9, <2>11, <1>1
      <2> QED BY <2>10, <2>11
<1>4. /\ TroveOwners' \in Seq(Accounts) /\ Len(TroveOwners') = n - 1
      /\ \A i \in 1..n - 1 : TroveOwners'[i] = IF i = index + 1 THEN moved ELSE TroveOwners[i]
      <2> DEFINE o == [TroveOwners EXCEPT ![index + 1] = moved]
      <2>1. TroveOwners' = SubSeq(o, 1, Len(o) - 1)
            BY <1>2 DEF _closeTrove, Front
      <2>2. o \in Seq(Accounts) /\ Len(o) = n
            /\ \A i \in 1..n : o[i] = IF i = index + 1 THEN moved ELSE TroveOwners[i]
            <3> HIDE DEF moved, index
            <3> QED BY <1>1
      <2> HIDE DEF o, n, moved, index
      <2> QED BY <2>1, <2>2, <1>1
<1>5. PICK k \in 1..Len(sortedTroves) : sortedTroves[k] = b
      BY DEF OwnersOK, isActive
<1>6. /\ sortedTroves' \in Seq(Accounts) /\ Len(sortedTroves') = n - 1
      /\ \A i \in 1..n - 1 : sortedTroves'[i] = IF i < k THEN sortedTroves[i] ELSE sortedTroves[i + 1]
      BY <1>5, RemoveFirstElements DEF OwnersOK, _closeTrove
<1> HIDE DEF n, moved, index
<1>7. /\ sortedTroves \in Seq(Accounts) /\ Len(sortedTroves) = n /\ NoRepeats(sortedTroves)
      BY DEF OwnersOK, n
<1>8. \A x \in Accounts : Troves'[x].status = "active" <=> Troves[x].status = "active" /\ x # b
      BY <1>1, <1>3 DEF isActive
<1>9. NoRepeats(sortedTroves')
      <2> SUFFICES ASSUME NEW i \in 1..n - 1, NEW j \in 1..n - 1, sortedTroves'[i] = sortedTroves'[j]
                   PROVE  i = j
          BY <1>6 DEF NoRepeats
      <2> DEFINE up(m) == IF m < k THEN m ELSE m + 1
      <2>1. /\ sortedTroves'[i] = sortedTroves[up(i)] /\ sortedTroves'[j] = sortedTroves[up(j)]
            /\ up(i) \in 1..n /\ up(j) \in 1..n
            BY <1>1, <1>6, <1>7
      <2>2. up(i) = up(j)
            BY <2>1, <1>7 DEF NoRepeats
      <2> QED BY <2>2, <1>1, <1>7
<1>10. ASSUME NEW x \in Accounts, Troves'[x].status = "active"
       PROVE  \E i \in 1..n - 1 : sortedTroves'[i] = x
      <2>1. PICK j \in 1..n : sortedTroves[j] = x
            BY <1>7, <1>8, <1>10 DEF OwnersOK
      <2>2. j # k
            BY <2>1, <1>5, <1>8, <1>10
      <2>3. CASE j < k
            <3>1. j \in 1..n - 1
                  BY <2>3, <1>1, <1>7
            <3> QED BY <3>1, <2>1, <2>3, <1>6
      <2>4. CASE j > k
            <3>1. j - 1 \in 1..n - 1 /\ ~(j - 1 < k) /\ j - 1 + 1 = j
                  BY <2>4, <1>1, <1>7
            <3> QED BY <3>1, <2>1, <1>6
      <2> QED BY <2>2, <2>3, <2>4, <1>7
<1>11. ASSUME NEW x \in Accounts, Troves'[x].status = "active"
       PROVE  Troves'[x].arrayIndex + 1 \in 1..n - 1 /\ TroveOwners'[Troves'[x].arrayIndex + 1] = x
      <2>1. x # b /\ Troves[x].status = "active"
            BY <1>8, <1>11
      <2>2. CASE x = moved
            <3>1. Troves'[x].arrayIndex = index /\ index + 1 # n
                  BY <2>1, <2>2, <1>1, <1>3 DEF moved
            <3> QED BY <2>2, <3>1, <1>1, <1>4
      <2>3. CASE x # moved
            <3> DEFINE i == Troves[x].arrayIndex + 1
            <3>1. i \in 1..n /\ TroveOwners[i] = x
                  BY <2>1 DEF OwnersOK, n
            <3>2. i # n /\ i # index + 1
                  BY <2>1, <2>3, <3>1, <1>1 DEF moved
            <3>3. Troves'[x].arrayIndex + 1 = i
                  BY <2>1, <2>3, <1>3
            <3> HIDE DEF i
            <3> QED BY <3>1, <3>2, <3>3, <1>1, <1>4
      <2> QED BY <2>2, <2>3
<1>12. ASSUME NEW i \in 1..n - 1
       PROVE  Troves'[TroveOwners'[i]].status = "active" /\ Troves'[TroveOwners'[i]].arrayIndex + 1 = i
      <2>1. i \in 1..n /\ i # n
            BY <1>1
      <2>2. CASE i = index + 1
            <3>1. moved # b
                  <4>1. moved = b => index + 1 = n
                        BY <1>1 DEF index
                  <4> QED BY <4>1, <2>1, <2>2
            <3> QED BY <2>2, <3>1, <1>3, <1>4
      <2>3. CASE i # index + 1
            <3> DEFINE x == TroveOwners[i]
            <3>1. x \in Accounts /\ Troves[x].status = "active" /\ Troves[x].arrayIndex + 1 = i
                  BY <2>1 DEF OwnersOK, n
            <3>2. x # b /\ x # moved
                  <4>1. x = b => i = index + 1
                        BY <3>1 DEF index
                  <4>2. x = moved => i = n
                        BY <3>1, <1>1
                  <4> QED BY <4>1, <4>2, <2>1, <2>3
            <3>3. Troves'[x] = Troves[x] /\ TroveOwners'[i] = x
                  BY <2>3, <3>1, <3>2, <1>3, <1>4
            <3> HIDE DEF x
            <3> QED BY <3>1, <3>3
      <2> QED BY <2>2, <2>3
<1>13. ASSUME NEW i \in 1..n - 1
       PROVE  Troves'[sortedTroves'[i]].status = "active"
      <2> DEFINE m == IF i < k THEN i ELSE i + 1
      <2>1. m \in 1..n /\ m # k /\ sortedTroves'[i] = sortedTroves[m]
            BY <1>1, <1>6, <1>7
      <2> HIDE DEF m
      <2>2. sortedTroves[m] # b /\ sortedTroves[m] \in Accounts
            BY <2>1, <1>5, <1>7 DEF NoRepeats
      <2>3. Troves[sortedTroves[m]].status = "active"
            BY <2>1, <1>7 DEF OwnersOK
      <2> QED BY <2>1, <2>2, <2>3, <1>8
<1>14. ASSUME NEW x \in Accounts, Troves'[x].status # "active"
       PROVE  Troves'[x].debt = 0 /\ Troves'[x].coll = 0 /\ Troves'[x].stake = 0
      <2>1. CASE x = b
            BY <2>1, <1>3
      <2>2. CASE x # b
            <3>1. Troves[x].status # "active" /\ x # moved
                  BY <2>2, <1>1, <1>8, <1>14
            <3>2. Troves'[x] = Troves[x]
                  BY <2>2, <3>1, <1>3
            <3> QED BY <3>1, <3>2 DEF OwnersOK
      <2> QED BY <2>1, <2>2
<1>15. OwnersOK(Troves', TroveOwners', sortedTroves')
      BY <1>4, <1>6, <1>9, <1>10, <1>11, <1>12, <1>13, <1>14 DEF OwnersOK
<1> QED BY <1>3, <1>4, <1>15 DEF n

\* An insertion, wherever it lands.
LEMMA InsertionKeepsList ==
    ASSUME NEW s \in Seq(Accounts), NoRepeats(s), NEW e \in Accounts,
           \A i \in 1..Len(s) : s[i] # e, NEW N, NEW t \in _inserted(s, e, N)
    PROVE  /\ t \in Seq(Accounts) /\ Len(t) = Len(s) + 1 /\ NoRepeats(t)
           /\ \E i \in 1..Len(t) : t[i] = e
           /\ \A j \in 1..Len(s) : \E i \in 1..Len(t) : t[i] = s[j]
           /\ \A i \in 1..Len(t) : t[i] = e \/ \E j \in 1..Len(s) : t[i] = s[j]
<1> DEFINE n == Len(s)
<1>0. n \in Nat
      OBVIOUS
<1>1. PICK j \in 0..Len(s) : t = InsertAt(s, j + 1, e)
      BY DEF _inserted
<1> DEFINE k == j + 1
<1>2. k \in 1..n + 1
      BY <1>0
<1> HIDE DEF k
<1>3. t = InsertAt(s, k, e)
      BY <1>1 DEF k
<1>4. /\ t \in Seq(Accounts) /\ Len(t) = n + 1
      /\ \A i \in 1..n + 1 : t[i] = IF i < k THEN s[i] ELSE IF i = k THEN e ELSE s[i - 1]
      <2> DEFINE u == InsertAt(s, k, e)
      <2>1. /\ u \in Seq(Accounts) /\ Len(u) = Len(s) + 1
            /\ \A i \in 1..Len(s) + 1 :
                  u[i] = IF i < k THEN s[i] ELSE IF i = k THEN e ELSE s[i - 1]
            BY <1>2, InsertAtElements
      <2> HIDE DEF u
      <2>2. t = u
            BY <1>3 DEF u
      <2> QED BY <2>1, <2>2
<1> HIDE DEF n
<1>5. NoRepeats(t)
      <2> SUFFICES ASSUME NEW x \in 1..n + 1, NEW y \in 1..n + 1, t[x] = t[y]
                   PROVE  x = y
          BY <1>4 DEF NoRepeats
      <2> DEFINE d(m) == IF m < k THEN m ELSE m - 1
      <2>1. \A m \in 1..n + 1 : m # k => d(m) \in 1..n /\ t[m] = s[d(m)]
            BY <1>0, <1>2, <1>4
      <2>2. x = k <=> y = k
            <3>1. t[k] = e
                  BY <1>2, <1>4
            <3> QED BY <3>1, <2>1 DEF n
      <2>3. CASE x # k
            <3>1. s[d(x)] = s[d(y)] /\ d(x) \in 1..n /\ d(y) \in 1..n
                  BY <2>1, <2>2, <2>3
            <3>2. d(x) = d(y)
                  BY <3>1 DEF NoRepeats, n
            <3> QED BY <3>2, <2>2, <2>3, <1>2, <1>0
      <2> QED BY <2>2, <2>3
<1>6. \E i \in 1..Len(t) : t[i] = e
      BY <1>2, <1>4
<1>7. ASSUME NEW m \in 1..n PROVE \E i \in 1..Len(t) : t[i] = s[m]
      <2>1. CASE m < k
            BY <2>1, <1>0, <1>4
      <2>2. CASE ~(m < k)
            <3>1. m + 1 \in 1..n + 1 /\ ~(m + 1 < k) /\ m + 1 # k /\ m + 1 - 1 = m
                  BY <2>2, <1>0, <1>2
            <3>2. t[m + 1] = s[m]
                  BY <3>1, <1>4
            <3> QED BY <3>1, <3>2, <1>4
      <2> QED BY <2>1, <2>2
<1>8. ASSUME NEW i \in 1..n + 1 PROVE t[i] = e \/ \E m \in 1..n : t[i] = s[m]
      <2>1. CASE i < k
            <3>1. i \in 1..n
                  BY <2>1, <1>2, <1>0
            <3> QED BY <2>1, <3>1, <1>4
      <2>2. CASE i = k
            BY <2>2, <1>4
      <2>3. CASE ~(i < k) /\ i # k
            <3>1. i - 1 \in 1..n /\ t[i] = s[i - 1]
                  BY <2>3, <1>2, <1>0, <1>4
            <3> QED BY <3>1
      <2> QED BY <2>1, <2>2, <2>3
<1> QED BY <1>4, <1>5, <1>6, <1>7, <1>8 DEF n

\* Opening a trove.
LEMMA OpenKeepsOwners ==
    ASSUME Troves \in TrovesT, OwnersOK(Troves, TroveOwners, sortedTroves),
           NEW b \in Accounts, ~isActive(b), NEW N,
           Troves' \in TrovesT, Troves'[b].status = "active",
           Troves'[b].arrayIndex = Len(TroveOwners),
           \A x \in Accounts \ {b} : Troves'[x] = Troves[x],
           TroveOwners' = Append(TroveOwners, b),
           sortedTroves' \in _inserted(sortedTroves, b, N)
    PROVE  OwnersOK(Troves', TroveOwners', sortedTroves')
<1> DEFINE n == Len(TroveOwners)
<1>1. /\ n \in Nat /\ TroveOwners \in Seq(Accounts) /\ sortedTroves \in Seq(Accounts)
      /\ Len(sortedTroves) = n /\ NoRepeats(sortedTroves)
      BY DEF OwnersOK
<1>2. /\ TroveOwners' \in Seq(Accounts) /\ Len(TroveOwners') = n + 1 /\ TroveOwners'[n + 1] = b
      /\ \A i \in 1..n : TroveOwners'[i] = TroveOwners[i]
      BY <1>1
<1>3. \A i \in 1..n : sortedTroves[i] # b /\ TroveOwners[i] # b
      BY <1>1 DEF OwnersOK, isActive
<1>4. \A i \in 1..n : sortedTroves[i] \in Accounts /\ TroveOwners[i] \in Accounts
      BY <1>1
<1>5. /\ sortedTroves' \in Seq(Accounts) /\ Len(sortedTroves') = n + 1 /\ NoRepeats(sortedTroves')
      /\ \E i \in 1..n + 1 : sortedTroves'[i] = b
      /\ \A j \in 1..n : \E i \in 1..n + 1 : sortedTroves'[i] = sortedTroves[j]
      /\ \A i \in 1..n + 1 : sortedTroves'[i] = b \/ \E j \in 1..n : sortedTroves'[i] = sortedTroves[j]
      BY <1>1, <1>3, InsertionKeepsList
<1>6. /\ \A x \in Accounts : Troves[x].status = "active" =>
            /\ Troves[x].arrayIndex + 1 \in 1..n /\ TroveOwners[Troves[x].arrayIndex + 1] = x
            /\ \E i \in 1..n : sortedTroves[i] = x
      /\ \A i \in 1..n : Troves[TroveOwners[i]].status = "active" /\ Troves[TroveOwners[i]].arrayIndex + 1 = i
      /\ \A i \in 1..n : Troves[sortedTroves[i]].status = "active"
      /\ \A x \in Accounts : Troves[x].status # "active" =>
            Troves[x].debt = 0 /\ Troves[x].coll = 0 /\ Troves[x].stake = 0
      BY <1>1 DEF OwnersOK
<1> HIDE DEF n
<1>7. ASSUME NEW x \in Accounts, Troves'[x].status = "active"
      PROVE  /\ Troves'[x].arrayIndex + 1 \in 1..n + 1
             /\ TroveOwners'[Troves'[x].arrayIndex + 1] = x
             /\ \E i \in 1..n + 1 : sortedTroves'[i] = x
      <2>1. CASE x = b
            BY <2>1, <1>1, <1>2, <1>5 DEF n
      <2>2. CASE x # b
            <3>1. Troves[x].status = "active" /\ Troves'[x] = Troves[x]
                  BY <2>2, <1>7
            <3>2. PICK i \in 1..n : sortedTroves[i] = x
                  BY <3>1, <1>6
            <3>3. \E j \in 1..n + 1 : sortedTroves'[j] = x
                  BY <3>2, <1>5
            <3>4. Troves[x].arrayIndex + 1 \in 1..n /\ TroveOwners[Troves[x].arrayIndex + 1] = x
                  BY <3>1, <1>6
            <3> QED BY <3>1, <3>3, <3>4, <1>1, <1>2
      <2> QED BY <2>1, <2>2
<1>8. ASSUME NEW i \in 1..n + 1
      PROVE  Troves'[TroveOwners'[i]].status = "active" /\ Troves'[TroveOwners'[i]].arrayIndex + 1 = i
      <2>1. CASE i = n + 1
            BY <2>1, <1>2 DEF n
      <2>2. CASE i # n + 1
            <3>1. i \in 1..n
                  BY <2>2, <1>1
            <3> QED BY <3>1, <1>2, <1>3, <1>4, <1>6
      <2> QED BY <2>1, <2>2
<1>9. ASSUME NEW i \in 1..n + 1
      PROVE  Troves'[sortedTroves'[i]].status = "active"
      <2>1. CASE sortedTroves'[i] = b
            BY <2>1
      <2>2. CASE \E j \in 1..n : sortedTroves'[i] = sortedTroves[j]
            <3>1. PICK j \in 1..n : sortedTroves'[i] = sortedTroves[j]
                  BY <2>2
            <3>2. sortedTroves[j] \in Accounts \ {b} /\ Troves[sortedTroves[j]].status = "active"
                  BY <1>3, <1>4, <1>6
            <3> QED BY <3>1, <3>2
      <2> QED BY <2>1, <2>2, <1>5
<1>10. \A x \in Accounts : Troves'[x].status # "active" =>
            Troves'[x].debt = 0 /\ Troves'[x].coll = 0 /\ Troves'[x].stake = 0
      BY <1>6
<1> QED BY <1>2, <1>5, <1>7, <1>8, <1>9, <1>10 DEF OwnersOK

\* Moving a trove to another place in the list.
LEMMA ReInsertKeepsOwners ==
    ASSUME NEW t \in TrovesT, NEW o, NEW s, OwnersOK(t, o, s),
           NEW b \in Accounts, t[b].status = "active",
           NEW N, NEW u \in _inserted(RemoveFirst(s, b), b, N)
    PROVE  /\ OwnersOK(t, o, u)
           /\ \A i \in 1..Len(s) : \E j \in 1..Len(u) : u[j] = s[i]
<1> DEFINE n == Len(s)
           r == RemoveFirst(s, b)
<1>1. n \in Nat /\ s \in Seq(Accounts) /\ NoRepeats(s) /\ Len(o) = n
      BY DEF OwnersOK
<1>2. PICK k \in 1..n : s[k] = b
      BY <1>1 DEF OwnersOK
<1>3. /\ r \in Seq(Accounts) /\ Len(r) = n - 1
      /\ \A i \in 1..n - 1 : r[i] = IF i < k THEN s[i] ELSE s[i + 1]
      BY <1>1, <1>2, RemoveFirstElements
<1> HIDE DEF r, n
<1>4. NoRepeats(r)
      <2> SUFFICES ASSUME NEW i \in 1..n - 1, NEW j \in 1..n - 1, r[i] = r[j]
                   PROVE  i = j
          BY <1>3 DEF NoRepeats
      <2> DEFINE up(m) == IF m < k THEN m ELSE m + 1
      <2>1. r[i] = s[up(i)] /\ r[j] = s[up(j)] /\ up(i) \in 1..n /\ up(j) \in 1..n
            BY <1>1, <1>2, <1>3
      <2>2. up(i) = up(j)
            BY <2>1, <1>1 DEF NoRepeats, n
      <2> QED BY <2>2, <1>1
<1>5. ASSUME NEW i \in 1..n - 1
      PROVE  r[i] # b /\ \E m \in 1..n : r[i] = s[m]
      <2> DEFINE m == IF i < k THEN i ELSE i + 1
      <2>1. m \in 1..n /\ m # k /\ r[i] = s[m]
            BY <1>1, <1>2, <1>3
      <2> HIDE DEF m
      <2>2. s[m] # b
            BY <2>1, <1>1, <1>2 DEF NoRepeats, n
      <2> QED BY <2>1, <2>2
<1>6. ASSUME NEW m \in 1..n, s[m] # b
      PROVE  \E i \in 1..n - 1 : r[i] = s[m]
      <2>1. CASE m < k
            <3>1. m \in 1..n - 1
                  BY <2>1, <1>1, <1>2
            <3> QED BY <2>1, <3>1, <1>3
      <2>2. CASE m > k
            <3>1. m - 1 \in 1..n - 1 /\ ~(m - 1 < k) /\ m - 1 + 1 = m
                  BY <2>2, <1>1, <1>2
            <3> QED BY <3>1, <1>3
      <2> QED BY <2>1, <2>2, <1>6, <1>1, <1>2
<1>7. /\ u \in Seq(Accounts) /\ Len(u) = n /\ NoRepeats(u)
      /\ \E i \in 1..n : u[i] = b
      /\ \A j \in 1..n - 1 : \E i \in 1..n : u[i] = r[j]
      /\ \A i \in 1..n : u[i] = b \/ \E j \in 1..n - 1 : u[i] = r[j]
      <2>1. n - 1 + 1 = n
            BY <1>1
      <2>2. u \in _inserted(r, b, N)
            BY DEF r
      <2>3. \A i \in 1..Len(r) : r[i] # b
            BY <1>3, <1>5
      <2>4. /\ u \in Seq(Accounts) /\ Len(u) = Len(r) + 1 /\ NoRepeats(u)
            /\ \E i \in 1..Len(u) : u[i] = b
            /\ \A j \in 1..Len(r) : \E i \in 1..Len(u) : u[i] = r[j]
            /\ \A i \in 1..Len(u) : u[i] = b \/ \E j \in 1..Len(r) : u[i] = r[j]
            BY <2>2, <2>3, <1>3, <1>4, InsertionKeepsList
      <2>5. Len(r) = n - 1 /\ Len(u) = n
            BY <2>1, <2>4, <1>3
      <2> QED BY <2>4, <2>5
<1>8. \A m \in 1..n : \E i \in 1..n : u[i] = s[m]
      BY <1>6, <1>7
<1>9. ASSUME NEW i \in 1..n
      PROVE  \E m \in 1..n : u[i] = s[m]
      <2>1. CASE u[i] = b
            BY <2>1, <1>2
      <2>2. CASE \E j \in 1..n - 1 : u[i] = r[j]
            BY <2>2, <1>5
      <2> QED BY <2>1, <2>2, <1>7
<1>10. /\ \A x \in Accounts : t[x].status = "active" => \E i \in 1..n : u[i] = x
       /\ \A i \in 1..n : t[u[i]].status = "active"
      <2>1. /\ \A x \in Accounts : t[x].status = "active" => \E i \in 1..n : s[i] = x
            /\ \A i \in 1..n : t[s[i]].status = "active"
            BY DEF OwnersOK, n
      <2>2. ASSUME NEW x \in Accounts, t[x].status = "active" PROVE \E i \in 1..n : u[i] = x
            <3>1. PICK m \in 1..n : s[m] = x
                  BY <2>1, <2>2
            <3> QED BY <3>1, <1>8
      <2>3. ASSUME NEW i \in 1..n PROVE t[u[i]].status = "active"
            <3>1. PICK m \in 1..n : u[i] = s[m]
                  BY <1>9
            <3> QED BY <3>1, <2>1
      <2> QED BY <2>2, <2>3
<1>11. OwnersOK(t, o, u)
      BY <1>1, <1>7, <1>10 DEF OwnersOK, n
<1> QED BY <1>7, <1>8, <1>11 DEF n

\* The neighbour of a listed trove that is not the first is listed, and stays so when
\* the trove goes.
LEMMA PreviousIsListed ==
    ASSUME sortedTroves \in Seq(Accounts), NoRepeats(sortedTroves),
           NEW k \in 1..Len(sortedTroves)
    PROVE  _getPrev(sortedTroves[k]) = IF k = 1 THEN NULL ELSE sortedTroves[k - 1]
<1>1. (CHOOSE j \in DOMAIN sortedTroves : sortedTroves[j] = sortedTroves[k]) = k
      BY DEF NoRepeats
<1>2. _getPrev(sortedTroves[k]) =
         LET m == CHOOSE j \in DOMAIN sortedTroves : sortedTroves[j] = sortedTroves[k]
         IN IF m = 1 THEN NULL ELSE sortedTroves[m - 1]
      BY DEF _getPrev
<1> QED BY <1>1, <1>2

-----------------------------------------------------------------------------
(* The invariant.                                                          *)

SnapshotsT == [Accounts -> PairT]
SurplusT == [Accounts -> Int]
EntireT == [debt : Int, coll : Int]
ValsT == [debt : Int, coll : Int, gas : Int, debtToOffset : Int, collToSendToSP : Int,
          debtToRedistribute : Int, collToRedistribute : Int, collSurplus : Int]
PreT == [Troves : TrovesT, rewardSnapshots : SnapshotsT, TroveOwners : Seq(Accounts),
         sortedTroves : Seq(Accounts), totalStakes : Int, funds : FundsT, SIMDebt : DebtT,
         surplus : SurplusT]
LoopNames == {"sequenceNormal", "sequenceRecovery", "batchNormal", "batchRecovery", "settle"}
LiquidationFrame ==
    [at : LoopNames, caller : Accounts, troveArray : Seq(Accounts), n : Int,
     user : Accounts \cup {NULL}, firstUser : Accounts \cup {NULL}, remainingSIM : Int,
     entireSystemDebt : Int, entireSystemColl : Int, backToNormalMode : BOOLEAN,
     totals : ValsT, pre : PreT]
RedemptionFrame ==
    [at : {"redeem", "redeemed"}, caller : Accounts, maxFee : Int, n : Int,
     user : Accounts \cup {NULL}, totalSIMSupplyAtStart : Int, remainingSIM : Int,
     SIMToRedeem : Int, WSTETHDrawn : Int, pre : PreT]

PoolsTyped ==
    /\ funds \in FundsT
    /\ SIMDebt \in DebtT
    /\ surplus \in SurplusT
    /\ totalSIMDeposits \in Int
    /\ simToken \in SIMT
TrovesTyped ==
    /\ Troves \in TrovesT
    /\ rewardSnapshots \in SnapshotsT
    /\ totalStakes \in Int
LedgersTyped ==
    /\ totalStakesSnapshot \in Int
    /\ totalCollateralSnapshot \in Int
    /\ L \in PairT
    /\ lastError \in PairT
ClockTyped ==
    /\ baseRate \in Int
    /\ now \in 0..MaxTime
    /\ lastFeeOperationTime \in 0..now
    /\ price \in Prices
Typed == PoolsTyped /\ TrovesTyped /\ LedgersTyped /\ ClockTyped

\* The loops that walk the list stay in it.
Walks(f, s) ==
    /\ f.at = "sequenceRecovery" =>
          \/ f.user = f.firstUser
          \/ /\ Len(s) > 0 /\ f.firstUser = s[1]
             /\ \E k \in 1..Len(s) : s[k] = f.user
    /\ f.at = "redeem" => f.user = NULL \/ \E k \in 1..Len(s) : s[k] = f.user

FrameOK(f, o, s) ==
    /\ f \in LiquidationFrame \cup RedemptionFrame
    /\ OwnersOK(f.pre.Troves, f.pre.TroveOwners, f.pre.sortedTroves)
    /\ Len(o) <= Len(f.pre.TroveOwners)
    /\ Walks(f, s)

IInv ==
    /\ Typed
    /\ OwnersOK(Troves, TroveOwners, sortedTroves)
    /\ tx = idle \/ FrameOK(tx, TroveOwners, sortedTroves)

\* A step does not close the last trove.
NotEmptied == Len(TroveOwners) >= 1 => Len(TroveOwners') >= 1

\* Frame a has moved from trove b to the one before it, in the loop that walks the list.
StepsBack(a, b, s) ==
    a.at = "sequenceRecovery" =>
        \E k \in 2..Len(s) : s[k] = b /\ a.user = s[k - 1] /\ a.firstUser = s[1]

-----------------------------------------------------------------------------
(* Types of the views.                                                     *)

\* What the proofs use of the system constants of Base.sol.
LEMMA PositiveConstants ==
    /\ DECIMAL_PRECISION \in Int /\ DECIMAL_PRECISION > 0
    /\ NICR_PRECISION \in Int /\ MAX_UINT \in Int /\ MCR \in Int /\ CCR \in Int
    /\ DECIMAL_PRECISION < MCR /\ MCR < CCR /\ CCR < MAX_UINT
    /\ MIN_NET_DEBT \in Int /\ MIN_NET_DEBT > 0
    /\ PERCENT_DIVISOR \in Int /\ PERCENT_DIVISOR > 0
    /\ FEE_FLOOR \in Int /\ MAX_BORROWING_FEE \in Int
    /\ BETA \in Int /\ BETA > 0
BY PrecisionAssumption, RatioAssumption, FeeAssumption

\* A ratio is an integer, and only a trove with debt has one below MCR (_computeCR).
LEMMA RatioTyped ==
    ASSUME NEW c \in Int, NEW d \in Int, NEW p \in Int
    PROVE  _computeCR(c, d, p) \in Int /\ (_computeCR(c, d, p) < MCR => d > 0)
BY PositiveConstants, DivInt DEF _computeCR

\* Pending rewards are integers.
LEMMA RewardTyped ==
    ASSUME Typed, NEW b \in Accounts, NEW asset \in {"WSTETH", "SIMDebt"}
    PROVE  _pendingReward(b, asset) \in Int /\ _appliedReward(b, asset) \in Int
<1>1. Troves[b].stake \in Int /\ L[asset] \in Int /\ rewardSnapshots[b][asset] \in Int
      BY DEF Typed, TrovesTyped, LedgersTyped, TrovesT, TroveT, SnapshotsT, PairT
<1>2. Troves[b].stake * (L[asset] - rewardSnapshots[b][asset]) \in Int
      BY <1>1
<1>3. _pendingReward(b, asset) \in Int
      BY <1>2, DivInt, PositiveConstants DEF _pendingReward
<1> QED BY <1>3 DEF _appliedReward

\* The views of a trove, with its pending rewards counted in, have their types.
LEMMA ViewsTyped ==
    ASSUME Typed, NEW b \in Accounts
    PROVE  /\ getEntireDebtAndColl(b) \in EntireT
           /\ getCurrentICR(b) \in Int
           /\ getCurrentICR(b) < MCR => getEntireDebtAndColl(b).debt > 0
           /\ _debtNow(b) \in Int /\ _collNow(b) \in Int
           /\ _snapshotsAfterApply(b) \in SnapshotsT
<1>1. Troves[b].debt \in Int /\ Troves[b].coll \in Int
      BY DEF Typed, TrovesTyped, TrovesT, TroveT
<1>2. price \in Int
      BY PricesAssumption DEF Typed, ClockTyped
<1>3. getEntireDebtAndColl(b) \in EntireT
      BY <1>1, RewardTyped DEF getEntireDebtAndColl, EntireT
<1>4. /\ getCurrentICR(b) \in Int
      /\ getCurrentICR(b) < MCR => getEntireDebtAndColl(b).debt > 0
      BY <1>2, <1>3, RatioTyped DEF getCurrentICR, EntireT
<1>5. _debtNow(b) \in Int /\ _collNow(b) \in Int
      BY <1>1, RewardTyped DEF _debtNow, _collNow
<1>6. _snapshotsAfterApply(b) \in SnapshotsT
      BY DEF _snapshotsAfterApply, Typed, TrovesTyped, LedgersTyped, SnapshotsT
<1> QED BY <1>3, <1>4, <1>5, <1>6

\* Only an active trove can be below MCR.
LEMMA LowRatioIsActive ==
    ASSUME Typed, OwnersOK(Troves, TroveOwners, sortedTroves), NEW b \in Accounts,
           getCurrentICR(b) < MCR
    PROVE  isActive(b)
<1> SUFFICES ASSUME ~isActive(b) PROVE FALSE
    OBVIOUS
<1>1. Troves[b].debt = 0 /\ _pendingReward(b, "SIMDebt") = 0
      BY DEF OwnersOK, isActive, _pendingReward
<1>2. getEntireDebtAndColl(b).debt = 0
      BY <1>1 DEF getEntireDebtAndColl
<1> QED BY <1>2, ViewsTyped

\* A new stake is an integer (_computeNewStake).
LEMMA StakeTyped ==
    ASSUME Typed, NEW c \in Int
    PROVE  _computeNewStake(c) \in Int
BY DivInt DEF _computeNewStake, Typed, LedgersTyped

\* The decayed base rate is an integer.
LEMMA RateTyped ==
    ASSUME Typed
    PROVE  _calcDecayedBaseRate \in Int
<1>1. now - lastFeeOperationTime \in 0..MaxTime
      BY AmountsAssumption DEF Typed, ClockTyped
<1>2. DecayFactor(now - lastFeeOperationTime) \in Int
      BY <1>1, DecayAssumption, PositiveConstants
<1>3. baseRate * DecayFactor(now - lastFeeOperationTime) \in Int
      BY <1>2 DEF Typed, ClockTyped
<1> QED BY <1>3, DivInt, PositiveConstants DEF _calcDecayedBaseRate

\* A borrowing fee is an integer.
LEMMA FeeTyped ==
    ASSUME Typed, NEW x \in Int
    PROVE  _borrowingFee(x) \in Int
<1>1. _min(FEE_FLOOR + _calcDecayedBaseRate, MAX_BORROWING_FEE) \in Int
      BY RateTyped, PositiveConstants DEF _min
<1>2. _min(FEE_FLOOR + _calcDecayedBaseRate, MAX_BORROWING_FEE) * x \in Int
      BY <1>1
<1> QED BY <1>2, DivInt, PositiveConstants DEF _borrowingFee, _calcBorrowingFee

-----------------------------------------------------------------------------
(* Types of what a liquidation counts.                                     *)

\* Empty liquidation values are liquidation values.
LEMMA ZeroTyped == zeroVals \in ValsT
BY DEF zeroVals, ValsT

\* Adding a trove's values to the totals gives totals.
LEMMA TotalsTyped ==
    ASSUME NEW t \in ValsT, NEW v \in ValsT
    PROVE  _addLiquidationValuesToTotals(t, v) \in ValsT
BY DEF _addLiquidationValuesToTotals, ValsT

\* The liquidator's share of a trove is an integer.
LEMMA GasTyped ==
    ASSUME NEW c \in Int
    PROVE  _getCollGasCompensation(c) \in Int
BY DivInt, PositiveConstants DEF _getCollGasCompensation

\* Values of a liquidation that offsets x and redistributes the rest: the division by
\* the trove's debt is one by a positive number.
LEMMA OffsetTyped ==
    ASSUME NEW e \in EntireT, NEW x \in Int, x > 0 => e.debt > 0
    PROVE  _offsetAndRedistribute(e, x) \in ValsT
<1> DEFINE gas == _getCollGasCompensation(e.coll)
           coll == e.coll - gas
           offset == _min(e.debt, x)
           toSP == IF x > 0 THEN (coll * offset) \div e.debt ELSE 0
<1>1. e.debt \in Int /\ e.coll \in Int
      BY DEF EntireT
<1>2. gas \in Int /\ offset \in Int
      BY <1>1, GasTyped DEF _min
<1>3. coll \in Int
      BY <1>1, <1>2
<1>4. coll * offset \in Int
      BY <1>2, <1>3
<1>5. toSP \in Int
      BY <1>1, <1>4, DivInt
<1>6. _offsetAndRedistribute(e, x) =
         [zeroVals EXCEPT !.debt = e.debt, !.coll = e.coll, !.gas = gas,
            !.debtToOffset = offset, !.collToSendToSP = toSP,
            !.debtToRedistribute = e.debt - offset, !.collToRedistribute = coll - toSP]
      BY Zenon DEF _offsetAndRedistribute
<1> HIDE DEF gas, coll, offset, toSP
<1>7. _offsetAndRedistribute(e, x) =
         [debt |-> e.debt, coll |-> e.coll, gas |-> gas, debtToOffset |-> offset,
          collToSendToSP |-> toSP, debtToRedistribute |-> e.debt - offset,
          collToRedistribute |-> coll - toSP, collSurplus |-> 0]
      BY <1>6 DEF zeroVals
<1> QED BY <1>1, <1>2, <1>3, <1>5, <1>7 DEF ValsT

\* Values of a liquidation capped at MCR (_getCappedOffsetVals).
LEMMA CappedTyped ==
    ASSUME NEW e \in EntireT, price \in Prices
    PROVE  _cappedOffset(e) \in ValsT
<1> DEFINE capped == (e.debt * MCR) \div price
           gas == _getCollGasCompensation(capped)
<1>1. e.debt \in Int /\ e.coll \in Int /\ price \in Int /\ price > 0
      BY PricesAssumption DEF EntireT
<1>2. e.debt * MCR \in Int
      BY <1>1, PositiveConstants
<1>3. capped \in Int
      BY <1>1, <1>2, DivInt
<1>4. gas \in Int
      BY <1>3, GasTyped
<1>5. _cappedOffset(e) =
         [zeroVals EXCEPT !.debt = e.debt, !.coll = e.coll, !.gas = gas,
            !.debtToOffset = e.debt, !.collToSendToSP = capped - gas,
            !.collSurplus = e.coll - capped]
      BY Zenon DEF _cappedOffset
<1> HIDE DEF gas, capped
<1>6. _cappedOffset(e) =
         [debt |-> e.debt, coll |-> e.coll, gas |-> gas, debtToOffset |-> e.debt,
          collToSendToSP |-> capped - gas, debtToRedistribute |-> 0,
          collToRedistribute |-> 0, collSurplus |-> e.coll - capped]
      BY <1>5 DEF zeroVals
<1> QED BY <1>1, <1>3, <1>4, <1>6 DEF ValsT

\* Values of a liquidation in normal mode.
LEMMA NormalValsTyped ==
    ASSUME Typed, NEW b \in Accounts, NEW x \in Int, getCurrentICR(b) < MCR
    PROVE  _normalModeVals(b, x) \in ValsT
BY ViewsTyped, OffsetTyped DEF _normalModeVals

\* Values of a liquidation in recovery mode, whichever of its branches is taken.
LEMMA RecoveryValsTyped ==
    ASSUME Typed, NEW b \in Accounts, NEW x \in Int, NEW TCR
    PROVE  _recoveryModeVals(b, x, TCR) \in ValsT
<1> DEFINE e == getEntireDebtAndColl(b)
           ICR == getCurrentICR(b)
<1>1. e \in EntireT /\ ICR \in Int /\ (ICR < MCR => e.debt > 0)
      BY ViewsTyped
<1>2. ICR <= DECIMAL_PRECISION => e.debt > 0
      BY <1>1, PositiveConstants
<1>3. _offsetAndRedistribute(e, 0) \in ValsT
      BY <1>1, OffsetTyped
<1>4. ICR < MCR => _offsetAndRedistribute(e, x) \in ValsT
      BY <1>1, OffsetTyped
<1>5. _cappedOffset(e) \in ValsT
      BY <1>1, CappedTyped DEF Typed, ClockTyped
<1> QED BY <1>3, <1>4, <1>5, ZeroTyped DEF _recoveryModeVals

-----------------------------------------------------------------------------
(* Steps of a transaction under way.                                       *)

\* A transaction that reverts puts back the state it started from.
LEMMA RevertKeeps ==
    ASSUME IInv, tx # idle, Revert
    PROVE  IInv' /\ NotEmptied
<1>1. FrameOK(tx, TroveOwners, sortedTroves)
      BY DEF IInv
<1>2. tx.pre \in PreT
      BY <1>1 DEF FrameOK, LiquidationFrame, RedemptionFrame
<1>3. PoolsTyped'
      BY <1>2 DEF PreT, Revert, IInv, Typed, PoolsTyped
<1>4. TrovesTyped'
      BY <1>2 DEF PreT, Revert, TrovesTyped
<1>5. LedgersTyped' /\ ClockTyped'
      BY DEF Revert, ledgerVars, rateVars, IInv, Typed, LedgersTyped, ClockTyped
<1>6. OwnersOK(Troves', TroveOwners', sortedTroves') /\ Len(TroveOwners) <= Len(TroveOwners')
      BY <1>1 DEF FrameOK, Revert
<1>7. tx' = idle
      BY DEF Revert
<1>8. Len(TroveOwners) \in Nat /\ Len(TroveOwners') \in Nat
      BY <1>6 DEF IInv, OwnersOK
<1> QED BY <1>3, <1>4, <1>5, <1>6, <1>7, <1>8 DEF IInv, Typed, NotEmptied

\* A step that only changes the frame.
LEMMA GoOnKeeps ==
    ASSUME IInv, NEW f, FrameOK(f, TroveOwners, sortedTroves), _goOn(f)
    PROVE  IInv' /\ NotEmptied
<1>1. /\ tx' = f
      /\ UNCHANGED <<funds, SIMDebt, surplus, totalSIMDeposits, simToken>>
      /\ UNCHANGED <<Troves, rewardSnapshots, TroveOwners, sortedTroves, totalStakes>>
      /\ UNCHANGED <<totalStakesSnapshot, totalCollateralSnapshot, L, lastError>>
      /\ UNCHANGED <<baseRate, lastFeeOperationTime, price, now>>
      BY DEF _goOn, poolVars, troveVars, ledgerVars, rateVars
<1>2. Typed'
      BY <1>1 DEF IInv, Typed, PoolsTyped, TrovesTyped, LedgersTyped, ClockTyped
<1>3. FrameOK(tx, TroveOwners, sortedTroves)'
      BY <1>1 DEF FrameOK, Walks
<1>4. OwnersOK(Troves, TroveOwners, sortedTroves)'
      BY <1>1 DEF IInv, OwnersOK
<1> QED BY <1>1, <1>2, <1>3, <1>4 DEF IInv, NotEmptied

\* What closing trove b does to the typed state (_removeStake, _closeTrove).
LEMMA ClosingKeeps ==
    ASSUME IInv, NEW b \in Accounts, isActive(b), _moreThanOneTroveInSystem,
           NEW st \in Statuses \ {"active"}, _closeTrove(b, st)
    PROVE  /\ TrovesTyped'
           /\ OwnersOK(Troves', TroveOwners', sortedTroves')
           /\ Len(TroveOwners') = Len(TroveOwners) - 1
           /\ NotEmptied
<1>1. Len(TroveOwners) \in Nat /\ Len(TroveOwners) > 1
      BY DEF _moreThanOneTroveInSystem, IInv, OwnersOK
<1>2. /\ Troves' \in TrovesT
      /\ OwnersOK(Troves', TroveOwners', sortedTroves')
      /\ Len(TroveOwners') = Len(TroveOwners) - 1
      BY <1>1, CloseKeepsOwners DEF IInv, Typed, TrovesTyped
<1>3. Troves[b].stake \in Int
      BY DEF IInv, Typed, TrovesTyped, TrovesT, TroveT
<1>4. totalStakes' \in Int
      BY <1>3 DEF _closeTrove, IInv, Typed, TrovesTyped
<1>5. rewardSnapshots' \in SnapshotsT
      BY DEF _closeTrove, IInv, Typed, TrovesTyped, SnapshotsT, PairT, zeroPair
<1> QED BY <1>1, <1>2, <1>4, <1>5 DEF TrovesTyped, NotEmptied

\* The loop that walks the list is still in it after trove b is gone.
LEMMA WalkSurvivesClosing ==
    ASSUME IInv, NEW b \in Accounts, NEW st, _closeTrove(b, st), NEW a, a.at # "redeem",
           StepsBack(a, b, sortedTroves)
    PROVE  Walks(a, sortedTroves')
<1> SUFFICES ASSUME a.at = "sequenceRecovery"
             PROVE  /\ Len(sortedTroves') > 0 /\ a.firstUser = sortedTroves'[1]
                    /\ \E k \in 1..Len(sortedTroves') : sortedTroves'[k] = a.user
    BY DEF Walks
<1>1. sortedTroves \in Seq(Accounts) /\ NoRepeats(sortedTroves)
      BY DEF IInv, OwnersOK
<1>2. PICK k \in 2..Len(sortedTroves) : /\ sortedTroves[k] = b /\ a.user = sortedTroves[k - 1]
                                        /\ a.firstUser = sortedTroves[1]
      BY DEF StepsBack
<1>3. sortedTroves' = RemoveFirst(sortedTroves, b)
      BY DEF _closeTrove
<1>4. Len(sortedTroves) \in Nat /\ k \in 1..Len(sortedTroves)
      BY <1>1
<1>5. /\ Len(sortedTroves') = Len(sortedTroves) - 1
      /\ \A i \in 1..Len(sortedTroves) - 1 :
            sortedTroves'[i] = IF i < k THEN sortedTroves[i] ELSE sortedTroves[i + 1]
      BY <1>1, <1>2, <1>3, <1>4, RemoveFirstElements
<1> DEFINE j == k - 1
<1>6. j \in 1..Len(sortedTroves) - 1 /\ j < k /\ 1 < k /\ 1 \in 1..Len(sortedTroves) - 1
      BY <1>4
<1>7. a.user = sortedTroves[j]
      BY <1>2
<1> HIDE DEF j
<1>8. sortedTroves'[1] = sortedTroves[1] /\ sortedTroves'[j] = sortedTroves[j]
      BY <1>5, <1>6
<1> QED BY <1>2, <1>4, <1>5, <1>6, <1>7, <1>8

\* Moving pending rewards from the default to the active pool keeps the types.
LEMMA MoveTyped ==
    ASSUME Typed, NEW x \in Int
    PROVE  _debtAfterMove(x) \in DebtT /\ _fundsAfterMove(x) \in FundsT
<1>1. _debtAfterMove(x) \in DebtT
      BY DEF Typed, PoolsTyped, DebtT, _debtAfterMove, changeSIMDebt
<1>2. _fundsAfterMove(x) \in FundsT
      BY FundsTyped DEF Typed, PoolsTyped, _fundsAfterMove
<1> QED BY <1>1, <1>2

\* One trove is liquidated, or the transaction reverts because it is the last one.
LEMMA LiquidateTroveKeeps ==
    ASSUME IInv, tx \in LiquidationFrame, NEW b \in Accounts, isActive(b), NEW v \in ValsT,
           NEW a \in LiquidationFrame, a.pre = tx.pre, StepsBack(a, b, sortedTroves),
           _liquidateTrove(b, v, a)
    PROVE  IInv' /\ NotEmptied
<1>0. tx # idle /\ FrameOK(tx, TroveOwners, sortedTroves)
      BY DEF IInv, LiquidationFrame, LoopNames, idle
<1>1. CASE ~_moreThanOneTroveInSystem
      BY <1>0, <1>1, RevertKeeps DEF _liquidateTrove
<1>2. CASE _moreThanOneTroveInSystem
      <2>1. _closeTrove(b, "closedByLiquidation")
            BY <1>2 DEF _liquidateTrove
      <2>2. "closedByLiquidation" \in Statuses \ {"active"}
            BY DEF Statuses
      <2>3. /\ TrovesTyped' /\ OwnersOK(Troves', TroveOwners', sortedTroves')
            /\ Len(TroveOwners') = Len(TroveOwners) - 1 /\ NotEmptied
            BY <1>2, <2>1, <2>2, ClosingKeeps
      <2>4. /\ SIMDebt' = _debtAfterMove(_pendingReward(b, "SIMDebt"))
            /\ funds' = _fundsAfterMove(_pendingReward(b, "WSTETH"))
            /\ surplus' = [surplus EXCEPT ![b] = @ + v.collSurplus]
            /\ tx' = [a EXCEPT !.remainingSIM = @ - v.debtToOffset,
                               !.totals = _addLiquidationValuesToTotals(@, v)]
            /\ UNCHANGED <<totalSIMDeposits, simToken, ledgerVars, rateVars, price, now>>
            BY <1>2 DEF _liquidateTrove
      <2>5. Typed
            BY DEF IInv
      <2>6. SIMDebt' \in DebtT /\ funds' \in FundsT
            BY <2>4, <2>5, MoveTyped, RewardTyped
      <2>7. surplus' \in SurplusT
            BY <2>4, <2>5 DEF Typed, PoolsTyped, SurplusT, ValsT
      <2>8. PoolsTyped'
            BY <2>4, <2>5, <2>6, <2>7 DEF Typed, PoolsTyped
      <2>9. LedgersTyped' /\ ClockTyped'
            BY <2>4, <2>5 DEF Typed, LedgersTyped, ClockTyped, ledgerVars, rateVars
      <2>10. _addLiquidationValuesToTotals(a.totals, v) \in ValsT /\ v.debtToOffset \in Int
            BY TotalsTyped DEF LiquidationFrame, ValsT
      <2>11. /\ tx' \in LiquidationFrame /\ tx'.at = a.at /\ tx'.user = a.user
             /\ tx'.firstUser = a.firstUser /\ tx'.pre = tx.pre
            <3> DEFINE t == _addLiquidationValuesToTotals(a.totals, v)
                       d == a.remainingSIM - v.debtToOffset
            <3>1. tx' = [a EXCEPT !.remainingSIM = d, !.totals = t]
                  BY <2>4
            <3>2. d \in Int /\ t \in ValsT
                  BY <2>10 DEF LiquidationFrame
            <3> HIDE DEF d, t
            <3> QED BY <3>1, <3>2 DEF LiquidationFrame
      <2>12. a.at # "redeem"
            BY DEF LiquidationFrame, LoopNames
      <2>13. Walks(a, sortedTroves')
            BY <2>1, <2>12, WalkSurvivesClosing
      <2>14. Walks(tx', sortedTroves')
            BY <2>11, <2>13 DEF Walks
      <2>15. Len(TroveOwners') <= Len(tx.pre.TroveOwners)
            <3>1. TroveOwners \in Seq(Accounts)
                  BY DEF IInv, OwnersOK
            <3>2. tx.pre.TroveOwners \in Seq(Accounts)
                  BY <1>0 DEF OwnersOK, FrameOK
            <3>3. Len(TroveOwners) \in Nat /\ Len(tx.pre.TroveOwners) \in Nat
                  BY <3>1, <3>2
            <3> QED BY <1>0, <2>3, <3>3 DEF FrameOK
      <2>16. FrameOK(tx', TroveOwners', sortedTroves')
            BY <1>0, <2>11, <2>14, <2>15 DEF FrameOK
      <2> QED BY <2>3, <2>8, <2>9, <2>16 DEF IInv, Typed
<1> QED BY <1>1, <1>2

\* The end of a loop.
LEMMA BreakKeeps ==
    ASSUME IInv, tx \in LiquidationFrame, _break
    PROVE  IInv' /\ NotEmptied
<1> DEFINE f == [tx EXCEPT !.at = "settle"]
<1>1. f \in LiquidationFrame /\ f.at = "settle" /\ f.pre = tx.pre
      BY DEF LiquidationFrame, LoopNames
<1>2. FrameOK(tx, TroveOwners, sortedTroves)
      BY DEF IInv, LiquidationFrame, LoopNames, idle
<1>3. _goOn(f)
      BY DEF _break
<1> HIDE DEF f
<1>4. FrameOK(f, TroveOwners, sortedTroves)
      BY <1>1, <1>2 DEF FrameOK, Walks
<1> QED BY <1>3, <1>4, GoOnKeeps

\* A loop goes on to the next trove with nothing done.
LEMMA SkipKeeps ==
    ASSUME IInv, tx \in LiquidationFrame, NEW b, NEW a \in LiquidationFrame, a.pre = tx.pre,
           StepsBack(a, b, sortedTroves), _goOn(a)
    PROVE  IInv' /\ NotEmptied
<1>1. FrameOK(tx, TroveOwners, sortedTroves)
      BY DEF IInv, LiquidationFrame, LoopNames, idle
<1>2. Walks(a, sortedTroves)
      <2> SUFFICES ASSUME a.at = "sequenceRecovery"
                   PROVE  /\ Len(sortedTroves) > 0 /\ a.firstUser = sortedTroves[1]
                          /\ \E k \in 1..Len(sortedTroves) : sortedTroves[k] = a.user
          BY DEF Walks, LiquidationFrame, LoopNames
      <2>1. PICK k \in 2..Len(sortedTroves) : /\ a.user = sortedTroves[k - 1]
                                              /\ a.firstUser = sortedTroves[1]
            BY DEF StepsBack
      <2>2. Len(sortedTroves) \in Nat
            BY DEF IInv, OwnersOK
      <2>3. k - 1 \in 1..Len(sortedTroves) /\ Len(sortedTroves) > 0
            BY <2>2
      <2> QED BY <2>1, <2>3
<1>3. FrameOK(a, TroveOwners, sortedTroves)
      BY <1>1, <1>2 DEF FrameOK
<1> QED BY <1>3, GoOnKeeps

\* An iteration in recovery mode.
LEMMA RecoveryIterationKeeps ==
    ASSUME IInv, tx \in LiquidationFrame, NEW b \in Accounts, isActive(b),
           NEW a \in LiquidationFrame, a.pre = tx.pre, StepsBack(a, b, sortedTroves),
           _iterateRecovery(b, a)
    PROVE  IInv' /\ NotEmptied
<1> DEFINE TCR == _computeCR(tx.entireSystemColl, tx.entireSystemDebt, price)
           v == _recoveryModeVals(b, tx.remainingSIM, TCR)
           debt == tx.entireSystemDebt - v.debtToOffset
           coll == tx.entireSystemColl - v.collToSendToSP - v.gas - v.collSurplus
           back == ~_checkPotentialRecoveryMode(coll, debt, price)
           f == [a EXCEPT !.entireSystemDebt = debt, !.entireSystemColl = coll,
                          !.backToNormalMode = back]
<1>1. IF v = zeroVals THEN _goOn(f) ELSE _liquidateTrove(b, v, f)
      BY Zenon DEF _iterateRecovery
<1>2. /\ tx.remainingSIM \in Int /\ tx.entireSystemDebt \in Int /\ tx.entireSystemColl \in Int
      BY DEF LiquidationFrame
<1>3. Typed
      BY DEF IInv
<1>4. v \in ValsT
      BY <1>2, <1>3, RecoveryValsTyped
<1> HIDE DEF v
<1>5. debt \in Int /\ coll \in Int
      BY <1>2, <1>4 DEF ValsT
<1>6. back \in BOOLEAN
      BY DEF _checkPotentialRecoveryMode
<1> HIDE DEF debt, coll, back
<1>7. f \in LiquidationFrame /\ f.at = a.at /\ f.user = a.user /\ f.firstUser = a.firstUser /\ f.pre = a.pre
      BY <1>5, <1>6 DEF LiquidationFrame
<1> HIDE DEF f
<1>8. StepsBack(f, b, sortedTroves)
      BY <1>7 DEF StepsBack
<1> QED BY <1>1, <1>4, <1>7, <1>8, SkipKeeps, LiquidateTroveKeeps

\* An iteration in normal mode.
LEMMA NormalIterationKeeps ==
    ASSUME IInv, tx \in LiquidationFrame, NEW b \in Accounts, getCurrentICR(b) < MCR,
           NEW a \in LiquidationFrame, a.pre = tx.pre, StepsBack(a, b, sortedTroves),
           _iterateNormal(b, a)
    PROVE  IInv' /\ NotEmptied
<1>1. isActive(b)
      BY LowRatioIsActive DEF IInv
<1>2. tx.remainingSIM \in Int
      BY DEF LiquidationFrame
<1>3. _normalModeVals(b, tx.remainingSIM) \in ValsT
      BY <1>2, NormalValsTyped DEF IInv
<1> QED BY <1>1, <1>3, LiquidateTroveKeeps DEF _iterateNormal

\* The last trove of the list is an account's.
LEMMA LastIsAccount ==
    ASSUME IInv
    PROVE  /\ getLast \in Accounts \cup {NULL} /\ getFirst \in Accounts \cup {NULL}
           /\ sortedTroves # << >> => /\ getFirst = sortedTroves[1]
                                      /\ getLast = sortedTroves[Len(sortedTroves)]
                                      /\ Len(sortedTroves) \in 1..Len(sortedTroves)
           /\ sortedTroves = << >> => getLast = NULL /\ getFirst = NULL
<1>1. sortedTroves \in Seq(Accounts)
      BY DEF IInv, OwnersOK
<1>2. CASE sortedTroves = << >>
      BY <1>2 DEF getLast, getFirst
<1>3. CASE sortedTroves # << >>
      <2>1. getFirst = sortedTroves[1] /\ getLast = sortedTroves[Len(sortedTroves)]
            BY <1>1, <1>3 DEF getLast, getFirst, Last
      <2>2. Len(sortedTroves) \in 1..Len(sortedTroves) /\ 1 \in 1..Len(sortedTroves)
            BY <1>1, <1>3
      <2>3. sortedTroves[1] \in Accounts /\ sortedTroves[Len(sortedTroves)] \in Accounts
            BY <1>1, <2>2
      <2> QED BY <1>3, <2>1, <2>2, <2>3
<1> QED BY <1>2, <1>3

\* liquidateTroves in normal mode.
LEMMA SequenceNormalKeeps ==
    ASSUME IInv, tx \in LiquidationFrame, SequenceNormalMode
    PROVE  IInv' /\ NotEmptied
<1> DEFINE a == [tx EXCEPT !.n = @ - 1]
<1>1. tx.at = "sequenceNormal"
      BY DEF SequenceNormalMode
<1>2. a \in LiquidationFrame /\ a.at = "sequenceNormal" /\ a.pre = tx.pre
      BY <1>1 DEF LiquidationFrame
<1>3. \/ _break
      \/ getLast # NULL /\ getCurrentICR(getLast) < MCR /\ _iterateNormal(getLast, a)
      BY DEF SequenceNormalMode
<1> HIDE DEF a
<1>4. CASE _break
      BY <1>4, BreakKeeps
<1>5. CASE getLast # NULL /\ getCurrentICR(getLast) < MCR /\ _iterateNormal(getLast, a)
      <2>1. getLast \in Accounts
            BY <1>5, LastIsAccount
      <2>2. StepsBack(a, getLast, sortedTroves)
            BY <1>2 DEF StepsBack
      <2> QED BY <1>2, <1>5, <2>1, <2>2, NormalIterationKeeps
<1> QED BY <1>3, <1>4, <1>5

\* liquidateTroves in recovery mode: the walk from the last trove towards the first,
\* over troves that are still listed.
LEMMA SequenceRecoveryKeeps ==
    ASSUME IInv, tx \in LiquidationFrame, SequenceRecoveryMode
    PROVE  IInv' /\ NotEmptied
<1> DEFINE b == tx.user
           a == [tx EXCEPT !.n = @ - 1, !.user = _getPrev(tx.user)]
<1>1. tx.at = "sequenceRecovery"
      BY DEF SequenceRecoveryMode
<1>2. \/ _break
      \/ /\ b # tx.firstUser
         /\ \/ _iterateRecovery(b, a)
            \/ getCurrentICR(b) < MCR /\ _iterateNormal(b, a)
      BY DEF SequenceRecoveryMode
<1>3. CASE _break
      BY <1>3, BreakKeeps
<1>4. CASE /\ b # tx.firstUser
           /\ \/ _iterateRecovery(b, a)
              \/ getCurrentICR(b) < MCR /\ _iterateNormal(b, a)
      <2>1. OwnersOK(Troves, TroveOwners, sortedTroves) /\ Walks(tx, sortedTroves)
            BY DEF IInv, FrameOK, LiquidationFrame, LoopNames, idle
      <2>2. sortedTroves \in Seq(Accounts) /\ NoRepeats(sortedTroves)
            BY <2>1 DEF OwnersOK
      <2>3. /\ Len(sortedTroves) > 0 /\ tx.firstUser = sortedTroves[1]
            /\ \E k \in 1..Len(sortedTroves) : sortedTroves[k] = b
            BY <1>1, <1>4, <2>1 DEF Walks
      <2>4. PICK k \in 1..Len(sortedTroves) : sortedTroves[k] = b
            BY <2>3
      <2>5. k # 1
            BY <1>4, <2>3, <2>4
      <2>6. Len(sortedTroves) \in Nat
            BY <2>2
      <2>7. k \in 2..Len(sortedTroves) /\ k - 1 \in 1..Len(sortedTroves)
            BY <2>5, <2>6
      <2>8. b \in Accounts /\ sortedTroves[k - 1] \in Accounts
            BY <2>2, <2>4, <2>7
      <2>9. isActive(b)
            BY <2>1, <2>4 DEF OwnersOK, isActive
      <2>10. _getPrev(b) = sortedTroves[k - 1]
            BY <2>2, <2>4, <2>5, PreviousIsListed
      <2>11. /\ a \in LiquidationFrame /\ a.pre = tx.pre /\ a.user = sortedTroves[k - 1]
             /\ a.firstUser = tx.firstUser
            <3> DEFINE q == sortedTroves[k - 1]
            <3>1. a = [tx EXCEPT !.n = tx.n - 1, !.user = q] /\ q \in Accounts
                  BY <2>8, <2>10
            <3> HIDE DEF q, a
            <3>2. tx.n - 1 \in Int
                  BY DEF LiquidationFrame
            <3>3. a \in LiquidationFrame /\ a.pre = tx.pre /\ a.user = q /\ a.firstUser = tx.firstUser
                  BY <3>1, <3>2 DEF LiquidationFrame
            <3> QED BY <3>3 DEF q
      <2> HIDE DEF a, b
      <2>12. StepsBack(a, b, sortedTroves)
            BY <2>3, <2>4, <2>7, <2>11 DEF StepsBack
      <2> QED BY <1>4, <2>8, <2>9, <2>11, <2>12, RecoveryIterationKeeps, NormalIterationKeeps
<1> QED BY <1>2, <1>3, <1>4

\* The frame of a batch, moved to the next element of the array.
LEMMA BatchAdvances ==
    ASSUME tx \in LiquidationFrame, tx.troveArray # << >>, tx.at # "sequenceRecovery"
    PROVE  /\ Head(tx.troveArray) \in Accounts
           /\ [tx EXCEPT !.troveArray = Tail(@)] \in LiquidationFrame
           /\ [tx EXCEPT !.troveArray = Tail(@)].pre = tx.pre
           /\ \A b : StepsBack([tx EXCEPT !.troveArray = Tail(@)], b, sortedTroves)
<1>1. tx.troveArray \in Seq(Accounts)
      BY DEF LiquidationFrame
<1>2. Head(tx.troveArray) \in Accounts /\ Tail(tx.troveArray) \in Seq(Accounts)
      BY <1>1
<1>3. /\ [tx EXCEPT !.troveArray = Tail(@)] \in LiquidationFrame
      /\ [tx EXCEPT !.troveArray = Tail(@)].pre = tx.pre
      /\ [tx EXCEPT !.troveArray = Tail(@)].at = tx.at
      BY <1>2 DEF LiquidationFrame
<1> QED BY <1>2, <1>3 DEF StepsBack

\* batchLiquidateTroves in normal mode; an address that is given twice has no ratio
\* below MCR the second time.
LEMMA BatchNormalKeeps ==
    ASSUME IInv, tx \in LiquidationFrame, BatchNormalMode
    PROVE  IInv' /\ NotEmptied
<1> DEFINE b == Head(tx.troveArray)
           a == [tx EXCEPT !.troveArray = Tail(@)]
<1>1. tx.at = "batchNormal"
      BY DEF BatchNormalMode
<1>2. CASE tx.troveArray = << >>
      BY <1>2, BreakKeeps DEF BatchNormalMode
<1>3. CASE tx.troveArray # << >>
      <2>1. IF getCurrentICR(b) < MCR THEN _iterateNormal(b, a) ELSE _goOn(a)
            BY <1>3 DEF BatchNormalMode
      <2>2. b \in Accounts /\ a \in LiquidationFrame /\ a.pre = tx.pre /\ StepsBack(a, b, sortedTroves)
            BY <1>1, <1>3, BatchAdvances
      <2> HIDE DEF a, b
      <2> QED BY <2>1, <2>2, NormalIterationKeeps, SkipKeeps
<1> QED BY <1>2, <1>3

\* batchLiquidateTroves in recovery mode.
LEMMA BatchRecoveryKeeps ==
    ASSUME IInv, tx \in LiquidationFrame, BatchRecoveryMode
    PROVE  IInv' /\ NotEmptied
<1> DEFINE b == Head(tx.troveArray)
           a == [tx EXCEPT !.troveArray = Tail(@)]
<1>1. tx.at = "batchRecovery"
      BY DEF BatchRecoveryMode
<1>2. CASE tx.troveArray = << >>
      BY <1>2, BreakKeeps DEF BatchRecoveryMode
<1>3. CASE tx.troveArray # << >>
      <2>1. \/ isActive(b) /\ _iterateRecovery(b, a)
            \/ getCurrentICR(b) < MCR /\ _iterateNormal(b, a)
            \/ _goOn(a)
            BY <1>3 DEF BatchRecoveryMode
      <2>2. b \in Accounts /\ a \in LiquidationFrame /\ a.pre = tx.pre /\ StepsBack(a, b, sortedTroves)
            BY <1>1, <1>3, BatchAdvances
      <2> HIDE DEF a, b
      <2> QED BY <2>1, <2>2, RecoveryIterationKeeps, NormalIterationKeeps, SkipKeeps
<1> QED BY <1>2, <1>3

\* The end of a liquidation: only pools, ledgers and tokens change.
LEMMA LiquidationSettlesKeeps ==
    ASSUME IInv, tx \in LiquidationFrame, LiquidationSettles
    PROVE  IInv' /\ NotEmptied
<1>0. tx # idle
      BY DEF LiquidationFrame, LoopNames, idle
<1> DEFINE settles == tx.totals.debt > 0 /\ (tx.totals.debtToRedistribute > 0 => totalStakes > 0)
<1>1. CASE ~settles
      BY <1>0, <1>1, RevertKeeps DEF LiquidationSettles
<1>2. CASE settles
      <2>1. /\ totalSIMDeposits' = totalSIMDeposits - _offsetDebt
            /\ simToken' = burn(simToken, "stabilityPool", _offsetDebt)
            /\ SIMDebt' = _debtAfterSettling
            /\ funds' = sendWSTETH(_fundsAfterSurplus, tx.caller, tx.totals.gas)
            /\ _redistributeDebtAndColl
            /\ _updateSystemSnapshots_excludeCollRemainder
            /\ tx' = idle
            /\ UNCHANGED <<surplus, troveVars, rateVars, price, now>>
            BY <1>2 DEF LiquidationSettles
      <2>2. /\ tx.totals.gas \in Int /\ tx.totals.debtToOffset \in Int
            /\ tx.totals.collToSendToSP \in Int /\ tx.totals.debtToRedistribute \in Int
            /\ tx.totals.collToRedistribute \in Int /\ tx.totals.collSurplus \in Int
            BY DEF LiquidationFrame, ValsT
      <2>3. Typed
            BY DEF IInv
      <2>4. _offsetDebt \in Int
            BY <2>2 DEF _offsetDebt
      <2>5. _fundsAfterOffset \in FundsT
            BY <2>2, <2>3, FundsTyped DEF _fundsAfterOffset, Typed, PoolsTyped
      <2>6. _fundsAfterRedistribution \in FundsT
            BY <2>2, <2>5, FundsTyped DEF _fundsAfterRedistribution
      <2>7. _fundsAfterSurplus \in FundsT
            BY <2>2, <2>6, FundsTyped DEF _fundsAfterSurplus
      <2>8. funds' \in FundsT
            BY <2>1, <2>2, <2>7, FundsTyped
      <2>9. "stabilityPool" \in SIMHolders
            BY DEF SIMHolders, SIMContracts
      <2>10. simToken' \in SIMT
            BY <2>1, <2>3, <2>4, <2>9, SIMTyped DEF Typed, PoolsTyped
      <2>11. SIMDebt' \in DebtT
            BY <2>1, <2>2, <2>3, <2>4 DEF Typed, PoolsTyped, DebtT, _debtAfterSettling, changeSIMDebt
      <2>12. totalSIMDeposits' \in Int /\ surplus' = surplus
            BY <2>1, <2>3, <2>4 DEF Typed, PoolsTyped
      <2>13. PoolsTyped'
            BY <2>3, <2>8, <2>10, <2>11, <2>12 DEF PoolsTyped, Typed
      <2>14. totalStakesSnapshot' \in Int /\ totalCollateralSnapshot' \in Int
            <3>1. /\ _fundsAfterSurplus.counter["activePool"] \in Int
                  /\ _fundsAfterSurplus.counter["defaultPool"] \in Int
                  BY <2>7 DEF FundsT, PoolNames
            <3> QED BY <2>1, <2>2, <2>3, <3>1
                    DEF _updateSystemSnapshots_excludeCollRemainder, Typed, TrovesTyped
      <2>15. L' \in PairT /\ lastError' \in PairT
            <3> DEFINE W == tx.totals.collToRedistribute * DECIMAL_PRECISION + lastError.WSTETH
                       S == tx.totals.debtToRedistribute * DECIMAL_PRECISION + lastError.SIMDebt
            <3>1. L \in PairT /\ lastError \in PairT /\ totalStakes \in Int
                  BY <2>3 DEF Typed, LedgersTyped, TrovesTyped
            <3>2. W \in Int /\ S \in Int
                  BY <2>2, <3>1, PositiveConstants DEF PairT
            <3>3. IF tx.totals.debtToRedistribute > 0
                  THEN /\ L' = [WSTETH |-> L.WSTETH + W \div totalStakes,
                                SIMDebt |-> L.SIMDebt + S \div totalStakes]
                       /\ lastError' = [WSTETH |-> W % totalStakes, SIMDebt |-> S % totalStakes]
                  ELSE UNCHANGED <<L, lastError>>
                  BY <2>1, Zenon DEF _redistributeDebtAndColl
            <3> HIDE DEF W, S
            <3>4. CASE ~(tx.totals.debtToRedistribute > 0)
                  BY <3>1, <3>3, <3>4
            <3>5. CASE tx.totals.debtToRedistribute > 0
                  <4>1. totalStakes > 0
                        BY <1>2, <3>5
                  <4>2. /\ W \div totalStakes \in Int /\ S \div totalStakes \in Int
                        /\ W % totalStakes \in Int /\ S % totalStakes \in Int
                        BY <3>1, <3>2, <4>1
                  <4> QED BY <3>1, <3>3, <3>5, <4>2 DEF PairT
            <3> QED BY <3>4, <3>5
      <2>16. LedgersTyped'
            BY <2>14, <2>15 DEF LedgersTyped
      <2>17. TrovesTyped' /\ ClockTyped' /\ OwnersOK(Troves', TroveOwners', sortedTroves')
             /\ TroveOwners' = TroveOwners
            BY <2>1 DEF IInv, Typed, TrovesTyped, ClockTyped, troveVars, rateVars
      <2> QED BY <2>1, <2>13, <2>16, <2>17 DEF IInv, Typed, NotEmptied
<1> QED BY <1>1, <1>2

-----------------------------------------------------------------------------
(* Steps of a redemption.                                                  *)

\* The trove a redemption has come to is listed and active, and so is the one before
\* it, if there is one.
LEMMA RedeemedTroveIsListed ==
    ASSUME IInv, tx \in RedemptionFrame, _redeems
    PROVE  /\ tx.user \in Accounts /\ isActive(tx.user)
           /\ \E k \in 1..Len(sortedTroves) :
                 /\ sortedTroves[k] = tx.user
                 /\ _getPrev(tx.user) = IF k = 1 THEN NULL ELSE sortedTroves[k - 1]
           /\ _getPrev(tx.user) \in Accounts \cup {NULL}
<1>1. OwnersOK(Troves, TroveOwners, sortedTroves) /\ Walks(tx, sortedTroves)
      BY DEF IInv, FrameOK, RedemptionFrame, idle
<1>2. tx.at = "redeem" /\ tx.user # NULL
      BY DEF _redeems
<1>3. PICK k \in 1..Len(sortedTroves) : sortedTroves[k] = tx.user
      BY <1>1, <1>2 DEF Walks
<1>4. sortedTroves \in Seq(Accounts) /\ NoRepeats(sortedTroves)
      BY <1>1 DEF OwnersOK
<1>5. tx.user \in Accounts
      BY <1>3, <1>4
<1>6. isActive(tx.user)
      BY <1>1, <1>3 DEF OwnersOK, isActive
<1>7. _getPrev(tx.user) = IF k = 1 THEN NULL ELSE sortedTroves[k - 1]
      BY <1>3, <1>4, PreviousIsListed
<1>8. k # 1 => k - 1 \in 1..Len(sortedTroves)
      BY <1>4
<1>9. k # 1 => sortedTroves[k - 1] \in Accounts
      BY <1>4, <1>8
<1> QED BY <1>3, <1>5, <1>6, <1>7, <1>9

\* The lot drawn from a trove and the frame after it.
LEMMA DrawnTyped ==
    ASSUME Typed, tx \in RedemptionFrame, tx.user \in Accounts, NEW q \in Accounts \cup {NULL}
    PROVE  /\ _SIMLot \in Int /\ _WSTETHLot \in Int
           /\ _drawn(q) \in RedemptionFrame /\ _drawn(q).at = tx.at /\ _drawn(q).user = q
           /\ _drawn(q).pre = tx.pre
<1>1. /\ tx.remainingSIM \in Int /\ tx.n \in Int /\ tx.SIMToRedeem \in Int /\ tx.WSTETHDrawn \in Int
      BY DEF RedemptionFrame
<1>2. _SIMLot \in Int
      BY <1>1, ViewsTyped DEF _SIMLot, _min
<1>3. price \in Int /\ price > 0
      BY PricesAssumption DEF Typed, ClockTyped
<1>4. _SIMLot * DECIMAL_PRECISION \in Int
      BY <1>2, PositiveConstants
<1>5. _WSTETHLot \in Int
      BY <1>3, <1>4, DivInt DEF _WSTETHLot
<1>6. /\ tx.n - 1 \in Int /\ tx.remainingSIM - _SIMLot \in Int
      /\ tx.SIMToRedeem + _SIMLot \in Int /\ tx.WSTETHDrawn + _WSTETHLot \in Int
      BY <1>1, <1>2, <1>5
<1>7. /\ _drawn(q) \in RedemptionFrame /\ _drawn(q).at = tx.at /\ _drawn(q).user = q
      /\ _drawn(q).pre = tx.pre
      BY <1>6 DEF _drawn, RedemptionFrame
<1> QED BY <1>2, <1>5, <1>7

\* A redemption closes a trove whose debt it redeems whole.
LEMMA RedeemWholeKeeps ==
    ASSUME IInv, tx \in RedemptionFrame, RedeemWholeTrove
    PROVE  IInv' /\ NotEmptied
<1> DEFINE b == tx.user
           left == _collNow(b) - _WSTETHLot
           q == _getPrev(b)
<1>0. tx # idle /\ _redeems /\ Typed /\ FrameOK(tx, TroveOwners, sortedTroves)
      BY DEF RedeemWholeTrove, RedemptionFrame, idle, IInv
<1>1. b \in Accounts /\ isActive(b) /\ q \in Accounts \cup {NULL}
      BY <1>0, RedeemedTroveIsListed
<1>2. CASE ~(left >= 0 /\ _moreThanOneTroveInSystem)
      BY <1>0, <1>2, RevertKeeps DEF RedeemWholeTrove
<1>3. CASE left >= 0 /\ _moreThanOneTroveInSystem
      <2>1. /\ _closeTrove(b, "closedByRedemption")
            /\ SIMDebt' = _debtAfterMove(_appliedReward(b, "SIMDebt"))
            /\ funds' = sendWSTETH(_fundsAfterMove(_appliedReward(b, "WSTETH")),
                                   "collSurplusPool", left)
            /\ surplus' = [surplus EXCEPT ![b] = @ + left]
            /\ tx' = _drawn(q)
            /\ UNCHANGED <<totalSIMDeposits, simToken, ledgerVars, rateVars, price, now>>
            BY <1>3 DEF RedeemWholeTrove
      <2>2. "closedByRedemption" \in Statuses \ {"active"}
            BY DEF Statuses
      <2>3. /\ TrovesTyped' /\ OwnersOK(Troves', TroveOwners', sortedTroves')
            /\ Len(TroveOwners') = Len(TroveOwners) - 1 /\ NotEmptied
            BY <1>1, <1>3, <2>1, <2>2, ClosingKeeps
      <2>4. left \in Int
            BY <1>0, <1>1, DrawnTyped, ViewsTyped
      <2>5. SIMDebt' \in DebtT
            BY <1>0, <1>1, <2>1, MoveTyped, RewardTyped
      <2>6. funds' \in FundsT
            <3>1. _fundsAfterMove(_appliedReward(b, "WSTETH")) \in FundsT
                  BY <1>0, <1>1, MoveTyped, RewardTyped
            <3> QED BY <2>1, <2>4, <3>1, FundsTyped
      <2> HIDE DEF left
      <2>7. surplus' \in SurplusT
            BY <1>0, <1>1, <2>1, <2>4 DEF Typed, PoolsTyped, SurplusT
      <2>8. PoolsTyped'
            BY <1>0, <2>1, <2>5, <2>6, <2>7 DEF Typed, PoolsTyped
      <2>9. LedgersTyped' /\ ClockTyped'
            BY <1>0, <2>1 DEF Typed, LedgersTyped, ClockTyped, ledgerVars, rateVars
      <2>10. tx' \in RedemptionFrame /\ tx'.at = tx.at /\ tx'.user = q /\ tx'.pre = tx.pre
            BY <1>0, <1>1, <2>1, DrawnTyped
      <2>11. q = NULL \/ \E j \in 1..Len(sortedTroves') : sortedTroves'[j] = q
            <3>1. PICK k \in 1..Len(sortedTroves) :
                     sortedTroves[k] = b /\ q = IF k = 1 THEN NULL ELSE sortedTroves[k - 1]
                  BY <1>0, RedeemedTroveIsListed
            <3>2. sortedTroves \in Seq(Accounts) /\ NoRepeats(sortedTroves)
                  BY DEF IInv, OwnersOK
            <3>3. sortedTroves' = RemoveFirst(sortedTroves, sortedTroves[k])
                  BY <2>1, <3>1 DEF _closeTrove
            <3>4. /\ Len(sortedTroves') = Len(sortedTroves) - 1
                  /\ \A i \in 1..Len(sortedTroves) - 1 :
                        sortedTroves'[i] = IF i < k THEN sortedTroves[i] ELSE sortedTroves[i + 1]
                  BY <3>2, <3>3, RemoveFirstElements
            <3>5. Len(sortedTroves) \in Nat
                  BY <3>2
            <3> HIDE DEF q
            <3>6. CASE k = 1
                  BY <3>1, <3>6
            <3>7. CASE k # 1
                  <4> DEFINE j == k - 1
                  <4>1. j \in 1..Len(sortedTroves) - 1 /\ j < k
                        BY <3>5, <3>7
                  <4>2. q = sortedTroves[j]
                        BY <3>1, <3>7
                  <4> HIDE DEF j
                  <4>3. sortedTroves'[j] = q
                        BY <3>4, <4>1, <4>2
                  <4> QED BY <3>4, <4>1, <4>3
            <3> QED BY <3>6, <3>7
      <2>12. Walks(tx', sortedTroves')
            BY <2>10, <2>11 DEF Walks, RedemptionFrame
      <2>13. Len(TroveOwners') <= Len(tx.pre.TroveOwners)
            <3>1. TroveOwners \in Seq(Accounts)
                  BY DEF IInv, OwnersOK
            <3>2. tx.pre.TroveOwners \in Seq(Accounts)
                  BY <1>0 DEF OwnersOK, FrameOK
            <3>3. Len(TroveOwners) \in Nat /\ Len(tx.pre.TroveOwners) \in Nat
                  BY <3>1, <3>2
            <3> QED BY <1>0, <2>3, <3>3 DEF FrameOK
      <2>14. FrameOK(tx', TroveOwners', sortedTroves')
            BY <1>0, <2>10, <2>12, <2>13 DEF FrameOK
      <2> QED BY <2>3, <2>8, <2>9, <2>14 DEF IInv, Typed
<1> QED BY <1>2, <1>3

\* New amounts for an active trove: types and agreement with the owners stay.
LEMMA NewAmountsKeep ==
    ASSUME IInv, NEW b \in Accounts, isActive(b), NEW d \in Int, NEW c \in Int, NEW k \in Int,
           NEW t, t = [Troves EXCEPT ![b].coll = c, ![b].debt = d, ![b].stake = k]
    PROVE  t \in TrovesT /\ OwnersOK(t, TroveOwners, sortedTroves) /\ t[b].status = "active"
<1>1. Troves \in TrovesT /\ OwnersOK(Troves, TroveOwners, sortedTroves)
      BY DEF IInv, Typed, TrovesTyped
<1>2. /\ t \in TrovesT
      /\ t[b].status = Troves[b].status /\ t[b].arrayIndex = Troves[b].arrayIndex
      /\ \A x \in Accounts \ {b} : t[x] = Troves[x]
      BY <1>1 DEF TrovesT, TroveT
<1>3. \A x \in Accounts : /\ t[x].status = Troves[x].status
                          /\ t[x].arrayIndex = Troves[x].arrayIndex
                          /\ Troves[x].status # "active" => t[x] = Troves[x]
      BY <1>2 DEF isActive
<1>4. OwnersOK(t, TroveOwners, sortedTroves)
      BY <1>1, <1>2, <1>3, AmountsKeepOwners
<1> QED BY <1>2, <1>4 DEF isActive

\* Part of a trove's debt is redeemed, or the partial redemption is cancelled.
LEMMA RedeemPartKeeps ==
    ASSUME IInv, tx \in RedemptionFrame, NEW h \in BOOLEAN, RedeemPartOfTrove(h)
    PROVE  IInv' /\ NotEmptied
<1> DEFINE b == tx.user
           d == _debtNow(b) - _SIMLot
           c == _collNow(b) - _WSTETHLot
           N == _computeNominalCR(c, d)
           cancelled == _cancelledPartial(h, d)
           stake == _computeNewStake(c)
           q == _getPrev(b)
<1>0. tx # idle /\ _redeems /\ Typed /\ FrameOK(tx, TroveOwners, sortedTroves)
      BY DEF RedeemPartOfTrove, RedemptionFrame, idle, IInv
<1>1. b \in Accounts /\ isActive(b) /\ q \in Accounts \cup {NULL}
      BY <1>0, RedeemedTroveIsListed
<1>2. CASE ~(c >= 0 /\ (cancelled \/ N > 0))
      BY <1>0, <1>2, RevertKeeps DEF RedeemPartOfTrove
<1>3. CASE c >= 0 /\ (cancelled \/ N > 0)
      <2>1. /\ SIMDebt' = _debtAfterMove(_appliedReward(b, "SIMDebt"))
            /\ funds' = _fundsAfterMove(_appliedReward(b, "WSTETH"))
            /\ rewardSnapshots' = _snapshotsAfterApply(b)
            /\ UNCHANGED <<TroveOwners, totalSIMDeposits, simToken, surplus,
                           ledgerVars, rateVars, price, now>>
            BY <1>3 DEF RedeemPartOfTrove
      <2>2. \/ /\ Troves' = [Troves EXCEPT ![b].debt = _debtNow(b), ![b].coll = _collNow(b)]
               /\ tx' = [tx EXCEPT !.at = "redeemed"]
               /\ UNCHANGED <<sortedTroves, totalStakes>>
            \/ /\ sortedTroves' \in _inserted(RemoveFirst(sortedTroves, b), b, N)
               /\ Troves' = [Troves EXCEPT ![b].debt = d, ![b].coll = c, ![b].stake = stake]
               /\ totalStakes' = totalStakes - Troves[b].stake + stake
               /\ tx' = _drawn(q)
            BY <1>3 DEF RedeemPartOfTrove
      <2>3. _debtNow(b) \in Int /\ _collNow(b) \in Int /\ d \in Int /\ c \in Int
            BY <1>0, <1>1, DrawnTyped, ViewsTyped
      <2>4. stake \in Int
            BY <1>0, <2>3, StakeTyped
      <2>5. Troves \in TrovesT /\ Troves[b].stake \in Int
            BY <1>0, <1>1 DEF Typed, TrovesTyped, TrovesT, TroveT
      <2>6. SIMDebt' \in DebtT /\ funds' \in FundsT
            BY <1>0, <1>1, <2>1, MoveTyped, RewardTyped
      <2>7. PoolsTyped'
            BY <1>0, <2>1, <2>6 DEF Typed, PoolsTyped
      <2>8. LedgersTyped' /\ ClockTyped'
            BY <1>0, <2>1 DEF Typed, LedgersTyped, ClockTyped, ledgerVars, rateVars
      <2>9. rewardSnapshots' \in SnapshotsT
            BY <1>0, <1>1, <2>1, ViewsTyped
      <2>10. TroveOwners' = TroveOwners
            BY <2>1
      <2> HIDE DEF d, c, N, stake
      <2>11. CASE /\ Troves' = [Troves EXCEPT ![b].debt = _debtNow(b), ![b].coll = _collNow(b)]
                  /\ tx' = [tx EXCEPT !.at = "redeemed"]
                  /\ UNCHANGED <<sortedTroves, totalStakes>>
            <3>1. Troves' = [Troves EXCEPT ![b].coll = _collNow(b), ![b].debt = _debtNow(b),
                                           ![b].stake = Troves[b].stake]
                  BY <1>1, <2>5, <2>11 DEF TrovesT, TroveT
            <3>2. Troves' \in TrovesT /\ OwnersOK(Troves', TroveOwners, sortedTroves)
                  BY <1>1, <2>3, <2>5, <3>1, NewAmountsKeep
            <3>3. TrovesTyped'
                  BY <1>0, <2>9, <2>11, <3>2 DEF Typed, TrovesTyped
            <3>4. tx' \in RedemptionFrame /\ tx'.at = "redeemed" /\ tx'.pre = tx.pre
                  BY <2>11 DEF RedemptionFrame
            <3>5. FrameOK(tx', TroveOwners', sortedTroves')
                  BY <1>0, <2>10, <3>4 DEF FrameOK, Walks
            <3> QED BY <2>7, <2>8, <2>10, <2>11, <3>2, <3>3, <3>5 DEF IInv, Typed, NotEmptied
      <2>12. CASE /\ sortedTroves' \in _inserted(RemoveFirst(sortedTroves, b), b, N)
                  /\ Troves' = [Troves EXCEPT ![b].debt = d, ![b].coll = c, ![b].stake = stake]
                  /\ totalStakes' = totalStakes - Troves[b].stake + stake
                  /\ tx' = _drawn(q)
            <3>1. Troves' = [Troves EXCEPT ![b].coll = c, ![b].debt = d, ![b].stake = stake]
                  BY <1>1, <2>5, <2>12 DEF TrovesT, TroveT
            <3>2. /\ Troves' \in TrovesT /\ OwnersOK(Troves', TroveOwners, sortedTroves)
                  /\ Troves'[b].status = "active"
                  <4> HIDE DEF b
                  <4>1. isActive(b) /\ b \in Accounts /\ d \in Int /\ c \in Int /\ stake \in Int
                        BY <1>1, <2>3, <2>4
                  <4>2. Troves' \in TrovesT /\ OwnersOK(Troves', TroveOwners, sortedTroves)
                        BY <3>1, <4>1, NewAmountsKeep
                  <4>3. Troves'[b].status = "active"
                        BY <2>5, <3>1, <4>1 DEF TrovesT, TroveT, isActive
                  <4> QED BY <4>2, <4>3
            <3>3. /\ OwnersOK(Troves', TroveOwners, sortedTroves')
                  /\ \A i \in 1..Len(sortedTroves) :
                        \E j \in 1..Len(sortedTroves') : sortedTroves'[j] = sortedTroves[i]
                  <4> HIDE DEF b
                  <4>1. sortedTroves' \in _inserted(RemoveFirst(sortedTroves, b), b, N)
                        BY <2>12
                  <4> QED BY <1>1, <3>2, <4>1, ReInsertKeepsOwners
            <3>4. totalStakes' \in Int
                  BY <1>0, <2>4, <2>5, <2>12 DEF Typed, TrovesTyped
            <3>5. TrovesTyped'
                  BY <2>9, <3>2, <3>4 DEF TrovesTyped
            <3>6. tx' \in RedemptionFrame /\ tx'.at = tx.at /\ tx'.user = q /\ tx'.pre = tx.pre
                  BY <1>0, <1>1, <2>12, DrawnTyped
            <3>7. q = NULL \/ \E j \in 1..Len(sortedTroves') : sortedTroves'[j] = q
                  <4>1. PICK k \in 1..Len(sortedTroves) :
                           q = IF k = 1 THEN NULL ELSE sortedTroves[k - 1]
                        BY <1>0, RedeemedTroveIsListed
                  <4>2. Len(sortedTroves) \in Nat
                        BY DEF IInv, OwnersOK
                  <4> DEFINE i == k - 1
                  <4>3. k # 1 => i \in 1..Len(sortedTroves)
                        BY <4>2
                  <4>4. k # 1 => q = sortedTroves[i]
                        BY <4>1
                  <4> HIDE DEF i, q
                  <4> QED BY <3>3, <4>1, <4>3, <4>4
            <3>8. FrameOK(tx', TroveOwners', sortedTroves')
                  BY <1>0, <2>10, <3>6, <3>7 DEF FrameOK, Walks, RedemptionFrame
            <3> QED BY <2>7, <2>8, <2>10, <3>3, <3>5, <3>8 DEF IInv, Typed, NotEmptied
      <2> QED BY <2>2, <2>11, <2>12
<1> QED BY <1>2, <1>3

\* The loop of a redemption ends.
LEMMA RedemptionLoopEndsKeeps ==
    ASSUME IInv, tx \in RedemptionFrame, RedemptionLoopEnds
    PROVE  IInv' /\ NotEmptied
<1> DEFINE f == [tx EXCEPT !.at = "redeemed"]
<1>1. f \in RedemptionFrame /\ f.at = "redeemed" /\ f.pre = tx.pre
      BY DEF RedemptionFrame
<1>2. FrameOK(tx, TroveOwners, sortedTroves)
      BY DEF IInv, RedemptionFrame, idle
<1>3. _goOn(f)
      BY DEF RedemptionLoopEnds
<1> HIDE DEF f
<1>4. FrameOK(f, TroveOwners, sortedTroves)
      BY <1>1, <1>2 DEF FrameOK, Walks
<1> QED BY <1>3, <1>4, GoOnKeeps

\* The end of a redemption: fees, tokens and the base rate.
LEMMA RedemptionSettlesKeeps ==
    ASSUME IInv, tx \in RedemptionFrame, RedemptionSettles
    PROVE  IInv' /\ NotEmptied
<1> DEFINE fee == _calcRedemptionFee(_rateAfterRedemption, tx.WSTETHDrawn)
<1>0. tx # idle /\ Typed
      BY DEF RedemptionFrame, idle, IInv
<1>1. CASE Revert
      BY <1>0, <1>1, RevertKeeps
<1>2. CASE ~Revert
      <2>1. /\ tx.totalSIMSupplyAtStart > 0
            /\ _updateBaseRate(_rateAfterRedemption)
            /\ funds' = sendWSTETH(sendWSTETH(funds, "wstETHVeDistributor", fee),
                                   tx.caller, tx.WSTETHDrawn - fee)
            /\ simToken' = burn(simToken, tx.caller, tx.SIMToRedeem)
            /\ SIMDebt' = changeSIMDebt(SIMDebt, "activePool", -tx.SIMToRedeem)
            /\ tx' = idle
            /\ UNCHANGED <<surplus, totalSIMDeposits, troveVars, ledgerVars, price, now>>
            BY <1>2, Zenon DEF RedemptionSettles
      <2>2. /\ tx.WSTETHDrawn \in Int /\ tx.SIMToRedeem \in Int /\ tx.totalSIMSupplyAtStart \in Int
            /\ tx.caller \in Accounts
            BY DEF RedemptionFrame
      <2>3. price \in Int
            BY <1>0, PricesAssumption DEF Typed, ClockTyped
      <2>4. _rateAfterRedemption \in Int
            <3> DEFINE x == tx.WSTETHDrawn * price
                       y == x \div tx.totalSIMSupplyAtStart
            <3>1. x \in Int
                  BY <2>2, <2>3
            <3> HIDE DEF x
            <3>2. y \in Int
                  BY <2>1, <2>2, <3>1, DivInt
            <3> HIDE DEF y
            <3>3. y \div BETA \in Int
                  BY <3>2, PositiveConstants, DivInt
            <3>4. _rateAfterRedemption = _min(_calcDecayedBaseRate + y \div BETA, DECIMAL_PRECISION)
                  BY DEF _rateAfterRedemption, x, y
            <3> QED BY <1>0, <3>3, <3>4, RateTyped, PositiveConstants DEF _min
      <2>5. fee \in Int
            <3> DEFINE m == _min(FEE_FLOOR + _rateAfterRedemption, DECIMAL_PRECISION)
            <3>1. m \in Int
                  BY <2>4, PositiveConstants DEF _min
            <3> HIDE DEF m
            <3>2. m * tx.WSTETHDrawn \in Int
                  BY <2>2, <3>1
            <3>3. fee = (m * tx.WSTETHDrawn) \div DECIMAL_PRECISION
                  BY DEF _calcRedemptionFee, m
            <3> QED BY <3>2, <3>3, DivInt, PositiveConstants
      <2> HIDE DEF fee
      <2>6. sendWSTETH(funds, "wstETHVeDistributor", fee) \in FundsT /\ tx.WSTETHDrawn - fee \in Int
            BY <1>0, <2>2, <2>5, FundsTyped DEF Typed, PoolsTyped
      <2>7. funds' \in FundsT
            BY <2>1, <2>6, FundsTyped
      <2>8. tx.caller \in SIMHolders
            BY <2>2 DEF SIMHolders
      <2>9. simToken' \in SIMT
            BY <1>0, <2>1, <2>2, <2>8, SIMTyped DEF Typed, PoolsTyped
      <2>10. SIMDebt' \in DebtT
            BY <1>0, <2>1, <2>2 DEF Typed, PoolsTyped, DebtT, changeSIMDebt
      <2>11. PoolsTyped'
            BY <1>0, <2>1, <2>7, <2>9, <2>10 DEF Typed, PoolsTyped
      <2>12. ClockTyped'
            BY <1>0, <2>1, <2>4, AmountsAssumption DEF Typed, ClockTyped, _updateBaseRate
      <2>13. TrovesTyped' /\ LedgersTyped' /\ OwnersOK(Troves', TroveOwners', sortedTroves')
             /\ TroveOwners' = TroveOwners
            BY <2>1 DEF IInv, Typed, TrovesTyped, LedgersTyped, troveVars, ledgerVars
      <2> QED BY <2>1, <2>11, <2>12, <2>13 DEF IInv, Typed, NotEmptied
<1> QED BY <1>1, <1>2

-----------------------------------------------------------------------------
(* Transactions of borrowers and depositors.                               *)

\* Charging the borrowing fee moves the base rate and its time only.
LEMMA ChargeTyped ==
    ASSUME Typed, NEW charged, _chargeFee(charged), UNCHANGED <<price, now>>
    PROVE  ClockTyped'
<1>1. CASE charged
      BY <1>1, RateTyped, AmountsAssumption DEF _chargeFee, _updateBaseRate, Typed, ClockTyped
<1>2. CASE ~charged
      BY <1>2 DEF _chargeFee, rateVars, Typed, ClockTyped
<1> QED BY <1>1, <1>2

\* Minting the two halves of a fee and the borrower's SIM.
LEMMA MintTyped ==
    ASSUME Typed, NEW fee \in Int, NEW b \in Accounts, NEW m \in Int
    PROVE  mint(_mintFee(simToken, fee), b, m) \in SIMT
<1>1. /\ "simVeDistributor" \in SIMHolders /\ "feeReceiver" \in SIMHolders /\ b \in SIMHolders
      BY DEF SIMHolders, SIMContracts
<1>2. fee \div 2 \in Int
      BY DivInt
<1>3. fee - fee \div 2 \in Int
      BY <1>2
<1>4. simToken \in SIMT
      BY DEF Typed, PoolsTyped
<1>5. mint(simToken, "simVeDistributor", fee \div 2) \in SIMT
      BY <1>1, <1>2, <1>4, SIMTyped
<1>6. _mintFee(simToken, fee) \in SIMT
      BY <1>1, <1>3, <1>5, SIMTyped DEF _mintFee
<1> QED BY <1>1, <1>6, SIMTyped

\* Opening a trove.
LEMMA OpenKeeps ==
    ASSUME IInv, NEW b \in Accounts, NEW amount \in Int, NEW maxFee, NEW SIM \in Int,
           openTrove(b, amount, maxFee, SIM)
    PROVE  IInv' /\ NotEmptied
<1> DEFINE mode == _checkRecoveryMode(price)
           fee == IF mode THEN 0 ELSE _borrowingFee(SIM)
           netDebt == SIM + fee
           coll == Troves[b].coll + amount
           stake == _computeNewStake(coll)
           N == _computeNominalCR(amount, netDebt)
           r == [debt |-> Troves[b].debt + netDebt, coll |-> coll, stake |-> stake,
                 status |-> "active", arrayIndex |-> Len(TroveOwners)]
<1>1. /\ tx = idle /\ ~isActive(b)
      /\ Troves' = [Troves EXCEPT ![b] = r]
      /\ rewardSnapshots' = [rewardSnapshots EXCEPT ![b] = L]
      /\ totalStakes' = totalStakes - Troves[b].stake + stake
      /\ sortedTroves' \in _inserted(sortedTroves, b, N)
      /\ TroveOwners' = Append(TroveOwners, b)
      /\ funds' = _activePoolAddColl(funds, b, amount)
      /\ SIMDebt' = changeSIMDebt(SIMDebt, "activePool", netDebt)
      /\ simToken' = mint(_mintFee(simToken, fee), b, SIM)
      /\ _chargeFee(~mode)
      /\ UNCHANGED <<surplus, totalSIMDeposits, ledgerVars, price, now, tx>>
      BY Zenon DEF openTrove
<1>2. Typed /\ OwnersOK(Troves, TroveOwners, sortedTroves)
      BY DEF IInv
<1>3. fee \in Int
      BY <1>2, FeeTyped
<1> HIDE DEF fee
<1>4. /\ Troves \in TrovesT /\ Troves[b].debt \in Int /\ Troves[b].coll \in Int
      /\ Troves[b].stake \in Int /\ totalStakes \in Int
      BY <1>2 DEF Typed, TrovesTyped, TrovesT, TroveT
<1>5. netDebt \in Int /\ coll \in Int
      BY <1>3, <1>4
<1> HIDE DEF netDebt, coll
<1>6. stake \in Int
      BY <1>2, <1>5, StakeTyped
<1> HIDE DEF stake, N
<1>7. TroveOwners \in Seq(Accounts) /\ Len(TroveOwners) \in Nat
      BY <1>2 DEF OwnersOK
<1>8. r \in TroveT /\ r.status = "active" /\ r.arrayIndex = Len(TroveOwners)
      BY <1>4, <1>5, <1>6, <1>7 DEF TroveT, Statuses
<1> HIDE DEF r
<1>9. /\ Troves' \in TrovesT /\ Troves'[b] = r
      /\ \A x \in Accounts \ {b} : Troves'[x] = Troves[x]
      BY <1>1, <1>4, <1>8 DEF TrovesT
<1>10. OwnersOK(Troves', TroveOwners', sortedTroves')
      BY <1>1, <1>2, <1>4, <1>8, <1>9, OpenKeepsOwners
<1>11. TrovesTyped'
      <2>1. rewardSnapshots' \in SnapshotsT
            BY <1>1, <1>2 DEF Typed, TrovesTyped, LedgersTyped, SnapshotsT
      <2>2. totalStakes' \in Int
            BY <1>1, <1>4, <1>6
      <2> QED BY <1>9, <2>1, <2>2 DEF TrovesTyped
<1>12. PoolsTyped'
      <2>1. funds' \in FundsT
            BY <1>1, <1>2, FundsTyped DEF Typed, PoolsTyped
      <2>2. SIMDebt' \in DebtT
            BY <1>1, <1>2, <1>5 DEF Typed, PoolsTyped, DebtT, changeSIMDebt
      <2>3. simToken' \in SIMT
            BY <1>1, <1>2, <1>3, MintTyped
      <2> QED BY <1>1, <1>2, <2>1, <2>2, <2>3 DEF Typed, PoolsTyped
<1>13. ClockTyped'
      BY <1>1, <1>2, ChargeTyped
<1>14. LedgersTyped'
      BY <1>1, <1>2 DEF Typed, LedgersTyped, ledgerVars
<1>15. Len(TroveOwners') = Len(TroveOwners) + 1
      BY <1>1, <1>7
<1> QED BY <1>1, <1>7, <1>10, <1>11, <1>12, <1>13, <1>14, <1>15 DEF IInv, Typed, NotEmptied

\* Every adjustment of a trove.
LEMMA AdjustKeeps ==
    ASSUME IInv, NEW b \in Accounts, NEW f \in FundsT, NEW source, NEW received \in Int,
           NEW withdrawal \in Int, NEW SIM \in Int, NEW up \in BOOLEAN, NEW maxFee,
           _adjustTrove(b, f, source, received, withdrawal, SIM, up, maxFee),
           UNCHANGED totalSIMDeposits
    PROVE  IInv' /\ NotEmptied
<1> DEFINE mode == _checkRecoveryMode(price)
           charged == up /\ ~mode
           fee == IF charged THEN _borrowingFee(SIM) ELSE 0
           debtChange == IF up THEN SIM + fee ELSE -SIM
           collChange == IF received # 0 THEN received ELSE -withdrawal
           c == _collNow(b) + collChange
           d == _debtNow(b) + debtChange
           stake == _computeNewStake(c)
           N == _computeNominalCR(c, d)
           moved == sendWSTETHToActivePool(f, _appliedReward(b, "WSTETH"))
<1>1. /\ tx = idle /\ isActive(b)
      /\ Troves' = [Troves EXCEPT ![b].coll = c, ![b].debt = d, ![b].stake = stake]
      /\ rewardSnapshots' = _snapshotsAfterApply(b)
      /\ totalStakes' = totalStakes - Troves[b].stake + stake
      /\ sortedTroves' \in _inserted(RemoveFirst(sortedTroves, b), b, N)
      /\ funds' = IF received # 0 THEN _activePoolAddColl(moved, source, received)
                                  ELSE sendWSTETH(moved, b, withdrawal)
      /\ SIMDebt' = changeSIMDebt(_debtAfterMove(_appliedReward(b, "SIMDebt")),
                                  "activePool", debtChange)
      /\ simToken' = IF up THEN mint(_mintFee(simToken, fee), b, SIM) ELSE burn(simToken, b, SIM)
      /\ _chargeFee(charged)
      /\ UNCHANGED <<surplus, TroveOwners, ledgerVars, price, now, tx>>
      BY Zenon DEF _adjustTrove
<1>2. Typed /\ OwnersOK(Troves, TroveOwners, sortedTroves)
      BY DEF IInv
<1>3. fee \in Int
      BY <1>2, FeeTyped
<1> HIDE DEF fee
<1>4. debtChange \in Int /\ collChange \in Int
      BY <1>3
<1> HIDE DEF debtChange, collChange
<1>5. c \in Int /\ d \in Int
      BY <1>2, <1>4, ViewsTyped
<1> HIDE DEF c, d
<1>6. stake \in Int
      BY <1>2, <1>5, StakeTyped
<1> HIDE DEF stake, N
<1>7. /\ Troves \in TrovesT /\ Troves[b].stake \in Int /\ totalStakes \in Int
      BY <1>2 DEF Typed, TrovesTyped, TrovesT, TroveT
<1>8. Troves' \in TrovesT /\ OwnersOK(Troves', TroveOwners, sortedTroves)
      BY <1>1, <1>5, <1>6, NewAmountsKeep
<1>9. Troves'[b].status = "active"
      BY <1>1, <1>7 DEF TrovesT, TroveT, isActive
<1>10. sortedTroves' \in _inserted(RemoveFirst(sortedTroves, b), b, N)
      BY <1>1
<1>11. OwnersOK(Troves', TroveOwners, sortedTroves')
      BY <1>8, <1>9, <1>10, ReInsertKeepsOwners
<1>12. TrovesTyped'
      <2>1. rewardSnapshots' \in SnapshotsT
            BY <1>1, <1>2, ViewsTyped
      <2>2. totalStakes' \in Int
            BY <1>1, <1>6, <1>7
      <2> QED BY <1>8, <2>1, <2>2 DEF TrovesTyped
<1>13. PoolsTyped'
      <2>1. moved \in FundsT
            BY <1>2, RewardTyped, FundsTyped
      <2> HIDE DEF moved
      <2>2. funds' \in FundsT
            BY <1>1, <2>1, FundsTyped
      <2>3. _debtAfterMove(_appliedReward(b, "SIMDebt")) \in DebtT
            BY <1>2, MoveTyped, RewardTyped
      <2>4. SIMDebt' \in DebtT
            BY <1>1, <1>4, <2>3 DEF DebtT, changeSIMDebt
      <2>5. b \in SIMHolders
            BY DEF SIMHolders
      <2>6. simToken' \in SIMT
            BY <1>1, <1>2, <1>3, <2>5, MintTyped, SIMTyped DEF Typed, PoolsTyped
      <2> QED BY <1>1, <1>2, <2>2, <2>4, <2>6 DEF Typed, PoolsTyped
<1>14. ClockTyped'
      BY <1>1, <1>2, ChargeTyped
<1>15. LedgersTyped'
      BY <1>1, <1>2 DEF Typed, LedgersTyped, ledgerVars
<1> QED BY <1>1, <1>11, <1>12, <1>13, <1>14, <1>15 DEF IInv, Typed, NotEmptied

\* A borrower closes a trove.
LEMMA CloseKeeps ==
    ASSUME IInv, NEW b \in Accounts, closeTrove(b)
    PROVE  IInv' /\ NotEmptied
<1> DEFINE c == _collNow(b)
           d == _debtNow(b)
<1>1. /\ tx = idle /\ isActive(b) /\ _moreThanOneTroveInSystem
      /\ _closeTrove(b, "closedByOwner")
      /\ SIMDebt' = changeSIMDebt(_debtAfterMove(_appliedReward(b, "SIMDebt")), "activePool", -d)
      /\ simToken' = burn(simToken, b, d)
      /\ funds' = sendWSTETH(_fundsAfterMove(_appliedReward(b, "WSTETH")), b, c)
      /\ UNCHANGED <<surplus, totalSIMDeposits, ledgerVars, rateVars, price, now, tx>>
      BY Zenon DEF closeTrove
<1>2. Typed
      BY DEF IInv
<1>3. c \in Int /\ d \in Int
      BY <1>2, ViewsTyped
<1> HIDE DEF c, d
<1>4. "closedByOwner" \in Statuses \ {"active"}
      BY DEF Statuses
<1>5. TrovesTyped' /\ OwnersOK(Troves', TroveOwners', sortedTroves') /\ NotEmptied
      BY <1>1, <1>4, ClosingKeeps
<1>6. /\ _debtAfterMove(_appliedReward(b, "SIMDebt")) \in DebtT
      /\ _fundsAfterMove(_appliedReward(b, "WSTETH")) \in FundsT
      BY <1>2, MoveTyped, RewardTyped
<1>7. SIMDebt' \in DebtT
      BY <1>1, <1>3, <1>6 DEF DebtT, changeSIMDebt
<1>8. funds' \in FundsT
      BY <1>1, <1>3, <1>6, FundsTyped
<1>9. b \in SIMHolders
      BY DEF SIMHolders
<1>10. simToken' \in SIMT
      BY <1>1, <1>2, <1>3, <1>9, SIMTyped DEF Typed, PoolsTyped
<1>11. PoolsTyped'
      BY <1>1, <1>2, <1>7, <1>8, <1>10 DEF Typed, PoolsTyped
<1>12. LedgersTyped' /\ ClockTyped'
      BY <1>1, <1>2 DEF Typed, LedgersTyped, ClockTyped, ledgerVars, rateVars
<1> QED BY <1>1, <1>5, <1>11, <1>12 DEF IInv, Typed

\* A transaction that only moves tokens and pool balances.
LEMMA PoolsOnlyKeeps ==
    ASSUME IInv, tx = idle, PoolsTyped',
           UNCHANGED <<troveVars, ledgerVars, rateVars, price, now, tx>>
    PROVE  IInv' /\ NotEmptied
<1>1. TrovesTyped' /\ LedgersTyped' /\ ClockTyped'
      BY DEF IInv, Typed, TrovesTyped, LedgersTyped, ClockTyped, troveVars, ledgerVars, rateVars
<1>2. /\ Troves' = Troves /\ TroveOwners' = TroveOwners /\ sortedTroves' = sortedTroves /\ tx' = idle
      BY DEF troveVars
<1>3. OwnersOK(Troves', TroveOwners', sortedTroves')
      BY <1>2 DEF IInv
<1> QED BY <1>1, <1>2, <1>3 DEF IInv, Typed, NotEmptied

\* A borrower claims what a redemption or capped liquidation left.
LEMMA ClaimKeeps ==
    ASSUME IInv, NEW b \in Accounts, claimCollateral(b)
    PROVE  IInv' /\ NotEmptied
<1>1. /\ tx = idle /\ claimColl(b)
      /\ UNCHANGED <<SIMDebt, totalSIMDeposits, simToken, troveVars, ledgerVars, rateVars,
                     price, now, tx>>
      BY DEF claimCollateral
<1>2. Typed /\ surplus[b] \in Int
      BY DEF IInv, Typed, PoolsTyped, SurplusT
<1>3. surplus' \in SurplusT
      BY <1>1, <1>2 DEF claimColl, Typed, PoolsTyped, SurplusT
<1>4. funds' \in FundsT
      BY <1>1, <1>2 DEF claimColl, Typed, PoolsTyped, FundsT, PoolNames, Contracts, Transferred
<1>5. PoolsTyped'
      BY <1>1, <1>2, <1>3, <1>4 DEF Typed, PoolsTyped
<1> QED BY <1>1, <1>5, PoolsOnlyKeeps

\* Deposits into and withdrawals from the stability pool.
LEMMA DepositKeeps ==
    ASSUME IInv, NEW a \in Accounts, NEW m \in Int, NEW gain \in Int,
           provideToSP(a, m, gain) \/ withdrawFromSP(a, m, gain)
    PROVE  IInv' /\ NotEmptied
<1>1. Typed /\ "stabilityPool" \in SIMHolders /\ a \in SIMHolders
      BY DEF IInv, SIMHolders, SIMContracts
<1>2. /\ tx = idle
      /\ \/ simToken' = SentSIM(simToken, a, "stabilityPool", m)
         \/ simToken' = SentSIM(simToken, "stabilityPool", a, m)
      /\ totalSIMDeposits' = totalSIMDeposits + m \/ totalSIMDeposits' = totalSIMDeposits - m
      /\ funds' = _payGain(funds, a, gain)
      /\ UNCHANGED <<SIMDebt, surplus, troveVars, ledgerVars, rateVars, price, now, tx>>
      BY DEF provideToSP, withdrawFromSP, _depositVars
<1>3. simToken' \in SIMT
      BY <1>1, <1>2, SIMTyped DEF Typed, PoolsTyped
<1>4. funds' \in FundsT
      BY <1>1, <1>2, FundsTyped DEF Typed, PoolsTyped
<1>5. totalSIMDeposits' \in Int
      BY <1>1, <1>2 DEF Typed, PoolsTyped
<1>6. PoolsTyped'
      BY <1>1, <1>2, <1>3, <1>4, <1>5 DEF Typed, PoolsTyped
<1> QED BY <1>2, <1>6, PoolsOnlyKeeps

\* A depositor moves a gain to a trove.
LEMMA GainToTroveKeeps ==
    ASSUME IInv, NEW b \in Accounts, NEW gain \in Int, withdrawWSTETHGainToTrove(b, gain)
    PROVE  IInv' /\ NotEmptied
<1> DEFINE f == [funds EXCEPT !.counter["stabilityPool"] = @ - gain]
<1>1. f \in FundsT
      BY DEF IInv, Typed, PoolsTyped, FundsT, PoolNames
<1>2. _adjustTrove(b, f, "stabilityPool", gain, 0, 0, FALSE, 0) /\ UNCHANGED totalSIMDeposits
      BY DEF withdrawWSTETHGainToTrove
<1> HIDE DEF f
<1>3. 0 \in Int /\ FALSE \in BOOLEAN
      OBVIOUS
<1> QED BY <1>1, <1>2, <1>3, AdjustKeeps, Zenon

\* SIM changes hands.
LEMMA TransferKeeps ==
    ASSUME IInv, TransferSIM
    PROVE  IInv' /\ NotEmptied
<1>1. PICK a \in SIMHolders, b \in Accounts, m \in TransferAmounts :
         /\ tx = idle
         /\ simToken' = SentSIM(simToken, a, b, m)
         /\ UNCHANGED <<funds, SIMDebt, surplus, totalSIMDeposits, troveVars, ledgerVars,
                        rateVars, price, now, tx>>
      BY DEF TransferSIM
<1>2. m \in Int /\ b \in SIMHolders
      BY AmountsAssumption DEF SIMHolders
<1>3. PoolsTyped'
      BY <1>1, <1>2, SIMTyped DEF IInv, Typed, PoolsTyped
<1> QED BY <1>1, <1>3, PoolsOnlyKeeps

-----------------------------------------------------------------------------
(* Transactions that begin a loop.                                         *)

\* What a transaction that begins would put back is a good state.
LEMMA CheckpointIsGood ==
    ASSUME IInv
    PROVE  /\ Checkpoint \in PreT
           /\ OwnersOK(Checkpoint.Troves, Checkpoint.TroveOwners, Checkpoint.sortedTroves)
           /\ Len(TroveOwners) <= Len(Checkpoint.TroveOwners)
<1>1. Typed /\ OwnersOK(Troves, TroveOwners, sortedTroves)
      BY DEF IInv
<1>2. TroveOwners \in Seq(Accounts) /\ sortedTroves \in Seq(Accounts) /\ Len(TroveOwners) \in Nat
      BY <1>1 DEF OwnersOK
<1>3. Checkpoint \in PreT
      BY <1>1, <1>2 DEF Checkpoint, PreT, Typed, PoolsTyped, TrovesTyped
<1> QED BY <1>1, <1>2, <1>3 DEF Checkpoint

\* The views of the whole system are integers.
LEMMA SystemTyped ==
    ASSUME Typed
    PROVE  getEntireSystemColl \in Int /\ getEntireSystemDebt \in Int
BY DEF Typed, PoolsTyped, FundsT, DebtT, PoolNames, getEntireSystemColl, getEntireSystemDebt

\* A liquidation begins: its walk starts at the end of the list.
LEMMA StartLiquidationKeeps ==
    ASSUME IInv, NEW caller \in Accounts, NEW loop \in LoopNames, NEW array \in Seq(Accounts),
           NEW n \in Int, _startLiquidation(caller, loop, array, n)
    PROVE  IInv' /\ NotEmptied
<1> DEFINE f == [at |-> loop, caller |-> caller, troveArray |-> array, n |-> n,
                 user |-> getLast, firstUser |-> getFirst,
                 remainingSIM |-> totalSIMDeposits, entireSystemDebt |-> getEntireSystemDebt,
                 entireSystemColl |-> getEntireSystemColl, backToNormalMode |-> FALSE,
                 totals |-> zeroVals, pre |-> Checkpoint]
<1>1. _goOn(f)
      BY DEF _startLiquidation, _goOn
<1>2. /\ totalSIMDeposits \in Int /\ getEntireSystemDebt \in Int /\ getEntireSystemColl \in Int
      BY SystemTyped DEF IInv, Typed, PoolsTyped
<1>3. getLast \in Accounts \cup {NULL} /\ getFirst \in Accounts \cup {NULL}
      BY LastIsAccount
<1>4. f \in LiquidationFrame
      BY <1>2, <1>3, CheckpointIsGood, ZeroTyped DEF LiquidationFrame
<1>5. f.user = getLast /\ f.firstUser = getFirst /\ f.pre = Checkpoint /\ f.at \in LoopNames
      OBVIOUS
<1> HIDE DEF f
<1>6. Walks(f, sortedTroves)
      <2>1. f.at # "redeem"
            BY <1>5 DEF LoopNames
      <2>2. CASE sortedTroves = << >>
            BY <1>5, <2>1, <2>2, LastIsAccount DEF Walks
      <2>3. CASE sortedTroves # << >>
            <3>1. Len(sortedTroves) > 0
                  BY <2>3 DEF IInv, OwnersOK
            <3> QED BY <1>5, <2>1, <2>3, <3>1, LastIsAccount DEF Walks
      <2> QED BY <2>2, <2>3
<1>7. FrameOK(f, TroveOwners, sortedTroves)
      BY <1>4, <1>5, <1>6, CheckpointIsGood DEF FrameOK
<1> QED BY <1>1, <1>7, GoOnKeeps

\* The trove a redemption starts from is listed.
LEMMA FirstRedeemableIsListed ==
    ASSUME IInv, NEW hint
    PROVE  LET u == IF _isValidFirstRedemptionHint(hint) THEN hint ELSE _firstRedeemable
           IN u = NULL \/ \E k \in 1..Len(sortedTroves) : sortedTroves[k] = u
<1>1. DOMAIN sortedTroves = 1..Len(sortedTroves)
      BY DEF IInv, OwnersOK
<1>2. _isValidFirstRedemptionHint(hint) => \E k \in 1..Len(sortedTroves) : sortedTroves[k] = hint
      BY <1>1 DEF _isValidFirstRedemptionHint
<1>3. _firstRedeemable = NULL \/ \E k \in 1..Len(sortedTroves) : sortedTroves[k] = _firstRedeemable
      <2> DEFINE isFirst(k) ==
                    /\ getCurrentICR(sortedTroves[k]) >= MCR
                    /\ \A j \in k + 1..Len(sortedTroves) : getCurrentICR(sortedTroves[j]) < MCR
      <2>1. _firstRedeemable = IF \E k \in DOMAIN sortedTroves : isFirst(k)
                               THEN sortedTroves[CHOOSE k \in DOMAIN sortedTroves : isFirst(k)]
                               ELSE NULL
            BY Zenon DEF _firstRedeemable
      <2> HIDE DEF isFirst
      <2>2. (\E k \in DOMAIN sortedTroves : isFirst(k)) =>
               (CHOOSE k \in DOMAIN sortedTroves : isFirst(k)) \in DOMAIN sortedTroves
            BY Zenon
      <2> QED BY <1>1, <2>1, <2>2
<1> QED BY <1>2, <1>3

\* A redemption begins.
LEMMA RedeemCollateralKeeps ==
    ASSUME IInv, NEW caller \in Accounts, NEW SIM \in Int, NEW hint, NEW n \in Int,
           NEW maxFee \in Int, redeemCollateral(caller, SIM, hint, n, maxFee)
    PROVE  IInv' /\ NotEmptied
<1> DEFINE u == IF _isValidFirstRedemptionHint(hint) THEN hint ELSE _firstRedeemable
           m == IF n = 0 THEN MAX_UINT ELSE n
           f == [at |-> "redeem", caller |-> caller, maxFee |-> maxFee, n |-> m, user |-> u,
                 totalSIMSupplyAtStart |-> getEntireSystemDebt, remainingSIM |-> SIM,
                 SIMToRedeem |-> 0, WSTETHDrawn |-> 0, pre |-> Checkpoint]
<1>1. _goOn(f)
      BY Zenon DEF redeemCollateral, _goOn
<1>2. getEntireSystemDebt \in Int /\ m \in Int
      BY SystemTyped, PositiveConstants DEF IInv
<1>3. u = NULL \/ \E k \in 1..Len(sortedTroves) : sortedTroves[k] = u
      BY FirstRedeemableIsListed
<1> HIDE DEF u, m
<1>4. u \in Accounts \cup {NULL}
      BY <1>3 DEF IInv, OwnersOK
<1>5. f \in RedemptionFrame
      BY <1>2, <1>4, CheckpointIsGood DEF RedemptionFrame
<1>6. f.user = u /\ f.pre = Checkpoint /\ f.at = "redeem"
      OBVIOUS
<1> HIDE DEF f
<1>7. FrameOK(f, TroveOwners, sortedTroves)
      BY <1>3, <1>5, <1>6, CheckpointIsGood DEF FrameOK, Walks
<1> QED BY <1>1, <1>7, GoOnKeeps

-----------------------------------------------------------------------------
(* The invariant and the theorems.                                         *)

\* The amounts callers pass are integers.
LEMMA AmountsAreInt ==
    /\ OpenColls \subseteq Int /\ OpenSIM \subseteq Int /\ AdjustColls \subseteq Int
    /\ AdjustSIM \subseteq Int /\ DepositAmounts \subseteq Int /\ RedeemAmounts \subseteq Int
    /\ MaxFees \subseteq Int /\ Counts \subseteq Int /\ BatchLengths \subseteq Nat
BY AmountsAssumption

\* The entry points that adjust a trove.
LEMMA AdjustingKeeps ==
    ASSUME IInv, Adjusting
    PROVE  IInv' /\ NotEmptied
<1>1. PICK b \in Accounts :
        \/ \E c \in AdjustColls : addColl(b, c)
        \/ \E c \in AdjustColls : withdrawColl(b, c)
        \/ \E m \in AdjustSIM, fee \in MaxFees : withdrawSIM(b, fee, m)
        \/ \E m \in AdjustSIM : repaySIM(b, m)
        \/ \E c \in AdjustColls, m \in AdjustSIM, fee \in MaxFees, up \in BOOLEAN :
              \/ adjustTrove(b, c, fee, 0, m, up)
              \/ adjustTrove(b, 0, fee, c, m, up)
      BY Zenon DEF Adjusting
<1>2. 0 \in Int /\ FALSE \in BOOLEAN /\ TRUE \in BOOLEAN /\ funds \in FundsT
      BY DEF IInv, Typed, PoolsTyped
<1>3. \A c \in AdjustColls : c \in Int
      BY AmountsAreInt
<1>4. \A m \in AdjustSIM : m \in Int
      BY AmountsAreInt
<1>5. ASSUME NEW c \in AdjustColls, addColl(b, c) PROVE IInv' /\ NotEmptied
      BY <1>2, <1>3, <1>5, AdjustKeeps, Zenon DEF addColl
<1>6. ASSUME NEW c \in AdjustColls, withdrawColl(b, c) PROVE IInv' /\ NotEmptied
      BY <1>2, <1>3, <1>6, AdjustKeeps, Zenon DEF withdrawColl
<1>7. ASSUME NEW m \in AdjustSIM, NEW fee \in MaxFees, withdrawSIM(b, fee, m)
      PROVE  IInv' /\ NotEmptied
      BY <1>2, <1>4, <1>7, AdjustKeeps, Zenon DEF withdrawSIM
<1>8. ASSUME NEW m \in AdjustSIM, repaySIM(b, m) PROVE IInv' /\ NotEmptied
      BY <1>2, <1>4, <1>8, AdjustKeeps, Zenon DEF repaySIM
<1>9. ASSUME NEW c \in AdjustColls, NEW m \in AdjustSIM, NEW fee \in MaxFees, NEW up \in BOOLEAN,
             adjustTrove(b, c, fee, 0, m, up)
      PROVE  IInv' /\ NotEmptied
      BY <1>2, <1>3, <1>4, <1>9, AdjustKeeps, Zenon DEF adjustTrove
<1>10. ASSUME NEW c \in AdjustColls, NEW m \in AdjustSIM, NEW fee \in MaxFees, NEW up \in BOOLEAN,
              adjustTrove(b, 0, fee, c, m, up)
      PROVE  IInv' /\ NotEmptied
      BY <1>2, <1>3, <1>4, <1>10, AdjustKeeps, Zenon DEF adjustTrove
<1> QED BY <1>1, <1>5, <1>6, <1>7, <1>8, <1>9, <1>10, Zenon

\* The entry points of the stability pool.
LEMMA DepositingKeeps ==
    ASSUME IInv, Depositing
    PROVE  IInv' /\ NotEmptied
<1>1. funds.counter["stabilityPool"] \in Int
      BY DEF IInv, Typed, PoolsTyped, FundsT, PoolNames
<1>2. PICK a \in Accounts, gain \in 0..funds.counter["stabilityPool"] :
        \/ \E m \in DepositAmounts : provideToSP(a, m, gain)
        \/ \E m \in DepositAmounts : withdrawFromSP(a, m, gain)
        \/ withdrawWSTETHGainToTrove(a, gain)
      BY Zenon DEF Depositing
<1>3. gain \in Int
      BY <1>1
<1>4. \A m \in DepositAmounts : m \in Int
      BY AmountsAreInt
<1>5. ASSUME NEW m \in DepositAmounts, provideToSP(a, m, gain) \/ withdrawFromSP(a, m, gain)
      PROVE  IInv' /\ NotEmptied
      BY <1>3, <1>4, <1>5, DepositKeeps
<1>6. ASSUME withdrawWSTETHGainToTrove(a, gain) PROVE IInv' /\ NotEmptied
      BY <1>3, <1>6, GainToTroveKeeps
<1> QED BY <1>2, <1>5, <1>6

\* The entry points of liquidation.
LEMMA LiquidatingKeeps ==
    ASSUME IInv, Liquidating
    PROVE  IInv' /\ NotEmptied
<1>1. PICK caller \in Accounts :
        \/ \E n \in Counts : n > 0 /\ liquidateTroves(caller, n)
        \/ \E b \in Accounts : liquidate(caller, b)
        \/ \E n \in BatchLengths : \E array \in [1..n -> Accounts] :
              batchLiquidateTroves(caller, array)
      BY DEF Liquidating
<1>2. /\ "sequenceRecovery" \in LoopNames /\ "sequenceNormal" \in LoopNames
      /\ "batchRecovery" \in LoopNames /\ "batchNormal" \in LoopNames
      BY DEF LoopNames
<1>3. ASSUME NEW n \in Counts, liquidateTroves(caller, n) PROVE IInv' /\ NotEmptied
      <2> DEFINE loop == IF _checkRecoveryMode(price) THEN "sequenceRecovery" ELSE "sequenceNormal"
      <2>1. loop \in LoopNames /\ n \in Int /\ << >> \in Seq(Accounts)
            BY <1>2, AmountsAreInt
      <2>2. _startLiquidation(caller, loop, << >>, n)
            BY <1>3 DEF liquidateTroves
      <2> HIDE DEF loop
      <2> QED BY <2>1, <2>2, StartLiquidationKeeps
<1>4. ASSUME NEW array \in Seq(Accounts), batchLiquidateTroves(caller, array)
      PROVE  IInv' /\ NotEmptied
      <2> DEFINE loop == IF _checkRecoveryMode(price) THEN "batchRecovery" ELSE "batchNormal"
      <2>1. loop \in LoopNames /\ 0 \in Int
            BY <1>2
      <2>2. _startLiquidation(caller, loop, array, 0)
            BY <1>4 DEF batchLiquidateTroves
      <2> HIDE DEF loop
      <2> QED BY <2>1, <2>2, StartLiquidationKeeps
<1>5. ASSUME NEW b \in Accounts, liquidate(caller, b) PROVE IInv' /\ NotEmptied
      <2>1. <<b>> \in Seq(Accounts)
            OBVIOUS
      <2>2. batchLiquidateTroves(caller, <<b>>)
            BY <1>5 DEF liquidate
      <2> QED BY <1>4, <2>1, <2>2
<1>6. ASSUME NEW n \in BatchLengths, NEW array \in [1..n -> Accounts],
             batchLiquidateTroves(caller, array)
      PROVE  IInv' /\ NotEmptied
      <2>1. n \in Nat
            BY AmountsAreInt
      <2>2. array \in Seq(Accounts)
            BY <2>1
      <2> QED BY <1>4, <1>6, <2>2
<1> QED BY <1>1, <1>3, <1>5, <1>6

\* Every transaction.
LEMMA TransactionKeeps ==
    ASSUME IInv, Transaction
    PROVE  IInv' /\ NotEmptied
<1>1. CASE Opening
      <2>1. PICK b \in Accounts, c \in OpenColls, m \in OpenSIM, fee \in MaxFees :
               openTrove(b, c, fee, m)
            BY <1>1 DEF Opening
      <2>2. c \in Int /\ m \in Int
            BY AmountsAreInt
      <2> QED BY <2>1, <2>2, OpenKeeps
<1>2. CASE Adjusting
      BY <1>2, AdjustingKeeps
<1>3. CASE Closing
      BY <1>3, CloseKeeps, ClaimKeeps DEF Closing
<1>4. CASE Depositing
      BY <1>4, DepositingKeeps
<1>5. CASE Liquidating
      BY <1>5, LiquidatingKeeps
<1>6. CASE Redeeming
      <2>1. PICK caller \in Accounts, m \in RedeemAmounts, hint \in Accounts \cup {NULL},
                 n \in Counts, fee \in MaxFees : redeemCollateral(caller, m, hint, n, fee)
            BY <1>6 DEF Redeeming
      <2>2. m \in Int /\ n \in Int /\ fee \in Int
            BY AmountsAreInt
      <2> QED BY <2>1, <2>2, RedeemCollateralKeeps
<1>7. CASE TransferSIM
      BY <1>7, TransferKeeps
<1> QED BY <1>1, <1>2, <1>3, <1>4, <1>5, <1>6, <1>7 DEF Transaction

\* Every step of a transaction under way.
LEMMA StepKeeps ==
    ASSUME IInv, Step
    PROVE  IInv' /\ NotEmptied
<1>1. tx = idle \/ tx \in LiquidationFrame \/ tx \in RedemptionFrame
      BY DEF IInv, FrameOK
<1>2. tx \in LiquidationFrame => tx.at \in LoopNames
      BY DEF LiquidationFrame
<1>3. tx \in RedemptionFrame => tx.at \in {"redeem", "redeemed"}
      BY DEF RedemptionFrame
<1>4. CASE /\ tx.at \in LoopNames
           /\ \/ SequenceNormalMode \/ SequenceRecoveryMode \/ BatchNormalMode
              \/ BatchRecoveryMode \/ LiquidationSettles
      <2>1. tx \in LiquidationFrame
            BY <1>1, <1>3, <1>4 DEF idle, LoopNames
      <2> QED BY <1>4, <2>1, SequenceNormalKeeps, SequenceRecoveryKeeps, BatchNormalKeeps,
                 BatchRecoveryKeeps, LiquidationSettlesKeeps
<1>5. CASE /\ tx.at \in {"redeem", "redeemed"}
           /\ \/ RedeemWholeTrove
              \/ \E h \in BOOLEAN : RedeemPartOfTrove(h)
              \/ RedemptionLoopEnds \/ RedemptionSettles
      <2>1. tx \in RedemptionFrame
            BY <1>1, <1>2, <1>5 DEF idle, LoopNames
      <2> QED BY <1>5, <2>1, RedeemWholeKeeps, RedeemPartKeeps, RedemptionLoopEndsKeeps,
                 RedemptionSettlesKeeps
<1>6. /\ SequenceNormalMode \/ SequenceRecoveryMode \/ BatchNormalMode
            \/ BatchRecoveryMode \/ LiquidationSettles => tx.at \in LoopNames
      /\ RedeemWholeTrove \/ RedemptionLoopEnds \/ RedemptionSettles
            => tx.at \in {"redeem", "redeemed"}
      /\ \A h \in BOOLEAN : RedeemPartOfTrove(h) => tx.at \in {"redeem", "redeemed"}
      BY DEF SequenceNormalMode, SequenceRecoveryMode, BatchNormalMode, BatchRecoveryMode,
             LiquidationSettles, RedeemWholeTrove, RedeemPartOfTrove, RedemptionLoopEnds,
             RedemptionSettles, _redeems, LoopNames
<1> QED BY <1>4, <1>5, <1>6 DEF Step

\* The price and the clock move.
LEMMA EnvironmentKeeps ==
    ASSUME IInv, PriceMoves \/ TimePasses
    PROVE  IInv' /\ NotEmptied
<1>1. /\ tx = idle /\ tx' = idle
      /\ UNCHANGED <<funds, SIMDebt, surplus, totalSIMDeposits, simToken>>
      /\ UNCHANGED <<Troves, rewardSnapshots, TroveOwners, sortedTroves, totalStakes>>
      /\ UNCHANGED <<totalStakesSnapshot, totalCollateralSnapshot, L, lastError>>
      /\ UNCHANGED <<baseRate, lastFeeOperationTime>>
      BY DEF PriceMoves, TimePasses, poolVars, troveVars, ledgerVars, rateVars
<1>2. ClockTyped'
      <2>1. CASE PriceMoves
            BY <2>1, <1>1 DEF PriceMoves, IInv, Typed, ClockTyped
      <2>2. CASE TimePasses
            BY <2>2, <1>1, AmountsAssumption DEF TimePasses, IInv, Typed, ClockTyped
      <2> QED BY <2>1, <2>2
<1>3. PoolsTyped' /\ TrovesTyped' /\ LedgersTyped'
      BY <1>1 DEF IInv, Typed, PoolsTyped, TrovesTyped, LedgersTyped
<1>4. OwnersOK(Troves', TroveOwners', sortedTroves')
      BY <1>1 DEF IInv
<1> QED BY <1>1, <1>2, <1>3, <1>4 DEF IInv, Typed, NotEmptied

\* The invariant holds at the start.
LEMMA InitGood ==
    ASSUME Init
    PROVE  IInv
<1>1. PoolsTyped
      BY AmountsAssumption DEF Init, PoolsInit, PoolsTyped, FundsT, DebtT, SurplusT, SIMT
<1>2. TrovesTyped
      BY DEF Init, TroveManagerInit, TrovesTyped, TrovesT, TroveT, SnapshotsT, PairT, zeroPair, Statuses
<1>3. LedgersTyped
      BY DEF Init, TroveManagerInit, LedgersTyped, PairT, zeroPair
<1>4. ClockTyped
      BY AmountsAssumption DEF Init, TroveManagerInit, ClockTyped
<1>5. OwnersOK(Troves, TroveOwners, sortedTroves)
      <2>1. TroveOwners = << >> /\ sortedTroves = << >>
            BY DEF Init, TroveManagerInit
      <2>2. \A b \in Accounts : /\ Troves[b].status = "nonExistent"
                                /\ Troves[b].debt = 0 /\ Troves[b].coll = 0 /\ Troves[b].stake = 0
            BY DEF Init, TroveManagerInit
      <2>3. << >> \in Seq(Accounts) /\ Len(<< >>) = 0 /\ 1..0 = {}
            OBVIOUS
      <2> QED BY <2>1, <2>2, <2>3 DEF OwnersOK, NoRepeats
<1> QED BY <1>1, <1>2, <1>3, <1>4, <1>5 DEF IInv, Typed, Init, TroveManagerInit

\* Every step keeps the invariant and leaves a trove if there was one.
LEMMA NextKeeps ==
    ASSUME IInv, [Next]_vars
    PROVE  IInv' /\ NotEmptied
<1>1. CASE Transaction
      BY <1>1, TransactionKeeps
<1>2. CASE Continue
      BY <1>2, StepKeeps DEF Continue
<1>3. CASE PriceMoves \/ TimePasses
      BY <1>3, EnvironmentKeeps
<1>4. CASE UNCHANGED vars
      <2>1. _goOn(tx)
            BY <1>4 DEF vars, _goOn
      <2>2. CASE tx = idle
            <3>1. UNCHANGED <<troveVars, ledgerVars, rateVars, price, now, tx>>
                  BY <1>4 DEF vars
            <3>2. PoolsTyped'
                  BY <1>4 DEF vars, poolVars, IInv, Typed, PoolsTyped
            <3> QED BY <2>2, <3>1, <3>2, PoolsOnlyKeeps
      <2>3. CASE FrameOK(tx, TroveOwners, sortedTroves)
            BY <2>1, <2>3, GoOnKeeps
      <2> QED BY <2>2, <2>3 DEF IInv
<1> QED BY <1>1, <1>2, <1>3, <1>4 DEF Next

\* The inductive invariant holds in every state: the types of all contracts' state, the
\* agreement of Troves, TroveOwners and the sorted list, also in the state a running
\* liquidation or redemption would revert to, and that its walk stays in the list.
THEOREM ProtocolInvariant == Spec => []IInv
<1>1. Init => IInv
      BY InitGood
<1>2. IInv /\ [Next]_vars => IInv'
      BY NextKeeps
<1> QED BY <1>1, <1>2, PTL DEF Spec

\* TroveManager's bookkeeping of owners, the array index in each trove, the statuses and
\* the list of SortedTroves agree, and a closed trove is empty, whatever transactions,
\* prices and reverts come.
THEOREM OwnersAlwaysAgree == Spec => []OwnersAgree
<1>1. IInv => OwnersAgree
      <2> SUFFICES ASSUME IInv PROVE OwnersAgree
          OBVIOUS
      <2>1. OwnersOK(Troves, TroveOwners, sortedTroves) /\ Troves \in TrovesT
            BY DEF IInv, Typed, TrovesTyped
      <2>2. TroveOwners \in Seq(Accounts) /\ sortedTroves \in Seq(Accounts)
            BY <2>1 DEF OwnersOK
      <2>3. /\ DOMAIN TroveOwners = 1..Len(TroveOwners) /\ DOMAIN sortedTroves = 1..Len(sortedTroves)
            /\ Len(TroveOwners) \in Nat /\ Len(sortedTroves) \in Nat
            /\ \A i \in 1..Len(TroveOwners) : TroveOwners[i] \in Accounts
            /\ \A i \in 1..Len(sortedTroves) : sortedTroves[i] \in Accounts
            BY <2>2
      <2>4. \A b \in Accounts : Troves[b].arrayIndex \in Nat
            BY <2>1 DEF TrovesT, TroveT
      <2>5. \A b \in Accounts : isActive(b) =>
               /\ Troves[b].arrayIndex < Len(TroveOwners)
               /\ TroveOwners[Troves[b].arrayIndex + 1] = b
            <3> SUFFICES ASSUME NEW b \in Accounts, isActive(b)
                         PROVE  /\ Troves[b].arrayIndex < Len(TroveOwners)
                                /\ TroveOwners[Troves[b].arrayIndex + 1] = b
                OBVIOUS
            <3>1. /\ Troves[b].arrayIndex + 1 \in 1..Len(TroveOwners)
                  /\ TroveOwners[Troves[b].arrayIndex + 1] = b
                  BY <2>1 DEF OwnersOK, isActive
            <3> QED BY <3>1, <2>3, <2>4
      <2>6. \A i \in DOMAIN TroveOwners :
               isActive(TroveOwners[i]) /\ Troves[TroveOwners[i]].arrayIndex = i - 1
            <3> SUFFICES ASSUME NEW i \in 1..Len(TroveOwners)
                         PROVE  isActive(TroveOwners[i]) /\ Troves[TroveOwners[i]].arrayIndex = i - 1
                BY <2>3
            <3>1. isActive(TroveOwners[i]) /\ Troves[TroveOwners[i]].arrayIndex + 1 = i
                  BY <2>1 DEF OwnersOK, isActive
            <3> QED BY <3>1, <2>3, <2>4
      <2>7. ToSet(sortedTroves) = ToSet(TroveOwners)
            <3>1. ASSUME NEW i \in 1..Len(sortedTroves)
                  PROVE  \E j \in 1..Len(TroveOwners) : TroveOwners[j] = sortedTroves[i]
                  <4> DEFINE b == sortedTroves[i]
                  <4>1. b \in Accounts /\ Troves[b].status = "active"
                        BY <2>1, <2>3 DEF OwnersOK
                  <4> HIDE DEF b
                  <4>2. Troves[b].arrayIndex + 1 \in 1..Len(TroveOwners)
                        /\ TroveOwners[Troves[b].arrayIndex + 1] = b
                        BY <2>1, <4>1 DEF OwnersOK
                  <4> QED BY <4>2 DEF b
            <3>2. ASSUME NEW j \in 1..Len(TroveOwners)
                  PROVE  \E i \in 1..Len(sortedTroves) : sortedTroves[i] = TroveOwners[j]
                  <4> DEFINE b == TroveOwners[j]
                  <4>1. b \in Accounts /\ Troves[b].status = "active"
                        BY <2>1, <2>3 DEF OwnersOK
                  <4> HIDE DEF b
                  <4>2. \E i \in 1..Len(sortedTroves) : sortedTroves[i] = b
                        BY <2>1, <4>1 DEF OwnersOK
                  <4> QED BY <4>2 DEF b
            <3>3. ToSet(sortedTroves) = {sortedTroves[i] : i \in 1..Len(sortedTroves)}
                  BY <2>3, Zenon DEF ToSet
            <3>4. ToSet(TroveOwners) = {TroveOwners[i] : i \in 1..Len(TroveOwners)}
                  BY <2>3, Zenon DEF ToSet
            <3>5. {sortedTroves[i] : i \in 1..Len(sortedTroves)} \subseteq
                     {TroveOwners[i] : i \in 1..Len(TroveOwners)}
                  BY <3>1
            <3>6. {TroveOwners[i] : i \in 1..Len(TroveOwners)} \subseteq
                     {sortedTroves[i] : i \in 1..Len(sortedTroves)}
                  BY <3>2
            <3> QED BY <3>3, <3>4, <3>5, <3>6, Zenon
      <2>8. Len(sortedTroves) = Len(TroveOwners)
            BY <2>1 DEF OwnersOK
      <2>9. \A b \in Accounts : ~isActive(b) =>
               Troves[b].debt = 0 /\ Troves[b].coll = 0 /\ Troves[b].stake = 0
            BY <2>1 DEF OwnersOK, isActive
      <2> QED BY <2>5, <2>6, <2>7, <2>8, <2>9 DEF OwnersAgree
<1> QED BY <1>1, ProtocolInvariant, PTL

\* Once somebody has opened a trove no liquidation, redemption, closing or revert leaves
\* the system without one.
THEOREM SystemStaysNonEmpty == Spec => SystemNeverEmpties
<1>1. IInv /\ [Next]_vars => [TroveOwners # << >> => TroveOwners' # << >>]_vars
      <2> SUFFICES ASSUME IInv, [Next]_vars, TroveOwners # << >>
                   PROVE  TroveOwners' # << >>
          OBVIOUS
      <2>1. IInv' /\ NotEmptied
            BY NextKeeps
      <2>2. TroveOwners \in Seq(Accounts) /\ TroveOwners' \in Seq(Accounts)
            BY <2>1 DEF IInv, OwnersOK
      <2>3. Len(TroveOwners) >= 1
            BY <2>2
      <2>4. Len(TroveOwners') >= 1
            BY <2>1, <2>3 DEF NotEmptied
      <2> QED BY <2>2, <2>4
<1> QED BY <1>1, ProtocolInvariant, PTL DEF Spec, SystemNeverEmpties
=============================================================================
