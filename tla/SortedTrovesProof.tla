------------------------- MODULE SortedTrovesProof -------------------------
(***************************************************************************)
(* Proofs about SortedTroves for every set of ids, every bound on the      *)
(* size and every set of ratios: the list stays one intact chain, and the  *)
(* search loops only ever stop at a valid position, neither of which needs *)
(* a sorted list; a sorted list stays sorted; and the linked list          *)
(* implements the abstract one of SortedList.                              *)
(***************************************************************************)
EXTENDS SortedTroves, DataTheorems

\* While an operation runs its node is out of the list and there is room for it.
FrameFits ==
    call # idle => ~contains(call.id) /\ size < MaxSize

\* Loop invariant of _descendList: the current node is in the list, its ratio is
\* at least the new one, and nextId is its successor; or the list is empty.
DescentOnTrack ==
    call.at = "descend" =>
        \/ call.prevId = NULL /\ call.nextId = NULL /\ size = 0
        \/ /\ call.prevId # NULL
           /\ contains(call.prevId)
           /\ call.nextId = nodes[call.prevId].nextId
           /\ call.NICR <= nicr[call.prevId]

\* Loop invariant of _ascendList, its mirror image.
AscentOnTrack ==
    call.at = "ascend" =>
        /\ call.nextId # NULL
        /\ contains(call.nextId)
        /\ call.prevId = nodes[call.nextId].prevId
        /\ call.NICR >= nicr[call.nextId]

\* A list of length n without its place k, and with id put behind its place k.
Without(order, n, k) == [i \in 1..(n - 1) |-> IF i < k THEN order[i] ELSE order[i + 1]]
With(order, n, k, id) ==
    [i \in 1..(n + 1) |-> IF i <= k THEN order[i] ELSE IF i = k + 1 THEN id ELSE order[i - 1]]

\* A step that takes id out of the order the pointers spell, and one that puts it between two
\* neighbours.
TakesOut(id) ==
    \E n \in Nat : \E order \in [1..n -> Ids], k \in 1..n :
        /\ n = size /\ Spells(order) /\ order[k] = id
        /\ size' = n - 1 /\ Spells(Without(order, n, k))'
PutsBetween(id, prevId, nextId) ==
    \E n \in Nat : \E order \in [1..n -> Ids], k \in 0..n, added \in Ids :
        /\ n = size /\ Spells(order) /\ added = id
        /\ prevId = (IF k = 0 THEN NULL ELSE order[k])
        /\ nextId = (IF k = n THEN NULL ELSE order[k + 1])
        /\ size' = n + 1 /\ Spells(With(order, n, k, added))'

IInv ==
    /\ TypeOK
    /\ ListIntact
    /\ FrameFits
    /\ DescentOnTrack
    /\ AscentOnTrack
    /\ FoundPositionIsValid

-----------------------------------------------------------------------------
\* The initial list is empty and intact.
LEMMA InitIInv == Init => IInv
<1> SUFFICES ASSUME Init PROVE IInv
    OBVIOUS
<1> USE IdsAssumption, RatioAssumption, SizeAssumption
<1>1. TypeOK
    BY DEF Init, TypeOK, Addresses, Node, emptyNode
<1>2. ListIntact
    <2> DEFINE order == [i \in 1..size |-> head]
    <2>1. order \in [1..size -> Ids] /\ Spells(order)
        BY DEF Init, Spells, contains, emptyNode, Addresses
    <2> QED BY <2>1 DEF ListIntact, Init, contains, emptyNode, Addresses
<1>3. FrameFits /\ DescentOnTrack /\ AscentOnTrack /\ FoundPositionIsValid
    BY DEF Init, idle, FrameFits, DescentOnTrack, AscentOnTrack, FoundPositionIsValid
<1> QED BY <1>1, <1>2, <1>3 DEF IInv

-----------------------------------------------------------------------------
\* Unlinking a member joins its neighbours and leaves an intact chain with room
\* for one more node.
LEMMA RemoveKeepsList ==
    ASSUME TypeOK, ListIntact, NEW id \in Ids, contains(id), _remove(id)
    PROVE  /\ ListIntact' /\ ~contains(id)'
           /\ head' \in Addresses /\ tail' \in Addresses
           /\ size' \in 0..MaxSize /\ size' < MaxSize
           /\ nodes' \in [Addresses -> Node]
           /\ TakesOut(id)
<1> USE IdsAssumption, SizeAssumption
<1>0. /\ NULL \in Addresses /\ id \in Addresses /\ id # NULL
      /\ nodes \in [Addresses -> Node]
      /\ Ids \subseteq Addresses
    BY DEF Addresses, TypeOK
<1>1. PICK n \in Nat : n = size
    BY DEF TypeOK
<1>2. PICK order \in [1..n -> Ids] : Spells(order)
    BY <1>1 DEF ListIntact
<1>3. PICK k \in 1..n : order[k] = id
    BY <1>1, <1>2 DEF Spells
<1>4. /\ nodes[id].nextId = (IF k = n THEN NULL ELSE order[k + 1])
      /\ nodes[id].prevId = (IF k = 1 THEN NULL ELSE order[k - 1])
    BY <1>1, <1>2, <1>3 DEF Spells
<1>5. head = order[1] /\ tail = order[n] /\ n >= 1 /\ n <= MaxSize
    BY <1>1, <1>2, <1>3 DEF Spells, TypeOK
<1>6. (id = head <=> k = 1) /\ (id = tail <=> k = n)
    BY <1>1, <1>2, <1>3, <1>5 DEF Spells
<1>7. /\ nodes' = Unlinked(id) /\ size' = n - 1
      /\ size' \in 0..MaxSize /\ size' < MaxSize
    BY <1>1, <1>5 DEF _remove
<1>8. nodes' \in [Addresses -> Node]
    BY <1>0, <1>7 DEF Unlinked, Node, emptyNode
<1>9. /\ \A a \in Addresses : a # id => nodes'[a].exists = nodes[a].exists
      /\ nodes'[id] = emptyNode
    BY <1>0, <1>7 DEF Unlinked
<1>10. ASSUME NEW i \in 1..n, i # k
       PROVE  /\ nodes'[order[i]].nextId =
                     (IF i = k - 1 THEN nodes[id].nextId ELSE nodes[order[i]].nextId)
              /\ nodes'[order[i]].prevId =
                     (IF i = k + 1 THEN nodes[id].prevId ELSE nodes[order[i]].prevId)
    <2>1. order[i] # id /\ order[i] \in Addresses
        BY <1>0, <1>1, <1>2, <1>3, <1>10 DEF Spells
    <2>2. n > 1
        BY <1>10
    <2>3. (k # 1 /\ order[i] = nodes[id].prevId) <=> i = k - 1
        BY <1>1, <1>2, <1>3, <1>4, <1>10, <1>0 DEF Spells
    <2>4. (k # n /\ order[i] = nodes[id].nextId) <=> i = k + 1
        BY <1>1, <1>2, <1>3, <1>4, <1>10, <1>0 DEF Spells
    <2>5. k = n => order[i] # nodes[id].nextId
        BY <1>4, <2>1
    <2> QED BY <2>1, <2>2, <2>3, <2>4, <2>5, <1>1, <1>4, <1>6, <1>7 DEF Unlinked
<1> DEFINE rest == Without(order, n, k)
<1> USE DEF Without
<1>11. /\ rest \in [1..(n - 1) -> Ids]
       /\ \A i \in 1..(n - 1) : rest[i] # id
       /\ \A i, j \in 1..(n - 1) : rest[i] = rest[j] => i = j
    <2>1. \A i, j \in 1..n : order[i] = order[j] => i = j
        BY <1>1, <1>2 DEF Spells
    <2>2. rest \in [1..(n - 1) -> Ids]
        BY <1>3, <1>5
    <2>3. \A i \in 1..(n - 1) : rest[i] # id
        BY <2>1, <1>3, <1>5
    <2>4. ASSUME NEW i \in 1..(n - 1), NEW j \in 1..(n - 1), rest[i] = rest[j] PROVE i = j
        <3> DEFINE f(x) == IF x < k THEN x ELSE x + 1
        <3>1. order[f(i)] = order[f(j)] /\ f(i) \in 1..n /\ f(j) \in 1..n
            BY <2>4, <1>3, <1>5
        <3>2. f(i) = f(j)
            BY <3>1, <2>1
        <3> QED BY <3>2, <1>3
    <2> QED BY <2>2, <2>3, <2>4
<1>12. ASSUME NEW i \in 1..(n - 1)
       PROVE  /\ contains(rest[i])'
              /\ nodes'[rest[i]].nextId = (IF i = n - 1 THEN NULL ELSE rest[i + 1])
              /\ nodes'[rest[i]].prevId = (IF i = 1 THEN NULL ELSE rest[i - 1])
    <2>1. PICK j \in 1..n : j # k /\ rest[i] = order[j] /\ j = IF i < k THEN i ELSE i + 1
        BY <1>3, <1>5
    <2>2. /\ nodes[order[j]].nextId = (IF j = n THEN NULL ELSE order[j + 1])
          /\ nodes[order[j]].prevId = (IF j = 1 THEN NULL ELSE order[j - 1])
          /\ contains(order[j])
        BY <1>1, <1>2 DEF Spells
    <2>3. contains(rest[i])'
        BY <2>1, <2>2, <1>0, <1>9, <1>11 DEF contains
    <2>4. nodes'[rest[i]].nextId = (IF i = n - 1 THEN NULL ELSE rest[i + 1])
        BY <2>1, <2>2, <1>3, <1>4, <1>10
    <2>5. nodes'[rest[i]].prevId = (IF i = 1 THEN NULL ELSE rest[i - 1])
        BY <2>1, <2>2, <1>3, <1>4, <1>10
    <2> QED BY <2>3, <2>4, <2>5
<1>13. ASSUME NEW a \in Ids, contains(a)' PROVE \E i \in 1..(n - 1) : rest[i] = a
    <2>1. a # id /\ contains(a)
        BY <1>13, <1>0, <1>9 DEF contains, emptyNode
    <2>2. PICK j \in 1..n : order[j] = a
        BY <2>1, <1>1, <1>2 DEF Spells
    <2>3. CASE j < k
        BY <2>2, <2>3, <1>3
    <2>4. CASE j > k
        <3>1. j - 1 \in 1..(n - 1) /\ rest[j - 1] = a
            BY <2>2, <2>4, <1>3
        <3> QED BY <3>1
    <2> QED BY <2>1, <2>2, <2>3, <2>4, <1>3
<1>14. /\ head' = IF n - 1 = 0 THEN NULL ELSE rest[1]
       /\ tail' = IF n - 1 = 0 THEN NULL ELSE rest[n - 1]
    BY <1>1, <1>2, <1>3, <1>4, <1>5, <1>6 DEF _remove
<1>15. ASSUME NEW a \in Addresses, ~contains(a)' PROVE nodes'[a] = emptyNode
    <2>1. CASE a = id
        BY <2>1, <1>9
    <2>2. CASE a # id
        <3>1. nodes[a] = emptyNode
            BY <2>2, <1>9, <1>15 DEF contains, ListIntact
        <3>2. /\ k # 1 => a # nodes[id].prevId
              /\ k # n => a # nodes[id].nextId
            BY <3>1, <1>1, <1>2, <1>3, <1>4 DEF Spells, contains, emptyNode
        <3>3. /\ nodes'[a].nextId = nodes[a].nextId
              /\ nodes'[a].prevId = nodes[a].prevId \/ (k = n /\ nodes'[a].prevId \in {NULL, nodes[id].prevId})
            BY <2>2, <3>2, <1>0, <1>6, <1>7 DEF Unlinked
        <3>4. nodes'[a].prevId = NULL
            BY <2>2, <3>1, <3>2, <1>0, <1>1, <1>4, <1>6, <1>7 DEF Unlinked, emptyNode
        <3> QED BY <3>1, <3>3, <3>4, <2>2, <1>8, <1>9 DEF Node, emptyNode
    <2> QED BY <2>1, <2>2
<1>16. Spells(rest)'
    <2> HIDE DEF rest
    <2> QED BY <1>7, <1>11, <1>12, <1>13, <1>14 DEF Spells
<1>17. ListIntact'
    <2> HIDE DEF rest
    <2>1. ~contains(NULL)'
        BY <1>0, <1>9 DEF contains, ListIntact
    <2> QED BY <2>1, <1>7, <1>11, <1>15, <1>16 DEF ListIntact
<1>18. head' \in Addresses /\ tail' \in Addresses
    BY <1>0, <1>5, <1>11, <1>14
<1>19. TakesOut(id)
    <2> HIDE DEF Without
    <2> QED BY <1>1, <1>2, <1>3, <1>7, <1>16 DEF TakesOut
<1> HIDE DEF rest
<1> QED BY <1>7, <1>8, <1>9, <1>17, <1>18, <1>19 DEF contains, emptyNode

-----------------------------------------------------------------------------
\* Linking a node in at a valid position keeps the chain intact.
LEMMA LinkKeepsList ==
    ASSUME TypeOK, ListIntact, FrameFits, FoundPositionIsValid, Link
    PROVE  /\ ListIntact'
           /\ head' \in Addresses /\ tail' \in Addresses
           /\ size' \in 0..MaxSize
           /\ nodes' \in [Addresses -> Node]
           /\ PutsBetween(call.id, call.prevId, call.nextId)
<1> USE IdsAssumption, SizeAssumption
<1>0. /\ call \in Frame /\ call # idle
      /\ NULL \in Addresses /\ Ids \subseteq Addresses
      /\ nodes \in [Addresses -> Node]
      /\ ~contains(NULL)
    BY DEF Link, TypeOK, idle, Addresses, ListIntact
<1>1. PICK n \in Nat : n = size
    BY DEF TypeOK
<1>2. PICK order \in [1..n -> Ids] : Spells(order)
    BY <1>1 DEF ListIntact
<1>3. PICK id \in Ids, prevId \in Addresses, nextId \in Addresses :
          /\ id = call.id /\ prevId = call.prevId /\ nextId = call.nextId
          /\ id \in Addresses /\ id # NULL
          /\ ~contains(id)
          /\ nodes[id] = emptyNode
    BY <1>0 DEF Frame, FrameFits, ListIntact, Addresses
<1>4. /\ nodes' = Linked(id, prevId, nextId) /\ size' = n + 1
      /\ size' \in 0..MaxSize
      /\ head' = (IF prevId = NULL THEN id ELSE head)
      /\ tail' = (IF nextId = NULL THEN id ELSE tail)
    BY <1>0, <1>1, <1>3 DEF Link, FrameFits, TypeOK
<1>5. validInsertPosition(call.NICR, prevId, nextId)
    BY <1>3 DEF FoundPositionIsValid, Link
<1>6. PICK k \in 0..n :
          /\ prevId = (IF k = 0 THEN NULL ELSE order[k])
          /\ nextId = (IF k = n THEN NULL ELSE order[k + 1])
    <2>1. CASE prevId = NULL /\ nextId = NULL
        <3>1. n = 0
            BY <1>1, <1>5, <2>1 DEF validInsertPosition, isEmpty
        <3> QED BY <2>1, <3>1
    <2>2. CASE prevId = NULL /\ nextId # NULL
        <3>1. head = nextId /\ n >= 1 /\ nextId = order[1]
            BY <1>1, <1>2, <1>5, <2>2 DEF validInsertPosition, Spells
        <3>2. 0 \in 0..n /\ 0 # n
            BY <3>1
        <3> QED BY <2>2, <3>1, <3>2
    <2>3. CASE prevId # NULL /\ nextId = NULL
        <3>1. tail = prevId /\ n >= 1 /\ prevId = order[n]
            BY <1>1, <1>2, <1>5, <2>3 DEF validInsertPosition, Spells
        <3>2. n \in 0..n /\ n # 0
            BY <3>1
        <3> QED BY <2>3, <3>1, <3>2
    <2>4. CASE prevId # NULL /\ nextId # NULL
        <3>1. nodes[prevId].nextId = nextId
            BY <1>5, <2>4 DEF validInsertPosition
        <3>2. contains(prevId) /\ prevId \in Ids
            BY <3>1, <2>4, <1>0 DEF ListIntact, emptyNode, Addresses
        <3>3. PICK k \in 1..n : order[k] = prevId
            BY <3>2, <1>1, <1>2 DEF Spells
        <3>4. nodes[order[k]].nextId = IF k = n THEN NULL ELSE order[k + 1]
            BY <3>3, <1>1, <1>2 DEF Spells
        <3>5. k # n /\ nextId = order[k + 1] /\ k \in 0..n /\ k # 0
            BY <3>1, <3>3, <3>4, <2>4
        <3> QED BY <3>3, <3>5
    <2> QED BY <2>1, <2>2, <2>3, <2>4
<1>7. \A i \in 1..n : order[i] # id /\ order[i] # NULL /\ order[i] \in Addresses
    BY <1>0, <1>1, <1>2, <1>3 DEF Spells
<1>8. (k = 0 <=> prevId = NULL) /\ (k = n <=> nextId = NULL)
    BY <1>6, <1>7
<1>9. (n # 0 => head = order[1] /\ tail = order[n]) /\ (n = 0 => head = NULL /\ tail = NULL)
    BY <1>1, <1>2 DEF Spells
<1>10. nodes' \in [Addresses -> Node]
    BY <1>0, <1>3, <1>4 DEF Linked, Node, TypeOK
<1>11. /\ \A a \in Addresses : a # id => nodes'[a].exists = nodes[a].exists
       /\ nodes'[id].exists
    BY <1>3, <1>4 DEF Linked
<1>12. nodes'[id].nextId = nextId /\ nodes'[id].prevId = prevId
    <2>1. /\ nextId # NULL => nextId = IF prevId = NULL THEN head ELSE nextId
          /\ prevId # NULL => prevId = IF nextId = NULL THEN tail ELSE prevId
        BY <1>6, <1>7, <1>8, <1>9
    <2> QED BY <2>1, <1>3, <1>4 DEF Linked, emptyNode
<1>13. ASSUME NEW i \in 1..n
       PROVE  /\ nodes'[order[i]].nextId =
                     (IF i = k THEN id ELSE nodes[order[i]].nextId)
              /\ nodes'[order[i]].prevId =
                     (IF i = k + 1 THEN id ELSE nodes[order[i]].prevId)
    <2>1. \A j \in 1..n : order[i] = order[j] => i = j
        BY <1>1, <1>2 DEF Spells
    <2>2. (prevId # NULL /\ order[i] = (IF nextId = NULL THEN tail ELSE prevId)) <=> i = k
        BY <2>1, <1>6, <1>7, <1>8, <1>9
    <2>3. (nextId # NULL /\ order[i] = (IF prevId = NULL THEN head ELSE nextId)) <=> i = k + 1
        BY <2>1, <1>6, <1>7, <1>8, <1>9
    <2> QED BY <2>2, <2>3, <1>4, <1>7 DEF Linked
<1> DEFINE longer == With(order, n, k, id)
<1> USE DEF With
<1>14. /\ longer \in [1..(n + 1) -> Ids]
       /\ \A i, j \in 1..(n + 1) : longer[i] = longer[j] => i = j
    <2>1. longer \in [1..(n + 1) -> Ids]
        BY <1>6
    <2>2. \A i, j \in 1..n : order[i] = order[j] => i = j
        BY <1>1, <1>2 DEF Spells
    <2>3. ASSUME NEW i \in 1..(n + 1), NEW j \in 1..(n + 1), longer[i] = longer[j]
          PROVE  i = j
        <3> DEFINE f(x) == IF x <= k THEN x ELSE x - 1
        <3>1. \A x \in 1..(n + 1) : x # k + 1 => f(x) \in 1..n /\ longer[x] = order[f(x)]
            BY <1>6
        <3>2. longer[k + 1] = id /\ k + 1 \in 1..(n + 1)
            BY <1>6
        <3>3. CASE i = k + 1 \/ j = k + 1
            BY <2>3, <3>1, <3>2, <3>3, <1>7
        <3>4. CASE i # k + 1 /\ j # k + 1
            <4>1. f(i) = f(j)
                BY <2>2, <2>3, <3>1, <3>4
            <4> QED BY <4>1, <3>4, <1>6
        <3> QED BY <3>3, <3>4
    <2> QED BY <2>1, <2>3
<1>15. ASSUME NEW i \in 1..(n + 1)
       PROVE  /\ contains(longer[i])'
              /\ nodes'[longer[i]].nextId = (IF i = n + 1 THEN NULL ELSE longer[i + 1])
              /\ nodes'[longer[i]].prevId = (IF i = 1 THEN NULL ELSE longer[i - 1])
    <2>1. CASE i = k + 1
        <3>1. longer[i] = id
            BY <2>1, <1>6
        <3> QED BY <3>1, <2>1, <1>6, <1>11, <1>12 DEF contains
    <2>2. CASE i # k + 1
        <3>1. PICK j \in 1..n : longer[i] = order[j] /\ j = IF i <= k THEN i ELSE i - 1
            BY <2>2, <1>6
        <3>2. /\ nodes[order[j]].nextId = (IF j = n THEN NULL ELSE order[j + 1])
              /\ nodes[order[j]].prevId = (IF j = 1 THEN NULL ELSE order[j - 1])
              /\ contains(order[j])
            BY <1>1, <1>2 DEF Spells
        <3>3. contains(longer[i])'
            BY <3>1, <3>2, <1>7, <1>11 DEF contains
        <3>4. nodes'[longer[i]].nextId = (IF i = n + 1 THEN NULL ELSE longer[i + 1])
            BY <2>2, <3>1, <3>2, <1>6, <1>13
        <3>5. nodes'[longer[i]].prevId = (IF i = 1 THEN NULL ELSE longer[i - 1])
            BY <2>2, <3>1, <3>2, <1>6, <1>13
        <3> QED BY <3>3, <3>4, <3>5
    <2> QED BY <2>1, <2>2
<1>16. ASSUME NEW a \in Ids, contains(a)' PROVE \E i \in 1..(n + 1) : longer[i] = a
    <2>1. CASE a = id
        <3>1. k + 1 \in 1..(n + 1) /\ longer[k + 1] = a
            BY <2>1, <1>6
        <3> QED BY <3>1
    <2>2. CASE a # id
        <3>1. contains(a)
            BY <2>2, <1>0, <1>11, <1>16 DEF contains
        <3>2. PICK j \in 1..n : order[j] = a
            BY <3>1, <1>1, <1>2 DEF Spells
        <3>3. CASE j <= k
            BY <3>2, <3>3, <1>6
        <3>4. CASE j > k
            <4>1. j + 1 \in 1..(n + 1) /\ longer[j + 1] = a
                BY <3>2, <3>4, <1>6
            <4> QED BY <4>1
        <3> QED BY <3>3, <3>4, <1>6
    <2> QED BY <2>1, <2>2
<1>17. /\ head' = longer[1] /\ tail' = longer[n + 1]
    BY <1>4, <1>6, <1>8, <1>9
<1>18. ASSUME NEW a \in Addresses, ~contains(a)' PROVE nodes'[a] = emptyNode
    <2>1. a # id /\ nodes[a] = emptyNode
        BY <1>11, <1>18 DEF contains, ListIntact
    <2>2. /\ prevId # NULL => a # prevId /\ a # tail
          /\ nextId # NULL => a # nextId /\ a # head
        BY <2>1, <1>0, <1>1, <1>2, <1>6, <1>8, <1>9 DEF Spells, contains, emptyNode
    <2>3. nodes'[a].nextId = NULL /\ nodes'[a].prevId = NULL
        BY <2>1, <2>2, <1>4 DEF Linked, emptyNode
    <2> QED BY <2>1, <2>3, <1>10, <1>11 DEF Node, emptyNode
<1>19. Spells(longer)'
    <2> HIDE DEF longer
    <2>1. n + 1 # 0
        OBVIOUS
    <2> QED BY <2>1, <1>4, <1>14, <1>15, <1>16, <1>17 DEF Spells
<1>20. ListIntact'
    <2> HIDE DEF longer
    <2>1. ~contains(NULL)'
        BY <1>0, <1>3, <1>11 DEF contains
    <2> QED BY <2>1, <1>4, <1>14, <1>18, <1>19 DEF ListIntact
<1>21. PutsBetween(id, prevId, nextId)
    <2> HIDE DEF With
    <2> QED BY <1>1, <1>2, <1>4, <1>6, <1>19 DEF PutsBetween
<1> HIDE DEF longer, With
<1> QED BY <1>0, <1>3, <1>4, <1>10, <1>20, <1>21 DEF TypeOK

-----------------------------------------------------------------------------
\* In an intact list neighbours name each other and the ends are head and tail.
LEMMA PointersAgree ==
    ASSUME TypeOK, ListIntact, NEW a \in Ids, contains(a)
    PROVE  /\ a # NULL /\ a \in Addresses
           /\ IF nodes[a].nextId = NULL THEN tail = a
              ELSE /\ nodes[a].nextId \in Ids /\ contains(nodes[a].nextId)
                   /\ nodes[nodes[a].nextId].prevId = a
                   /\ tail # a
           /\ IF nodes[a].prevId = NULL THEN head = a
              ELSE /\ nodes[a].prevId \in Ids /\ contains(nodes[a].prevId)
                   /\ nodes[nodes[a].prevId].nextId = a
                   /\ head # a
<1> USE IdsAssumption, SizeAssumption
<1>1. PICK n \in Nat : n = size
    BY DEF TypeOK
<1>2. PICK order \in [1..n -> Ids] : Spells(order)
    BY <1>1 DEF ListIntact
<1>3. PICK k \in 1..n : order[k] = a
    BY <1>1, <1>2 DEF Spells
<1>4. /\ nodes[a].nextId = (IF k = n THEN NULL ELSE order[k + 1])
      /\ nodes[a].prevId = (IF k = 1 THEN NULL ELSE order[k - 1])
    BY <1>1, <1>2, <1>3 DEF Spells
<1>41. head = order[1] /\ tail = order[n]
    <2>1. n # 0
        BY <1>3
    <2> QED BY <2>1, <1>1, <1>2 DEF Spells
<1>5. ASSUME k # n
      PROVE  /\ nodes[a].nextId \in Ids /\ contains(nodes[a].nextId)
             /\ nodes[nodes[a].nextId].prevId = a /\ tail # a
    <2>1. k + 1 \in 1..n /\ order[k + 1] \in Ids
        BY <1>3, <1>5
    <2>2. contains(order[k + 1]) /\ nodes[order[k + 1]].prevId = order[k]
        BY <2>1, <1>1, <1>2, <1>3 DEF Spells
    <2>3. tail # a
        BY <1>1, <1>2, <1>3, <1>41, <1>5 DEF Spells
    <2> QED BY <2>1, <2>2, <2>3, <1>3, <1>4, <1>5
<1>6. ASSUME k # 1
      PROVE  /\ nodes[a].prevId \in Ids /\ contains(nodes[a].prevId)
             /\ nodes[nodes[a].prevId].nextId = a /\ head # a
    <2>1. k - 1 \in 1..n /\ order[k - 1] \in Ids /\ k - 1 # n
        BY <1>3, <1>6
    <2>2. contains(order[k - 1]) /\ nodes[order[k - 1]].nextId = order[k]
        BY <2>1, <1>1, <1>2, <1>3 DEF Spells
    <2>3. head # a
        BY <1>1, <1>2, <1>3, <1>41, <1>6 DEF Spells
    <2> QED BY <2>1, <2>2, <2>3, <1>3, <1>4, <1>6
<1>7. a # NULL /\ a \in Addresses
    BY DEF Addresses
<1>8. IF nodes[a].nextId = NULL THEN tail = a
      ELSE /\ nodes[a].nextId \in Ids /\ contains(nodes[a].nextId)
           /\ nodes[nodes[a].nextId].prevId = a
           /\ tail # a
    BY <1>3, <1>4, <1>41, <1>5
<1>9. IF nodes[a].prevId = NULL THEN head = a
      ELSE /\ nodes[a].prevId \in Ids /\ contains(nodes[a].prevId)
           /\ nodes[nodes[a].prevId].nextId = a
           /\ head # a
    BY <1>3, <1>4, <1>41, <1>6
<1> QED BY <1>7, <1>8, <1>9

\* The ends of an intact list: null exactly when it is empty, members otherwise.
LEMMA EndsAgree ==
    ASSUME TypeOK, ListIntact
    PROVE  /\ head = NULL <=> size = 0
           /\ head # NULL => head \in Ids /\ contains(head)
           /\ tail # NULL => tail \in Ids /\ contains(tail)
<1> USE IdsAssumption, SizeAssumption
<1>1. PICK n \in Nat : n = size
    BY DEF TypeOK
<1>2. PICK order \in [1..n -> Ids] : Spells(order)
    BY <1>1 DEF ListIntact
<1>3. CASE n = 0
    BY <1>1, <1>2, <1>3 DEF Spells
<1>4. CASE n # 0
    <2>1. 1 \in 1..n /\ n \in 1..n /\ order[1] \in Ids /\ order[n] \in Ids
        BY <1>4
    <2>2. head = order[1] /\ tail = order[n] /\ contains(order[1]) /\ contains(order[n])
        BY <2>1, <1>1, <1>2, <1>4 DEF Spells
    <2> QED BY <2>1, <2>2, <1>1, <1>4
<1> QED BY <1>3, <1>4

-----------------------------------------------------------------------------
\* Whether the list is intact depends on the list's own data only.
LEMMA ListFrame ==
    ASSUME ListIntact, UNCHANGED data PROVE ListIntact'
<1>1. head' = head /\ tail' = tail /\ size' = size /\ nodes' = nodes
    BY DEF data
<1>2. \A a : contains(a)' <=> contains(a)
    BY <1>1 DEF contains
<1>3. PICK order \in [1..size -> Ids] : Spells(order)
    BY DEF ListIntact
<1>4. Spells(order)'
    BY <1>1, <1>3 DEF Spells, contains
<1> QED BY <1>1, <1>2, <1>3, <1>4 DEF ListIntact

\* The operations start in good order: the node is out of the list, and there is room.
LEMMA OperationIInv ==
    ASSUME IInv, Operation PROVE IInv'
<1> USE IdsAssumption, RatioAssumption, SizeAssumption
<1>1. ASSUME NEW id \in Ids, NEW NICR \in NICRs, NEW p \in Addresses, NEW q \in Addresses,
             insert(id, NICR, p, q)
      PROVE  IInv'
    <2>1. call' \in Frame /\ call'.at = "find" /\ call'.id = id
        BY <1>1 DEF insert, Enter, Frame
    <2>2. TypeOK'
        BY <1>1, <2>1 DEF insert, IInv, TypeOK, data
    <2>3. ListIntact'
        BY <1>1, ListFrame DEF insert, IInv
    <2>4. FrameFits'
        BY <1>1, <2>1 DEF insert, IInv, TypeOK, FrameFits, isFull, contains, data
    <2> QED BY <2>1, <2>2, <2>3, <2>4
        DEF IInv, DescentOnTrack, AscentOnTrack, FoundPositionIsValid
<1>2. ASSUME NEW id \in Ids, NEW NICR \in NICRs, NEW p \in Addresses, NEW q \in Addresses,
             NEW stored \in BOOLEAN, reInsert(id, NICR, p, q, stored)
      PROVE  IInv'
    <2>1. call' \in Frame /\ call'.at = "find" /\ call'.id = id
        BY <1>2 DEF reInsert, Enter, Frame
    <2>2. /\ ListIntact' /\ ~contains(id)'
          /\ head' \in Addresses /\ tail' \in Addresses
          /\ size' \in 0..MaxSize /\ size' < MaxSize
          /\ nodes' \in [Addresses -> Node]
        BY <1>2, RemoveKeepsList DEF reInsert, IInv
    <2>3. TypeOK'
        BY <1>2, <2>1, <2>2 DEF reInsert, IInv, TypeOK
    <2>4. FrameFits'
        BY <2>1, <2>2 DEF FrameFits
    <2> QED BY <2>1, <2>2, <2>3, <2>4
        DEF IInv, DescentOnTrack, AscentOnTrack, FoundPositionIsValid
<1>3. ASSUME NEW id \in Ids, remove(id) PROVE IInv'
    <2>1. call' = idle
        BY <1>3 DEF remove
    <2>2. /\ ListIntact' /\ ~contains(id)'
          /\ head' \in Addresses /\ tail' \in Addresses
          /\ size' \in 0..MaxSize /\ size' < MaxSize
          /\ nodes' \in [Addresses -> Node]
        BY <1>3, RemoveKeepsList DEF remove, IInv
    <2>3. TypeOK'
        BY <1>3, <2>1, <2>2 DEF remove, IInv, TypeOK
    <2> QED BY <2>1, <2>2, <2>3
        DEF IInv, FrameFits, DescentOnTrack, AscentOnTrack, FoundPositionIsValid, idle
<1> QED BY <1>1, <1>2, <1>3 DEF Operation

-----------------------------------------------------------------------------
\* A step of the search keeps the loop invariants: it moves to a member whose
\* ratio is on the right side, or stops at a position that is valid.
LEMMA SearchSetup ==
    ASSUME IInv, call # idle
    PROVE  /\ call \in Frame /\ NULL \in Addresses /\ Ids \subseteq Addresses
           /\ call.NICR \in Nat /\ call.NICR < NoNICR /\ NoNICR \in Nat
           /\ \A a \in Ids : nicr[a] \in Nat /\ getNominalICR(a) = nicr[a]
           /\ getNominalICR(NULL) = NoNICR
           /\ call.prevId \in Addresses /\ call.nextId \in Addresses
<1> USE IdsAssumption, RatioAssumption
<1>1. call \in Frame
    BY DEF IInv, TypeOK
<1>2. /\ call.NICR \in NICRs /\ call.prevId \in Addresses /\ call.nextId \in Addresses
    BY <1>1 DEF Frame
<1>3. \A a \in Ids : nicr[a] \in NICRs \cup {NoNICR}
    BY DEF IInv, TypeOK
<1> QED BY <1>1, <1>2, <1>3 DEF Addresses, getNominalICR

\* Moving the frame on leaves the rest of the invariant to the loop invariants.
LEMMA MoveIInv ==
    ASSUME IInv, call # idle, UNCHANGED <<data, nicr>>,
           NEW place \in {"descend", "ascend", "link"},
           NEW p \in Addresses, NEW q \in Addresses, At(place, p, q),
           place = "descend" =>
              \/ p = NULL /\ q = NULL /\ size = 0
              \/ p # NULL /\ contains(p) /\ q = nodes[p].nextId /\ call.NICR <= nicr[p],
           place = "ascend" =>
              q # NULL /\ contains(q) /\ p = nodes[q].prevId /\ call.NICR >= nicr[q],
           place = "link" => validInsertPosition(call.NICR, p, q)
    PROVE  IInv'
<1>1. head' = head /\ tail' = tail /\ size' = size /\ nodes' = nodes /\ nicr' = nicr
    BY DEF data
<1>2. call \in Frame
    BY SearchSetup
<1>3. /\ call' \in Frame /\ call'.at = place /\ call'.id = call.id
      /\ call'.prevId = p /\ call'.nextId = q /\ call'.NICR = call.NICR /\ call' # idle
    BY <1>2 DEF At, Frame, idle
<1>4. TypeOK'
    BY <1>1, <1>3 DEF IInv, TypeOK
<1>5. ListIntact'
    BY ListFrame DEF IInv
<1>6. FrameFits'
    BY <1>1, <1>3 DEF IInv, FrameFits, contains
<1>7. DescentOnTrack'
    BY <1>1, <1>3 DEF DescentOnTrack, contains
<1>8. AscentOnTrack'
    BY <1>1, <1>3 DEF AscentOnTrack, contains
<1>9. FoundPositionIsValid'
    BY <1>1, <1>3 DEF FoundPositionIsValid, validInsertPosition, isEmpty, getNominalICR
<1> QED BY <1>4, <1>5, <1>6, <1>7, <1>8, <1>9 DEF IInv

\* A member of the list whose neighbours are addresses.
LEMMA NeighboursAreAddresses ==
    ASSUME IInv, NEW a \in Addresses
    PROVE  /\ nodes[a].nextId \in Addresses /\ nodes[a].prevId \in Addresses
           /\ contains(a) => a \in Ids
    BY DEF IInv, TypeOK, Node, ListIntact, Addresses

\* Entering _descendList from a member at or above the new ratio, or from the
\* head when neither hint is of use.
LEMMA StartDescentIInv ==
    ASSUME IInv, call # idle, UNCHANGED <<data, nicr>>, NEW a, StartDescent(a),
           \/ a \in Ids /\ contains(a) /\ call.NICR <= getNominalICR(a)
           \/ a = head
    PROVE  IInv'
<1> USE IdsAssumption, SearchSetup
<1>1. a \in Addresses /\ (a # NULL => a \in Ids /\ contains(a)) /\ (a = NULL => size = 0)
    BY EndsAgree DEF IInv
<1>2. CASE head = a /\ call.NICR >= getNominalICR(a)
    <2>1. At("link", NULL, a) /\ a # NULL
        BY <1>2 DEF StartDescent
    <2>2. validInsertPosition(call.NICR, NULL, a)
        BY <1>2, <2>1 DEF validInsertPosition
    <2> QED BY <1>1, <2>1, <2>2, MoveIInv
<1>3. CASE ~(head = a /\ call.NICR >= getNominalICR(a))
    <2>1. At("descend", a, nodes[a].nextId)
        BY <1>3 DEF StartDescent
    <2>2. a # NULL => call.NICR <= nicr[a]
        BY <1>1, <1>3
    <2>3. a = NULL => nodes[a].nextId = NULL
        BY <1>1 DEF IInv, ListIntact, emptyNode
    <2> QED BY <1>1, <2>1, <2>2, <2>3, MoveIInv, NeighboursAreAddresses
<1> QED BY <1>2, <1>3

\* Entering _ascendList from a member at or below the new ratio.
LEMMA StartAscentIInv ==
    ASSUME IInv, call # idle, UNCHANGED <<data, nicr>>, NEW a \in Ids, StartAscent(a),
           contains(a), call.NICR >= getNominalICR(a)
    PROVE  IInv'
<1> USE IdsAssumption, SearchSetup
<1>1. a \in Addresses /\ a # NULL
    OBVIOUS
<1>2. CASE tail = a /\ call.NICR <= getNominalICR(a)
    <2>1. At("link", a, NULL)
        BY <1>2 DEF StartAscent
    <2>2. validInsertPosition(call.NICR, a, NULL)
        BY <1>1, <1>2 DEF validInsertPosition
    <2> QED BY <1>1, <2>1, <2>2, MoveIInv
<1>3. CASE ~(tail = a /\ call.NICR <= getNominalICR(a))
    <2>1. At("ascend", nodes[a].prevId, a)
        BY <1>3 DEF StartAscent
    <2> QED BY <1>1, <2>1, MoveIInv, NeighboursAreAddresses
<1> QED BY <1>2, <1>3

LEMMA FindIInv == ASSUME IInv, FindInsertPosition PROVE IInv'
<1> USE IdsAssumption
<1>1. call # idle /\ UNCHANGED <<data, nicr>>
    BY DEF FindInsertPosition, idle
<1> USE SearchSetup
<1> DEFINE prevId == IF /\ call.prevId # NULL
                        /\ contains(call.prevId)
                        /\ call.NICR <= getNominalICR(call.prevId)
                     THEN call.prevId ELSE NULL
           nextId == IF /\ call.nextId # NULL
                        /\ contains(call.nextId)
                        /\ call.NICR >= getNominalICR(call.nextId)
                     THEN call.nextId ELSE NULL
           valid == validInsertPosition(call.NICR, call.prevId, call.nextId)
<1>2. CASE valid
    <2>1. At("link", call.prevId, call.nextId)
        BY <1>2 DEF FindInsertPosition
    <2> QED BY <1>1, <1>2, <2>1, MoveIInv
<1>3. CASE ~valid /\ prevId # NULL
    <2>1. StartDescent(prevId)
        BY <1>3 DEF FindInsertPosition
    <2>2. prevId \in Ids /\ contains(prevId) /\ call.NICR <= getNominalICR(prevId)
        BY <1>1, <1>3 DEF Addresses
    <2> HIDE DEF prevId
    <2> QED BY <1>1, <2>1, <2>2, StartDescentIInv
<1>4. CASE ~valid /\ prevId = NULL /\ nextId # NULL
    <2>1. StartAscent(nextId)
        BY <1>4 DEF FindInsertPosition
    <2>2. nextId \in Ids /\ contains(nextId) /\ call.NICR >= getNominalICR(nextId)
        BY <1>1, <1>4 DEF Addresses
    <2> HIDE DEF nextId
    <2> QED BY <1>1, <2>1, <2>2, StartAscentIInv
<1>5. CASE ~valid /\ prevId = NULL /\ nextId = NULL
    <2>1. StartDescent(head)
        BY <1>5 DEF FindInsertPosition
    <2> QED BY <1>1, <2>1, StartDescentIInv
<1> QED BY <1>2, <1>3, <1>4, <1>5

\* If the pair is not valid the current member is not the last, and the new ratio
\* is below its successor's too: the loop can go on.
LEMMA DescendIInv == ASSUME IInv, DescendList PROVE IInv'
<1> USE IdsAssumption
<1>1. call # idle /\ UNCHANGED <<data, nicr>> /\ call.at = "descend"
    BY DEF DescendList, idle
<1> USE SearchSetup
<1> DEFINE p == call.prevId
           q == call.nextId
           valid == validInsertPosition(call.NICR, p, q)
<1>2. \/ p = NULL /\ q = NULL /\ size = 0
      \/ p # NULL /\ p \in Ids /\ contains(p) /\ q = nodes[p].nextId /\ call.NICR <= nicr[p]
    BY <1>1, NeighboursAreAddresses DEF IInv, DescentOnTrack
<1>3. CASE p # NULL /\ ~valid
    <2>1. At("descend", nodes[p].nextId, nodes[nodes[p].nextId].nextId)
        BY <1>3 DEF DescendList
    <2>2. q # NULL
        BY <1>1, <1>2, <1>3, PointersAgree DEF IInv, validInsertPosition
    <2>3. q \in Ids /\ contains(q)
        BY <1>2, <1>3, <2>2, PointersAgree DEF IInv
    <2>4. call.NICR <= nicr[q]
        BY <1>1, <1>2, <1>3, <2>2, <2>3 DEF validInsertPosition
    <2> QED BY <1>1, <1>2, <1>3, <2>1, <2>2, <2>3, <2>4, MoveIInv, NeighboursAreAddresses
<1>4. CASE ~(p # NULL /\ ~valid)
    <2>1. At("link", p, q)
        BY <1>4 DEF DescendList
    <2>2. valid
        BY <1>2, <1>4 DEF validInsertPosition, isEmpty
    <2> QED BY <1>1, <2>1, <2>2, MoveIInv
<1> QED BY <1>3, <1>4

LEMMA AscendIInv == ASSUME IInv, AscendList PROVE IInv'
<1> USE IdsAssumption
<1>1. call # idle /\ UNCHANGED <<data, nicr>> /\ call.at = "ascend"
    BY DEF AscendList, idle
<1> USE SearchSetup
<1> DEFINE p == call.prevId
           q == call.nextId
           valid == validInsertPosition(call.NICR, p, q)
<1>2. q # NULL /\ q \in Ids /\ contains(q) /\ p = nodes[q].prevId /\ call.NICR >= nicr[q]
    BY <1>1, NeighboursAreAddresses DEF IInv, AscentOnTrack
<1>3. CASE ~valid
    <2>1. At("ascend", nodes[nodes[q].prevId].prevId, nodes[q].prevId)
        BY <1>2, <1>3 DEF AscendList
    <2>2. p # NULL
        BY <1>1, <1>2, <1>3, PointersAgree DEF IInv, validInsertPosition
    <2>3. p \in Ids /\ contains(p) /\ nodes[p].nextId = q
        BY <1>2, <2>2, PointersAgree DEF IInv
    <2>4. call.NICR >= nicr[p]
        BY <1>1, <1>2, <1>3, <2>2, <2>3 DEF validInsertPosition
    <2> QED BY <1>1, <1>2, <2>1, <2>2, <2>3, <2>4, MoveIInv, NeighboursAreAddresses
<1>4. CASE valid
    <2>1. At("link", p, q)
        BY <1>2, <1>4 DEF AscendList
    <2> QED BY <1>1, <1>4, <2>1, MoveIInv
<1> QED BY <1>3, <1>4

LEMMA LinkIInv == ASSUME IInv, Link PROVE IInv'
<1>1. call' = idle /\ call # idle
    BY DEF Link, idle
<1>2. /\ ListIntact' /\ head' \in Addresses /\ tail' \in Addresses
      /\ size' \in 0..MaxSize /\ nodes' \in [Addresses -> Node]
    BY LinkKeepsList DEF IInv
<1>3. nicr' \in [Ids -> NICRs \cup {NoNICR}]
    BY <1>1, SearchSetup DEF Link, IInv, TypeOK, Frame
<1> QED BY <1>1, <1>2, <1>3
    DEF IInv, TypeOK, FrameFits, DescentOnTrack, AscentOnTrack, FoundPositionIsValid, idle

LEMMA NextIInv == IInv /\ [Next]_vars => IInv'
<1> SUFFICES ASSUME IInv, [Next]_vars PROVE IInv'
    OBVIOUS
<1>1. CASE Operation
    BY <1>1, OperationIInv
<1>2. CASE Search
    BY <1>2, FindIInv, DescendIInv, AscendIInv, LinkIInv DEF Search
<1>3. CASE Drift
    <2>1. UNCHANGED data /\ call = idle /\ call' = idle
        BY <1>3 DEF Drift
    <2>2. ListIntact'
        BY <2>1, ListFrame DEF IInv
    <2>3. TypeOK'
        BY <1>3, <2>1 DEF Drift, IInv, TypeOK, data
    <2> QED BY <2>1, <2>2, <2>3
        DEF IInv, FrameFits, DescentOnTrack, AscentOnTrack, FoundPositionIsValid, idle
<1>4. CASE UNCHANGED vars
    <2>1. UNCHANGED data /\ UNCHANGED nicr /\ UNCHANGED call
        BY <1>4 DEF vars, data
    <2>2. ListIntact'
        BY <2>1, ListFrame DEF IInv
    <2> QED BY <2>1, <2>2 DEF IInv, TypeOK, FrameFits, DescentOnTrack, AscentOnTrack,
            FoundPositionIsValid, validInsertPosition, isEmpty, getNominalICR, contains, data
<1> QED BY <1>1, <1>2, <1>3, <1>4 DEF Next

\* The invariant the theorems rest on.
THEOREM ListInvariant == Spec => []IInv
    BY InitIInv, NextIInv, PTL DEF Spec

\* Type correctness, data.size within the limit given to setParams included.
THEOREM TypeCorrect == Spec => []TypeOK
<1>1. IInv => TypeOK
    BY DEF IInv
<1> QED BY <1>1, ListInvariant, PTL

\* The linked list is intact after every step of every operation, whatever the
\* hints, the number of troves and the ratios.
THEOREM ListStaysIntact == Spec => []ListIntact
<1>1. IInv => ListIntact
    BY DEF IInv
<1> QED BY <1>1, ListInvariant, PTL

\* Neither search loop ever leaves the list: the position it hands to _insert is
\* valid even when the list is no longer sorted.
THEOREM SearchFindsAValidPosition == Spec => []FoundPositionIsValid
<1>1. IInv => FoundPositionIsValid
    BY DEF IInv
<1> QED BY <1>1, ListInvariant, PTL

-----------------------------------------------------------------------------
\* A member's successor is a member too, and its ratio and the member's are numbers.
LEMMA SuccessorIsListed ==
    ASSUME IInv, NEW a \in Ids, contains(a)
    PROVE  /\ nodes[a].nextId # NULL =>
                 nodes[a].nextId \in Ids /\ contains(nodes[a].nextId) /\ nodes[nodes[a].nextId].prevId = a
           /\ \A b \in Ids : nicr[b] \in Nat
<1>1. \A b \in Ids : nicr[b] \in Nat
    BY RatioAssumption DEF IInv, TypeOK
<1> QED BY <1>1, PointersAgree DEF IInv

\* As long as the list's data and the ratios of its members stay, it stays sorted.
LEMMA FrameSorted ==
    ASSUME IInv, Sorted, nodes' = nodes,
           \A a \in Ids : contains(a) => nicr'[a] = nicr[a]
    PROVE  Sorted'
<1> SUFFICES ASSUME NEW a \in Ids, contains(a), nodes[a].nextId # NULL
             PROVE  nicr'[a] >= nicr'[nodes[a].nextId]
    BY DEF Sorted, contains
<1>1. nodes[a].nextId \in Ids /\ contains(nodes[a].nextId)
    BY SuccessorIsListed
<1> QED BY <1>1 DEF Sorted

\* Taking a member out joins its neighbours, whose ratios lie on either side of its own.
LEMMA RemoveSorted ==
    ASSUME IInv, Sorted, NEW id \in Ids, contains(id), _remove(id),
           \A a \in Ids : a # id => nicr'[a] = nicr[a]
    PROVE  Sorted'
<1> USE IdsAssumption, SizeAssumption
<1>1. /\ nodes' = Unlinked(id) /\ id \in Addresses /\ Ids \subseteq Addresses
      /\ nodes'[id] = emptyNode
    BY DEF _remove, Unlinked, Addresses
<1> SUFFICES ASSUME NEW a \in Ids, contains(a)', nodes'[a].nextId # NULL
             PROVE  nicr'[a] >= nicr'[nodes'[a].nextId]
    BY DEF Sorted
<1>2. a # id /\ contains(a)
    BY <1>1 DEF contains, emptyNode, Unlinked
<1>3. CASE nodes[a].nextId = id
    <2>1. nodes[id].prevId = a /\ id # head
        BY <1>2, <1>3, PointersAgree DEF IInv
    <2>11. size > 1
        <3>1. PICK order \in [1..size -> Ids] : Spells(order)
            BY DEF IInv, ListIntact
        <3>2. (\E i \in 1..size : order[i] = a) /\ (\E i \in 1..size : order[i] = id)
            BY <1>2, <3>1 DEF Spells
        <3> QED BY <1>2, <3>2 DEF IInv, TypeOK
    <2>12. id = tail <=> nodes[id].nextId = NULL
        BY PointersAgree DEF IInv
    <2>2. nodes'[a].nextId = nodes[id].nextId
        BY <1>1, <1>2, <2>1, <2>11, <2>12 DEF Unlinked
    <2>3. nodes[id].nextId \in Ids /\ nodes[nodes[id].nextId].prevId = id
        BY <2>2, SuccessorIsListed
    <2>4. nodes[id].nextId # id
        BY <2>1, <2>3, <1>2
    <2>5. nicr[a] >= nicr[id] /\ nicr[id] >= nicr[nodes[id].nextId]
        BY <1>2, <1>3, <2>2, <2>3 DEF Sorted
    <2>6. nicr[a] >= nicr[nodes[id].nextId]
        BY <2>3, <2>5, <1>2, SuccessorIsListed
    <2> QED BY <1>2, <2>2, <2>3, <2>4, <2>6
<1>4. CASE nodes[a].nextId # id
    <2>1. nodes[id].prevId # a
        BY <1>2, <1>4, PointersAgree DEF IInv
    <2>2. nodes'[a].nextId = nodes[a].nextId
        BY <1>1, <1>2, <2>1 DEF Unlinked
    <2>3. nodes[a].nextId \in Ids
        BY <1>2, <2>2, SuccessorIsListed
    <2> QED BY <1>2, <1>4, <2>2, <2>3 DEF Sorted
<1> QED BY <1>3, <1>4

\* A node linked in at a valid position has its ratio between its neighbours'.
LEMMA LinkSorted ==
    ASSUME IInv, Sorted, Link
    PROVE  Sorted'
<1> USE IdsAssumption, SizeAssumption
<1>0. call # idle
    BY DEF Link, idle
<1>1. PICK id \in Ids, prevId \in Addresses, nextId \in Addresses :
          /\ id = call.id /\ prevId = call.prevId /\ nextId = call.nextId
          /\ ~contains(id) /\ nodes[id] = emptyNode /\ id # NULL
    BY <1>0, SearchSetup DEF Frame, IInv, FrameFits, ListIntact, Addresses
<1>2. /\ nodes' = Linked(id, prevId, nextId)
      /\ nicr' = [nicr EXCEPT ![id] = call.NICR]
      /\ nicr \in [Ids -> NICRs \cup {NoNICR}]
      /\ Ids \subseteq Addresses
    BY <1>1 DEF Link, IInv, TypeOK, Addresses
<1>3. validInsertPosition(call.NICR, prevId, nextId)
    BY <1>1 DEF FoundPositionIsValid, Link, IInv
<1>4. /\ prevId # NULL => /\ prevId \in Ids /\ nicr[prevId] >= call.NICR
                          /\ prevId = IF nextId = NULL THEN tail ELSE prevId
      /\ nextId # NULL => /\ nextId \in Ids /\ call.NICR >= nicr[nextId]
                          /\ nextId = IF prevId = NULL THEN head ELSE nextId
    BY <1>0, <1>3, SearchSetup DEF validInsertPosition, Addresses
<1>41. (prevId # NULL => contains(prevId)) /\ (nextId # NULL => contains(nextId))
    <2>1. CASE prevId # NULL /\ nextId # NULL
        <3>1. nodes[prevId].nextId = nextId
            BY <1>3, <2>1 DEF validInsertPosition
        <3>2. contains(prevId)
            BY <3>1, <2>1, <1>4 DEF IInv, ListIntact, emptyNode
        <3> QED BY <3>1, <3>2, <2>1, <1>4, SuccessorIsListed
    <2>2. CASE prevId = NULL \/ nextId = NULL
        BY <1>3, <2>2, EndsAgree DEF validInsertPosition, IInv
    <2> QED BY <2>1, <2>2
<1>42. prevId # id /\ nextId # id
    BY <1>1, <1>41
<1> SUFFICES ASSUME NEW a \in Ids, contains(a)', nodes'[a].nextId # NULL
             PROVE  nicr'[a] >= nicr'[nodes'[a].nextId]
    BY DEF Sorted
<1>5. CASE a = id
    <2>1. nodes'[a].nextId = nextId
        BY <1>1, <1>2, <1>4, <1>5 DEF Linked, emptyNode
    <2> QED BY <2>1, <1>2, <1>4, <1>42, <1>5
<1>6. CASE a # id /\ prevId # NULL /\ a = prevId
    <2>1. nodes'[a].nextId = id
        BY <1>2, <1>4, <1>6 DEF Linked
    <2> QED BY <2>1, <1>1, <1>2, <1>4, <1>6
<1>7. CASE a # id /\ ~(prevId # NULL /\ a = prevId)
    <2>1. nodes'[a].nextId = nodes[a].nextId /\ contains(a)
        BY <1>2, <1>4, <1>7 DEF Linked, contains
    <2>2. nodes[a].nextId \in Ids /\ contains(nodes[a].nextId)
        BY <2>1, SuccessorIsListed
    <2>3. nodes[a].nextId # id
        BY <2>2, <1>1
    <2> QED BY <2>1, <2>2, <2>3, <1>2, <1>7 DEF Sorted
<1> QED BY <1>5, <1>6, <1>7

LEMMA StepSorted ==
    ASSUME IInv, Sorted, [Next]_vars,
           \A a, b \in Ids : contains(a) /\ contains(b) /\ nicr[a] >= nicr[b] => nicr'[a] >= nicr'[b]
    PROVE  Sorted'
<1>0. nicr \in [Ids -> NICRs \cup {NoNICR}]
    BY DEF IInv, TypeOK
<1>1. ASSUME NEW id \in Ids, NEW NICR \in NICRs, NEW p \in Addresses, NEW q \in Addresses,
             insert(id, NICR, p, q)
      PROVE  Sorted'
    BY <1>0, <1>1, FrameSorted DEF insert, data
<1>2. ASSUME NEW id \in Ids, NEW NICR \in NICRs, NEW p \in Addresses, NEW q \in Addresses,
             NEW stored \in BOOLEAN, reInsert(id, NICR, p, q, stored)
      PROVE  Sorted'
    BY <1>0, <1>2, RemoveSorted DEF reInsert
<1>3. ASSUME NEW id \in Ids, remove(id) PROVE Sorted'
    BY <1>0, <1>3, RemoveSorted DEF remove
<1>4. CASE FindInsertPosition \/ DescendList \/ AscendList \/ UNCHANGED vars
    <2>1. nodes' = nodes /\ nicr' = nicr
        BY <1>4 DEF FindInsertPosition, DescendList, AscendList, data, vars
    <2> QED BY <2>1, FrameSorted
<1>5. CASE Link
    BY <1>5, LinkSorted
<1>6. CASE Drift
    <2> SUFFICES ASSUME NEW a \in Ids, contains(a), nodes[a].nextId # NULL
                 PROVE  nicr'[a] >= nicr'[nodes[a].nextId]
        BY <1>6 DEF Sorted, contains, Drift, data
    <2>1. nodes[a].nextId \in Ids /\ contains(nodes[a].nextId) /\ nicr[a] >= nicr[nodes[a].nextId]
        BY SuccessorIsListed DEF Sorted
    <2> QED BY <2>1
<1> QED BY <1>1, <1>2, <1>3, <1>4, <1>5, <1>6 DEF Next, Operation, Search

\* The header's promise holds of every list: sorted nodes stay sorted through every operation and
\* every order-preserving change of the ratios.  It needs the intact chain (a node's successor is
\* a member) and the valid position of ListInvariant.
THEOREM NodesStaySorted == Spec => NodesRemainSorted
<1>1. IInv /\ [Next]_vars =>
        [(/\ Sorted
          /\ \A a, b \in Ids : contains(a) /\ contains(b) /\ nicr[a] >= nicr[b] => nicr'[a] >= nicr'[b])
          => Sorted']_vars
    BY StepSorted
<1> QED BY <1>1, ListInvariant, PTL DEF Spec, NodesRemainSorted

-----------------------------------------------------------------------------
(* The list that the pointers spell: Walk is the order of ListIntact.      *)

\* What following nextId from h through nodes d visits in n steps.
WalkFrom(n, h, d) ==
    LET visit[k \in 1..n] == IF k = 1 THEN h ELSE d[visit[k - 1]].nextId
    IN [k \in 1..n |-> visit[k]]

\* f is a solution of the recursion of the walk.
Visits(f, n, h, d) == f = [k \in 1..n |-> IF k = 1 THEN h ELSE d[f[k - 1]].nextId]

\* There is one solution at most: two could not differ at a smallest place.
LEMMA VisitsSame ==
    ASSUME NEW n \in Nat, NEW h, NEW d, NEW f, NEW g, Visits(f, n, h, d), Visits(g, n, h, d)
    PROVE  f = g
<1> DEFINE B == {T \in SUBSET (1..n) : \E j \in 1..n : T = 1..j /\ f[j] # g[j]}
<1>1. ASSUME NEW j \in 1..n, f[j] # g[j] PROVE FALSE
    <2>1. B # {} /\ B \in SUBSET (SUBSET (1..n))
        <3>1. 1..j \in B
            BY <1>1
        <3> QED BY <3>1
    <2>2. IsFiniteSet(1..n)
        BY FS_Interval
    <2>3. PICK T \in B : \A U \in SUBSET T : U # T => U \notin B
        <3> HIDE DEF B
        <3> QED BY <2>1, <2>2, MinimalSubset
    <2>4. PICK k \in 1..n : T = 1..k /\ f[k] # g[k]
        OBVIOUS
    <2>5. k # 1
        BY <2>4 DEF Visits
    <2>6. k - 1 \in 1..n /\ 1..(k - 1) \in SUBSET T /\ 1..(k - 1) # T
        <3>1. k \notin 1..(k - 1) /\ k \in T
            BY <2>4
        <3> QED BY <3>1, <2>4, <2>5
    <2>7. f[k - 1] = g[k - 1]
        BY <2>3, <2>6
    <2> QED BY <2>4, <2>5, <2>7 DEF Visits
<1> QED BY <1>1 DEF Visits

\* A sequence in which every element is the nextId of the one before is the walk.
LEMMA WalkIs ==
    ASSUME NEW n \in Nat, NEW h, NEW d, NEW order \in [1..n -> Ids],
           n # 0 => order[1] = h,
           \A i \in 1..n : i # n => d[order[i]].nextId = order[i + 1]
    PROVE  WalkFrom(n, h, d) = order
<1> DEFINE v == CHOOSE f : Visits(f, n, h, d)
<1>1. Visits(order, n, h, d)
    <2>1. ASSUME NEW k \in 1..n PROVE order[k] = IF k = 1 THEN h ELSE d[order[k - 1]].nextId
        <3>1. k # 1 => k - 1 \in 1..n /\ k - 1 # n /\ (k - 1) + 1 = k
            OBVIOUS
        <3> QED BY <3>1
    <2> QED BY <2>1 DEF Visits
<1>2. WalkFrom(n, h, d) = [k \in 1..n |-> v[k]]
    BY DEF WalkFrom, Visits
<1>3. Visits(v, n, h, d)
    BY <1>1
<1>4. v = order
    <2> HIDE DEF v
    <2> QED BY <1>1, <1>3, VisitsSame
<1> QED BY <1>2, <1>4

\* The order that the pointers spell is the one reached by following nextId from head, before and
\* after a step.
LEMMA WalkIsOrder ==
    ASSUME NEW n \in Nat, n = size, NEW order \in [1..n -> Ids], Spells(order)
    PROVE  Walk = order
<1>1. Walk = WalkFrom(size, head, nodes)
    BY DEF Walk, WalkFrom
<1> QED BY <1>1, WalkIs DEF Spells

LEMMA WalkIsOrderAfter ==
    ASSUME NEW n \in Nat, n = size', NEW order \in [1..n -> Ids], Spells(order)'
    PROVE  Walk' = order
<1>1. Walk' = WalkFrom(size', head', nodes')
    BY DEF Walk, WalkFrom
<1> QED BY <1>1, WalkIs DEF Spells

\* A step that leaves the pointers alone leaves the walk alone.
LEMMA SameWalk == ASSUME UNCHANGED data PROVE Walk' = Walk
BY DEF Walk, data

-----------------------------------------------------------------------------
(* Every step of the linked list is one of the abstract list, or none.     *)

\* The abstract list's operations on sequences are the library's.
LEMMA ListOperations ==
    /\ \A s, e : SL!RemoveFirst(s, e) = RemoveFirst(s, e)
    /\ \A s, k, e : SL!InsertAt(s, k, e) = InsertAt(s, k, e)
    /\ \A s, e : SL!Contains(s, e) <=> \E i \in 1..Len(s) : s[i] = e
<1>1. \A s, e : SL!RemoveFirst(s, e) = RemoveFirst(s, e)
    BY DEF SL!RemoveFirst, RemoveFirst, SL!RemoveAt, RemoveAt, SL!SelectInSeq, SelectInSeq, SL!Min, Min
<1>2. \A s, k, e : SL!InsertAt(s, k, e) = InsertAt(s, k, e)
    BY DEF SL!InsertAt, InsertAt
<1>3. \A s, e : SL!Contains(s, e) <=> \E i \in 1..Len(s) : s[i] = e
    BY DEF SL!Contains
<1> QED BY <1>1, <1>2, <1>3

\* A function on 1..n is a sequence.
LEMMA OrderIsSequence ==
    ASSUME NEW n \in Nat, NEW order \in [1..n -> Ids]
    PROVE  order \in Seq(Ids) /\ Len(order) = n
OBVIOUS

\* Taking a node out of the chain takes its id out of the list and leaves the order of the others.
LEMMA TakesOutRefines ==
    ASSUME NEW id \in Ids, TakesOut(id), NEW r \in NICRs \cup {NoNICR}, nicr' = [nicr EXCEPT ![id] = r]
    PROVE  SL!RemoveNode(id)
<1>1. PICK n \in Nat : \E order \in [1..n -> Ids], k \in 1..n :
          /\ n = size /\ Spells(order) /\ order[k] = id
          /\ size' = n - 1 /\ Spells(Without(order, n, k))'
    BY DEF TakesOut
<1>2. PICK order \in [1..n -> Ids], k \in 1..n :
          /\ n = size /\ Spells(order) /\ order[k] = id
          /\ size' = n - 1 /\ Spells(Without(order, n, k))'
    BY <1>1
<1>3. Walk = order /\ order \in Seq(Ids) /\ Len(order) = n
    BY <1>2, WalkIsOrder, OrderIsSequence
<1>4. n - 1 \in Nat /\ Without(order, n, k) \in [1..(n - 1) -> Ids]
    BY DEF Without
<1>5. Walk' = Without(order, n, k) /\ Without(order, n, k) \in Seq(Ids) /\ Len(Without(order, n, k)) = n - 1
    BY <1>2, <1>4, WalkIsOrderAfter, OrderIsSequence
<1>6. NoRepeats(order)
    BY <1>2, <1>3 DEF Spells, NoRepeats
<1>7. /\ RemoveFirst(order, id) \in Seq(Ids) /\ Len(RemoveFirst(order, id)) = n - 1
      /\ \A i \in 1..n - 1 : RemoveFirst(order, id)[i] = IF i < k THEN order[i] ELSE order[i + 1]
    BY <1>2, <1>3, <1>6, RemoveFirstElements
<1>8. RemoveFirst(order, id) = Without(order, n, k)
    BY <1>4, <1>5, <1>7 DEF Without
<1>9. SL!Contains(Walk, id)
    BY <1>2, <1>3, ListOperations
<1>10. Walk' = SL!RemoveFirst(Walk, id)
    BY <1>3, <1>5, <1>8, ListOperations
<1> QED BY <1>9, <1>10 DEF SL!RemoveNode

\* Linking a node in at a valid position puts its id between two neighbours whose ratios bracket
\* its own, and leaves the order of the others.
LEMMA LinkRefines ==
    ASSUME IInv, Link
    PROVE  \E id \in Ids, NICR \in NICRs : SL!InsertNode(id, NICR)
<1>1. /\ call # idle /\ call.id \in Ids /\ call.NICR \in NICRs /\ ~contains(call.id) /\ size < MaxSize
      /\ call.prevId \in Addresses /\ call.nextId \in Addresses
      /\ nicr' = [nicr EXCEPT ![call.id] = call.NICR]
      /\ validInsertPosition(call.NICR, call.prevId, call.nextId)
    <2>1. call # idle
        BY DEF Link, idle
    <2> QED BY <2>1, SearchSetup DEF Link, IInv, FrameFits, FoundPositionIsValid, Frame
<1>2. PutsBetween(call.id, call.prevId, call.nextId)
    BY LinkKeepsList DEF IInv
<1>3. PICK n \in Nat : \E order \in [1..n -> Ids], k \in 0..n, added \in Ids :
          /\ n = size /\ Spells(order) /\ added = call.id
          /\ call.prevId = (IF k = 0 THEN NULL ELSE order[k])
          /\ call.nextId = (IF k = n THEN NULL ELSE order[k + 1])
          /\ size' = n + 1 /\ Spells(With(order, n, k, added))'
    BY <1>2 DEF PutsBetween
<1>4. PICK order \in [1..n -> Ids], k \in 0..n, id \in Ids :
          /\ n = size /\ Spells(order) /\ id = call.id
          /\ call.prevId = (IF k = 0 THEN NULL ELSE order[k])
          /\ call.nextId = (IF k = n THEN NULL ELSE order[k + 1])
          /\ size' = n + 1 /\ Spells(With(order, n, k, id))'
    BY <1>3
<1>5. PICK NICR \in NICRs : NICR = call.NICR
    BY <1>1
<1>6. Walk = order /\ order \in Seq(Ids) /\ Len(order) = n
    BY <1>4, WalkIsOrder, OrderIsSequence
<1>7. n + 1 \in Nat /\ With(order, n, k, id) \in [1..(n + 1) -> Ids]
    BY DEF With
<1>8. /\ Walk' = With(order, n, k, id)
      /\ With(order, n, k, id) \in Seq(Ids) /\ Len(With(order, n, k, id)) = n + 1
    BY <1>4, <1>7, WalkIsOrderAfter, OrderIsSequence
<1>9. /\ InsertAt(order, k + 1, id) \in Seq(Ids) /\ Len(InsertAt(order, k + 1, id)) = n + 1
      /\ \A i \in 1..n + 1 : InsertAt(order, k + 1, id)[i] =
            IF i < k + 1 THEN order[i] ELSE IF i = k + 1 THEN id ELSE order[i - 1]
    <2>1. PICK s \in Seq(Ids) : s = order
        BY <1>6
    <2>2. PICK j \in 1..Len(s) + 1 : j = k + 1
        BY <1>6, <2>1
    <2>3. /\ InsertAt(s, j, id) \in Seq(Ids) /\ Len(InsertAt(s, j, id)) = Len(s) + 1
          /\ \A i \in 1..Len(s) + 1 : InsertAt(s, j, id)[i] =
                IF i < j THEN s[i] ELSE IF i = j THEN id ELSE s[i - 1]
        BY InsertAtElements
    <2> QED BY <1>6, <2>1, <2>2, <2>3
<1>10. InsertAt(order, k + 1, id) = With(order, n, k, id)
    BY <1>7, <1>8, <1>9 DEF With
<1>11. Walk' = SL!InsertAt(Walk, k + 1, id)
    BY <1>6, <1>8, <1>10, ListOperations
<1>12. ~SL!Contains(Walk, id)
    <2>1. \A i \in 1..n : contains(order[i])
        BY <1>4 DEF Spells
    <2> QED BY <1>1, <1>4, <1>6, <2>1, ListOperations
<1>13. SL!Brackets(NICR, k)
    <2>1. \A i \in 1..n : order[i] # NULL
        BY IdsAssumption
    <2>2. k >= 1 => nicr[order[k]] >= NICR
        BY <1>1, <1>4, <1>5, <2>1, RatioAssumption DEF validInsertPosition, getNominalICR, IInv, TypeOK
    <2>3. k < n => NICR >= nicr[order[k + 1]]
        BY <1>1, <1>4, <1>5, <2>1, RatioAssumption DEF validInsertPosition, getNominalICR, IInv, TypeOK
    <2> QED BY <1>6, <2>2, <2>3 DEF SL!Brackets
<1>14. SL!InsertNode(id, NICR)
    BY <1>1, <1>4, <1>5, <1>6, <1>11, <1>12, <1>13 DEF SL!InsertNode
<1> QED BY <1>14

\* A step of the linked list is a step of the abstract list; searching is none.
LEMMA StepRefines == ASSUME IInv, [Next]_vars PROVE [SL!Next]_SL!vars
<1>0. nicr \in [Ids -> NICRs \cup {NoNICR}]
    BY DEF IInv, TypeOK
<1>1. ASSUME NEW id \in Ids, NEW NICR \in NICRs, NEW p \in Addresses, NEW q \in Addresses,
             insert(id, NICR, p, q)
      PROVE  SL!Next
    <2>1. UNCHANGED data /\ nicr' \in [Ids -> NICRs \cup {NoNICR}]
        BY <1>0, <1>1 DEF insert
    <2> QED BY <2>1, SameWalk DEF SL!Next, SL!Drift
<1>2. ASSUME NEW id \in Ids, NEW NICR \in NICRs, NEW p \in Addresses, NEW q \in Addresses,
             NEW stored \in BOOLEAN, reInsert(id, NICR, p, q, stored)
      PROVE  SL!Next
    <2>1. TakesOut(id)
        BY <1>2, RemoveKeepsList DEF reInsert, IInv
    <2>2. PICK r \in NICRs \cup {NoNICR} : nicr' = [nicr EXCEPT ![id] = r]
        <3>1. CASE stored
            BY <1>2, <3>1 DEF reInsert
        <3>2. CASE ~stored
            <4>1. nicr' = [nicr EXCEPT ![id] = nicr[id]] /\ nicr[id] \in NICRs \cup {NoNICR}
                BY <1>0, <1>2, <3>2 DEF reInsert
            <4> QED BY <4>1
        <3> QED BY <3>1, <3>2
    <2>3. SL!RemoveNode(id)
        BY <2>1, <2>2, TakesOutRefines
    <2> QED BY <2>3 DEF SL!Next
<1>3. ASSUME NEW id \in Ids, remove(id) PROVE SL!Next
    <2>1. TakesOut(id) /\ nicr' = [nicr EXCEPT ![id] = NoNICR]
        BY <1>3, RemoveKeepsList DEF remove, IInv
    <2>2. SL!RemoveNode(id)
        BY <2>1, TakesOutRefines
    <2> QED BY <2>2 DEF SL!Next
<1>4. CASE FindInsertPosition \/ DescendList \/ AscendList \/ UNCHANGED vars
    <2>1. UNCHANGED data /\ nicr' = nicr
        BY <1>4 DEF FindInsertPosition, DescendList, AscendList, data, vars
    <2> QED BY <2>1, SameWalk DEF SL!vars
<1>5. CASE Link
    BY <1>5, LinkRefines DEF SL!Next
<1>6. CASE Drift
    BY <1>6, SameWalk DEF Drift, SL!Next, SL!Drift
<1> QED BY <1>1, <1>2, <1>3, <1>4, <1>5, <1>6 DEF Next, Operation, Search

\* The linked list implements the list that its callers rely on, for every number of troves and
\* every hint: an insertion puts the id where its ratio fits and disturbs nobody else, a removal
\* keeps the order of the others, and the search loops change nothing.
THEOREM LinkedListImplementsList == Spec => ImplementsSortedList
<1>1. Init => SL!Init
    <2>1. ASSUME Init PROVE Walk = << >>
        BY <2>1 DEF Init, Walk
    <2> QED BY <2>1 DEF Init, SL!Init
<1>2. IInv /\ [Next]_vars => [SL!Next]_SL!vars
    BY StepRefines
<1> QED BY <1>1, <1>2, ListInvariant, PTL DEF Spec, ImplementsSortedList, SL!Spec
=============================================================================
