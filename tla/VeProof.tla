------------------------------ MODULE VeProof -------------------------------
(***************************************************************************)
(* What is locked in Ve stays locked, the contract holds what it owes and  *)
(* loses no more than rounding, the lists of NFTs agree with their owners, *)
(* and the total power is that of all NFTs: for any tokens, weights and    *)
(* decimals, any number of NFTs and calls.                                 *)
(*                                                                         *)
(* merge, split and withdrawAll go through the tokens in a loop.  The      *)
(* first part shows that their folds are made of turns; what a turn keeps, *)
(* the loop keeps.                                                         *)
(***************************************************************************)
EXTENDS VeDistributor, DataTheorems

-----------------------------------------------------------------------------
(* Loops over the tokens.                                                  *)

\* The loop of merge is a sequence of turns.
LEMMA MergeTurns ==
    ASSUME tokens \in Seq(StakingTokens), NEW from, NEW to
    PROVE  \E h : /\ h[0] = ve /\ h[Len(tokens)] = _merged(from, to)
                  /\ \A m \in 0..(Len(tokens) - 1) : h[m + 1] = _mergeToken(h[m], tokens[m + 1], from, to)
<1> DEFINE n == Len(tokens)
           body(g, s) == IF s = {} THEN ve ELSE _mergeToken(g[s \ {Max(s)}], tokens[Max(s)], from, to)
           Run(g, S) == g = [s \in SUBSET S |-> body(g, s)]
           G == {m \in 0..n : \E g : Run(g, 1..m)}
<1>1. n \in Nat /\ DOMAIN tokens = 1..n
      OBVIOUS
<1>2. 0 \in G
  <2> DEFINE g == [s \in SUBSET (1..0) |-> ve]
  <2>1. \A s \in SUBSET (1..0) : s = {}
        OBVIOUS
  <2>2. Run(g, 1..0)
        BY <2>1
  <2> HIDE DEF g, Run
  <2> QED BY <1>1, <2>2
<1>3. ASSUME NEW m \in 0..(n - 1), m \in G
      PROVE  m + 1 \in G
  <2>1. PICK g : Run(g, 1..m)
        BY <1>3
  <2> HIDE DEF n
  <2> DEFINE k == [s \in SUBSET (1..(m + 1)) |-> body(g, s)]
  <2>2. ASSUME NEW s \in SUBSET (1..(m + 1)), s # {}
        PROVE  k[s \ {Max(s)}] = g[s \ {Max(s)}]
    <3>1. Max(s) \in s /\ \A y \in s : y <= Max(s)
      <4>1. m + 1 \in Nat
            BY <1>1
      <4> QED BY <2>2, <4>1, GreatestOf
    <3>2. s \ {Max(s)} \in SUBSET (1..m)
      <4>1. PICK last \in s : last = Max(s) /\ \A y \in s : y <= last
            BY <3>1
      <4>2. ASSUME NEW y \in s, y # last
            PROVE  y \in 1..m
        <5>1. m \in Int /\ last \in 1..(m + 1) /\ y \in 1..(m + 1) /\ y <= last
              BY <4>1
        <5> QED BY <4>2, <5>1
      <4> QED BY <4>1, <4>2
    <3>3. g[s \ {Max(s)}] = body(g, s \ {Max(s)})
      <4> HIDE DEF body
      <4> QED BY <2>1, <3>2
    <3>4. s \ {Max(s)} \in SUBSET (1..(m + 1))
          BY <2>2
    <3> HIDE DEF body
    <3> QED BY <3>3, <3>4
  <2>3. ASSUME NEW s \in SUBSET (1..(m + 1))
        PROVE  k[s] = body(k, s)
    <3>1. k[s] = body(g, s)
      <4> HIDE DEF body
      <4> QED OBVIOUS
    <3> HIDE DEF k
    <3> QED BY <3>1, <2>2
  <2>4. Run(k, 1..(m + 1))
    <3>1. k = [s \in SUBSET (1..(m + 1)) |-> k[s]]
          OBVIOUS
    <3> HIDE DEF k, body
    <3> QED BY <3>1, <2>3
  <2> HIDE DEF Run, k
  <2> QED BY <1>1, <2>4
<1>4. n \in G
  <2> HIDE DEF G, n
  <2> QED BY <1>1, <1>2, <1>3, CountUp
<1> DEFINE g == CHOOSE f : Run(f, DOMAIN tokens)
<1>5. Run(g, 1..n)
  <2> HIDE DEF Run
  <2> QED BY <1>1, <1>4
<1>6. _merged(from, to) = g[1..n]
  <2>1. _merged(from, to) = g[DOMAIN tokens]
        BY DEF _merged, FoldLeft, MapThenFoldSet
  <2> QED BY <1>1, <2>1
<1> DEFINE h == [m \in 0..n |-> g[1..m]]
<1> HIDE DEF g, n
<1>7. ASSUME NEW m \in 0..n
      PROVE  g[1..m] = body(g, 1..m)
  <2>1. 1..m \in SUBSET (1..n)
        BY <1>1
  <2> HIDE DEF body
  <2> QED BY <1>5, <2>1
<1>8. h[0] = ve
  <2>1. 1..0 = {} /\ 0 \in 0..n
        BY <1>1
  <2> QED BY <2>1, <1>7
<1>9. ASSUME NEW m \in 0..(n - 1)
      PROVE  h[m + 1] = _mergeToken(h[m], tokens[m + 1], from, to)
  <2>1. m \in 0..n /\ m + 1 \in 0..n /\ m \in Nat
        BY <1>1
  <2>2. Max(1..(m + 1)) = m + 1 /\ (1..(m + 1)) \ {m + 1} = 1..m
        BY <2>1, GreatestOfFirst
  <2>3. g[1..(m + 1)] = _mergeToken(g[1..m], tokens[m + 1], from, to)
    <3>1. m + 1 \in 1..(m + 1)
          BY <2>1
    <3> QED BY <2>1, <2>2, <3>1, <1>7
  <2> QED BY <2>1, <2>3
<1>10. h[n] = _merged(from, to)
       BY <1>1, <1>6
<1> HIDE DEF h
<1> QED BY <1>8, <1>9, <1>10 DEF n

\* The same of the loop of split.
LEMMA SplitTurns ==
    ASSUME tokens \in Seq(StakingTokens), NEW caller, NEW id, NEW newId, NEW percent
    PROVE  \E h : /\ h[0] = [derived |-> locked[id].derived, s |-> _mint(caller, newId)]
                  /\ h[Len(tokens)] = _split(caller, id, newId, percent)
                  /\ \A m \in 0..(Len(tokens) - 1) : h[m + 1] = _splitToken(h[m], tokens[m + 1], id, newId, percent)
<1> DEFINE n == Len(tokens)
           base == [derived |-> locked[id].derived, s |-> _mint(caller, newId)]
           body(g, s) == IF s = {} THEN base ELSE _splitToken(g[s \ {Max(s)}], tokens[Max(s)], id, newId, percent)
           Run(g, S) == g = [s \in SUBSET S |-> body(g, s)]
           G == {m \in 0..n : \E g : Run(g, 1..m)}
<1>1. n \in Nat /\ DOMAIN tokens = 1..n
      OBVIOUS
<1>2. 0 \in G
  <2> DEFINE g == [s \in SUBSET (1..0) |-> base]
  <2>1. \A s \in SUBSET (1..0) : s = {}
        OBVIOUS
  <2>2. Run(g, 1..0)
        BY <2>1
  <2> HIDE DEF g, Run
  <2> QED BY <1>1, <2>2
<1>3. ASSUME NEW m \in 0..(n - 1), m \in G
      PROVE  m + 1 \in G
  <2>1. PICK g : Run(g, 1..m)
        BY <1>3
  <2> HIDE DEF n
  <2> DEFINE k == [s \in SUBSET (1..(m + 1)) |-> body(g, s)]
  <2>2. ASSUME NEW s \in SUBSET (1..(m + 1)), s # {}
        PROVE  k[s \ {Max(s)}] = g[s \ {Max(s)}]
    <3>1. Max(s) \in s /\ \A y \in s : y <= Max(s)
      <4>1. m + 1 \in Nat
            BY <1>1
      <4> QED BY <2>2, <4>1, GreatestOf
    <3>2. s \ {Max(s)} \in SUBSET (1..m)
      <4>1. PICK last \in s : last = Max(s) /\ \A y \in s : y <= last
            BY <3>1
      <4>2. ASSUME NEW y \in s, y # last
            PROVE  y \in 1..m
        <5>1. m \in Int /\ last \in 1..(m + 1) /\ y \in 1..(m + 1) /\ y <= last
              BY <4>1
        <5> QED BY <4>2, <5>1
      <4> QED BY <4>1, <4>2
    <3>3. g[s \ {Max(s)}] = body(g, s \ {Max(s)})
      <4> HIDE DEF body
      <4> QED BY <2>1, <3>2
    <3>4. s \ {Max(s)} \in SUBSET (1..(m + 1))
          BY <2>2
    <3> HIDE DEF body
    <3> QED BY <3>3, <3>4
  <2>3. ASSUME NEW s \in SUBSET (1..(m + 1))
        PROVE  k[s] = body(k, s)
    <3>1. k[s] = body(g, s)
      <4> HIDE DEF body
      <4> QED OBVIOUS
    <3> HIDE DEF k
    <3> QED BY <3>1, <2>2
  <2>4. Run(k, 1..(m + 1))
    <3>1. k = [s \in SUBSET (1..(m + 1)) |-> k[s]]
          OBVIOUS
    <3> HIDE DEF k, body
    <3> QED BY <3>1, <2>3
  <2> HIDE DEF Run, k
  <2> QED BY <1>1, <2>4
<1>4. n \in G
  <2> HIDE DEF G, n
  <2> QED BY <1>1, <1>2, <1>3, CountUp
<1> DEFINE g == CHOOSE f : Run(f, DOMAIN tokens)
<1>5. Run(g, 1..n)
  <2> HIDE DEF Run
  <2> QED BY <1>1, <1>4
<1>6. _split(caller, id, newId, percent) = g[1..n]
  <2>1. _split(caller, id, newId, percent) = g[DOMAIN tokens]
        BY DEF _split, FoldLeft, MapThenFoldSet
  <2> QED BY <1>1, <2>1
<1> DEFINE h == [m \in 0..n |-> g[1..m]]
<1> HIDE DEF g, n
<1>7. ASSUME NEW m \in 0..n
      PROVE  g[1..m] = body(g, 1..m)
  <2>1. 1..m \in SUBSET (1..n)
        BY <1>1
  <2> HIDE DEF body
  <2> QED BY <1>5, <2>1
<1>8. h[0] = base
  <2>1. 1..0 = {} /\ 0 \in 0..n
        BY <1>1
  <2> QED BY <2>1, <1>7
<1>9. ASSUME NEW m \in 0..(n - 1)
      PROVE  h[m + 1] = _splitToken(h[m], tokens[m + 1], id, newId, percent)
  <2>1. m \in 0..n /\ m + 1 \in 0..n /\ m \in Nat
        BY <1>1
  <2>2. Max(1..(m + 1)) = m + 1 /\ (1..(m + 1)) \ {m + 1} = 1..m
        BY <2>1, GreatestOfFirst
  <2>3. g[1..(m + 1)] = _splitToken(g[1..m], tokens[m + 1], id, newId, percent)
    <3>1. m + 1 \in 1..(m + 1)
          BY <2>1
    <3> QED BY <2>1, <2>2, <3>1, <1>7
  <2> QED BY <2>1, <2>3
<1>10. h[n] = _split(caller, id, newId, percent)
       BY <1>1, <1>6
<1> HIDE DEF h
<1> QED BY <1>8, <1>9, <1>10 DEF n

\* The same of the loop of withdrawAll.
LEMMA WithdrawTurns ==
    ASSUME tokens \in Seq(StakingTokens), NEW caller, NEW id
    PROVE  \E h : /\ h[0] = [ok |-> TRUE, s |-> ve] /\ h[Len(tokens)] = _withdrawnAll(caller, id)
                  /\ \A m \in 0..(Len(tokens) - 1) : h[m + 1] = _withdrawToken(h[m], tokens[m + 1], caller, id)
<1> DEFINE n == Len(tokens)
           base == [ok |-> TRUE, s |-> ve]
           body(g, s) == IF s = {} THEN base ELSE _withdrawToken(g[s \ {Max(s)}], tokens[Max(s)], caller, id)
           Run(g, S) == g = [s \in SUBSET S |-> body(g, s)]
           G == {m \in 0..n : \E g : Run(g, 1..m)}
<1>1. n \in Nat /\ DOMAIN tokens = 1..n
      OBVIOUS
<1>2. 0 \in G
  <2> DEFINE g == [s \in SUBSET (1..0) |-> base]
  <2>1. \A s \in SUBSET (1..0) : s = {}
        OBVIOUS
  <2>2. Run(g, 1..0)
        BY <2>1
  <2> HIDE DEF g, Run
  <2> QED BY <1>1, <2>2
<1>3. ASSUME NEW m \in 0..(n - 1), m \in G
      PROVE  m + 1 \in G
  <2>1. PICK g : Run(g, 1..m)
        BY <1>3
  <2> HIDE DEF n
  <2> DEFINE k == [s \in SUBSET (1..(m + 1)) |-> body(g, s)]
  <2>2. ASSUME NEW s \in SUBSET (1..(m + 1)), s # {}
        PROVE  k[s \ {Max(s)}] = g[s \ {Max(s)}]
    <3>1. Max(s) \in s /\ \A y \in s : y <= Max(s)
      <4>1. m + 1 \in Nat
            BY <1>1
      <4> QED BY <2>2, <4>1, GreatestOf
    <3>2. s \ {Max(s)} \in SUBSET (1..m)
      <4>1. PICK last \in s : last = Max(s) /\ \A y \in s : y <= last
            BY <3>1
      <4>2. ASSUME NEW y \in s, y # last
            PROVE  y \in 1..m
        <5>1. m \in Int /\ last \in 1..(m + 1) /\ y \in 1..(m + 1) /\ y <= last
              BY <4>1
        <5> QED BY <4>2, <5>1
      <4> QED BY <4>1, <4>2
    <3>3. g[s \ {Max(s)}] = body(g, s \ {Max(s)})
      <4> HIDE DEF body
      <4> QED BY <2>1, <3>2
    <3>4. s \ {Max(s)} \in SUBSET (1..(m + 1))
          BY <2>2
    <3> HIDE DEF body
    <3> QED BY <3>3, <3>4
  <2>3. ASSUME NEW s \in SUBSET (1..(m + 1))
        PROVE  k[s] = body(k, s)
    <3>1. k[s] = body(g, s)
      <4> HIDE DEF body
      <4> QED OBVIOUS
    <3> HIDE DEF k
    <3> QED BY <3>1, <2>2
  <2>4. Run(k, 1..(m + 1))
    <3>1. k = [s \in SUBSET (1..(m + 1)) |-> k[s]]
          OBVIOUS
    <3> HIDE DEF k, body
    <3> QED BY <3>1, <2>3
  <2> HIDE DEF Run, k
  <2> QED BY <1>1, <2>4
<1>4. n \in G
  <2> HIDE DEF G, n
  <2> QED BY <1>1, <1>2, <1>3, CountUp
<1> DEFINE g == CHOOSE f : Run(f, DOMAIN tokens)
<1>5. Run(g, 1..n)
  <2> HIDE DEF Run
  <2> QED BY <1>1, <1>4
<1>6. _withdrawnAll(caller, id) = g[1..n]
  <2>1. _withdrawnAll(caller, id) = g[DOMAIN tokens]
        BY DEF _withdrawnAll, FoldLeft, MapThenFoldSet
  <2> QED BY <1>1, <2>1
<1> DEFINE h == [m \in 0..n |-> g[1..m]]
<1> HIDE DEF g, n
<1>7. ASSUME NEW m \in 0..n
      PROVE  g[1..m] = body(g, 1..m)
  <2>1. 1..m \in SUBSET (1..n)
        BY <1>1
  <2> HIDE DEF body
  <2> QED BY <1>5, <2>1
<1>8. h[0] = base
  <2>1. 1..0 = {} /\ 0 \in 0..n
        BY <1>1
  <2> QED BY <2>1, <1>7
<1>9. ASSUME NEW m \in 0..(n - 1)
      PROVE  h[m + 1] = _withdrawToken(h[m], tokens[m + 1], caller, id)
  <2>1. m \in 0..n /\ m + 1 \in 0..n /\ m \in Nat
        BY <1>1
  <2>2. Max(1..(m + 1)) = m + 1 /\ (1..(m + 1)) \ {m + 1} = 1..m
        BY <2>1, GreatestOfFirst
  <2>3. g[1..(m + 1)] = _withdrawToken(g[1..m], tokens[m + 1], caller, id)
    <3>1. m + 1 \in 1..(m + 1)
          BY <2>1
    <3> QED BY <2>1, <2>2, <3>1, <1>7
  <2> QED BY <2>1, <2>3
<1>10. h[n] = _withdrawnAll(caller, id)
       BY <1>1, <1>6
<1> HIDE DEF h
<1> QED BY <1>8, <1>9, <1>10 DEF n

\* The same of the walk over the weeks, and of the one totalSupplyAtT makes.
WalksBy(h, p, stops) ==
    /\ h[0] = <<_lastPoint(p)>> /\ h[Len(stops)] = _walk(p)
    /\ \A m \in 0..(Len(stops) - 1) :
          h[m + 1] = Append(h[m], _nextPoint(p.slopeChanges, Last(h[m]), stops[m + 1]))

LEMMA WalkTurns ==
    ASSUME NEW p, NEW stops, stops = _stops(_lastPoint(p).ts, now), stops \in Seq(Nat)
    PROVE  \E h : WalksBy(h, p, stops)
<1> DEFINE n == Len(stops)
           base == <<_lastPoint(p)>>
           body(g, s) == IF s = {} THEN base ELSE Append(g[s \ {Max(s)}], _nextPoint(p.slopeChanges, Last(g[s \ {Max(s)}]), stops[Max(s)]))
           Run(g, S) == g = [s \in SUBSET S |-> body(g, s)]
           G == {m \in 0..n : \E g : Run(g, 1..m)}
<1>1. n \in Nat /\ DOMAIN stops = 1..n
      OBVIOUS
<1>2. 0 \in G
  <2> DEFINE g == [s \in SUBSET (1..0) |-> base]
  <2>1. \A s \in SUBSET (1..0) : s = {}
        OBVIOUS
  <2>2. Run(g, 1..0)
        BY <2>1
  <2> HIDE DEF g, Run
  <2> QED BY <1>1, <2>2
<1>3. ASSUME NEW m \in 0..(n - 1), m \in G
      PROVE  m + 1 \in G
  <2>1. PICK g : Run(g, 1..m)
        BY <1>3
  <2> HIDE DEF n
  <2> DEFINE k == [s \in SUBSET (1..(m + 1)) |-> body(g, s)]
  <2>2. ASSUME NEW s \in SUBSET (1..(m + 1)), s # {}
        PROVE  k[s \ {Max(s)}] = g[s \ {Max(s)}]
    <3>1. Max(s) \in s /\ \A y \in s : y <= Max(s)
      <4>1. m + 1 \in Nat
            BY <1>1
      <4> QED BY <2>2, <4>1, GreatestOf
    <3>2. s \ {Max(s)} \in SUBSET (1..m)
      <4>1. PICK last \in s : last = Max(s) /\ \A y \in s : y <= last
            BY <3>1
      <4>2. ASSUME NEW y \in s, y # last
            PROVE  y \in 1..m
        <5>1. m \in Int /\ last \in 1..(m + 1) /\ y \in 1..(m + 1) /\ y <= last
              BY <4>1
        <5> QED BY <4>2, <5>1
      <4> QED BY <4>1, <4>2
    <3>3. g[s \ {Max(s)}] = body(g, s \ {Max(s)})
      <4> HIDE DEF body
      <4> QED BY <2>1, <3>2
    <3>4. s \ {Max(s)} \in SUBSET (1..(m + 1))
          BY <2>2
    <3> HIDE DEF body
    <3> QED BY <3>3, <3>4
  <2>3. ASSUME NEW s \in SUBSET (1..(m + 1))
        PROVE  k[s] = body(k, s)
    <3>1. k[s] = body(g, s)
      <4> HIDE DEF body
      <4> QED OBVIOUS
    <3> HIDE DEF k
    <3> QED BY <3>1, <2>2
  <2>4. Run(k, 1..(m + 1))
    <3>1. k = [s \in SUBSET (1..(m + 1)) |-> k[s]]
          OBVIOUS
    <3> HIDE DEF k, body
    <3> QED BY <3>1, <2>3
  <2> HIDE DEF Run, k
  <2> QED BY <1>1, <2>4
<1>4. n \in G
  <2> HIDE DEF G, n
  <2>1. n \in Nat
        BY <1>1
  <2>2. \A m \in 0..(n - 1) : m \in G => m + 1 \in G
        BY <1>3
  <2>3. \A m \in 0..n : m \in G
        BY ONLY <1>2, <2>1, <2>2, CountUp
  <2> QED BY <2>1, <2>3
<1> DEFINE g == CHOOSE f : Run(f, DOMAIN stops)
<1>5. Run(g, 1..n)
  <2> HIDE DEF Run
  <2> QED BY <1>1, <1>4
<1>6. _walk(p) = g[1..n]
  <2>1. _walk(p) = g[DOMAIN stops]
        BY DEF _walk, FoldLeft, MapThenFoldSet
  <2> QED BY <1>1, <2>1
<1> DEFINE h == [m \in 0..n |-> g[1..m]]
<1> HIDE DEF g, n
<1>7. ASSUME NEW m \in 0..n
      PROVE  g[1..m] = body(g, 1..m)
  <2>1. 1..m \in SUBSET (1..n)
        BY <1>1
  <2> HIDE DEF body
  <2> QED BY <1>5, <2>1
<1>8. h[0] = base
  <2>1. 1..0 = {} /\ 0 \in 0..n
        BY <1>1
  <2> QED BY <2>1, <1>7
<1>9. ASSUME NEW m \in 0..(n - 1)
      PROVE  h[m + 1] = Append(h[m], _nextPoint(p.slopeChanges, Last(h[m]), stops[m + 1]))
  <2>1. m \in 0..n /\ m + 1 \in 0..n /\ m \in Nat
        BY <1>1
  <2>2. Max(1..(m + 1)) = m + 1 /\ (1..(m + 1)) \ {m + 1} = 1..m
        BY <2>1, GreatestOfFirst
  <2>3. g[1..(m + 1)] = Append(g[1..m], _nextPoint(p.slopeChanges, Last(g[1..m]), stops[m + 1]))
    <3>1. m + 1 \in 1..(m + 1)
          BY <2>1
    <3> QED BY <2>1, <2>2, <3>1, <1>7
  <2> QED BY <2>1, <2>3
<1>10. h[n] = _walk(p)
       BY <1>1, <1>6
<1> HIDE DEF h
<1>11. WalksBy(h, p, stops)
       BY <1>8, <1>9, <1>10 DEF n, WalksBy
<1> QED BY <1>11

SuppliesBy(h, q, t, stops) ==
    /\ h[0] = q /\ h[Len(stops)] = _supplyAt(q, t)
    /\ \A m \in 0..(Len(stops) - 1) : h[m + 1] = _supplyPoint(h[m], stops[m + 1])

LEMMA SupplyTurns ==
    ASSUME NEW q, NEW t, NEW stops, stops = _stops(q.ts, t), stops \in Seq(Nat)
    PROVE  \E h : SuppliesBy(h, q, t, stops)
<1> DEFINE n == Len(stops)
           base == q
           body(g, s) == IF s = {} THEN base ELSE _supplyPoint(g[s \ {Max(s)}], stops[Max(s)])
           Run(g, S) == g = [s \in SUBSET S |-> body(g, s)]
           G == {m \in 0..n : \E g : Run(g, 1..m)}
<1>1. n \in Nat /\ DOMAIN stops = 1..n
      OBVIOUS
<1>2. 0 \in G
  <2> DEFINE g == [s \in SUBSET (1..0) |-> base]
  <2>1. \A s \in SUBSET (1..0) : s = {}
        OBVIOUS
  <2>2. Run(g, 1..0)
        BY <2>1
  <2> HIDE DEF g, Run
  <2> QED BY <1>1, <2>2
<1>3. ASSUME NEW m \in 0..(n - 1), m \in G
      PROVE  m + 1 \in G
  <2>1. PICK g : Run(g, 1..m)
        BY <1>3
  <2> HIDE DEF n
  <2> DEFINE k == [s \in SUBSET (1..(m + 1)) |-> body(g, s)]
  <2>2. ASSUME NEW s \in SUBSET (1..(m + 1)), s # {}
        PROVE  k[s \ {Max(s)}] = g[s \ {Max(s)}]
    <3>1. Max(s) \in s /\ \A y \in s : y <= Max(s)
      <4>1. m + 1 \in Nat
            BY <1>1
      <4> QED BY <2>2, <4>1, GreatestOf
    <3>2. s \ {Max(s)} \in SUBSET (1..m)
      <4>1. PICK last \in s : last = Max(s) /\ \A y \in s : y <= last
            BY <3>1
      <4>2. ASSUME NEW y \in s, y # last
            PROVE  y \in 1..m
        <5>1. m \in Int /\ last \in 1..(m + 1) /\ y \in 1..(m + 1) /\ y <= last
              BY <4>1
        <5> QED BY <4>2, <5>1
      <4> QED BY <4>1, <4>2
    <3>3. g[s \ {Max(s)}] = body(g, s \ {Max(s)})
      <4> HIDE DEF body
      <4> QED BY <2>1, <3>2
    <3>4. s \ {Max(s)} \in SUBSET (1..(m + 1))
          BY <2>2
    <3> HIDE DEF body
    <3> QED BY <3>3, <3>4
  <2>3. ASSUME NEW s \in SUBSET (1..(m + 1))
        PROVE  k[s] = body(k, s)
    <3>1. k[s] = body(g, s)
      <4> HIDE DEF body
      <4> QED OBVIOUS
    <3> HIDE DEF k
    <3> QED BY <3>1, <2>2
  <2>4. Run(k, 1..(m + 1))
    <3>1. k = [s \in SUBSET (1..(m + 1)) |-> k[s]]
          OBVIOUS
    <3> HIDE DEF k, body
    <3> QED BY <3>1, <2>3
  <2> HIDE DEF Run, k
  <2> QED BY <1>1, <2>4
<1>4. n \in G
  <2> HIDE DEF G, n
  <2>1. n \in Nat
        BY <1>1
  <2>2. \A m \in 0..(n - 1) : m \in G => m + 1 \in G
        BY <1>3
  <2>3. \A m \in 0..n : m \in G
        BY ONLY <1>2, <2>1, <2>2, CountUp
  <2> QED BY <2>1, <2>3
<1> DEFINE g == CHOOSE f : Run(f, DOMAIN stops)
<1>5. Run(g, 1..n)
  <2> HIDE DEF Run
  <2> QED BY <1>1, <1>4
<1>6. _supplyAt(q, t) = g[1..n]
  <2>1. _supplyAt(q, t) = g[DOMAIN stops]
        BY DEF _supplyAt, FoldLeft, MapThenFoldSet
  <2> QED BY <1>1, <2>1
<1> DEFINE h == [m \in 0..n |-> g[1..m]]
<1> HIDE DEF g, n
<1>7. ASSUME NEW m \in 0..n
      PROVE  g[1..m] = body(g, 1..m)
  <2>1. 1..m \in SUBSET (1..n)
        BY <1>1
  <2> HIDE DEF body
  <2> QED BY <1>5, <2>1
<1>8. h[0] = base
  <2>1. 1..0 = {} /\ 0 \in 0..n
        BY <1>1
  <2> QED BY <2>1, <1>7
<1>9. ASSUME NEW m \in 0..(n - 1)
      PROVE  h[m + 1] = _supplyPoint(h[m], stops[m + 1])
  <2>1. m \in 0..n /\ m + 1 \in 0..n /\ m \in Nat
        BY <1>1
  <2>2. Max(1..(m + 1)) = m + 1 /\ (1..(m + 1)) \ {m + 1} = 1..m
        BY <2>1, GreatestOfFirst
  <2>3. g[1..(m + 1)] = _supplyPoint(g[1..m], stops[m + 1])
    <3>1. m + 1 \in 1..(m + 1)
          BY <2>1
    <3> QED BY <2>1, <2>2, <3>1, <1>7
  <2> QED BY <2>1, <2>3
<1>10. h[n] = _supplyAt(q, t)
       BY <1>1, <1>6
<1> HIDE DEF h
<1>11. SuppliesBy(h, q, t, stops)
       BY <1>8, <1>9, <1>10 DEF n, SuppliesBy
<1> QED BY <1>11

-----------------------------------------------------------------------------
(* Locks.                                                                  *)

Lock == [amounts : [StakingTokens -> Nat], derived : Nat, end : Nat]

\* The state a call works on is what it should be; nothing is said of points, which no call reads
\* to decide what is locked.
VeTyped(s) ==
    /\ s = [locked |-> s.locked, points |-> s.points, nft |-> s.nft, held |-> s.held]
    /\ s.locked \in [Ids -> Lock]
    /\ s.held \in [StakingTokens -> Int]

\* What every NFT has of a token, and what of it is locked until t.
amountsOf(L, token) == [id \in Ids |-> L[id].amounts[token]]
lockedOf(L, token, t) == [id \in Ids |-> IF L[id].end >= t THEN L[id].amounts[token] ELSE 0]

\* The contract holds what is locked.
Held(L, H) == \A token \in StakingTokens : H[token] = SumFunctionOnSet(amountsOf(L, token), Ids)

\* Nothing that is locked for the future comes free.
NoneFreed(L, M) ==
    \A token \in StakingTokens, t \in Nat : t > now =>
        SumFunctionOnSet(lockedOf(L, token, t), Ids) <= SumFunctionOnSet(lockedOf(M, token, t), Ids)

\* A change of one lock: what the contract holds follows it, and nothing of it comes free.
LockChanged(L, M, H, K, id) ==
    /\ \A i \in Ids : i # id => L[i] = M[i]
    /\ \A token \in StakingTokens : K[token] = H[token] - L[id].amounts[token] + M[id].amounts[token]
    /\ \A token \in StakingTokens, t \in Nat :
          t > now => lockedOf(L, token, t)[id] <= lockedOf(M, token, t)[id]

\* A move from one lock to another.
LocksMoved(L, M, from, to) ==
    /\ \A i \in Ids : i # from /\ i # to => L[i] = M[i]
    /\ \A token \in StakingTokens :
          L[from].amounts[token] + L[to].amounts[token] = M[from].amounts[token] + M[to].amounts[token]
    /\ \A token \in StakingTokens, t \in Nat :
          t > now => lockedOf(L, token, t)[from] + lockedOf(L, token, t)[to]
                         <= lockedOf(M, token, t)[from] + lockedOf(M, token, t)[to]

LEMMA IdsFinite == IsFiniteSet(Ids)
BY VeAssumption, FS_Interval DEF Ids

\* Natural numbers divide to natural numbers.
LEMMA Quotient ==
    ASSUME NEW a \in Nat, NEW b \in Nat \ {0}
    PROVE  a \div b \in Nat /\ _divUp(a, b) \in Nat
BY DEF _divUp

\* Amounts count for a natural number.
LEMMA DerivedType ==
    ASSUME NEW a \in Nat, NEW d \in Nat, NEW b \in Nat, NEW token \in StakingTokens
    PROVE  _calculateDerivedAmount(a, d, b, token) \in Nat
<1>1. /\ TokenUnit[token] \in Nat \ {0} /\ tokenWeights[token] \in Nat /\ WAD \in Nat
      /\ WEIGHT_DENOMINATOR \in Nat \ {0}
      BY VeAssumption
<1>2. a * WAD \in Nat /\ b * WAD \in Nat
      BY <1>1
<1>3. PICK q \in Nat : q = _divUp(a * WAD, TokenUnit[token])
      BY <1>1, <1>2, Quotient
<1>4. PICK r \in Nat : r = (b * WAD) \div TokenUnit[token]
      BY <1>1, <1>2, Quotient
<1>5. q * tokenWeights[token] \in Nat /\ r * tokenWeights[token] \in Nat
      BY <1>1
<1>6. PICK current \in Nat : current = _divUp(q * tokenWeights[token], WEIGHT_DENOMINATOR)
      BY <1>1, <1>5, Quotient
<1>7. PICK added \in Nat : added = (r * tokenWeights[token]) \div WEIGHT_DENOMINATOR
      BY <1>1, <1>5, Quotient
<1>8. _calculateDerivedAmount(a, d, b, token) =
          (IF a # 0 THEN positiveInt128(d - current) ELSE d) + added
      BY <1>3, <1>4, <1>6, <1>7 DEF _calculateDerivedAmount
<1> QED BY <1>8 DEF positiveInt128

\* One lock changes, and what the contract holds with it.
LEMMA OneLock ==
    ASSUME NEW L \in [Ids -> Lock], NEW M \in [Ids -> Lock], NEW H, NEW K, NEW id \in Ids,
           now \in Nat, Held(L, H), LockChanged(L, M, H, K, id)
    PROVE  Held(M, K) /\ NoneFreed(L, M)
<1> USE DEF LockChanged
<1>1. ASSUME NEW token \in StakingTokens
      PROVE  K[token] = SumFunctionOnSet(amountsOf(M, token), Ids)
  <2> DEFINE f == amountsOf(L, token)
             g == amountsOf(M, token)
  <2>1. \A i \in Ids : L[i].amounts[token] \in Nat /\ M[i].amounts[token] \in Nat
        BY DEF Lock
  <2>2. \A i \in Ids : f[i] \in Int /\ g[i] \in Int
        BY <2>1 DEF amountsOf
  <2>3. \A i \in Ids : i # id => f[i] = g[i]
        BY DEF amountsOf
  <2>4. f[id] = L[id].amounts[token] /\ g[id] = M[id].amounts[token]
        BY DEF amountsOf
  <2>5. H[token] = SumFunctionOnSet(f, Ids)
        BY DEF Held
  <2> HIDE DEF f, g
  <2>6. /\ SumFunctionOnSet(f, Ids) \in Int
        /\ SumFunctionOnSet(g, Ids) = SumFunctionOnSet(f, Ids) - f[id] + g[id]
        BY <2>2, <2>3, IdsFinite, SumChange
  <2>7. K[token] = SumFunctionOnSet(g, Ids)
        BY <2>4, <2>5, <2>6
  <2> QED BY <2>7 DEF g
<1>2. ASSUME NEW token \in StakingTokens, NEW t \in Nat, t > now
      PROVE  SumFunctionOnSet(lockedOf(L, token, t), Ids) <= SumFunctionOnSet(lockedOf(M, token, t), Ids)
  <2> DEFINE f == lockedOf(L, token, t)
             g == lockedOf(M, token, t)
  <2>1. \A i \in Ids : L[i].amounts[token] \in Nat /\ M[i].amounts[token] \in Nat
        BY DEF Lock
  <2>2. \A i \in Ids : f[i] \in Int /\ g[i] \in Int
        BY <2>1 DEF lockedOf
  <2>3. \A i \in Ids : i # id => f[i] = g[i]
        BY DEF lockedOf
  <2>4. f[id] <= g[id]
        BY <1>2
  <2> HIDE DEF f, g
  <2>5. \A i \in Ids : f[i] \in Int /\ g[i] \in Int /\ f[i] <= g[i]
        BY <2>2, <2>3, <2>4
  <2>6. SumFunctionOnSet(f, Ids) <= SumFunctionOnSet(g, Ids)
        BY <2>5, IdsFinite, SumMonotone
  <2> QED BY <2>6 DEF f, g
<1> QED BY <1>1, <1>2 DEF Held, NoneFreed

\* Tokens move from one lock to another, and the contract holds what it held.
LEMMA TwoLocks ==
    ASSUME NEW L \in [Ids -> Lock], NEW M \in [Ids -> Lock], NEW H,
           NEW from \in Ids, NEW to \in Ids, from # to,
           now \in Nat, Held(L, H), LocksMoved(L, M, from, to)
    PROVE  Held(M, H) /\ NoneFreed(L, M)
<1> USE DEF LocksMoved
<1>0. from \in Ids /\ to \in Ids \ {from}
      OBVIOUS
<1>1. ASSUME NEW token \in StakingTokens
      PROVE  H[token] = SumFunctionOnSet(amountsOf(M, token), Ids)
  <2> DEFINE f == amountsOf(L, token)
             g == amountsOf(M, token)
  <2>1. \A i \in Ids : L[i].amounts[token] \in Nat /\ M[i].amounts[token] \in Nat
        BY DEF Lock
  <2>2. \A i \in Ids : f[i] \in Int /\ g[i] \in Int
        BY <2>1 DEF amountsOf
  <2>3. \A i \in Ids : f[i] \in Int /\ g[i] \in Int /\ (f[i] = g[i] \/ i \in {from, to})
        BY <2>2 DEF amountsOf
  <2>4. f[from] + f[to] = g[from] + g[to]
        BY DEF amountsOf
  <2>5. H[token] = SumFunctionOnSet(f, Ids)
        BY DEF Held
  <2> HIDE DEF f, g
  <2>6. /\ SumFunctionOnSet(f, Ids) \in Int
        /\ SumFunctionOnSet(g, Ids) = SumFunctionOnSet(f, Ids) - f[from] - f[to] + g[from] + g[to]
        BY ONLY <1>0, <2>3, IdsFinite, SumTwoChange
  <2>7. H[token] = SumFunctionOnSet(g, Ids)
        BY <2>2, <2>4, <2>5, <2>6
  <2> QED BY <2>7 DEF g
<1>2. ASSUME NEW token \in StakingTokens, NEW t \in Nat, t > now
      PROVE  SumFunctionOnSet(lockedOf(L, token, t), Ids) <= SumFunctionOnSet(lockedOf(M, token, t), Ids)
  <2> DEFINE f == lockedOf(L, token, t)
             g == lockedOf(M, token, t)
  <2>1. \A i \in Ids : L[i].amounts[token] \in Nat /\ M[i].amounts[token] \in Nat
        BY DEF Lock
  <2>2. \A i \in Ids : f[i] \in Int /\ g[i] \in Int
        BY <2>1 DEF lockedOf
  <2>3. \A i \in Ids : f[i] \in Int /\ g[i] \in Int /\ (f[i] = g[i] \/ i \in {from, to})
        BY <2>2 DEF lockedOf
  <2>4. f[from] + f[to] <= g[from] + g[to]
        BY <1>2
  <2> HIDE DEF f, g
  <2>5. /\ SumFunctionOnSet(f, Ids) \in Int
        /\ SumFunctionOnSet(g, Ids) = SumFunctionOnSet(f, Ids) - f[from] - f[to] + g[from] + g[to]
        BY ONLY <1>0, <2>3, IdsFinite, SumTwoChange
  <2>6. SumFunctionOnSet(f, Ids) <= SumFunctionOnSet(g, Ids)
        BY <2>2, <2>4, <2>5
  <2> QED BY <2>6 DEF f, g
<1> QED BY <1>1, <1>2 DEF Held, NoneFreed

\* What _depositFor does to the lock and to what the contract holds.
LEMMA Deposit ==
    ASSUME NEW s, VeTyped(s), NEW info,
           info.tokenId \in Ids, info.value \in Nat, info.unlockTime \in Nat,
           info.lockedAmount \in Nat, info.lockedDerivedAmount \in Nat,
           info.value # 0 => info.stakingToken \in StakingTokens
    PROVE  LET r == _depositFor(s, info)
               id == info.tokenId
           IN  /\ VeTyped(r) /\ r.nft = s.nft
               /\ \A i \in Ids : i # id => r.locked[i] = s.locked[i]
               /\ r.locked[id].end = IF info.unlockTime = 0 THEN s.locked[id].end ELSE info.unlockTime
               /\ \A token \in StakingTokens :
                     r.locked[id].amounts[token] =
                         IF info.value # 0 /\ token = info.stakingToken
                         THEN info.lockedAmount + info.value ELSE s.locked[id].amounts[token]
               /\ \A token \in StakingTokens :
                     r.held[token] =
                         IF info.value # 0 /\ token = info.stakingToken /\ info.depositType # "MERGE_TYPE"
                         THEN s.held[token] + info.value ELSE s.held[token]
               /\ info.value # 0 =>
                     r.locked[id].derived =
                         _calculateDerivedAmount(info.lockedAmount, info.lockedDerivedAmount,
                                                 info.lockedAmount + info.value, info.stakingToken)
               /\ info.value = 0 => r.locked[id].derived = s.locked[id].derived
<1> DEFINE r == _depositFor(s, info)
           id == info.tokenId
           newDerived == IF info.value = 0 THEN info.lockedDerivedAmount
                         ELSE _calculateDerivedAmount(info.lockedAmount, info.lockedDerivedAmount,
                                                      info.lockedAmount + info.value, info.stakingToken)
           newEnd == IF info.unlockTime = 0 THEN info.lockedEnd ELSE info.unlockTime
           lock == s.locked[id]
           deposited == IF info.value = 0 THEN lock
                        ELSE [lock EXCEPT !.amounts[info.stakingToken] = info.lockedAmount + info.value,
                                          !.derived = newDerived]
           after == IF info.unlockTime = 0 THEN deposited ELSE [deposited EXCEPT !.end = info.unlockTime]
           pulled == IF info.depositType = "MERGE_TYPE" \/ info.value = 0 THEN s.held
                     ELSE [s.held EXCEPT ![info.stakingToken] = @ + info.value]
           pts == _checkpoint(s.points, [tokenId |-> info.tokenId,
                                         oldDerivedAmount |-> info.lockedDerivedAmount,
                                         newDerivedAmount |-> newDerived,
                                         oldEnd |-> info.lockedEnd, newEnd |-> newEnd])
<1>1. r = [s EXCEPT !.locked[id] = after, !.points = pts, !.held = pulled]
      BY Zenon DEF _depositFor
<1> HIDE DEF r, pts, id
<1>2. id \in Ids /\ lock \in Lock /\ s.locked \in [Ids -> Lock] /\ s.held \in [StakingTokens -> Int]
      BY DEF VeTyped, id
<1>3. info.value # 0 => newDerived \in Nat
  <2> SUFFICES ASSUME info.value # 0 PROVE newDerived \in Nat
      OBVIOUS
  <2>1. info.lockedAmount + info.value \in Nat
        OBVIOUS
  <2> QED BY <2>1, DerivedType
<1> HIDE DEF newDerived
<1>4. /\ deposited \in Lock /\ deposited.end = lock.end
      /\ \A token \in StakingTokens :
            deposited.amounts[token] = IF info.value # 0 /\ token = info.stakingToken
                                       THEN info.lockedAmount + info.value ELSE lock.amounts[token]
      /\ deposited.derived = IF info.value # 0 THEN newDerived ELSE lock.derived
  <2>1. CASE info.value = 0
        BY <2>1, <1>2
  <2>2. CASE info.value # 0
    <3>1. PICK n \in Nat : n = info.lockedAmount + info.value
          OBVIOUS
    <3>2. deposited = [lock EXCEPT !.amounts[info.stakingToken] = n, !.derived = newDerived]
          BY <2>2, <3>1
    <3> HIDE DEF deposited, lock
    <3>3. /\ lock.amounts \in [StakingTokens -> Nat] /\ lock.end \in Nat
          /\ lock = [amounts |-> lock.amounts, derived |-> lock.derived, end |-> lock.end]
          BY <1>2 DEF Lock
    <3>4. deposited = [amounts |-> [lock.amounts EXCEPT ![info.stakingToken] = n],
                       derived |-> newDerived, end |-> lock.end]
          BY <3>2, <3>3
    <3> QED BY <2>2, <3>1, <3>3, <3>4, <1>3 DEF Lock
  <2> QED BY <2>1, <2>2
<1> HIDE DEF deposited
<1>5. /\ after \in Lock /\ after.amounts = deposited.amounts /\ after.derived = deposited.derived
      /\ after.end = IF info.unlockTime = 0 THEN lock.end ELSE info.unlockTime
      BY <1>4 DEF Lock
<1>6. /\ pulled \in [StakingTokens -> Int]
      /\ \A token \in StakingTokens :
            pulled[token] = IF info.value # 0 /\ token = info.stakingToken /\ info.depositType # "MERGE_TYPE"
                            THEN s.held[token] + info.value ELSE s.held[token]
      BY <1>2
<1> HIDE DEF lock, after, pulled
<1>7. r = [locked |-> [s.locked EXCEPT ![id] = after], points |-> pts, nft |-> s.nft, held |-> pulled]
      BY <1>1 DEF VeTyped
<1>8. [s.locked EXCEPT ![id] = after] \in [Ids -> Lock]
      BY <1>2, <1>5
<1>9. VeTyped(r) /\ r.nft = s.nft /\ r.held = pulled /\ r.locked[id] = after
      /\ \A i \in Ids : i # id => r.locked[i] = s.locked[i]
      BY <1>2, <1>6, <1>7, <1>8 DEF VeTyped
<1>10. info.value # 0 =>
           after.derived = _calculateDerivedAmount(info.lockedAmount, info.lockedDerivedAmount,
                                                   info.lockedAmount + info.value, info.stakingToken)
       BY <1>4, <1>5 DEF newDerived
<1>11. info.value = 0 => after.derived = s.locked[id].derived
       BY <1>4, <1>5 DEF lock
<1> QED BY <1>4, <1>5, <1>6, <1>9, <1>10, <1>11 DEF r, id, lock

\* What _withdrawn does: the token leaves the lock and the contract.
LEMMA Withdrawal ==
    ASSUME NEW s, VeTyped(s), NEW token \in StakingTokens, NEW id \in Ids
    PROVE  LET r == _withdrawn(s, token, id)
           IN  /\ VeTyped(r)
               /\ r.nft = IF _derivedWithout(s, token, id) = 0 THEN _burnt(s.nft, id) ELSE s.nft
               /\ \A i \in Ids : i # id => r.locked[i] = s.locked[i]
               /\ r.locked[id].derived = _derivedWithout(s, token, id)
               /\ r.locked[id].end = IF _derivedWithout(s, token, id) = 0 THEN 0 ELSE s.locked[id].end
               /\ \A other \in StakingTokens :
                     /\ r.locked[id].amounts[other] = IF other = token THEN 0 ELSE s.locked[id].amounts[other]
                     /\ r.held[other] = IF other = token THEN s.held[other] - s.locked[id].amounts[other]
                                        ELSE s.held[other]
<1> DEFINE r == _withdrawn(s, token, id)
           lock == s.locked[id]
           derived == _derivedWithout(s, token, id)
           newEnd == IF derived = 0 THEN 0 ELSE lock.end
           after == [amounts |-> [lock.amounts EXCEPT ![token] = 0], derived |-> derived, end |-> newEnd]
           pts == _checkpoint(s.points, [tokenId |-> id, oldDerivedAmount |-> lock.derived,
                                         newDerivedAmount |-> derived,
                                         oldEnd |-> lock.end, newEnd |-> newEnd])
           n == IF derived = 0 THEN _burnt(s.nft, id) ELSE s.nft
<1>1. r = [s EXCEPT !.locked[id] = after, !.points = pts, !.nft = n, !.held[token] = @ - lock.amounts[token]]
      BY Zenon DEF _withdrawn
<1> HIDE DEF r, pts, n
<1>2. /\ lock \in Lock /\ s.locked \in [Ids -> Lock] /\ s.held \in [StakingTokens -> Int]
      /\ lock.amounts \in [StakingTokens -> Nat] /\ lock.end \in Nat /\ lock.derived \in Nat
      /\ lock.amounts[token] \in Nat
      BY DEF VeTyped, Lock
<1>3. derived \in Nat
      BY <1>2, DerivedType DEF _derivedWithout
<1> HIDE DEF derived
<1>4. after \in Lock
      BY <1>2, <1>3 DEF Lock
<1> DEFINE h == [s.held EXCEPT ![token] = @ - lock.amounts[token]]
<1>5. h \in [StakingTokens -> Int]
      BY <1>2
<1>6. r = [locked |-> [s.locked EXCEPT ![id] = after], points |-> pts, nft |-> n, held |-> h]
  <2> HIDE DEF after, lock
  <2> QED BY <1>1 DEF VeTyped
<1>7. VeTyped(r) /\ r.nft = n /\ r.held = h /\ r.locked[id] = after
      /\ \A i \in Ids : i # id => r.locked[i] = s.locked[i]
  <2> HIDE DEF after, lock, h
  <2> QED BY <1>2, <1>4, <1>5, <1>6 DEF VeTyped
<1>8. \A other \in StakingTokens :
          /\ r.locked[id].amounts[other] = IF other = token THEN 0 ELSE s.locked[id].amounts[other]
          /\ r.held[other] = IF other = token THEN s.held[other] - s.locked[id].amounts[other]
                             ELSE s.held[other]
      BY <1>2, <1>7
<1> QED BY <1>7, <1>8 DEF r, derived, n

-----------------------------------------------------------------------------
(* What the loops do to the locks.                                         *)

\* The later of two ends.
LEMMA MergedEnd ==
    ASSUME VeTyped(ve), NEW from \in Ids, NEW to \in Ids
    PROVE  /\ _mergedEnd(from, to) \in Nat
           /\ locked[from].end <= _mergedEnd(from, to) /\ locked[to].end <= _mergedEnd(from, to)
<1>1. locked[from].end \in Nat /\ locked[to].end \in Nat
      BY DEF VeTyped, ve, Lock
<1> DEFINE S == {locked[from].end, locked[to].end}
<1>2. \E x \in S : \A y \in S : x >= y
      BY <1>1
<1>3. Max(S) \in S /\ \A y \in S : Max(S) >= y
  <2> HIDE DEF S
  <2> QED BY <1>2 DEF Max
<1> QED BY <1>1, <1>3 DEF _mergedEnd

\* While merge runs every token is still where it was, or it has moved and the end with it.
MergeOK(s, from, to) ==
    /\ VeTyped(s) /\ s.nft = nft /\ s.held = held
    /\ \A i \in Ids : i # from /\ i # to => s.locked[i] = locked[i]
    /\ s.locked[from].end = locked[from].end
    /\ s.locked[to].end \in {locked[to].end, _mergedEnd(from, to)}
    /\ \A token \in StakingTokens :
          \/ /\ s.locked[from].amounts[token] = locked[from].amounts[token]
             /\ s.locked[to].amounts[token] = locked[to].amounts[token]
          \/ /\ s.locked[from].amounts[token] = 0
             /\ s.locked[to].amounts[token] = locked[from].amounts[token] + locked[to].amounts[token]
             /\ s.locked[to].end = _mergedEnd(from, to)

LEMMA MergeTurn ==
    ASSUME now \in Nat, VeTyped(ve), NEW from \in Ids, NEW to \in Ids, from # to,
           locked[from].end > now, NEW s, MergeOK(s, from, to), NEW token \in StakingTokens
    PROVE  LET r == _mergeToken(s, token, from, to)
           IN  /\ MergeOK(r, from, to) /\ r.locked[from].amounts[token] = 0
               /\ \A other \in StakingTokens :
                     s.locked[from].amounts[other] = 0 => r.locked[from].amounts[other] = 0
<1> DEFINE r == _mergeToken(s, token, from, to)
           end == _mergedEnd(from, to)
           amount == s.locked[from].amounts[token]
           u == [s EXCEPT !.locked[from].amounts[token] = 0]
           info == [stakingToken |-> token, tokenId |-> to, value |-> amount,
                    unlockTime |-> end, lockedAmount |-> s.locked[to].amounts[token],
                    lockedDerivedAmount |-> s.locked[to].derived,
                    lockedEnd |-> s.locked[to].end, depositType |-> "MERGE_TYPE"]
<1>1. /\ \A i \in Ids : /\ s.locked[i] \in Lock /\ s.locked[i].amounts \in [StakingTokens -> Nat]
                        /\ s.locked[i].derived \in Nat /\ s.locked[i].end \in Nat
      /\ \A i \in Ids : /\ locked[i] \in Lock /\ locked[i].amounts \in [StakingTokens -> Nat]
                        /\ locked[i].derived \in Nat /\ locked[i].end \in Nat
      /\ held \in [StakingTokens -> Int]
      BY DEF MergeOK, VeTyped, Lock, ve
<1>2. end \in Nat /\ end # 0 /\ locked[from].end <= end /\ locked[to].end <= end
      BY <1>1, MergedEnd
<1> HIDE DEF end
<1>3. CASE amount = 0
  <2>1. r = s
        BY <1>3, Zenon DEF _mergeToken
  <2> QED BY <1>3, <2>1
<1>4. CASE amount # 0
  <2>1. r = _depositFor(u, info)
        BY <1>4, Zenon DEF _mergeToken, end
  <2> DEFINE left == [s.locked[from] EXCEPT !.amounts = [s.locked[from].amounts EXCEPT ![token] = 0]]
  <2>2. /\ left \in Lock /\ left.end = s.locked[from].end
        /\ left.amounts = [s.locked[from].amounts EXCEPT ![token] = 0]
        BY <1>1 DEF Lock
  <2>3. u = [locked |-> [s.locked EXCEPT ![from] = left], points |-> s.points, nft |-> s.nft, held |-> s.held]
        BY DEF MergeOK, VeTyped
  <2> HIDE DEF left, u
  <2>4. /\ VeTyped(u) /\ u.nft = s.nft /\ u.held = s.held /\ u.locked[from] = left
        /\ \A i \in Ids : i # from => u.locked[i] = s.locked[i]
        BY <2>2, <2>3 DEF MergeOK, VeTyped
  <2>5. /\ info.tokenId = to /\ info.value = amount /\ info.unlockTime = end
        /\ info.stakingToken = token /\ info.depositType = "MERGE_TYPE"
        /\ info.lockedAmount = s.locked[to].amounts[token]
        /\ info.lockedDerivedAmount = s.locked[to].derived
        OBVIOUS
  <2>6. /\ amount \in Nat /\ s.locked[to].amounts[token] \in Nat /\ s.locked[to].derived \in Nat
        BY <1>1
  <2> HIDE DEF info, r
  <2>7. /\ VeTyped(r) /\ r.nft = u.nft
        /\ \A i \in Ids : i # to => r.locked[i] = u.locked[i]
        /\ r.locked[to].end = end
        /\ \A other \in StakingTokens :
              r.locked[to].amounts[other] = IF other = token THEN s.locked[to].amounts[token] + amount
                                            ELSE u.locked[to].amounts[other]
        /\ \A other \in StakingTokens : r.held[other] = u.held[other]
    <3>1. /\ VeTyped(u) /\ info.tokenId \in Ids /\ info.value \in Nat /\ info.unlockTime \in Nat
          /\ info.lockedAmount \in Nat /\ info.lockedDerivedAmount \in Nat
          /\ info.stakingToken \in StakingTokens
          BY <1>2, <2>4, <2>5, <2>6
    <3>2. /\ VeTyped(r) /\ r.nft = u.nft
          /\ \A i \in Ids : i # info.tokenId => r.locked[i] = u.locked[i]
          /\ r.locked[info.tokenId].end =
                IF info.unlockTime = 0 THEN u.locked[info.tokenId].end ELSE info.unlockTime
          /\ \A other \in StakingTokens :
                r.locked[info.tokenId].amounts[other] =
                    IF info.value # 0 /\ other = info.stakingToken
                    THEN info.lockedAmount + info.value ELSE u.locked[info.tokenId].amounts[other]
          /\ \A other \in StakingTokens :
                r.held[other] =
                    IF info.value # 0 /\ other = info.stakingToken /\ info.depositType # "MERGE_TYPE"
                    THEN u.held[other] + info.value ELSE u.held[other]
          BY ONLY <2>1, <3>1, Deposit
    <3> HIDE DEF amount
    <3> QED BY ONLY <1>2, <1>4, <2>5, <3>2
  <2>8. r.held = held
    <3>1. r.held \in [StakingTokens -> Int] /\ u.held = held
          BY <2>4, <2>7 DEF VeTyped, MergeOK
    <3> QED BY <1>1, <2>7, <3>1
  <2>9. r.locked[from] = left
        BY <2>4, <2>7
  <2>10. ASSUME NEW other \in StakingTokens
         PROVE  \/ /\ r.locked[from].amounts[other] = locked[from].amounts[other]
                   /\ r.locked[to].amounts[other] = locked[to].amounts[other]
                \/ /\ r.locked[from].amounts[other] = 0
                   /\ r.locked[to].amounts[other] = locked[from].amounts[other] + locked[to].amounts[other]
                   /\ r.locked[to].end = end
    <3>1. CASE other = token
      <4>1. /\ s.locked[from].amounts[token] = locked[from].amounts[token]
            /\ s.locked[to].amounts[token] = locked[to].amounts[token]
            BY <1>4 DEF MergeOK
      <4>2. r.locked[from].amounts[token] = 0
            BY <1>1, <2>2, <2>9
      <4> QED BY <3>1, <4>1, <4>2, <2>7, <1>1
    <3>2. CASE other # token
      <4>1. /\ r.locked[from].amounts[other] = s.locked[from].amounts[other]
            /\ r.locked[to].amounts[other] = s.locked[to].amounts[other]
            BY <3>2, <1>1, <2>2, <2>4, <2>7, <2>9
      <4> QED BY <4>1, <2>7 DEF MergeOK, end
    <3> QED BY <3>1, <3>2
  <2>11. MergeOK(r, from, to)
         BY <2>2, <2>4, <2>7, <2>8, <2>9, <2>10 DEF MergeOK, end
  <2>12. \A other \in StakingTokens :
            r.locked[from].amounts[other] = IF other = token THEN 0 ELSE s.locked[from].amounts[other]
         BY <1>1, <2>2, <2>9
  <2> QED BY <2>11, <2>12 DEF r
<1> QED BY <1>3, <1>4

LEMMA MergeLoop ==
    ASSUME now \in Nat, VeTyped(ve), tokens \in Seq(StakingTokens),
           NEW from \in Ids, NEW to \in Ids, from # to, locked[from].end > now
    PROVE  /\ MergeOK(_merged(from, to), from, to)
           /\ \A token \in ToSet(tokens) : _merged(from, to).locked[from].amounts[token] = 0
<1>1. PICK h : /\ h[0] = ve /\ h[Len(tokens)] = _merged(from, to)
               /\ \A m \in 0..(Len(tokens) - 1) : h[m + 1] = _mergeToken(h[m], tokens[m + 1], from, to)
      BY MergeTurns
<1> DEFINE n == Len(tokens)
           done(m) == \A j \in 1..m : h[m].locked[from].amounts[tokens[j]] = 0
           G == {m \in 0..n : MergeOK(h[m], from, to) /\ done(m)}
<1>2. n \in Nat /\ \A j \in 1..n : tokens[j] \in StakingTokens
      OBVIOUS
<1>3. 0 \in G
  <2>1. /\ ve.locked = locked /\ ve.nft = nft /\ ve.held = held
        BY DEF ve
  <2>2. MergeOK(ve, from, to)
        BY <2>1 DEF MergeOK
  <2> QED BY <1>1, <1>2, <2>2
<1>4. ASSUME NEW m \in 0..(n - 1), m \in G
      PROVE  m + 1 \in G
  <2>1. /\ m + 1 \in 1..n /\ tokens[m + 1] \in StakingTokens
        /\ MergeOK(h[m], from, to) /\ done(m)
        BY <1>2, <1>4
  <2>2. h[m + 1] = _mergeToken(h[m], tokens[m + 1], from, to)
        BY <1>1
  <2>3. /\ MergeOK(h[m + 1], from, to) /\ h[m + 1].locked[from].amounts[tokens[m + 1]] = 0
        /\ \A other \in StakingTokens :
              h[m].locked[from].amounts[other] = 0 => h[m + 1].locked[from].amounts[other] = 0
    <3> PICK tk \in StakingTokens : tk = tokens[m + 1]
        BY <2>1
    <3> PICK s : s = h[m]
        OBVIOUS
    <3>1. /\ MergeOK(_mergeToken(s, tk, from, to), from, to)
          /\ _mergeToken(s, tk, from, to).locked[from].amounts[tk] = 0
          /\ \A other \in StakingTokens :
                s.locked[from].amounts[other] = 0
                    => _mergeToken(s, tk, from, to).locked[from].amounts[other] = 0
          BY <2>1, MergeTurn
    <3> QED BY <2>2, <3>1
  <2>4. ASSUME NEW j \in 1..(m + 1)
        PROVE  h[m + 1].locked[from].amounts[tokens[j]] = 0
    <3>1. CASE j = m + 1
          BY <2>3, <3>1
    <3>2. CASE j # m + 1
      <4>1. j \in 1..m /\ tokens[j] \in StakingTokens
            BY <3>2, <1>2
      <4> QED BY <4>1, <2>1, <2>3
    <3> QED BY <3>1, <3>2
  <2> QED BY <2>1, <2>3, <2>4
<1>5. n \in G
  <2> HIDE DEF G, n
  <2> QED BY ONLY <1>2, <1>3, <1>4, CountUp
<1>6. ASSUME NEW token \in ToSet(tokens)
      PROVE  _merged(from, to).locked[from].amounts[token] = 0
  <2>1. PICK j \in 1..n : token = tokens[j]
        BY DEF ToSet
  <2> QED BY <1>1, <1>5, <2>1
<1> QED BY <1>1, <1>5, <1>6

-----------------------------------------------------------------------------
(* NFTs.                                                                   *)

NFTTyped(n) ==
    /\ n = [idToOwner |-> n.idToOwner, idToApprovals |-> n.idToApprovals,
            ownerToNFTokenIdList |-> n.ownerToNFTokenIdList, tokenToOwnerIndex |-> n.tokenToOwnerIndex,
            ownerToOperators |-> n.ownerToOperators]
    /\ n.idToOwner \in [Ids -> Accounts \cup {NULL}]
    /\ n.idToApprovals \in [Ids -> Accounts \cup {NULL}]
    /\ n.ownerToNFTokenIdList \in [Accounts -> Seq(Ids)]
    /\ n.tokenToOwnerIndex \in [Ids -> Nat]
    /\ n.ownerToOperators \in SUBSET (Accounts \X Accounts)

\* Whoever is in a list is owned by its account and knows the place; whoever is owned is there.
NFTListed(n) ==
    /\ \A a \in Accounts : \A i \in 1..Len(n.ownerToNFTokenIdList[a]) :
          /\ n.idToOwner[n.ownerToNFTokenIdList[a][i]] = a
          /\ n.tokenToOwnerIndex[n.ownerToNFTokenIdList[a][i]] = i - 1
    /\ \A id \in Ids, a \in Accounts : n.idToOwner[id] = a =>
          /\ n.tokenToOwnerIndex[id] + 1 \in 1..Len(n.ownerToNFTokenIdList[a])
          /\ n.ownerToNFTokenIdList[a][n.tokenToOwnerIndex[id] + 1] = id

\* Nobody may spend what nobody owns.
NFTApprovals(n) == \A id \in Ids : n.idToOwner[id] = NULL => n.idToApprovals[id] = NULL

NFTOK(n) == NFTTyped(n) /\ NFTListed(n) /\ NFTApprovals(n)

\* The operations on an owner's list, in a list of any elements.
LEMMA AppendElements ==
    ASSUME NEW S, NEW list \in Seq(S), NEW e \in S
    PROVE  /\ Append(list, e) \in Seq(S) /\ Len(Append(list, e)) = Len(list) + 1
           /\ \A i \in 1..(Len(list) + 1) :
                 Append(list, e)[i] = IF i = Len(list) + 1 THEN e ELSE list[i]
OBVIOUS

LEMMA FillGap ==
    ASSUME NEW S, NEW list \in Seq(S), NEW j \in 1..Len(list)
    PROVE  LET filled == Front(ReplaceAt(list, j, Last(list)))
           IN  /\ filled \in Seq(S) /\ Len(filled) = Len(list) - 1
               /\ \A i \in 1..(Len(list) - 1) :
                     filled[i] = IF i = j THEN list[Len(list)] ELSE list[i]
<1>1. Len(list) \in Nat /\ Len(list) >= 1 /\ Last(list) = list[Len(list)] /\ list[Len(list)] \in S
      BY DEF Last
<1> DEFINE r == [list EXCEPT ![j] = list[Len(list)]]
<1>2. r \in Seq(S) /\ Len(r) = Len(list) /\ \A i \in 1..Len(list) : r[i] = IF i = j THEN list[Len(list)] ELSE list[i]
      BY <1>1
<1>3. Front(ReplaceAt(list, j, Last(list))) = SubSeq(r, 1, Len(r) - 1)
      BY <1>1 DEF Front, ReplaceAt
<1> HIDE DEF r
<1>4. /\ SubSeq(r, 1, Len(r) - 1) \in Seq(S) /\ Len(SubSeq(r, 1, Len(r) - 1)) = Len(r) - 1
      /\ \A i \in 1..(Len(r) - 1) : SubSeq(r, 1, Len(r) - 1)[i] = r[i]
      BY <1>1, <1>2
<1> QED BY <1>1, <1>2, <1>3, <1>4

\* Listing an NFT that nobody owns.
LEMMA NFTAdded ==
    ASSUME NEW n, NFTOK(n), NEW to \in Accounts, NEW id \in Ids, n.idToOwner[id] = NULL
    PROVE  /\ NFTOK(_addTokenTo(n, to, id))
           /\ _addTokenTo(n, to, id).idToOwner = [n.idToOwner EXCEPT ![id] = to]
<1> DEFINE r == _addTokenTo(n, to, id)
           list == n.ownerToNFTokenIdList[to]
<1>0. NULL \notin Accounts
      BY VeAssumption
<1>1. /\ n.idToOwner \in [Ids -> Accounts \cup {NULL}] /\ n.tokenToOwnerIndex \in [Ids -> Nat]
      /\ n.ownerToNFTokenIdList \in [Accounts -> Seq(Ids)] /\ list \in Seq(Ids) /\ Len(list) \in Nat
      BY DEF NFTOK, NFTTyped
<1>2. r = [idToOwner |-> [n.idToOwner EXCEPT ![id] = to], idToApprovals |-> n.idToApprovals,
           ownerToNFTokenIdList |-> [n.ownerToNFTokenIdList EXCEPT ![to] = Append(list, id)],
           tokenToOwnerIndex |-> [n.tokenToOwnerIndex EXCEPT ![id] = Len(list)],
           ownerToOperators |-> n.ownerToOperators]
  <2>1. r = [n EXCEPT !.idToOwner[id] = to, !.tokenToOwnerIndex[id] = Len(list),
                      !.ownerToNFTokenIdList[to] = Append(list, id)]
        BY DEF _addTokenTo
  <2>2. n = [idToOwner |-> n.idToOwner, idToApprovals |-> n.idToApprovals,
             ownerToNFTokenIdList |-> n.ownerToNFTokenIdList, tokenToOwnerIndex |-> n.tokenToOwnerIndex,
             ownerToOperators |-> n.ownerToOperators]
        BY DEF NFTOK, NFTTyped
  <2> HIDE DEF r, list
  <2> QED BY ONLY <2>1, <2>2
<1> HIDE DEF r
<1>3. /\ Append(list, id) \in Seq(Ids) /\ Len(Append(list, id)) = Len(list) + 1
      /\ \A i \in 1..(Len(list) + 1) :
            Append(list, id)[i] = IF i = Len(list) + 1 THEN id ELSE list[i]
      BY <1>1, AppendElements
<1>4. NFTTyped(r)
      BY <1>1, <1>2, <1>3 DEF NFTOK, NFTTyped
<1>5. NFTApprovals(r)
      BY <1>0, <1>1, <1>2 DEF NFTOK, NFTApprovals
<1>6. ASSUME NEW a \in Accounts, NEW i \in 1..Len(r.ownerToNFTokenIdList[a])
      PROVE  /\ r.idToOwner[r.ownerToNFTokenIdList[a][i]] = a
             /\ r.tokenToOwnerIndex[r.ownerToNFTokenIdList[a][i]] = i - 1
  <2>1. CASE a = to /\ i = Len(list) + 1
    <3>1. r.ownerToNFTokenIdList[a][i] = id
          BY <2>1, <1>1, <1>2, <1>3
    <3> QED BY <2>1, <3>1, <1>1, <1>2
  <2>2. CASE ~(a = to /\ i = Len(list) + 1)
    <3>1. /\ i \in 1..Len(n.ownerToNFTokenIdList[a])
          /\ r.ownerToNFTokenIdList[a][i] = n.ownerToNFTokenIdList[a][i]
      <4>1. CASE a = to
            BY <4>1, <2>2, <1>1, <1>2, <1>3
      <4>2. CASE a # to
            BY <4>2, <1>1, <1>2
      <4> QED BY <4>1, <4>2
    <3>2. PICK x \in Ids : x = n.ownerToNFTokenIdList[a][i]
          BY <3>1, <1>1
    <3>3. n.idToOwner[x] = a /\ n.tokenToOwnerIndex[x] = i - 1
          BY <3>1, <3>2 DEF NFTOK, NFTListed
    <3>4. x # id
          BY <3>3, <1>0
    <3> QED BY <3>1, <3>2, <3>3, <3>4, <1>1, <1>2
  <2> QED BY <2>1, <2>2
<1>7. ASSUME NEW x \in Ids, NEW a \in Accounts, r.idToOwner[x] = a
      PROVE  /\ r.tokenToOwnerIndex[x] + 1 \in 1..Len(r.ownerToNFTokenIdList[a])
             /\ r.ownerToNFTokenIdList[a][r.tokenToOwnerIndex[x] + 1] = x
  <2>1. CASE x = id
    <3>1. a = to /\ r.tokenToOwnerIndex[x] = Len(list) /\ r.ownerToNFTokenIdList[a] = Append(list, id)
          BY <2>1, <1>1, <1>2, <1>7
    <3>2. Len(list) + 1 \in 1..(Len(list) + 1)
          BY <1>1
    <3> QED BY <2>1, <3>1, <3>2, <1>3
  <2>2. CASE x # id
    <3>1. n.idToOwner[x] = a /\ r.tokenToOwnerIndex[x] = n.tokenToOwnerIndex[x]
          BY <2>2, <1>1, <1>2, <1>7
    <3>2. PICK i \in 1..Len(n.ownerToNFTokenIdList[a]) :
              i = n.tokenToOwnerIndex[x] + 1 /\ n.ownerToNFTokenIdList[a][i] = x
          BY <3>1 DEF NFTOK, NFTListed
    <3>3. i \in 1..Len(r.ownerToNFTokenIdList[a]) /\ r.ownerToNFTokenIdList[a][i] = x
      <4>1. CASE a = to
            BY <4>1, <3>2, <1>1, <1>2, <1>3
      <4>2. CASE a # to
            BY <4>2, <3>2, <1>1, <1>2
      <4> QED BY <4>1, <4>2
    <3> QED BY <3>1, <3>2, <3>3
  <2> QED BY <2>1, <2>2
<1>8. NFTOK(r)
      BY <1>4, <1>5, <1>6, <1>7 DEF NFTOK, NFTListed
<1> QED BY <1>2, <1>8 DEF r

\* Taking an NFT off its owner's list.
LEMMA NFTRemoved ==
    ASSUME NEW n, NFTOK(n), NEW a \in Accounts, NEW id \in Ids, n.idToOwner[id] = a,
           n.idToApprovals[id] = NULL
    PROVE  /\ NFTOK(_removeTokenFrom(n, a, id))
           /\ _removeTokenFrom(n, a, id).idToOwner = [n.idToOwner EXCEPT ![id] = NULL]
<1> DEFINE r == _removeTokenFrom(n, a, id)
           list == n.ownerToNFTokenIdList[a]
           index == n.tokenToOwnerIndex[id]
           filled == Front(ReplaceAt(list, index + 1, Last(list)))
           k == Len(list)
           j == index + 1
           z == list[k]
<1>0. NULL \notin Accounts
      BY VeAssumption
<1>1. /\ n.idToOwner \in [Ids -> Accounts \cup {NULL}] /\ n.tokenToOwnerIndex \in [Ids -> Nat]
      /\ n.ownerToNFTokenIdList \in [Accounts -> Seq(Ids)] /\ list \in Seq(Ids)
      BY DEF NFTOK, NFTTyped
<1>2. j \in 1..k /\ list[j] = id /\ k \in Nat /\ index \in Nat /\ Last(list) = z
      BY <1>1 DEF NFTOK, NFTListed, Last
<1>3. z \in Ids /\ n.idToOwner[z] = a /\ n.tokenToOwnerIndex[z] = k - 1
  <2>1. k \in 1..k
        BY <1>2
  <2> QED BY <1>1, <2>1 DEF NFTOK, NFTListed
<1>4. /\ filled \in Seq(Ids) /\ Len(filled) = k - 1
      /\ \A i \in 1..(k - 1) : filled[i] = IF i = j THEN z ELSE list[i]
  <2>1. list \in Seq(Ids) /\ j \in 1..Len(list)
        BY <1>1, <1>2
  <2>2. filled = Front(ReplaceAt(list, j, Last(list))) /\ k = Len(list) /\ z = list[Len(list)]
        OBVIOUS
  <2> HIDE DEF filled, k, z, list, j
  <2> QED BY ONLY <2>1, <2>2, FillGap
<1>5. r = [idToOwner |-> [n.idToOwner EXCEPT ![id] = NULL], idToApprovals |-> n.idToApprovals,
           ownerToNFTokenIdList |-> [n.ownerToNFTokenIdList EXCEPT ![a] = filled],
           tokenToOwnerIndex |-> [n.tokenToOwnerIndex EXCEPT ![z] = index, ![id] = 0],
           ownerToOperators |-> n.ownerToOperators]
  <2>1. r = [n EXCEPT !.idToOwner[id] = NULL, !.ownerToNFTokenIdList[a] = filled,
                      !.tokenToOwnerIndex = [@ EXCEPT ![Last(list)] = index, ![id] = 0]]
        BY DEF _removeTokenFrom
  <2>2. n = [idToOwner |-> n.idToOwner, idToApprovals |-> n.idToApprovals,
             ownerToNFTokenIdList |-> n.ownerToNFTokenIdList, tokenToOwnerIndex |-> n.tokenToOwnerIndex,
             ownerToOperators |-> n.ownerToOperators]
        BY DEF NFTOK, NFTTyped
  <2> HIDE DEF r, list, filled, index, z
  <2> QED BY ONLY <2>1, <2>2, <1>2
<1> HIDE DEF r, filled
<1> DEFINE place == r.tokenToOwnerIndex
<1>6. /\ NFTTyped(r)
      /\ \A x \in Ids : r.idToOwner[x] = IF x = id THEN NULL ELSE n.idToOwner[x]
      /\ \A x \in Ids : x # id => place[x] = IF x = z THEN index ELSE n.tokenToOwnerIndex[x]
      /\ \A b \in Accounts : r.ownerToNFTokenIdList[b] = IF b = a THEN filled ELSE n.ownerToNFTokenIdList[b]
      BY <1>1, <1>2, <1>3, <1>4, <1>5 DEF NFTOK, NFTTyped
<1>7. NFTApprovals(r)
      BY <1>1, <1>5 DEF NFTOK, NFTApprovals
<1>8. z = id <=> j = k
      BY <1>2, <1>3
<1> HIDE DEF place, list, index, z, j, k
<1>9. ASSUME NEW b \in Accounts, NEW i \in 1..Len(r.ownerToNFTokenIdList[b])
      PROVE  /\ r.idToOwner[r.ownerToNFTokenIdList[b][i]] = b
             /\ place[r.ownerToNFTokenIdList[b][i]] = i - 1
  <2>1. CASE b = a
    <3>1. i \in 1..(k - 1) /\ i \in 1..k /\ r.ownerToNFTokenIdList[b][i] = IF i = j THEN z ELSE list[i]
          BY <2>1, <1>2, <1>4, <1>6
    <3>2. CASE i = j
      <4>1. z # id
            BY <3>1, <3>2, <1>2, <1>8
      <4>2. place[z] = i - 1
            BY <3>2, <4>1, <1>2, <1>3, <1>6 DEF j
      <4> QED BY <2>1, <3>1, <3>2, <4>1, <4>2, <1>3, <1>6
    <3>3. CASE i # j
      <4>1. PICK x \in Ids : x = list[i]
            BY <3>1, <1>1 DEF k
      <4>2. n.idToOwner[x] = a /\ n.tokenToOwnerIndex[x] = i - 1
            BY <3>1, <4>1 DEF NFTOK, NFTListed, list, k
      <4>3. x # id /\ x # z
            BY <3>1, <3>3, <4>2, <1>2, <1>3 DEF j, index
      <4> QED BY <2>1, <3>1, <3>3, <4>1, <4>2, <4>3, <1>6
    <3> QED BY <3>2, <3>3
  <2>2. CASE b # a
    <3>1. r.ownerToNFTokenIdList[b] = n.ownerToNFTokenIdList[b]
          BY <2>2, <1>6
    <3>2. PICK x \in Ids : x = n.ownerToNFTokenIdList[b][i]
          BY <3>1, <1>1
    <3>3. n.idToOwner[x] = b /\ n.tokenToOwnerIndex[x] = i - 1
          BY <3>1, <3>2 DEF NFTOK, NFTListed
    <3>4. x # id /\ x # z
          BY <2>2, <3>3, <1>3
    <3> QED BY <3>1, <3>2, <3>3, <3>4, <1>6
  <2> QED BY <2>1, <2>2
<1>10. ASSUME NEW x \in Ids, NEW b \in Accounts, r.idToOwner[x] = b
       PROVE  /\ place[x] + 1 \in 1..Len(r.ownerToNFTokenIdList[b])
              /\ r.ownerToNFTokenIdList[b][place[x] + 1] = x
  <2>1. x # id /\ n.idToOwner[x] = b
        BY <1>0, <1>6, <1>10
  <2>2. CASE b # a
    <3>1. x # z
          BY <2>1, <2>2, <1>3
    <3> QED BY <2>1, <2>2, <3>1, <1>6 DEF NFTOK, NFTListed
  <2>3. CASE b = a /\ x = z
    <3>1. j \in 1..(k - 1) /\ place[x] + 1 = j
          BY <2>1, <2>3, <1>2, <1>6, <1>8 DEF j
    <3> QED BY <2>3, <3>1, <1>4, <1>6
  <2>4. CASE b = a /\ x # z
    <3>1. PICK i \in 1..k : i = n.tokenToOwnerIndex[x] + 1 /\ list[i] = x
          BY <2>1, <2>4 DEF NFTOK, NFTListed, list, k
    <3>2. i # j /\ i # k
          BY <2>1, <2>4, <3>1, <1>2 DEF z
    <3>3. i \in 1..(k - 1) /\ place[x] + 1 = i
          BY <2>1, <2>4, <3>1, <3>2, <1>2, <1>6
    <3> QED BY <2>4, <3>1, <3>2, <3>3, <1>4, <1>6
  <2> QED BY <2>2, <2>3, <2>4
<1>11. NFTOK(r)
       BY <1>6, <1>7, <1>9, <1>10 DEF NFTOK, NFTListed, place
<1>12. r.idToOwner = [n.idToOwner EXCEPT ![id] = NULL]
       BY <1>5
<1> QED BY <1>11, <1>12 DEF r

\* Approving somebody for an NFT, or nobody.
LEMMA NFTApproved ==
    ASSUME NEW n, NFTOK(n), NEW id \in Ids, NEW approved \in Accounts \cup {NULL},
           n.idToOwner[id] # NULL \/ approved = NULL
    PROVE  LET r == [n EXCEPT !.idToApprovals[id] = approved]
           IN  /\ NFTOK(r) /\ r.idToOwner = n.idToOwner
               /\ r.idToApprovals = [n.idToApprovals EXCEPT ![id] = approved]
<1> DEFINE r == [n EXCEPT !.idToApprovals[id] = approved]
<1>1. r = [idToOwner |-> n.idToOwner, idToApprovals |-> [n.idToApprovals EXCEPT ![id] = approved],
           ownerToNFTokenIdList |-> n.ownerToNFTokenIdList, tokenToOwnerIndex |-> n.tokenToOwnerIndex,
           ownerToOperators |-> n.ownerToOperators]
  <2>1. n = [idToOwner |-> n.idToOwner, idToApprovals |-> n.idToApprovals,
             ownerToNFTokenIdList |-> n.ownerToNFTokenIdList, tokenToOwnerIndex |-> n.tokenToOwnerIndex,
             ownerToOperators |-> n.ownerToOperators]
        BY DEF NFTOK, NFTTyped
  <2> QED BY ONLY <2>1
<1> HIDE DEF r
<1>2. NFTTyped(r)
      BY <1>1 DEF NFTOK, NFTTyped
<1>3. NFTListed(r)
      BY <1>1 DEF NFTOK, NFTListed
<1>4. NFTApprovals(r)
      BY <1>1 DEF NFTOK, NFTTyped, NFTApprovals
<1> QED BY <1>1, <1>2, <1>3, <1>4 DEF NFTOK, r

\* An owner's operators are named, or no longer.
LEMMA NFTOperators ==
    ASSUME NEW n, NFTOK(n), NEW ops \in SUBSET (Accounts \X Accounts)
    PROVE  LET r == [n EXCEPT !.ownerToOperators = ops]
           IN  NFTOK(r) /\ r.idToOwner = n.idToOwner
<1> DEFINE r == [n EXCEPT !.ownerToOperators = ops]
<1>1. r = [idToOwner |-> n.idToOwner, idToApprovals |-> n.idToApprovals,
           ownerToNFTokenIdList |-> n.ownerToNFTokenIdList, tokenToOwnerIndex |-> n.tokenToOwnerIndex,
           ownerToOperators |-> ops]
  <2>1. n = [idToOwner |-> n.idToOwner, idToApprovals |-> n.idToApprovals,
             ownerToNFTokenIdList |-> n.ownerToNFTokenIdList, tokenToOwnerIndex |-> n.tokenToOwnerIndex,
             ownerToOperators |-> n.ownerToOperators]
        BY DEF NFTOK, NFTTyped
  <2> QED BY ONLY <2>1
<1> HIDE DEF r
<1>2. NFTTyped(r)
      BY <1>1 DEF NFTOK, NFTTyped
<1>3. NFTListed(r)
      BY <1>1 DEF NFTOK, NFTListed
<1>4. NFTApprovals(r)
      BY <1>1 DEF NFTOK, NFTApprovals
<1> QED BY <1>1, <1>2, <1>3, <1>4 DEF NFTOK, r

\* Burning an NFT takes it from its owner.
LEMMA NFTBurnt ==
    ASSUME NEW n, NFTOK(n), NEW id \in Ids, n.idToOwner[id] \in Accounts
    PROVE  NFTOK(_burnt(n, id)) /\ _burnt(n, id).idToOwner = [n.idToOwner EXCEPT ![id] = NULL]
<1> PICK c : c = [n EXCEPT !.idToApprovals[id] = NULL]
    OBVIOUS
<1>1. NFTOK(c) /\ c.idToOwner = n.idToOwner /\ c.idToApprovals = [n.idToApprovals EXCEPT ![id] = NULL]
      BY NFTApproved
<1>2. c.idToApprovals[id] = NULL
      BY <1>1 DEF NFTOK, NFTTyped
<1> PICK a \in Accounts : a = n.idToOwner[id]
    OBVIOUS
<1>3. _burnt(n, id) = _removeTokenFrom(c, a, id)
      BY DEF _burnt
<1>4. /\ NFTOK(_removeTokenFrom(c, a, id))
      /\ _removeTokenFrom(c, a, id).idToOwner = [c.idToOwner EXCEPT ![id] = NULL]
  <2>1. NFTOK(c) /\ c.idToOwner[id] = a /\ c.idToApprovals[id] = NULL /\ a \in Accounts /\ id \in Ids
        BY <1>1, <1>2
  <2> QED BY ONLY <2>1, NFTRemoved, Zenon
<1> QED BY <1>1, <1>3, <1>4

\* A transfer takes it from one list to the other.
LEMMA NFTTransferred ==
    ASSUME NEW n, NFTOK(n), NEW from \in Accounts, NEW to \in Accounts, NEW id \in Ids,
           n.idToOwner[id] = from
    PROVE  LET r == _addTokenTo(_removeTokenFrom([n EXCEPT !.idToApprovals[id] = NULL], from, id), to, id)
           IN  NFTOK(r) /\ r.idToOwner = [n.idToOwner EXCEPT ![id] = to]
<1> PICK c : c = [n EXCEPT !.idToApprovals[id] = NULL]
    OBVIOUS
<1>1. NFTOK(c) /\ c.idToOwner = n.idToOwner /\ c.idToApprovals = [n.idToApprovals EXCEPT ![id] = NULL]
      BY NFTApproved
<1>2. c.idToApprovals[id] = NULL /\ c.idToOwner[id] = from
      BY <1>1 DEF NFTOK, NFTTyped
<1> PICK d : d = _removeTokenFrom(c, from, id)
    OBVIOUS
<1>3. NFTOK(d) /\ d.idToOwner = [c.idToOwner EXCEPT ![id] = NULL]
  <2>1. NFTOK(c) /\ c.idToOwner[id] = from /\ c.idToApprovals[id] = NULL /\ from \in Accounts /\ id \in Ids
        BY <1>1, <1>2
  <2>2. d = _removeTokenFrom(c, from, id)
        OBVIOUS
  <2> QED BY ONLY <2>1, <2>2, NFTRemoved, Zenon
<1>4. d.idToOwner[id] = NULL
      BY <1>1, <1>3 DEF NFTOK, NFTTyped
<1>5. NFTOK(_addTokenTo(d, to, id)) /\ _addTokenTo(d, to, id).idToOwner = [d.idToOwner EXCEPT ![id] = to]
  <2>1. NFTOK(d) /\ d.idToOwner[id] = NULL /\ to \in Accounts /\ id \in Ids
        BY <1>3, <1>4
  <2> QED BY ONLY <2>1, NFTAdded, Zenon
<1>6. [d.idToOwner EXCEPT ![id] = to] = [n.idToOwner EXCEPT ![id] = to]
      BY <1>1, <1>3 DEF NFTOK, NFTTyped
<1> QED BY <1>5, <1>6

\* Only an NFT that somebody owns can be spent.
LEMMA SpendableIsOwned ==
    ASSUME NEW n, NFTOK(n), NEW caller \in Accounts, NEW id \in Ids, isApprovedOrOwner(n, caller, id)
    PROVE  n.idToOwner[id] \in Accounts
<1>1. NULL \notin Accounts
      BY VeAssumption
<1>2. n.idToOwner[id] \in Accounts \cup {NULL}
      BY DEF NFTOK, NFTTyped
<1>3. CASE n.idToOwner[id] = caller
      BY <1>3
<1>4. CASE n.idToApprovals[id] = caller
      BY <1>1, <1>2, <1>4 DEF NFTOK, NFTApprovals
<1>5. CASE _isOperator(n, n.idToOwner[id], caller)
  <2>1. <<n.idToOwner[id], caller>> \in Accounts \X Accounts
        BY <1>5 DEF _isOperator, NFTOK, NFTTyped
  <2> QED BY <2>1
<1> QED BY <1>3, <1>4, <1>5 DEF isApprovedOrOwner

-----------------------------------------------------------------------------
(* Locks and NFTs together.                                                *)

\* An NFT that nobody owns counts for nothing and has no end.
BurntIsEmpty(s) ==
    \A id \in Ids : s.nft.idToOwner[id] = NULL => s.locked[id].derived = 0 /\ s.locked[id].end = 0

VeOK(s) == VeTyped(s) /\ NFTOK(s.nft) /\ BurntIsEmpty(s)

\* A withdrawal keeps that, and can be made of an owned NFT only.
LEMMA WithdrawalOK ==
    ASSUME now \in Nat, NEW s, VeOK(s), NEW caller \in Accounts, NEW token \in StakingTokens, NEW id \in Ids,
           _mayWithdraw(s, caller, token, id)
    PROVE  /\ VeOK(_withdrawn(s, token, id))
           /\ s.nft.idToOwner[id] \in Accounts
           /\ \A i \in Ids : i # id => _withdrawn(s, token, id).nft.idToOwner[i] = s.nft.idToOwner[i]
<1> PICK r : r = _withdrawn(s, token, id)
    OBVIOUS
<1> PICK derived : derived = _derivedWithout(s, token, id)
    OBVIOUS
<1>1. s.nft.idToOwner[id] \in Accounts
      BY SpendableIsOwned DEF VeOK, _mayWithdraw
<1>2. /\ VeTyped(r)
      /\ r.nft = IF derived = 0 THEN _burnt(s.nft, id) ELSE s.nft
      /\ \A i \in Ids : i # id => r.locked[i] = s.locked[i]
      /\ r.locked[id].derived = derived
      /\ r.locked[id].end = IF derived = 0 THEN 0 ELSE s.locked[id].end
  <2>1. VeTyped(s) /\ token \in StakingTokens /\ id \in Ids
        BY DEF VeOK
  <2>2. r = _withdrawn(s, token, id) /\ derived = _derivedWithout(s, token, id)
        OBVIOUS
  <2>3. /\ VeTyped(_withdrawn(s, token, id))
        /\ _withdrawn(s, token, id).nft = IF _derivedWithout(s, token, id) = 0 THEN _burnt(s.nft, id) ELSE s.nft
        /\ \A i \in Ids : i # id => _withdrawn(s, token, id).locked[i] = s.locked[i]
        /\ _withdrawn(s, token, id).locked[id].derived = _derivedWithout(s, token, id)
        /\ _withdrawn(s, token, id).locked[id].end =
              IF _derivedWithout(s, token, id) = 0 THEN 0 ELSE s.locked[id].end
        BY ONLY <2>1, Withdrawal
  <2> QED BY ONLY <2>2, <2>3
<1>3. s.nft.idToOwner \in [Ids -> Accounts \cup {NULL}] /\ NULL \notin Accounts
      BY VeAssumption DEF VeOK, NFTOK, NFTTyped
<1>4. NFTOK(_burnt(s.nft, id)) /\ _burnt(s.nft, id).idToOwner = [s.nft.idToOwner EXCEPT ![id] = NULL]
      BY <1>1, NFTBurnt DEF VeOK
<1>5. CASE derived = 0
  <2>1. NFTOK(r.nft) /\ r.nft.idToOwner = [s.nft.idToOwner EXCEPT ![id] = NULL]
        BY <1>2, <1>4, <1>5
  <2>2. BurntIsEmpty(r)
        BY <1>2, <1>3, <1>5, <2>1 DEF BurntIsEmpty, VeOK
  <2> QED BY <1>1, <1>2, <1>3, <2>1, <2>2 DEF VeOK
<1>6. CASE derived # 0
  <2>1. r.nft = s.nft
        BY <1>2, <1>6
  <2>2. BurntIsEmpty(r)
        BY <1>1, <1>2, <1>3, <2>1 DEF BurntIsEmpty, VeOK
  <2> QED BY <1>1, <1>2, <2>1, <2>2 DEF VeOK
<1> QED BY <1>5, <1>6

\* A percentage is no more than the whole.
LEMMA PartType ==
    ASSUME VeTyped(ve), NEW token \in StakingTokens, NEW id \in Ids, NEW percent \in Percents
    PROVE  /\ _part(token, id, percent) \in Nat
           /\ locked[id].amounts[token] - _part(token, id, percent) \in Nat
           /\ locked[id].amounts[token] = 0 => _part(token, id, percent) = 0
<1> PICK a \in Nat : a = locked[id].amounts[token]
    BY DEF VeTyped, ve, Lock
<1>1. WEIGHT_DENOMINATOR \in Nat \ {0} /\ percent \in 1..(WEIGHT_DENOMINATOR - 1)
      BY VeAssumption
<1> PICK w \in Nat : w = WEIGHT_DENOMINATOR
    BY <1>1
<1>2. w > 0 /\ percent \in Nat /\ percent <= w
      BY <1>1
<1>3. a * percent \in Nat /\ a * w \in Nat /\ a * percent <= a * w
      BY <1>2
<1> PICK x \in Nat : x = a * percent
    BY <1>3
<1> PICK q \in Nat : q = x \div w
    BY <1>2, Quotient
<1>4. q * w <= x
      BY <1>2
<1>5. q <= a
  <2> SUFFICES ASSUME a + 1 <= q PROVE FALSE
      OBVIOUS
  <2>1. (a + 1) * w <= q * w
        BY <1>2
  <2>2. (a + 1) * w = a * w + w
        BY <1>2
  <2> QED BY <1>2, <1>3, <1>4, <2>1, <2>2
<1>6. a = 0 => x = 0
      BY <1>2
<1>7. _part(token, id, percent) = q
      BY DEF _part
<1> QED BY <1>2, <1>5, <1>6, <1>7

\* While split runs every token is still where it was, or its part is in the new NFT, under the same
\* end.
SplitOK(x, caller, id, newId, percent) ==
    /\ x = [derived |-> x.derived, s |-> x.s] /\ x.derived \in Nat
    /\ VeTyped(x.s) /\ x.s.nft = _addTokenTo(nft, caller, newId) /\ x.s.held = held
    /\ \A i \in Ids : i # id /\ i # newId => x.s.locked[i] = locked[i]
    /\ x.s.locked[id].end = locked[id].end
    /\ \A token \in StakingTokens :
          \/ /\ x.s.locked[id].amounts[token] = locked[id].amounts[token]
             /\ x.s.locked[newId].amounts[token] = 0
          \/ /\ x.s.locked[id].amounts[token] = locked[id].amounts[token] - _part(token, id, percent)
             /\ x.s.locked[newId].amounts[token] = _part(token, id, percent)
             /\ x.s.locked[newId].end = locked[id].end

LEMMA SplitTurn ==
    ASSUME now \in Nat, VeTyped(ve), NEW caller, NEW id \in Ids, NEW newId \in Ids, id # newId,
           NEW percent \in Percents, locked[id].end > now, NEW x, SplitOK(x, caller, id, newId, percent),
           NEW token \in StakingTokens,
           locked[id].amounts[token] # 0 => _part(token, id, percent) # 0
    PROVE  SplitOK(_splitToken(x, token, id, newId, percent), caller, id, newId, percent)
<1> DEFINE r == _splitToken(x, token, id, newId, percent)
           amount == locked[id].amounts[token]
           part == _part(token, id, percent)
           rest == amount - part
           u == [x.s EXCEPT !.locked[id].amounts[token] = rest]
           info == [stakingToken |-> token, tokenId |-> newId, value |-> part,
                    unlockTime |-> locked[id].end, lockedAmount |-> 0,
                    lockedDerivedAmount |-> x.s.locked[newId].derived,
                    lockedEnd |-> locked[id].end, depositType |-> "MERGE_TYPE"]
<1>1. /\ \A i \in Ids : /\ x.s.locked[i] \in Lock /\ x.s.locked[i].amounts \in [StakingTokens -> Nat]
                        /\ x.s.locked[i].derived \in Nat /\ x.s.locked[i].end \in Nat
      /\ locked[id].end \in Nat /\ locked[id].amounts \in [StakingTokens -> Nat]
      /\ held \in [StakingTokens -> Int]
      BY DEF SplitOK, VeTyped, Lock, ve
<1>2. part \in Nat /\ rest \in Nat /\ amount \in Nat /\ locked[id].end # 0
      BY <1>1, PartType
<1>3. CASE amount = 0
  <2>1. r = x
        BY <1>3, Zenon DEF _splitToken
  <2> QED BY <2>1
<1>4. CASE amount # 0
  <2>0. part # 0
        BY <1>4
  <2>1. r = [derived |-> _calculateDerivedAmount(amount, x.derived, rest, token), s |-> _depositFor(u, info)]
        BY <1>4, Zenon DEF _splitToken
  <2>2. _calculateDerivedAmount(amount, x.derived, rest, token) \in Nat
        BY <1>2, DerivedType DEF SplitOK
  <2> HIDE DEF part, rest
  <2> DEFINE left == [x.s.locked[id] EXCEPT !.amounts = [x.s.locked[id].amounts EXCEPT ![token] = rest]]
  <2>3. /\ left \in Lock /\ left.end = x.s.locked[id].end
        /\ left.amounts = [x.s.locked[id].amounts EXCEPT ![token] = rest]
        BY <1>1, <1>2 DEF Lock
  <2>4. u = [locked |-> [x.s.locked EXCEPT ![id] = left], points |-> x.s.points,
             nft |-> x.s.nft, held |-> x.s.held]
        BY DEF SplitOK, VeTyped
  <2> HIDE DEF left, u
  <2>5. /\ VeTyped(u) /\ u.nft = x.s.nft /\ u.held = x.s.held /\ u.locked[id] = left
        /\ \A i \in Ids : i # id => u.locked[i] = x.s.locked[i]
        BY <2>3, <2>4 DEF SplitOK, VeTyped
  <2>6. /\ info.tokenId = newId /\ info.value = part /\ info.unlockTime = locked[id].end
        /\ info.stakingToken = token /\ info.depositType = "MERGE_TYPE"
        /\ info.lockedAmount = 0 /\ info.lockedDerivedAmount = x.s.locked[newId].derived
        OBVIOUS
  <2> HIDE DEF info
  <2> PICK d : d = _depositFor(u, info)
      OBVIOUS
  <2>7. /\ VeTyped(u) /\ info.tokenId \in Ids /\ info.value \in Nat /\ info.unlockTime \in Nat
        /\ info.lockedAmount \in Nat /\ info.lockedDerivedAmount \in Nat
        /\ info.stakingToken \in StakingTokens
        BY <1>1, <1>2, <2>5, <2>6
  <2>8. /\ VeTyped(d) /\ d.nft = u.nft
        /\ \A i \in Ids : i # info.tokenId => d.locked[i] = u.locked[i]
        /\ d.locked[info.tokenId].end =
              IF info.unlockTime = 0 THEN u.locked[info.tokenId].end ELSE info.unlockTime
        /\ \A other \in StakingTokens :
              d.locked[info.tokenId].amounts[other] =
                  IF info.value # 0 /\ other = info.stakingToken
                  THEN info.lockedAmount + info.value ELSE u.locked[info.tokenId].amounts[other]
        /\ \A other \in StakingTokens :
              d.held[other] =
                  IF info.value # 0 /\ other = info.stakingToken /\ info.depositType # "MERGE_TYPE"
                  THEN u.held[other] + info.value ELSE u.held[other]
    <3>1. d = _depositFor(u, info)
          OBVIOUS
    <3> QED BY ONLY <2>7, <3>1, Deposit
  <2>9. /\ \A i \in Ids : i # newId => d.locked[i] = u.locked[i]
        /\ d.locked[newId].end = locked[id].end
        /\ \A other \in StakingTokens :
              d.locked[newId].amounts[other] = IF other = token THEN part ELSE u.locked[newId].amounts[other]
        /\ \A other \in StakingTokens : d.held[other] = u.held[other]
        BY ONLY <1>2, <2>0, <2>6, <2>8
  <2>10. d.held = held
    <3>1. d.held \in [StakingTokens -> Int] /\ u.held = held
          BY <2>5, <2>8 DEF VeTyped, SplitOK
    <3> QED BY <1>1, <2>9, <3>1
  <2>11. d.locked[id] = left
         BY <2>5, <2>9
  <2>12. ASSUME NEW other \in StakingTokens
         PROVE  \/ /\ d.locked[id].amounts[other] = locked[id].amounts[other]
                   /\ d.locked[newId].amounts[other] = 0
                \/ /\ d.locked[id].amounts[other] = locked[id].amounts[other] - _part(other, id, percent)
                   /\ d.locked[newId].amounts[other] = _part(other, id, percent)
                   /\ d.locked[newId].end = locked[id].end
    <3>1. CASE other = token
      <4>1. d.locked[id].amounts[token] = rest
            BY <1>1, <2>3, <2>11
      <4> QED BY <3>1, <4>1, <2>9 DEF part, rest
    <3>2. CASE other # token
      <4>1. /\ d.locked[id].amounts[other] = x.s.locked[id].amounts[other]
            /\ d.locked[newId].amounts[other] = x.s.locked[newId].amounts[other]
            BY <3>2, <1>1, <2>3, <2>5, <2>9, <2>11
      <4> QED BY <4>1, <2>9 DEF SplitOK
    <3> QED BY <3>1, <3>2
  <2>13. /\ r = [derived |-> r.derived, s |-> r.s] /\ r.derived \in Nat /\ r.s = d
         BY <2>1, <2>2
  <2>14. d.nft = _addTokenTo(nft, caller, newId)
         BY <2>5, <2>8 DEF SplitOK
  <2>15. d.locked[id].end = locked[id].end /\ \A i \in Ids : i # id /\ i # newId => d.locked[i] = locked[i]
         BY <2>3, <2>5, <2>9, <2>11 DEF SplitOK
  <2> HIDE DEF r
  <2>16. SplitOK(r, caller, id, newId, percent)
         BY <2>8, <2>10, <2>12, <2>13, <2>14, <2>15 DEF SplitOK
  <2> QED BY <2>16 DEF r
<1> QED BY <1>3, <1>4

LEMMA SplitLoop ==
    ASSUME now \in Nat, VeTyped(ve), tokens \in Seq(StakingTokens), NEW caller,
           NEW id \in Ids, NEW newId \in Ids, id # newId, NEW percent \in Percents,
           locked[id].end > now, locked[newId] = noLock,
           \A token \in ToSet(tokens) : locked[id].amounts[token] # 0 => _part(token, id, percent) # 0
    PROVE  SplitOK(_split(caller, id, newId, percent), caller, id, newId, percent)
<1> DEFINE base == [derived |-> locked[id].derived, s |-> _mint(caller, newId)]
<1>1. PICK h : /\ h[0] = base
               /\ h[Len(tokens)] = _split(caller, id, newId, percent)
               /\ \A m \in 0..(Len(tokens) - 1) : h[m + 1] = _splitToken(h[m], tokens[m + 1], id, newId, percent)
  <2>1. tokens \in Seq(StakingTokens)
        OBVIOUS
  <2> QED BY ONLY <2>1, SplitTurns
<1> DEFINE n == Len(tokens)
           G == {m \in 0..n : SplitOK(h[m], caller, id, newId, percent)}
<1>2. n \in Nat /\ \A j \in 1..n : tokens[j] \in StakingTokens /\ tokens[j] \in ToSet(tokens)
      BY DEF ToSet
<1>3. 0 \in G
  <2>1. base.s = [locked |-> locked, points |-> points, nft |-> _addTokenTo(nft, caller, newId), held |-> held]
        BY DEF ve, _mint
  <2>2. locked \in [Ids -> Lock] /\ held \in [StakingTokens -> Int] /\ locked[id].derived \in Nat
        BY DEF ve, VeTyped, Lock
  <2>3. VeTyped(base.s)
        BY <2>1, <2>2 DEF VeTyped
  <2>4. \A token \in StakingTokens : locked[newId].amounts[token] = 0
        BY DEF noLock
  <2>5. base = [derived |-> base.derived, s |-> base.s] /\ base.derived = locked[id].derived
        OBVIOUS
  <2> HIDE DEF base
  <2>6. SplitOK(base, caller, id, newId, percent)
        BY <2>1, <2>2, <2>3, <2>4, <2>5 DEF SplitOK
  <2> QED BY <1>1, <1>2, <2>6
<1>4. ASSUME NEW m \in 0..(n - 1), m \in G
      PROVE  m + 1 \in G
  <2>1. /\ m + 1 \in 1..n /\ tokens[m + 1] \in StakingTokens /\ tokens[m + 1] \in ToSet(tokens)
        /\ SplitOK(h[m], caller, id, newId, percent)
        BY <1>2, <1>4
  <2>2. h[m + 1] = _splitToken(h[m], tokens[m + 1], id, newId, percent)
        BY <1>1
  <2>3. SplitOK(h[m + 1], caller, id, newId, percent)
    <3> PICK tk \in StakingTokens : tk = tokens[m + 1]
        BY <2>1
    <3> PICK x : x = h[m]
        OBVIOUS
    <3>1. locked[id].amounts[tk] # 0 => _part(tk, id, percent) # 0
          BY <2>1
    <3>2. SplitOK(_splitToken(x, tk, id, newId, percent), caller, id, newId, percent)
          BY <2>1, <3>1, SplitTurn
    <3> QED BY <2>2, <3>2
  <2> QED BY <2>1, <2>3
<1>5. n \in G
  <2> HIDE DEF G, n
  <2> QED BY ONLY <1>2, <1>3, <1>4, CountUp
<1> QED BY <1>1, <1>5

\* While withdrawAll runs every token is still there or has been paid out, and something is only
\* paid out after the end.
WithdrawOK(x, id) ==
    /\ x = [ok |-> x.ok, s |-> x.s]
    /\ VeOK(x.s)
    /\ \A i \in Ids : i # id => x.s.locked[i] = locked[i] /\ x.s.nft.idToOwner[i] = nft.idToOwner[i]
    /\ x.s = ve \/ (now >= locked[id].end /\ nft.idToOwner[id] \in Accounts)
    /\ x.s.locked[id].end \in {locked[id].end, 0}
    /\ \A token \in StakingTokens :
          /\ x.s.locked[id].amounts[token] \in {locked[id].amounts[token], 0}
          /\ x.s.held[token] = held[token] - locked[id].amounts[token] + x.s.locked[id].amounts[token]

LEMMA WithdrawTurn ==
    ASSUME now \in Nat, VeOK(ve), NEW caller \in Accounts, NEW id \in Ids, NEW x, WithdrawOK(x, id),
           NEW token \in StakingTokens
    PROVE  WithdrawOK(_withdrawToken(x, token, caller, id), id)
<1> DEFINE r == _withdrawToken(x, token, caller, id)
<1>1. CASE x.s.locked[id].amounts[token] = 0
      BY <1>1, Zenon DEF _withdrawToken
<1>2. CASE x.s.locked[id].amounts[token] # 0 /\ ~(x.ok /\ _mayWithdraw(x.s, caller, token, id))
  <2>1. r = [ok |-> FALSE, s |-> x.s]
        BY <1>2, Zenon DEF _withdrawToken
  <2>2. r = [ok |-> r.ok, s |-> r.s] /\ r.s = x.s
        BY <2>1
  <2> HIDE DEF r
  <2>3. WithdrawOK(r, id)
        BY <2>2 DEF WithdrawOK
  <2> QED BY <2>3 DEF r
<1>3. CASE x.s.locked[id].amounts[token] # 0 /\ x.ok /\ _mayWithdraw(x.s, caller, token, id)
  <2> PICK s : s = x.s
      OBVIOUS
  <2> PICK d : d = _withdrawn(s, token, id)
      OBVIOUS
  <2>1. r = [ok |-> TRUE, s |-> _withdrawn(x.s, token, id)]
        BY <1>3, Zenon DEF _withdrawToken
  <2>2. r = [ok |-> r.ok, s |-> r.s] /\ r.s = d
        BY <2>1
  <2> HIDE DEF r
  <2>3. /\ VeOK(s) /\ _mayWithdraw(s, caller, token, id) /\ VeTyped(s)
        BY <1>3 DEF WithdrawOK, VeOK
  <2>4. /\ VeOK(d) /\ s.nft.idToOwner[id] \in Accounts
        /\ \A i \in Ids : i # id => d.nft.idToOwner[i] = s.nft.idToOwner[i]
        BY <2>3, WithdrawalOK
  <2>5. /\ \A i \in Ids : i # id => d.locked[i] = s.locked[i]
        /\ d.locked[id].end \in {0, s.locked[id].end}
        /\ \A other \in StakingTokens :
              /\ d.locked[id].amounts[other] = IF other = token THEN 0 ELSE s.locked[id].amounts[other]
              /\ d.held[other] = IF other = token THEN s.held[other] - s.locked[id].amounts[other]
                                 ELSE s.held[other]
    <3>1. /\ VeTyped(s) /\ token \in StakingTokens /\ id \in Ids /\ d = _withdrawn(s, token, id)
          BY <2>3
    <3> QED BY ONLY <3>1, Withdrawal
  <2>6. /\ locked[id].end \in Nat /\ locked[id].amounts \in [StakingTokens -> Nat]
        /\ held \in [StakingTokens -> Int]
        /\ s.locked[id].amounts \in [StakingTokens -> Nat] /\ s.held \in [StakingTokens -> Int]
        BY <2>3 DEF VeOK, VeTyped, ve, Lock
  <2>7. now >= locked[id].end /\ nft.idToOwner[id] \in Accounts
    <3>1. CASE x.s = ve
          BY <3>1, <2>3, <2>4 DEF ve, _mayWithdraw
    <3> QED BY <3>1 DEF WithdrawOK
  <2>8. \A i \in Ids : i # id => d.locked[i] = locked[i] /\ d.nft.idToOwner[i] = nft.idToOwner[i]
        BY <2>4, <2>5 DEF WithdrawOK
  <2>9. d.locked[id].end \in {locked[id].end, 0}
        BY <2>5 DEF WithdrawOK
  <2>10. ASSUME NEW other \in StakingTokens
         PROVE  /\ d.locked[id].amounts[other] \in {locked[id].amounts[other], 0}
                /\ d.held[other] = held[other] - locked[id].amounts[other] + d.locked[id].amounts[other]
    <3>1. /\ s.locked[id].amounts[other] \in {locked[id].amounts[other], 0}
          /\ s.held[other] = held[other] - locked[id].amounts[other] + s.locked[id].amounts[other]
          BY DEF WithdrawOK
    <3>2. /\ locked[id].amounts[other] \in Nat /\ s.locked[id].amounts[other] \in Nat
          /\ held[other] \in Int /\ s.held[other] \in Int
          BY <2>6
    <3> QED BY <2>5, <3>1, <3>2
  <2>11. WithdrawOK(r, id)
         BY <2>2, <2>4, <2>7, <2>8, <2>9, <2>10 DEF WithdrawOK
  <2> QED BY <2>11 DEF r
<1> QED BY <1>1, <1>2, <1>3

LEMMA WithdrawLoop ==
    ASSUME now \in Nat, VeOK(ve), tokens \in Seq(StakingTokens), NEW caller \in Accounts, NEW id \in Ids
    PROVE  WithdrawOK(_withdrawnAll(caller, id), id)
<1> DEFINE base == [ok |-> TRUE, s |-> ve]
<1>1. PICK h : /\ h[0] = base
               /\ h[Len(tokens)] = _withdrawnAll(caller, id)
               /\ \A m \in 0..(Len(tokens) - 1) : h[m + 1] = _withdrawToken(h[m], tokens[m + 1], caller, id)
  <2>1. tokens \in Seq(StakingTokens)
        OBVIOUS
  <2> QED BY ONLY <2>1, WithdrawTurns, ZenonT(60)
<1> DEFINE n == Len(tokens)
           G == {m \in 0..n : WithdrawOK(h[m], id)}
<1>2. n \in Nat /\ \A j \in 1..n : tokens[j] \in StakingTokens
      OBVIOUS
<1>3. 0 \in G
  <2>1. /\ base = [ok |-> base.ok, s |-> base.s] /\ base.s = ve
        /\ ve.locked = locked /\ ve.nft = nft /\ ve.held = held
        BY DEF ve
  <2>2. locked[id].amounts \in [StakingTokens -> Nat] /\ held \in [StakingTokens -> Int]
        BY DEF ve, VeOK, VeTyped, Lock
  <2> HIDE DEF base
  <2>3. \A token \in StakingTokens : held[token] = held[token] - locked[id].amounts[token] + locked[id].amounts[token]
        BY <2>2
  <2>4. WithdrawOK(base, id)
        BY <2>1, <2>3 DEF WithdrawOK
  <2> QED BY <1>1, <1>2, <2>4
<1>4. ASSUME NEW m \in 0..(n - 1), m \in G
      PROVE  m + 1 \in G
  <2>1. m + 1 \in 1..n /\ tokens[m + 1] \in StakingTokens /\ WithdrawOK(h[m], id)
        BY <1>2, <1>4
  <2>2. h[m + 1] = _withdrawToken(h[m], tokens[m + 1], caller, id)
        BY <1>1
  <2>3. WithdrawOK(h[m + 1], id)
    <3> PICK tk \in StakingTokens : tk = tokens[m + 1]
        BY <2>1
    <3> PICK x : x = h[m]
        OBVIOUS
    <3>1. WithdrawOK(_withdrawToken(x, tk, caller, id), id)
          BY <2>1, WithdrawTurn
    <3> QED BY <2>2, <3>1
  <2> QED BY <2>1, <2>3
<1>5. n \in G
  <2> HIDE DEF G, n
  <2> QED BY ONLY <1>2, <1>3, <1>4, CountUp
<1> QED BY <1>1, <1>5

-----------------------------------------------------------------------------
(* The invariant.                                                          *)

\* NFTs not made yet are empty and owned by nobody; tokens not added yet are not locked.
Issued(s, k) == \A id \in Ids : id > k => s.locked[id] = noLock /\ s.nft.idToOwner[id] = NULL
Added(L, list) == \A id \in Ids, token \in StakingTokens : token \notin ToSet(list) => L[id].amounts[token] = 0

VInv ==
    /\ now \in Nat /\ tokens \in Seq(StakingTokens) /\ tokenId \in 0..MaxIds
    /\ VeOK(ve)
    /\ Held(locked, held)
    /\ Issued(ve, tokenId)
    /\ Added(locked, tokens)

\* What a call may make of the state.
Safe(s, k) ==
    /\ k \in 0..MaxIds
    /\ VeOK(s)
    /\ Held(s.locked, s.held)
    /\ Issued(s, k)
    /\ Added(s.locked, tokens)
    /\ NoneFreed(locked, s.locked)

\* What the invariant says of the parts of the state.
LEMMA VInvParts ==
    ASSUME VInv
    PROVE  /\ now \in Nat /\ tokens \in Seq(StakingTokens) /\ tokenId \in 0..MaxIds /\ MaxIds \in Nat
           /\ VeTyped(ve) /\ ve.locked = locked /\ ve.nft = nft /\ ve.held = held
           /\ locked \in [Ids -> Lock] /\ held \in [StakingTokens -> Int]
           /\ \A i \in Ids : /\ locked[i].amounts \in [StakingTokens -> Nat]
                             /\ locked[i].derived \in Nat /\ locked[i].end \in Nat
           /\ NFTOK(nft) /\ nft.idToOwner \in [Ids -> Accounts \cup {NULL}] /\ NULL \notin Accounts
           /\ \A i \in Ids : nft.idToOwner[i] = NULL => locked[i].derived = 0 /\ locked[i].end = 0
           /\ \A i \in Ids : i > tokenId => locked[i] = noLock /\ nft.idToOwner[i] = NULL
<1>1. /\ ve.locked = locked /\ ve.nft = nft /\ ve.held = held
      BY DEF ve
<1>2. VeTyped(ve) /\ NFTOK(nft) /\ BurntIsEmpty(ve) /\ Issued(ve, tokenId)
      BY <1>1 DEF VInv, VeOK
<1>3. locked \in [Ids -> Lock] /\ held \in [StakingTokens -> Int]
      BY <1>1, <1>2 DEF VeTyped
<1>4. \A i \in Ids : /\ locked[i].amounts \in [StakingTokens -> Nat]
                     /\ locked[i].derived \in Nat /\ locked[i].end \in Nat
      BY <1>3 DEF Lock
<1>5. nft.idToOwner \in [Ids -> Accounts \cup {NULL}]
      BY <1>2 DEF NFTOK, NFTTyped
<1> QED BY <1>1, <1>2, <1>3, <1>4, <1>5, VeAssumption DEF VInv, BurntIsEmpty, Issued

\* A deposit into an owned NFT that pulls what it adds.
LEMMA DepositSafe ==
    ASSUME VInv, NEW k \in tokenId..MaxIds, NEW s, VeTyped(s), NFTOK(s.nft),
           s.locked = locked, s.held = held, NEW info,
           info.tokenId \in Ids, info.tokenId <= k, info.value \in Nat, info.unlockTime \in Nat,
           s.nft.idToOwner[info.tokenId] \in Accounts,
           \A i \in Ids : i # info.tokenId => s.nft.idToOwner[i] = nft.idToOwner[i],
           info.lockedAmount \in Nat, info.lockedDerivedAmount \in Nat,
           info.depositType # "MERGE_TYPE",
           info.unlockTime = 0 \/ info.unlockTime >= locked[info.tokenId].end,
           info.value # 0 => /\ info.stakingToken \in StakingTokens /\ info.stakingToken \in ToSet(tokens)
                             /\ info.lockedAmount = locked[info.tokenId].amounts[info.stakingToken]
    PROVE  Safe(_depositFor(s, info), k)
<1> PICK r : r = _depositFor(s, info)
    OBVIOUS
<1> PICK id \in Ids : id = info.tokenId
    OBVIOUS
<1>1. /\ VeTyped(r) /\ r.nft = s.nft
      /\ \A i \in Ids : i # info.tokenId => r.locked[i] = s.locked[i]
      /\ r.locked[info.tokenId].end =
            IF info.unlockTime = 0 THEN s.locked[info.tokenId].end ELSE info.unlockTime
      /\ \A other \in StakingTokens :
            r.locked[info.tokenId].amounts[other] =
                IF info.value # 0 /\ other = info.stakingToken
                THEN info.lockedAmount + info.value ELSE s.locked[info.tokenId].amounts[other]
      /\ \A other \in StakingTokens :
            r.held[other] =
                IF info.value # 0 /\ other = info.stakingToken /\ info.depositType # "MERGE_TYPE"
                THEN s.held[other] + info.value ELSE s.held[other]
  <2>1. /\ VeTyped(s) /\ info.tokenId \in Ids /\ info.value \in Nat /\ info.unlockTime \in Nat
        /\ info.lockedAmount \in Nat /\ info.lockedDerivedAmount \in Nat
        /\ info.value # 0 => info.stakingToken \in StakingTokens
        /\ r = _depositFor(s, info)
        OBVIOUS
  <2> QED BY ONLY <2>1, Deposit
<1>2. /\ \A i \in Ids : i # id => r.locked[i] = locked[i]
      /\ r.locked[id].end >= locked[id].end
      /\ \A other \in StakingTokens :
            /\ r.locked[id].amounts[other] \in Nat /\ r.locked[id].amounts[other] >= locked[id].amounts[other]
            /\ r.held[other] = held[other] - locked[id].amounts[other] + r.locked[id].amounts[other]
            /\ other \notin ToSet(tokens) => r.locked[id].amounts[other] = locked[id].amounts[other]
  <2>1. locked[id].end \in Nat /\ locked[id].amounts \in [StakingTokens -> Nat] /\ held \in [StakingTokens -> Int]
        BY VInvParts
  <2>2. /\ \A i \in Ids : i # id => r.locked[i] = locked[i]
        /\ r.locked[id].end >= locked[id].end
        BY <1>1, <2>1
  <2>3. ASSUME NEW other \in StakingTokens
        PROVE  /\ r.locked[id].amounts[other] \in Nat /\ r.locked[id].amounts[other] >= locked[id].amounts[other]
               /\ r.held[other] = held[other] - locked[id].amounts[other] + r.locked[id].amounts[other]
               /\ other \notin ToSet(tokens) => r.locked[id].amounts[other] = locked[id].amounts[other]
    <3>1. locked[id].amounts[other] \in Nat /\ held[other] \in Int
          BY <2>1
    <3>2. CASE info.value # 0 /\ other = info.stakingToken
      <4>1. /\ r.locked[id].amounts[other] = locked[id].amounts[other] + info.value
            /\ r.held[other] = held[other] + info.value /\ other \in ToSet(tokens)
            BY <1>1, <3>2
      <4> QED BY <3>1, <4>1
    <3>3. CASE ~(info.value # 0 /\ other = info.stakingToken)
      <4>1. r.locked[id].amounts[other] = locked[id].amounts[other] /\ r.held[other] = held[other]
            BY <1>1, <3>3
      <4> QED BY <3>1, <4>1
    <3> QED BY <3>2, <3>3
  <2> QED BY <2>2, <2>3
<1>3. VeOK(r)
  <2>1. BurntIsEmpty(r)
    <3> SUFFICES ASSUME NEW i \in Ids, r.nft.idToOwner[i] = NULL
                 PROVE  r.locked[i].derived = 0 /\ r.locked[i].end = 0
        BY DEF BurntIsEmpty
    <3>1. i # id
          BY <1>1, VInvParts
    <3>2. nft.idToOwner[i] = NULL /\ r.locked[i] = locked[i]
          BY <3>1, <1>1, <1>2
    <3> QED BY <3>2, VInvParts
  <2> QED BY <1>1, <2>1 DEF VeOK
<1>4. Held(r.locked, r.held) /\ NoneFreed(locked, r.locked)
  <2>1. r.locked \in [Ids -> Lock] /\ locked \in [Ids -> Lock] /\ now \in Nat /\ Held(locked, held)
        BY <1>1, VInvParts DEF VeTyped, VInv
  <2>2. ASSUME NEW token \in StakingTokens, NEW t \in Nat, t > now
        PROVE  lockedOf(locked, token, t)[id] <= lockedOf(r.locked, token, t)[id]
    <3>1. locked[id].end \in Nat /\ locked[id].amounts[token] \in Nat /\ r.locked[id].end \in Nat
          BY <2>1 DEF Lock
    <3> QED BY <1>2, <3>1 DEF lockedOf
  <2>3. id \in Ids /\ LockChanged(locked, r.locked, held, r.held, id)
        BY <1>2, <2>2 DEF LockChanged
  <2> QED BY ONLY <2>1, <2>3, OneLock
<1>5. Issued(r, k)
  <2> SUFFICES ASSUME NEW i \in Ids, i > k
               PROVE  r.locked[i] = noLock /\ r.nft.idToOwner[i] = NULL
      BY DEF Issued
  <2>1. i # id /\ i > tokenId
        BY VInvParts DEF Ids
  <2>2. r.locked[i] = locked[i] /\ r.nft.idToOwner[i] = nft.idToOwner[i]
        BY <1>1, <1>2, <2>1
  <2> QED BY <2>1, <2>2, VInvParts
<1>6. Added(r.locked, tokens)
      BY <1>2 DEF Added, VInv
<1>7. k \in 0..MaxIds
      BY VInvParts
<1> QED BY <1>3, <1>4, <1>5, <1>6, <1>7 DEF Safe

-----------------------------------------------------------------------------
(* The calls that change locks.                                            *)

\* Weeks are natural numbers.
LEMMA WeekType ==
    ASSUME NEW t \in Nat
    PROVE  weekOf(t) \in Nat
<1>1. WEEK \in Nat \ {0}
      BY VeAssumption
<1> PICK q \in Nat : q = t \div WEEK
    BY <1>1, Quotient
<1> QED BY <1>1 DEF weekOf

LEMMA CreateSafe ==
    ASSUME VInv, NEW token \in StakingTokens, NEW value \in Values, NEW duration \in Durations,
           NEW to \in Accounts, createLockFor(token, value, duration, to)
    PROVE  \E s : Safe(s, tokenId') /\ becomes(s) /\ UNCHANGED <<now, tokens>>
<1> DEFINE unlockTime == weekOf(now + duration)
           id == tokenId + 1
           info == [stakingToken |-> token, tokenId |-> id, value |-> value, unlockTime |-> unlockTime,
                    lockedAmount |-> 0, lockedDerivedAmount |-> 0, lockedEnd |-> 0,
                    depositType |-> "CREATE_LOCK_TYPE"]
           m == _mint(to, id)
<1>1. /\ tokenId < MaxIds /\ unlockTime > now /\ token \in ToSet(tokens) /\ tokenId' = id
      /\ becomes(_depositFor(m, info)) /\ UNCHANGED <<now, tokens>>
      BY Zenon DEF createLockFor, OnlyLocksChange
<1>2. /\ value \in Nat /\ unlockTime \in Nat
  <2>1. value \in Nat /\ duration \in Nat /\ now \in Nat
        BY VeAssumption, VInvParts
  <2>2. now + duration \in Nat
        BY <2>1
  <2> QED BY <2>1, <2>2, WeekType
<1> HIDE DEF unlockTime
<1>3. id \in Ids /\ id \in tokenId..MaxIds /\ id > tokenId
      BY <1>1, VInvParts DEF Ids
<1>4. locked[id] = noLock /\ nft.idToOwner[id] = NULL
      BY <1>3, VInvParts
<1>5. locked[id].end = 0 /\ locked[id].amounts[token] = 0
      BY <1>4 DEF noLock
<1>6. m = [locked |-> locked, points |-> points, nft |-> _addTokenTo(nft, to, id), held |-> held]
      BY DEF _mint, ve
<1> HIDE DEF m, id
<1>7. /\ NFTOK(_addTokenTo(nft, to, id))
      /\ _addTokenTo(nft, to, id).idToOwner = [nft.idToOwner EXCEPT ![id] = to]
  <2>1. NFTOK(nft) /\ to \in Accounts
        BY VInvParts
  <2> QED BY ONLY <1>3, <1>4, <2>1, NFTAdded
<1>8. /\ VeTyped(m) /\ NFTOK(m.nft) /\ m.locked = locked /\ m.held = held
      /\ m.nft.idToOwner[id] \in Accounts
      /\ \A i \in Ids : i # id => m.nft.idToOwner[i] = nft.idToOwner[i]
  <2>1. locked \in [Ids -> Lock] /\ held \in [StakingTokens -> Int] /\ nft.idToOwner \in [Ids -> Accounts \cup {NULL}]
        BY VInvParts
  <2> QED BY <1>3, <1>6, <1>7, <2>1 DEF VeTyped
<1>9. /\ info.tokenId = id /\ info.value = value /\ info.unlockTime = unlockTime /\ info.stakingToken = token
      /\ info.lockedAmount = 0 /\ info.lockedDerivedAmount = 0 /\ info.depositType = "CREATE_LOCK_TYPE"
      OBVIOUS
<1>10. info.depositType # "MERGE_TYPE"
       BY <1>9
<1> HIDE DEF info
<1>11. Safe(_depositFor(m, info), id)
  <2>1. /\ info.tokenId \in Ids /\ info.tokenId <= id /\ info.value \in Nat /\ info.unlockTime \in Nat
        /\ info.lockedAmount \in Nat /\ info.lockedDerivedAmount \in Nat
        /\ info.unlockTime = 0 \/ info.unlockTime >= locked[info.tokenId].end
        /\ m.nft.idToOwner[info.tokenId] \in Accounts
        /\ \A i \in Ids : i # info.tokenId => m.nft.idToOwner[i] = nft.idToOwner[i]
        /\ info.value # 0 => /\ info.stakingToken \in StakingTokens /\ info.stakingToken \in ToSet(tokens)
                             /\ info.lockedAmount = locked[info.tokenId].amounts[info.stakingToken]
        BY <1>1, <1>2, <1>3, <1>5, <1>8, <1>9 DEF Ids
  <2>2. VInv
        OBVIOUS
  <2> QED BY ONLY <1>3, <1>8, <1>10, <2>1, <2>2, DepositSafe
<1> QED BY <1>1, <1>11

LEMMA IncreaseAmountSafe ==
    ASSUME VInv, NEW token \in StakingTokens, NEW value \in Values, NEW id \in Ids,
           increaseAmount(token, id, value)
    PROVE  \E s : Safe(s, tokenId') /\ becomes(s) /\ UNCHANGED <<now, tokens>>
<1> DEFINE info == [stakingToken |-> token, tokenId |-> id, value |-> value, unlockTime |-> 0,
                    lockedAmount |-> locked[id].amounts[token], lockedDerivedAmount |-> locked[id].derived,
                    lockedEnd |-> locked[id].end, depositType |-> "INCREASE_LOCK_AMOUNT"]
<1>1. /\ locked[id].derived > 0 /\ token \in ToSet(tokens) /\ tokenId' = tokenId
      /\ becomes(_depositFor(ve, info)) /\ UNCHANGED <<now, tokens>>
      BY Zenon DEF increaseAmount, OnlyLocksChange
<1>2. value \in Nat /\ locked[id].amounts[token] \in Nat /\ locked[id].derived \in Nat
      BY VeAssumption, VInvParts
<1>3. nft.idToOwner[id] \in Accounts
      BY <1>1, <1>2, VInvParts
<1>4. id <= tokenId /\ tokenId \in tokenId..MaxIds
      BY <1>3, VInvParts DEF Ids
<1>5. /\ info.tokenId = id /\ info.value = value /\ info.unlockTime = 0 /\ info.stakingToken = token
      /\ info.lockedAmount = locked[id].amounts[token] /\ info.lockedDerivedAmount = locked[id].derived
      /\ info.depositType # "MERGE_TYPE"
      OBVIOUS
<1> HIDE DEF info
<1>6. Safe(_depositFor(ve, info), tokenId)
  <2>1. /\ info.tokenId \in Ids /\ info.tokenId <= tokenId /\ info.value \in Nat /\ info.unlockTime \in Nat
        /\ info.lockedAmount \in Nat /\ info.lockedDerivedAmount \in Nat
        /\ info.unlockTime = 0 \/ info.unlockTime >= locked[info.tokenId].end
        /\ info.value # 0 => /\ info.stakingToken \in StakingTokens /\ info.stakingToken \in ToSet(tokens)
                             /\ info.lockedAmount = locked[info.tokenId].amounts[info.stakingToken]
        BY <1>1, <1>2, <1>4, <1>5
  <2>2. /\ VeTyped(ve) /\ NFTOK(ve.nft) /\ ve.locked = locked /\ ve.held = held
        /\ ve.nft.idToOwner[info.tokenId] \in Accounts
        /\ \A i \in Ids : i # info.tokenId => ve.nft.idToOwner[i] = nft.idToOwner[i]
        BY <1>3, <1>5, VInvParts
  <2>3. VInv
        OBVIOUS
  <2> QED BY ONLY <1>4, <1>5, <2>1, <2>2, <2>3, DepositSafe
<1> QED BY <1>1, <1>6

LEMMA IncreaseUnlockTimeSafe ==
    ASSUME VInv, NEW caller \in Accounts, NEW id \in Ids, NEW duration \in Durations,
           increaseUnlockTime(caller, id, duration)
    PROVE  \E s : Safe(s, tokenId') /\ becomes(s) /\ UNCHANGED <<now, tokens>>
<1> DEFINE unlockTime == weekOf(now + duration)
           info == [stakingToken |-> NULL, tokenId |-> id, value |-> 0, unlockTime |-> unlockTime,
                    lockedAmount |-> 0, lockedDerivedAmount |-> locked[id].derived,
                    lockedEnd |-> locked[id].end, depositType |-> "INCREASE_UNLOCK_TIME"]
<1>1. /\ unlockTime > locked[id].end /\ isApprovedOrOwner(nft, caller, id) /\ tokenId' = tokenId
      /\ becomes(_depositFor(ve, info)) /\ UNCHANGED <<now, tokens>>
      BY Zenon DEF increaseUnlockTime, OnlyLocksChange
<1>2. /\ unlockTime \in Nat
  <2>1. duration \in Nat /\ now \in Nat
        BY VeAssumption, VInvParts
  <2>2. now + duration \in Nat
        BY <2>1
  <2> QED BY <2>2, WeekType
<1> HIDE DEF unlockTime
<1>3. nft.idToOwner[id] \in Accounts
  <2>1. NFTOK(nft)
        BY VInvParts
  <2> QED BY <1>1, <2>1, SpendableIsOwned
<1>4. id <= tokenId /\ tokenId \in tokenId..MaxIds
      BY <1>3, VInvParts DEF Ids
<1>5. /\ info.tokenId = id /\ info.value = 0 /\ info.unlockTime = unlockTime
      /\ info.lockedAmount = 0 /\ info.lockedDerivedAmount = locked[id].derived
      /\ info.depositType # "MERGE_TYPE"
      OBVIOUS
<1> HIDE DEF info
<1>6. Safe(_depositFor(ve, info), tokenId)
  <2>1. /\ info.tokenId \in Ids /\ info.tokenId <= tokenId /\ info.value \in Nat /\ info.unlockTime \in Nat
        /\ info.lockedAmount \in Nat /\ info.lockedDerivedAmount \in Nat
        /\ info.unlockTime = 0 \/ info.unlockTime >= locked[info.tokenId].end
        /\ info.value # 0 => /\ info.stakingToken \in StakingTokens /\ info.stakingToken \in ToSet(tokens)
                             /\ info.lockedAmount = locked[info.tokenId].amounts[info.stakingToken]
        BY <1>1, <1>2, <1>4, <1>5, VInvParts
  <2>2. /\ VeTyped(ve) /\ NFTOK(ve.nft) /\ ve.locked = locked /\ ve.held = held
        /\ ve.nft.idToOwner[info.tokenId] \in Accounts
        /\ \A i \in Ids : i # info.tokenId => ve.nft.idToOwner[i] = nft.idToOwner[i]
        BY <1>3, <1>5, VInvParts
  <2>3. VInv
        OBVIOUS
  <2> QED BY ONLY <1>4, <1>5, <2>1, <2>2, <2>3, DepositSafe
<1> QED BY <1>1, <1>6

\* What withdrawals leave of a lock that is over.
LEMMA LeftSafe ==
    ASSUME VInv, NEW id \in Ids, NEW x, WithdrawOK(x, id)
    PROVE  Safe(x.s, tokenId)
<1> PICK s : s = x.s
    OBVIOUS
<1>1. /\ VeOK(s)
      /\ \A i \in Ids : i # id => s.locked[i] = locked[i] /\ s.nft.idToOwner[i] = nft.idToOwner[i]
      /\ s = ve \/ (now >= locked[id].end /\ nft.idToOwner[id] \in Accounts)
      /\ \A token \in StakingTokens :
            /\ s.locked[id].amounts[token] \in {locked[id].amounts[token], 0}
            /\ s.held[token] = held[token] - locked[id].amounts[token] + s.locked[id].amounts[token]
      BY DEF WithdrawOK
<1>2. s.locked \in [Ids -> Lock] /\ locked \in [Ids -> Lock] /\ now \in Nat /\ Held(locked, held)
      BY <1>1, VInvParts DEF VeOK, VeTyped, VInv
<1>3. Held(s.locked, s.held) /\ NoneFreed(locked, s.locked)
  <2>1. ASSUME NEW token \in StakingTokens, NEW t \in Nat, t > now
        PROVE  lockedOf(locked, token, t)[id] <= lockedOf(s.locked, token, t)[id]
    <3>1. /\ locked[id].end \in Nat /\ locked[id].amounts[token] \in Nat
          /\ s.locked[id].end \in Nat /\ s.locked[id].amounts[token] \in Nat
          BY <1>2 DEF Lock
    <3>2. CASE s = ve
      <4>1. s.locked = locked
            BY <3>2, VInvParts
      <4> QED BY <3>1, <4>1 DEF lockedOf
    <3>3. CASE now >= locked[id].end
          BY <1>2, <2>1, <3>1, <3>3 DEF lockedOf
    <3> QED BY <1>1, <3>2, <3>3
  <2>2. id \in Ids /\ LockChanged(locked, s.locked, held, s.held, id)
        BY <1>1, <2>1 DEF LockChanged
  <2> QED BY ONLY <1>2, <2>2, OneLock
<1>4. Issued(s, tokenId)
  <2>1. CASE s = ve
        BY <2>1 DEF VInv
  <2>2. CASE nft.idToOwner[id] \in Accounts
    <3>1. ~(id > tokenId)
          BY <2>2, VInvParts
    <3>2. \A i \in Ids : i > tokenId => locked[i] = noLock /\ nft.idToOwner[i] = NULL
          BY VInvParts
    <3> QED BY <1>1, <3>1, <3>2 DEF Issued
  <2> QED BY <1>1, <2>1, <2>2
<1>5. Added(s.locked, tokens)
  <2> SUFFICES ASSUME NEW i \in Ids, NEW token \in StakingTokens, token \notin ToSet(tokens)
               PROVE  s.locked[i].amounts[token] = 0
      BY DEF Added
  <2>1. locked[i].amounts[token] = 0
        BY DEF VInv, Added
  <2> QED BY <1>1, <2>1
<1>6. tokenId \in 0..MaxIds
      BY VInvParts
<1> QED BY <1>1, <1>3, <1>4, <1>5, <1>6 DEF Safe

LEMMA WithdrawSafe ==
    ASSUME VInv, NEW caller \in Accounts, NEW token \in StakingTokens, NEW id \in Ids,
           withdraw(caller, token, id)
    PROVE  \E s : Safe(s, tokenId') /\ becomes(s) /\ UNCHANGED <<now, tokens>>
<1>1. /\ _mayWithdraw(ve, caller, token, id) /\ tokenId' = tokenId
      /\ becomes(_withdrawn(ve, token, id)) /\ UNCHANGED <<now, tokens>>
      BY Zenon DEF withdraw, OnlyLocksChange
<1> DEFINE base == [ok |-> TRUE, s |-> ve]
<1>2. WithdrawOK(base, id)
  <2>1. \A other \in StakingTokens : held[other] \in Int /\ locked[id].amounts[other] \in Nat
        BY VInvParts
  <2>2. VeOK(ve) /\ ve.locked = locked /\ ve.nft = nft /\ ve.held = held
        BY VInvParts DEF VInv
  <2> QED BY <2>1, <2>2 DEF WithdrawOK
<1>3. _withdrawToken(base, token, caller, id) = [ok |-> TRUE, s |-> _withdrawn(ve, token, id)]
  <2>1. ve.locked[id].amounts[token] # 0
    <3>1. ve.locked[id].amounts[token] > 0
          BY <1>1 DEF _mayWithdraw
    <3>2. ve.locked[id].amounts[token] \in Nat
          BY VInvParts
    <3> QED BY <3>1, <3>2
  <2>2. base.ok = TRUE /\ base.s = ve
        OBVIOUS
  <2> HIDE DEF base
  <2> QED BY <1>1, <2>1, <2>2 DEF _withdrawToken
<1> HIDE DEF base
<1>4. WithdrawOK(_withdrawToken(base, token, caller, id), id)
  <2>1. now \in Nat /\ VeOK(ve) /\ caller \in Accounts /\ id \in Ids /\ token \in StakingTokens
        BY VInvParts DEF VInv
  <2> QED BY ONLY <1>2, <2>1, WithdrawTurn
<1>5. Safe(_withdrawn(ve, token, id), tokenId)
  <2> PICK x : x = [ok |-> TRUE, s |-> _withdrawn(ve, token, id)]
      OBVIOUS
  <2>1. VInv /\ id \in Ids /\ WithdrawOK(x, id)
        BY <1>3, <1>4
  <2>2. Safe(x.s, tokenId)
        BY ONLY <2>1, LeftSafe
  <2>3. x.s = _withdrawn(ve, token, id)
        OBVIOUS
  <2> QED BY <2>2, <2>3
<1> QED BY <1>1, <1>5

LEMMA WithdrawAllSafe ==
    ASSUME VInv, NEW caller \in Accounts, NEW id \in Ids, withdrawAll(caller, id)
    PROVE  \E s : Safe(s, tokenId') /\ becomes(s) /\ UNCHANGED <<now, tokens>>
<1>1. /\ tokenId' = tokenId /\ becomes(_withdrawnAll(caller, id).s) /\ UNCHANGED <<now, tokens>>
      BY Zenon DEF withdrawAll, OnlyLocksChange
<1>2. WithdrawOK(_withdrawnAll(caller, id), id)
  <2>1. now \in Nat /\ VeOK(ve) /\ tokens \in Seq(StakingTokens) /\ caller \in Accounts /\ id \in Ids
        BY VInvParts DEF VInv
  <2> QED BY ONLY <2>1, WithdrawLoop
<1>3. Safe(_withdrawnAll(caller, id).s, tokenId)
  <2>1. VInv /\ id \in Ids
        OBVIOUS
  <2> QED BY ONLY <1>2, <2>1, LeftSafe
<1> QED BY <1>1, <1>3

\* What has been moved between two locks, with what the tokens and the NFTs have become.
LEMMA MovedSafe ==
    ASSUME VInv, NEW k \in tokenId..MaxIds, NEW s, VeOK(s), s.held = held,
           NEW from \in Ids, NEW to \in Ids, from # to, from <= k, to <= k,
           LocksMoved(locked, s.locked, from, to),
           \A i \in Ids : i # from /\ i # to => s.nft.idToOwner[i] = nft.idToOwner[i]
    PROVE  Safe(s, k)
<1>1. s.locked \in [Ids -> Lock] /\ locked \in [Ids -> Lock] /\ now \in Nat /\ Held(locked, held)
      BY VInvParts DEF VeOK, VeTyped, VInv
<1>2. Held(s.locked, s.held) /\ NoneFreed(locked, s.locked)
  <2>1. from \in Ids /\ to \in Ids /\ from # to /\ LocksMoved(locked, s.locked, from, to)
        OBVIOUS
  <2>2. Held(s.locked, held) /\ NoneFreed(locked, s.locked)
        BY ONLY <1>1, <2>1, TwoLocks
  <2> QED BY <2>2
<1>3. Issued(s, k)
  <2> SUFFICES ASSUME NEW i \in Ids, i > k
               PROVE  s.locked[i] = noLock /\ s.nft.idToOwner[i] = NULL
      BY DEF Issued
  <2>1. i # from /\ i # to /\ i > tokenId
        BY VInvParts DEF Ids
  <2>2. s.locked[i] = locked[i] /\ s.nft.idToOwner[i] = nft.idToOwner[i]
        BY <2>1 DEF LocksMoved
  <2> QED BY <2>1, <2>2, VInvParts
<1>4. Added(s.locked, tokens)
  <2> SUFFICES ASSUME NEW i \in Ids, NEW token \in StakingTokens, token \notin ToSet(tokens)
               PROVE  s.locked[i].amounts[token] = 0
      BY DEF Added
  <2>1. \A j \in Ids : locked[j].amounts[token] = 0 /\ s.locked[j].amounts[token] \in Nat
        BY <1>1 DEF VInv, Added, Lock
  <2>2. CASE i # from /\ i # to
        BY <2>1, <2>2 DEF LocksMoved
  <2>3. CASE i = from \/ i = to
    <3>1. s.locked[from].amounts[token] + s.locked[to].amounts[token] = 0
          BY <2>1 DEF LocksMoved
    <3>2. s.locked[from].amounts[token] \in Nat /\ s.locked[to].amounts[token] \in Nat
          BY <2>1
    <3>3. \A a, b \in Nat : a + b = 0 => a = 0 /\ b = 0
          OBVIOUS
    <3>4. s.locked[from].amounts[token] = 0 /\ s.locked[to].amounts[token] = 0
          BY ONLY <3>1, <3>2, <3>3, Zenon
    <3> QED BY <2>3, <3>4
  <2> QED BY <2>2, <2>3
<1>5. k \in 0..MaxIds
      BY VInvParts
<1> QED BY <1>2, <1>3, <1>4, <1>5 DEF Safe

\* Two amounts together under a later end.
LEMMA LaterEnd ==
    ASSUME NEW a \in Nat, NEW b \in Nat, NEW e \in Nat, NEW d \in Nat, NEW q \in Nat, NEW t \in Nat,
           q >= d, a = 0 \/ q >= e
    PROVE  (IF e >= t THEN a ELSE 0) + (IF d >= t THEN b ELSE 0) <= (IF q >= t THEN a + b ELSE 0)
<1>1. CASE q >= t
      BY <1>1
<1>2. CASE ~(q >= t)
      BY <1>2
<1> QED BY <1>1, <1>2

LEMMA MergeSafe ==
    ASSUME VInv, NEW caller \in Accounts, NEW from \in Ids, NEW to \in Ids, merge(caller, from, to)
    PROVE  \E s : Safe(s, tokenId') /\ becomes(s) /\ UNCHANGED <<now, tokens>>
<1> DEFINE info == [tokenId |-> from, oldDerivedAmount |-> locked[from].derived, newDerivedAmount |-> 0,
                    oldEnd |-> locked[from].end, newEnd |-> locked[from].end]
           m == _merged(from, to)
           r == [m EXCEPT !.locked[from] = [@ EXCEPT !.derived = 0, !.end = 0],
                          !.points = _checkpoint(@, info), !.nft = _burnt(@, from)]
<1>1. /\ from # to /\ nft.idToOwner[from] = caller /\ nft.idToOwner[to] = caller
      /\ locked[from].end > now /\ tokenId' = tokenId /\ becomes(r) /\ UNCHANGED <<now, tokens>>
      BY Zenon DEF merge, OnlyLocksChange
<1> HIDE DEF info
<1>2. /\ MergeOK(m, from, to)
      /\ \A token \in ToSet(tokens) : m.locked[from].amounts[token] = 0
  <2>1. /\ now \in Nat /\ VeTyped(ve) /\ tokens \in Seq(StakingTokens) /\ from \in Ids /\ to \in Ids
        BY VInvParts
  <2> QED BY ONLY <1>1, <2>1, MergeLoop
<1> HIDE DEF m
<1>3. /\ m = [locked |-> m.locked, points |-> m.points, nft |-> m.nft, held |-> m.held]
      /\ m.locked \in [Ids -> Lock] /\ m.held = held /\ m.nft = nft /\ held \in [StakingTokens -> Int]
      BY <1>2, VInvParts DEF MergeOK, VeTyped
<1>4. /\ r = [locked |-> r.locked, points |-> r.points, nft |-> r.nft, held |-> r.held]
      /\ r.locked = [m.locked EXCEPT ![from] = [@ EXCEPT !.derived = 0, !.end = 0]]
      /\ r.nft = _burnt(nft, from) /\ r.held = held
  <2> DEFINE M == [m.locked EXCEPT ![from] = [@ EXCEPT !.derived = 0, !.end = 0]]
             P == _checkpoint(m.points, info)
             N == _burnt(m.nft, from)
  <2>1. r = [m EXCEPT !.locked = M, !.points = P, !.nft = N]
        BY Zenon
  <2>2. N = _burnt(nft, from)
        BY <1>3
  <2> HIDE DEF M, P, N, r
  <2>3. r = [locked |-> M, points |-> P, nft |-> N, held |-> held]
        BY <1>3, <2>1
  <2>4. /\ r = [locked |-> r.locked, points |-> r.points, nft |-> r.nft, held |-> r.held]
        /\ r.locked = M /\ r.nft = N /\ r.held = held
        BY <2>3
  <2> QED BY <2>2, <2>4 DEF M
<1> HIDE DEF r
<1>5. /\ r.locked \in [Ids -> Lock]
      /\ \A i \in Ids : i # from => r.locked[i] = m.locked[i]
      /\ r.locked[from].amounts = m.locked[from].amounts
      /\ r.locked[from].derived = 0 /\ r.locked[from].end = 0
  <2> PICK k \in Lock : k = m.locked[from]
      BY <1>3
  <2> PICK j : j = [k EXCEPT !.derived = 0, !.end = 0]
      OBVIOUS
  <2>1. j \in Lock /\ j.amounts = k.amounts /\ j.derived = 0 /\ j.end = 0
        BY DEF Lock
  <2>2. r.locked = [m.locked EXCEPT ![from] = j]
        BY <1>4
  <2> QED BY <1>3, <2>1, <2>2
<1>6. /\ NFTOK(r.nft) /\ r.nft.idToOwner = [nft.idToOwner EXCEPT ![from] = NULL]
  <2>1. NFTOK(nft) /\ from \in Ids /\ nft.idToOwner[from] \in Accounts
        BY <1>1, VInvParts
  <2>2. NFTOK(_burnt(nft, from)) /\ _burnt(nft, from).idToOwner = [nft.idToOwner EXCEPT ![from] = NULL]
        BY ONLY <2>1, NFTBurnt
  <2> QED BY <1>4, <2>2
<1>7. VeOK(r)
  <2>1. VeTyped(r)
        BY <1>3, <1>4, <1>5 DEF VeTyped
  <2>2. BurntIsEmpty(r)
    <3> SUFFICES ASSUME NEW i \in Ids, r.nft.idToOwner[i] = NULL
                 PROVE  r.locked[i].derived = 0 /\ r.locked[i].end = 0
        BY DEF BurntIsEmpty
    <3>1. CASE i = from
          BY <1>5, <3>1
    <3>2. CASE i # from
      <4>1. nft.idToOwner[i] = NULL
            BY <1>6, <3>2, VInvParts
      <4>2. i # to
            BY <1>1, <4>1, VInvParts
      <4>3. r.locked[i] = locked[i]
            BY <1>2, <1>5, <3>2, <4>2 DEF MergeOK
      <4> QED BY <4>1, <4>3, VInvParts
    <3> QED BY <3>1, <3>2
  <2> QED BY <1>6, <2>1, <2>2 DEF VeOK
<1>8. LocksMoved(locked, r.locked, from, to)
  <2>1. \A i \in Ids : i # from /\ i # to => locked[i] = r.locked[i]
        BY <1>2, <1>5 DEF MergeOK
  <2>2. ASSUME NEW token \in StakingTokens
        PROVE  /\ locked[from].amounts[token] + locked[to].amounts[token]
                     = r.locked[from].amounts[token] + r.locked[to].amounts[token]
               /\ \A t \in Nat : t > now => lockedOf(locked, token, t)[from] + lockedOf(locked, token, t)[to]
                                   <= lockedOf(r.locked, token, t)[from] + lockedOf(r.locked, token, t)[to]
    <3> PICK a \in Nat, b \in Nat, e \in Nat, d \in Nat, max \in Nat :
            /\ a = locked[from].amounts[token] /\ b = locked[to].amounts[token]
            /\ e = locked[from].end /\ d = locked[to].end /\ max = _mergedEnd(from, to)
            /\ e <= max /\ d <= max
      <4>1. VeTyped(ve) /\ from \in Ids /\ to \in Ids
            BY VInvParts
      <4>2. /\ _mergedEnd(from, to) \in Nat
            /\ locked[from].end <= _mergedEnd(from, to) /\ locked[to].end <= _mergedEnd(from, to)
            BY ONLY <4>1, MergedEnd
      <4> QED BY <4>2, VInvParts
    <3>1. m.locked[from].amounts[token] = 0
      <4>1. CASE token \in ToSet(tokens)
            BY <1>2, <4>1
      <4>2. CASE token \notin ToSet(tokens)
        <5>1. locked[from].amounts[token] = 0
              BY <4>2 DEF VInv, Added
        <5> QED BY <1>2, <5>1 DEF MergeOK
      <4> QED BY <4>1, <4>2
    <3>2. /\ m.locked[to].amounts[token] = a + b
          /\ (a = 0 /\ m.locked[to].end \in {d, max}) \/ m.locked[to].end = max
      <4>1. \/ /\ m.locked[from].amounts[token] = a /\ m.locked[to].amounts[token] = b
            \/ /\ m.locked[to].amounts[token] = a + b
               /\ m.locked[to].end = max
            BY <1>2 DEF MergeOK
      <4>2. m.locked[to].end \in {d, max}
            BY <1>2 DEF MergeOK
      <4> QED BY <3>1, <4>1, <4>2
    <3>3. r.locked[from].amounts[token] = 0 /\ r.locked[to] = m.locked[to]
          BY <1>1, <1>5, <3>1
    <3>4. a + b = r.locked[from].amounts[token] + r.locked[to].amounts[token]
          BY <3>2, <3>3
    <3>5. ASSUME NEW t \in Nat, t > now
          PROVE  lockedOf(locked, token, t)[from] + lockedOf(locked, token, t)[to]
                     <= lockedOf(r.locked, token, t)[from] + lockedOf(r.locked, token, t)[to]
      <4>1. /\ lockedOf(locked, token, t)[from] = (IF e >= t THEN a ELSE 0)
            /\ lockedOf(locked, token, t)[to] = (IF d >= t THEN b ELSE 0)
            BY DEF lockedOf
      <4>2. /\ lockedOf(r.locked, token, t)[from] = 0
            /\ lockedOf(r.locked, token, t)[to] = (IF m.locked[to].end >= t THEN a + b ELSE 0)
            BY <3>2, <3>3 DEF lockedOf
      <4>3. \E q \in Nat : q = m.locked[to].end /\ q >= d /\ (a = 0 \/ q >= e)
            BY <3>2
      <4> PICK q \in Nat : q = m.locked[to].end /\ q >= d /\ (a = 0 \/ q >= e)
          BY <4>3
      <4>4. (IF e >= t THEN a ELSE 0) + (IF d >= t THEN b ELSE 0) <= (IF q >= t THEN a + b ELSE 0)
        <5>1. /\ a \in Nat /\ b \in Nat /\ e \in Nat /\ d \in Nat /\ q \in Nat /\ t \in Nat
              /\ q >= d /\ (a = 0 \/ q >= e)
              OBVIOUS
        <5> QED BY ONLY <5>1, LaterEnd
      <4>5. (IF q >= t THEN a + b ELSE 0) \in Nat
            OBVIOUS
      <4> QED BY <4>1, <4>2, <4>4, <4>5
    <3> QED BY <3>4, <3>5
  <2> QED BY <2>1, <2>2 DEF LocksMoved
<1>9. Safe(r, tokenId)
  <2>1. /\ VInv /\ tokenId \in tokenId..MaxIds /\ from \in Ids /\ to \in Ids
        /\ from <= tokenId /\ to <= tokenId
        BY <1>1, VInvParts DEF Ids
  <2>2. \A i \in Ids : i # from /\ i # to => r.nft.idToOwner[i] = nft.idToOwner[i]
        BY <1>6, VInvParts
  <2> QED BY ONLY <1>1, <1>4, <1>7, <1>8, <2>1, <2>2, MovedSafe
<1> QED BY <1>1, <1>9

LEMMA SplitSafe ==
    ASSUME VInv, NEW caller \in Accounts, NEW id \in Ids, NEW percent \in Percents, split(caller, id, percent)
    PROVE  \E s : Safe(s, tokenId') /\ becomes(s) /\ UNCHANGED <<now, tokens>>
<1> DEFINE newId == tokenId + 1
           x == _split(caller, id, newId, percent)
           info == [tokenId |-> id, oldDerivedAmount |-> locked[id].derived, newDerivedAmount |-> x.derived,
                    oldEnd |-> locked[id].end, newEnd |-> locked[id].end]
           r == [x.s EXCEPT !.locked[id].derived = x.derived, !.points = _checkpoint(@, info)]
<1>1. /\ tokenId < MaxIds /\ nft.idToOwner[id] = caller /\ locked[id].end > now
      /\ \A token \in ToSet(tokens) : locked[id].amounts[token] # 0 => _part(token, id, percent) # 0
      /\ tokenId' = newId /\ becomes(r) /\ UNCHANGED <<now, tokens>>
      BY Zenon DEF split, OnlyLocksChange
<1> HIDE DEF info
<1>2. newId \in Ids /\ newId \in tokenId..MaxIds /\ newId > tokenId
      BY <1>1, VInvParts DEF Ids
<1>3. id # newId /\ id <= newId
      BY <1>1, <1>2, VInvParts DEF Ids
<1>4. locked[newId] = noLock /\ nft.idToOwner[newId] = NULL
      BY <1>2, VInvParts
<1> HIDE DEF newId
<1>5. SplitOK(x, caller, id, newId, percent)
  <2>1. now \in Nat /\ VeTyped(ve) /\ tokens \in Seq(StakingTokens) /\ id \in Ids /\ percent \in Percents
        BY VInvParts
  <2> QED BY ONLY <1>1, <1>2, <1>3, <1>4, <2>1, SplitLoop
<1> HIDE DEF x
<1> PICK m : m = x.s
    OBVIOUS
<1>6. /\ m = [locked |-> m.locked, points |-> m.points, nft |-> m.nft, held |-> m.held]
      /\ m.locked \in [Ids -> Lock] /\ m.held = held /\ m.nft = _addTokenTo(nft, caller, newId)
      /\ held \in [StakingTokens -> Int] /\ x.derived \in Nat
      BY <1>5, VInvParts DEF SplitOK, VeTyped
<1>7. /\ r = [locked |-> r.locked, points |-> r.points, nft |-> r.nft, held |-> r.held]
      /\ r.locked = [m.locked EXCEPT ![id] = [@ EXCEPT !.derived = x.derived]]
      /\ r.nft = m.nft /\ r.held = held
  <2> DEFINE M == [m.locked EXCEPT ![id] = [@ EXCEPT !.derived = x.derived]]
             P == _checkpoint(m.points, info)
  <2>1. r = [m EXCEPT !.locked = M, !.points = P]
        BY Zenon
  <2> HIDE DEF M, P, r
  <2>2. r = [locked |-> M, points |-> P, nft |-> m.nft, held |-> held]
        BY <1>6, <2>1
  <2>3. /\ r = [locked |-> r.locked, points |-> r.points, nft |-> r.nft, held |-> r.held]
        /\ r.locked = M /\ r.nft = m.nft /\ r.held = held
        BY <2>2
  <2> QED BY <2>3 DEF M
<1> HIDE DEF r
<1>8. /\ r.locked \in [Ids -> Lock]
      /\ \A i \in Ids : i # id => r.locked[i] = m.locked[i]
      /\ r.locked[id].amounts = m.locked[id].amounts /\ r.locked[id].end = m.locked[id].end
  <2> PICK k \in Lock : k = m.locked[id]
      BY <1>6
  <2> PICK j : j = [k EXCEPT !.derived = x.derived]
      OBVIOUS
  <2>1. j \in Lock /\ j.amounts = k.amounts /\ j.end = k.end
        BY <1>6 DEF Lock
  <2>2. r.locked = [m.locked EXCEPT ![id] = j]
        BY <1>7
  <2> QED BY <1>6, <2>1, <2>2
<1>9. NFTOK(r.nft) /\ r.nft.idToOwner = [nft.idToOwner EXCEPT ![newId] = caller]
  <2>1. NFTOK(nft) /\ caller \in Accounts
        BY VInvParts
  <2>2. /\ NFTOK(_addTokenTo(nft, caller, newId))
        /\ _addTokenTo(nft, caller, newId).idToOwner = [nft.idToOwner EXCEPT ![newId] = caller]
        BY ONLY <1>2, <1>4, <2>1, NFTAdded
  <2> QED BY <1>6, <1>7, <2>2
<1>10. VeOK(r)
  <2>1. VeTyped(r)
        BY <1>6, <1>7, <1>8 DEF VeTyped
  <2>2. BurntIsEmpty(r)
    <3> SUFFICES ASSUME NEW i \in Ids, r.nft.idToOwner[i] = NULL
                 PROVE  r.locked[i].derived = 0 /\ r.locked[i].end = 0
        BY DEF BurntIsEmpty
    <3>1. i # newId /\ nft.idToOwner[i] = NULL
          BY <1>2, <1>9, VInvParts
    <3>2. i # id
          BY <1>1, <3>1, VInvParts
    <3>3. r.locked[i] = locked[i]
          BY <1>5, <1>8, <3>1, <3>2 DEF SplitOK
    <3> QED BY <3>1, <3>3, VInvParts
  <2> QED BY <1>9, <2>1, <2>2 DEF VeOK
<1>11. LocksMoved(locked, r.locked, id, newId)
  <2>1. \A i \in Ids : i # id /\ i # newId => locked[i] = r.locked[i]
        BY <1>5, <1>8 DEF SplitOK
  <2>2. ASSUME NEW token \in StakingTokens
        PROVE  /\ locked[id].amounts[token] + locked[newId].amounts[token]
                     = r.locked[id].amounts[token] + r.locked[newId].amounts[token]
               /\ \A t \in Nat : t > now => lockedOf(locked, token, t)[id] + lockedOf(locked, token, t)[newId]
                                   <= lockedOf(r.locked, token, t)[id] + lockedOf(r.locked, token, t)[newId]
    <3> PICK a \in Nat : a = locked[id].amounts[token]
        BY VInvParts
    <3> PICK e \in Nat : e = locked[id].end
        BY VInvParts
    <3>1. PICK p \in Nat : /\ a - p \in Nat
                           /\ r.locked[id].amounts[token] = a - p
                           /\ r.locked[newId].amounts[token] = p
                           /\ p = 0 \/ r.locked[newId].end = e
      <4>1. r.locked[id].amounts[token] = m.locked[id].amounts[token] /\ r.locked[newId] = m.locked[newId]
            BY <1>2, <1>3, <1>8
      <4>2. \/ /\ m.locked[id].amounts[token] = a
               /\ m.locked[newId].amounts[token] = 0
            \/ /\ m.locked[id].amounts[token] = a - _part(token, id, percent)
               /\ m.locked[newId].amounts[token] = _part(token, id, percent)
               /\ m.locked[newId].end = e
            BY <1>5 DEF SplitOK
      <4>3. _part(token, id, percent) \in Nat /\ a - _part(token, id, percent) \in Nat
            BY VInvParts, PartType
      <4>4. a - 0 = a
            OBVIOUS
      <4> QED BY <4>1, <4>2, <4>3, <4>4
    <3>2. r.locked[id].end = e
          BY <1>5, <1>8 DEF SplitOK
    <3>3. locked[newId].amounts[token] = 0 /\ locked[newId].end = 0
          BY <1>4 DEF noLock
    <3>4. a + 0 = (a - p) + p
          OBVIOUS
    <3>5. ASSUME NEW t \in Nat, t > now
          PROVE  lockedOf(locked, token, t)[id] + lockedOf(locked, token, t)[newId]
                     <= lockedOf(r.locked, token, t)[id] + lockedOf(r.locked, token, t)[newId]
      <4> PICK d \in Nat : d = r.locked[newId].end
          BY <1>2, <1>8 DEF Lock
      <4>1. /\ lockedOf(locked, token, t)[id] = (IF e >= t THEN a ELSE 0)
            /\ lockedOf(locked, token, t)[newId] = 0
            BY <1>2, <3>3 DEF lockedOf
      <4>2. /\ lockedOf(r.locked, token, t)[id] = (IF e >= t THEN a - p ELSE 0)
            /\ lockedOf(r.locked, token, t)[newId] = (IF d >= t THEN p ELSE 0)
            BY <1>2, <3>1, <3>2 DEF lockedOf
      <4>3. (IF e >= t THEN a ELSE 0) + 0 <= (IF e >= t THEN a - p ELSE 0) + (IF d >= t THEN p ELSE 0)
            BY <3>1
      <4> QED BY <4>1, <4>2, <4>3
    <3> QED BY <3>1, <3>3, <3>4, <3>5
  <2> QED BY <2>1, <2>2 DEF LocksMoved
<1>12. Safe(r, newId)
  <2>1. VInv /\ id \in Ids /\ newId <= newId
        BY <1>2 DEF Ids
  <2>2. \A i \in Ids : i # id /\ i # newId => r.nft.idToOwner[i] = nft.idToOwner[i]
        BY <1>9, VInvParts
  <2> QED BY ONLY <1>2, <1>3, <1>7, <1>10, <1>11, <2>1, <2>2, MovedSafe
<1> QED BY <1>1, <1>12

-----------------------------------------------------------------------------
(* Steps.                                                                  *)

\* A call that changes locks.
LEMMA SafeStep ==
    ASSUME VInv, NEW s, Safe(s, tokenId'), becomes(s), UNCHANGED <<now, tokens>>
    PROVE  VInv' /\ NoneFreed(locked, locked')
<1>1. locked' = s.locked /\ points' = s.points /\ nft' = s.nft /\ held' = s.held
      BY DEF becomes
<1>2. s = [locked |-> s.locked, points |-> s.points, nft |-> s.nft, held |-> s.held]
      BY DEF Safe, VeOK, VeTyped
<1>3. ve' = s
      BY <1>1, <1>2 DEF ve
<1>4. /\ tokenId' \in 0..MaxIds /\ VeOK(s) /\ Held(s.locked, s.held) /\ Issued(s, tokenId')
      /\ Added(s.locked, tokens) /\ NoneFreed(locked, s.locked)
      BY DEF Safe
<1>5. now' \in Nat /\ tokens' \in Seq(StakingTokens) /\ tokens' = tokens
      BY VInvParts
<1>6. VeOK(ve')
      BY <1>3, <1>4
<1>7. Issued(ve', tokenId')
      BY <1>3, <1>4
<1>8. Held(locked', held') /\ Added(locked', tokens')
      BY <1>1, <1>4, <1>5
<1> QED BY <1>1, <1>4, <1>5, <1>6, <1>7, <1>8 DEF VInv

\* A step that leaves locks and owners alone, or hands an NFT on.
LEMMA QuietStep ==
    ASSUME VInv, UNCHANGED <<tokenId, locked, held>>, now' \in Nat,
           tokens' \in Seq(StakingTokens), ToSet(tokens) \subseteq ToSet(tokens'), NFTOK(nft'),
           \A i \in Ids : nft'.idToOwner[i] = NULL <=> nft.idToOwner[i] = NULL
    PROVE  VInv' /\ NoneFreed(locked, locked')
<1>1. ve' = [locked |-> locked, points |-> points', nft |-> nft', held |-> held]
      BY DEF ve
<1>2. ve'.locked = locked /\ ve'.nft = nft' /\ ve'.held = held
      BY <1>1
<1>3. VeOK(ve')
  <2>1. VeTyped(ve')
        BY <1>1, VInvParts DEF VeTyped
  <2>2. BurntIsEmpty(ve')
        BY <1>2, VInvParts DEF BurntIsEmpty
  <2> QED BY <1>2, <2>1, <2>2 DEF VeOK
<1>4. Issued(ve', tokenId')
      BY <1>2, VInvParts DEF Issued
<1>5. Held(locked', held') /\ Added(locked', tokens')
      BY DEF VInv, Added
<1>6. tokenId' \in 0..MaxIds
      BY VInvParts
<1>7. NoneFreed(locked, locked')
  <2> SUFFICES ASSUME NEW token \in StakingTokens, NEW t \in Nat
               PROVE  SumFunctionOnSet(lockedOf(locked, token, t), Ids)
                          <= SumFunctionOnSet(lockedOf(locked, token, t), Ids)
      BY DEF NoneFreed
  <2> DEFINE f == lockedOf(locked, token, t)
  <2>1. \A i \in Ids : f[i] \in Int
        BY VInvParts DEF lockedOf
  <2> HIDE DEF f
  <2>2. SumFunctionOnSet(f, Ids) \in Int
        BY <2>1, IdsFinite, SumType
  <2>3. SumFunctionOnSet(f, Ids) <= SumFunctionOnSet(f, Ids)
        BY <2>2
  <2> QED BY <2>3 DEF f
<1> QED BY <1>3, <1>4, <1>5, <1>6, <1>7 DEF VInv

LEMMA LockStep ==
    ASSUME VInv, LockCall
    PROVE  VInv' /\ NoneFreed(locked, locked')
<1>1. \E s : Safe(s, tokenId') /\ becomes(s) /\ UNCHANGED <<now, tokens>>
  <2>1. CASE \E token \in StakingTokens, value \in Values, duration \in Durations, to \in Accounts :
                createLockFor(token, value, duration, to)
        BY <2>1, CreateSafe, Zenon
  <2>2. CASE \E token \in StakingTokens, id \in Ids, value \in Values : increaseAmount(token, id, value)
        BY <2>2, IncreaseAmountSafe, Zenon
  <2>3. CASE \E caller \in Accounts, id \in Ids, duration \in Durations : increaseUnlockTime(caller, id, duration)
        BY <2>3, IncreaseUnlockTimeSafe, Zenon
  <2>4. CASE \E caller \in Accounts, from, to \in Ids : merge(caller, from, to)
        BY <2>4, MergeSafe, Zenon
  <2>5. CASE \E caller \in Accounts, id \in Ids, percent \in Percents : split(caller, id, percent)
        BY <2>5, SplitSafe, Zenon
  <2>6. CASE \E caller \in Accounts, token \in StakingTokens, id \in Ids : withdraw(caller, token, id)
        BY <2>6, WithdrawSafe, Zenon
  <2>7. CASE \E caller \in Accounts, id \in Ids : withdrawAll(caller, id)
        BY <2>7, WithdrawAllSafe, Zenon
  <2> QED BY Zenon, <2>1, <2>2, <2>3, <2>4, <2>5, <2>6, <2>7 DEF LockCall
<1>2. PICK s : Safe(s, tokenId') /\ becomes(s) /\ UNCHANGED <<now, tokens>>
      BY <1>1, Zenon
<1> QED BY <1>2, SafeStep

LEMMA NFTStep ==
    ASSUME VInv, NFTCall
    PROVE  VInv' /\ NoneFreed(locked, locked')
<1>1. /\ NFTOK(nft) /\ nft.idToOwner \in [Ids -> Accounts \cup {NULL}] /\ NULL \notin Accounts
      /\ now \in Nat /\ tokens \in Seq(StakingTokens)
      BY VInvParts
<1>2. /\ UNCHANGED <<now, tokens, tokenId, locked, held>> /\ NFTOK(nft')
      /\ \A i \in Ids : nft'.idToOwner[i] = NULL <=> nft.idToOwner[i] = NULL
  <2>1. ASSUME NEW caller \in Accounts, NEW from \in Accounts, NEW to \in Accounts, NEW id \in Ids,
               safeTransferFrom(caller, from, to, id)
        PROVE  /\ UNCHANGED <<now, tokens, tokenId, locked, held>> /\ NFTOK(nft')
               /\ \A i \in Ids : nft'.idToOwner[i] = NULL <=> nft.idToOwner[i] = NULL
    <3>1. /\ nft.idToOwner[id] = from /\ UNCHANGED <<now, tokens, tokenId, locked, held>>
          /\ nft' = _addTokenTo(_removeTokenFrom([nft EXCEPT !.idToApprovals[id] = NULL], from, id), to, id)
          BY <2>1, Zenon DEF safeTransferFrom, OnlyNFTsChange
    <3>2. from \in Accounts /\ to \in Accounts /\ id \in Ids /\ NFTOK(nft)
          BY <1>1
    <3>3. NFTOK(nft') /\ nft'.idToOwner = [nft.idToOwner EXCEPT ![id] = to]
          BY ONLY <3>1, <3>2, NFTTransferred
    <3>4. \A i \in Ids : nft'.idToOwner[i] = NULL <=> nft.idToOwner[i] = NULL
          BY <1>1, <3>1, <3>3
    <3> QED BY <3>1, <3>3, <3>4
  <2>2. ASSUME NEW caller \in Accounts, NEW approved \in Accounts \cup {NULL}, NEW id \in Ids,
               approve(caller, approved, id)
        PROVE  /\ UNCHANGED <<now, tokens, tokenId, locked, held>> /\ NFTOK(nft')
               /\ \A i \in Ids : nft'.idToOwner[i] = NULL <=> nft.idToOwner[i] = NULL
    <3>1. /\ nft.idToOwner[id] # NULL /\ UNCHANGED <<now, tokens, tokenId, locked, held>>
          /\ nft' = [nft EXCEPT !.idToApprovals[id] = approved]
          BY <2>2, Zenon DEF approve, OnlyNFTsChange, _mayApprove
    <3>2. approved \in Accounts \cup {NULL} /\ id \in Ids /\ NFTOK(nft)
          BY <1>1
    <3>3. NFTOK(nft') /\ nft'.idToOwner = nft.idToOwner
          BY ONLY <3>1, <3>2, NFTApproved
    <3> QED BY <3>1, <3>3
  <2>3. ASSUME NEW caller \in Accounts, NEW operator \in Accounts, NEW approved \in BOOLEAN,
               setApprovalForAll(caller, operator, approved)
        PROVE  /\ UNCHANGED <<now, tokens, tokenId, locked, held>> /\ NFTOK(nft')
               /\ \A i \in Ids : nft'.idToOwner[i] = NULL <=> nft.idToOwner[i] = NULL
    <3> DEFINE ops == IF approved THEN nft.ownerToOperators \cup {<<caller, operator>>}
                      ELSE nft.ownerToOperators \ {<<caller, operator>>}
    <3>1. /\ UNCHANGED <<now, tokens, tokenId, locked, held>>
          /\ nft' = [nft EXCEPT !.ownerToOperators = ops]
          BY <2>3, Zenon DEF setApprovalForAll, OnlyNFTsChange
    <3>2. ops \in SUBSET (Accounts \X Accounts)
      <4>1. nft.ownerToOperators \in SUBSET (Accounts \X Accounts)
            BY <1>1 DEF NFTOK, NFTTyped
      <4> QED BY <4>1
    <3> HIDE DEF ops
    <3>3. NFTOK(nft') /\ nft'.idToOwner = nft.idToOwner
          BY ONLY <1>1, <3>1, <3>2, NFTOperators
    <3> QED BY <3>1, <3>3
  <2> QED BY <2>1, <2>2, <2>3, Zenon DEF NFTCall
<1>3. now' \in Nat /\ tokens' \in Seq(StakingTokens) /\ ToSet(tokens) \subseteq ToSet(tokens')
      BY <1>1, <1>2
<1> QED BY <1>2, <1>3, QuietStep

LEMMA GovernanceStep ==
    ASSUME VInv, GovernanceCall
    PROVE  VInv' /\ NoneFreed(locked, locked')
<1>1. now \in Nat /\ tokens \in Seq(StakingTokens) /\ NFTOK(nft)
      BY VInvParts
<1>2. /\ UNCHANGED <<now, tokenId, locked, nft, held>>
      /\ tokens' = tokens \/ \E token \in StakingTokens : tokens' = Append(tokens, token)
  <2>1. ASSUME NEW type, announceAction(type)
        PROVE  UNCHANGED <<now, tokens, tokenId, locked, nft, held>>
        BY <2>1, Zenon DEF announceAction, OnlyGovernance
  <2>2. ASSUME NEW value, whitelistTransferFor(value)
        PROVE  UNCHANGED <<now, tokens, tokenId, locked, nft, held>>
        BY <2>2, Zenon DEF whitelistTransferFor, OnlyGovernance
  <2>3. ASSUME NEW token, addToken(token)
        PROVE  UNCHANGED <<now, tokenId, locked, nft, held>> /\ tokens' = Append(tokens, token)
        BY <2>3, Zenon DEF addToken, OnlyGovernance
  <2> QED BY <2>1, <2>2, <2>3, Zenon DEF GovernanceCall
<1>3. tokens' \in Seq(StakingTokens) /\ ToSet(tokens) \subseteq ToSet(tokens')
  <2>1. CASE tokens' = tokens
        BY <1>1, <2>1
  <2>2. ASSUME NEW token \in StakingTokens, tokens' = Append(tokens, token)
        PROVE  tokens' \in Seq(StakingTokens) /\ ToSet(tokens) \subseteq ToSet(tokens')
        BY <1>1, <2>2 DEF ToSet
  <2> QED BY <1>2, <2>1, <2>2
<1> QED BY <1>1, <1>2, <1>3, QuietStep

\* Steps of the distributor change nothing here but points, and time goes on.
LEMMA OtherStep ==
    ASSUME VInv, checkpoint \/ Distribute \/ TimePasses \/ UNCHANGED vars
    PROVE  VInv' /\ NoneFreed(locked, locked')
<1>1. now \in Nat /\ tokens \in Seq(StakingTokens) /\ NFTOK(nft)
      BY VInvParts
<1>2. UNCHANGED <<tokens, tokenId, locked, nft, held>> /\ (now' = now \/ now' = Min({now + 1, MaxTime}))
  <2>1. CASE checkpoint
        BY <2>1, Zenon DEF checkpoint
  <2>2. CASE init
        BY <2>2, Zenon DEF init, veVars
  <2>3. ASSUME NEW amount, receive(amount)
        PROVE  UNCHANGED <<now, tokens, tokenId, locked, nft, held>>
        BY <2>3, Zenon DEF receive, OnlyPoints
  <2>4. CASE checkpointTotalSupply
        BY <2>4, Zenon DEF checkpointTotalSupply, OnlyPoints
  <2>5. ASSUME NEW ids, _claims(ids)
        PROVE  UNCHANGED <<now, tokens, tokenId, locked, nft, held>>
        BY <2>5, Zenon DEF _claims, OnlyPoints
  <2>6. CASE TimePasses
        BY <2>6, Zenon DEF TimePasses
  <2>7. CASE UNCHANGED vars
        BY <2>7, Zenon DEF vars, veVars
  <2> QED BY <2>1, <2>2, <2>3, <2>4, <2>5, <2>6, <2>7, Zenon DEF Distribute, claim, claimMany
<1>3. now' \in Nat
  <2>1. \A m, k \in Nat : Min({m, k}) \in {m, k}
    <3> SUFFICES ASSUME NEW m \in Nat, NEW k \in Nat
                 PROVE  Min({m, k}) \in {m, k}
        OBVIOUS
    <3>1. \E x \in {m, k} : \A y \in {m, k} : x <= y
          OBVIOUS
    <3> QED BY <3>1 DEF Min
  <2>2. now + 1 \in Nat /\ MaxTime \in Nat
        BY <1>1, VeAssumption
  <2> QED BY <1>1, <1>2, <2>1, <2>2
<1> QED BY <1>1, <1>2, <1>3, QuietStep

LEMMA VeStep ==
    ASSUME VInv, [Next]_vars
    PROVE  VInv' /\ NoneFreed(locked, locked')
<1>1. \/ LockCall \/ NFTCall \/ GovernanceCall
      \/ (checkpoint \/ Distribute \/ TimePasses \/ UNCHANGED vars)
      BY Zenon DEF Next, VeNext
<1> QED BY <1>1, LockStep, NFTStep, GovernanceStep, OtherStep, Zenon

-----------------------------------------------------------------------------
(* Theorems.                                                               *)

LEMMA VeBegins ==
    ASSUME Init
    PROVE  VInv
<1>1. /\ now = StartTime /\ tokens \in InitialTokens /\ tokenId = 0
      /\ locked = [id \in Ids |-> noLock]
      /\ nft = [idToOwner |-> [id \in Ids |-> NULL], idToApprovals |-> [id \in Ids |-> NULL],
                ownerToNFTokenIdList |-> [a \in Accounts |-> << >>],
                tokenToOwnerIndex |-> [id \in Ids |-> 0],
                ownerToOperators |-> {}]
      /\ held = [token \in StakingTokens |-> 0]
      BY Zenon DEF Init, VeInit
<1>2. now \in Nat /\ tokens \in Seq(StakingTokens) /\ tokenId \in 0..MaxIds /\ NULL \notin Accounts
      BY <1>1, VeAssumption
<1>3. noLock \in Lock /\ noLock.derived = 0 /\ noLock.end = 0 /\ \A token \in StakingTokens : noLock.amounts[token] = 0
      BY DEF Lock, noLock
<1>4. ve.locked = locked /\ ve.nft = nft /\ ve.held = held
      BY DEF ve
<1>5. NFTOK(nft)
  <2>1. /\ nft.idToOwner = [id \in Ids |-> NULL] /\ nft.idToApprovals = [id \in Ids |-> NULL]
        /\ nft.ownerToNFTokenIdList = [a \in Accounts |-> << >>]
        /\ nft.tokenToOwnerIndex = [id \in Ids |-> 0] /\ nft.ownerToOperators = {}
        BY <1>1
  <2>2. NFTTyped(nft)
        BY <1>1, <2>1 DEF NFTTyped
  <2>3. NFTListed(nft)
        BY <1>2, <2>1 DEF NFTListed
  <2>4. NFTApprovals(nft)
        BY <2>1 DEF NFTApprovals
  <2> QED BY <2>2, <2>3, <2>4 DEF NFTOK
<1>6. VeOK(ve)
  <2>1. VeTyped(ve)
        BY <1>1, <1>3, <1>4 DEF VeTyped, ve
  <2>2. BurntIsEmpty(ve)
        BY <1>1, <1>3, <1>4 DEF BurntIsEmpty
  <2> QED BY <1>4, <1>5, <2>1, <2>2 DEF VeOK
<1>7. Held(locked, held)
  <2> SUFFICES ASSUME NEW token \in StakingTokens
               PROVE  held[token] = SumFunctionOnSet(amountsOf(locked, token), Ids)
      BY DEF Held
  <2> DEFINE f == amountsOf(locked, token)
  <2>1. \A id \in Ids : f[id] = 0
        BY <1>1, <1>3 DEF amountsOf
  <2> HIDE DEF f
  <2>2. SumFunctionOnSet(f, Ids) = 0
        BY <2>1, IdsFinite, SumZero
  <2> QED BY <1>1, <2>2 DEF f
<1>8. Issued(ve, tokenId) /\ Added(locked, tokens)
      BY <1>1, <1>3, <1>4 DEF Issued, Added
<1> QED BY <1>2, <1>6, <1>7, <1>8 DEF VInv

\* VInv is an invariant: locks, holdings and lists of NFTs are what they should be after any calls
\* of Ve.sol and VeDistributor.sol.
THEOREM VeInvariant == Spec => []VInv
<1>1. Init => VInv
      BY VeBegins
<1>2. VInv /\ [Next]_vars => VInv'
      BY VeStep
<1> QED BY <1>1, <1>2, PTL DEF Spec

\* What is locked until some time in the future stays locked until then: deposits, extensions, merges,
\* splits, withdrawals and transfers of Ve.sol in any order get none of it out earlier.
THEOREM LocksStayLocked == Spec => LockedStaysLocked
<1>1. VInv /\ [Next]_vars =>
          [\A token \in StakingTokens, t \in Weeks : t > now => _lockedUntil(token, t)' >= _lockedUntil(token, t)]_veVars
  <2> SUFFICES ASSUME VInv, [Next]_vars, NEW token \in StakingTokens, NEW t \in Weeks, t > now
               PROVE  _lockedUntil(token, t)' >= _lockedUntil(token, t)
      OBVIOUS
  <2>1. t \in Nat
        BY VeAssumption DEF Weeks
  <2>2. SumFunctionOnSet(lockedOf(locked, token, t), Ids) <= SumFunctionOnSet(lockedOf(locked', token, t), Ids)
    <3>1. NoneFreed(locked, locked')
          BY VeStep
    <3> QED BY <2>1, <3>1 DEF NoneFreed
  <2> QED BY <2>2 DEF _lockedUntil, lockedOf
<1> QED BY <1>1, VeInvariant, PTL DEF Spec, LockedStaysLocked

\* The staking tokens Ve.sol has are those its NFTs have locked, of every token.
THEOREM TokensAreHeld == Spec => []TokensHeld
<1>1. VInv => TokensHeld
      BY DEF VInv, Held, amountsOf, TokensHeld
<1> QED BY <1>1, VeInvariant, PTL

\* The owner of an NFT and the lists and indices of _addTokenTo and _removeTokenFrom agree, and an
\* NFT nobody owns has nothing that counts.
THEOREM NFTsListed == Spec => [](OwnersListed /\ BurntIsEmpty(ve))
<1>1. VInv => OwnersListed /\ BurntIsEmpty(ve)
  <2> SUFFICES ASSUME VInv, NEW id \in Ids, NEW a \in Accounts
               PROVE  nft.idToOwner[id] = a <=>
                          /\ nft.tokenToOwnerIndex[id] < Len(nft.ownerToNFTokenIdList[a])
                          /\ nft.ownerToNFTokenIdList[a][nft.tokenToOwnerIndex[id] + 1] = id
      BY DEF OwnersListed, VInv, VeOK
  <2>1. NFTTyped(nft) /\ NFTListed(nft)
        BY VInvParts DEF NFTOK
  <2> PICK list \in Seq(Ids) : list = nft.ownerToNFTokenIdList[a]
      BY <2>1 DEF NFTTyped
  <2> PICK index \in Nat : index = nft.tokenToOwnerIndex[id]
      BY <2>1 DEF NFTTyped
  <2>2. nft.idToOwner[id] = a => index + 1 \in 1..Len(list) /\ list[index + 1] = id
        BY <2>1 DEF NFTListed
  <2>3. index < Len(list) /\ list[index + 1] = id => nft.idToOwner[id] = a
    <3>1. index < Len(list) => index + 1 \in 1..Len(list)
          OBVIOUS
    <3> QED BY <2>1, <3>1 DEF NFTListed
  <2>4. index + 1 \in 1..Len(list) => index < Len(list)
        OBVIOUS
  <2> QED BY <2>2, <2>3, <2>4
<1> QED BY <1>1, VeInvariant, PTL

-----------------------------------------------------------------------------
(* The total power.  Every lock has a slope and, until its end, a bias; the *)
(* point of the total at some time is their sum, and the scheduled changes  *)
(* are the slopes of the locks that end in a week.                          *)

PointRec == [bias : Int, slope : Int, ts : Nat]

slopeOf(l) == l.derived \div MAX_TIME
slopeAt(l, t) == IF l.end > t THEN slopeOf(l) ELSE 0
biasAt(l, t) == slopeAt(l, t) * (l.end - t)
dueAt(l, w) == IF l.end = w THEN slopeOf(l) ELSE 0

slopesAt(L, t) == [i \in Ids |-> slopeAt(L[i], t)]
biasesAt(L, t) == [i \in Ids |-> biasAt(L[i], t)]
duesAt(L, w) == [i \in Ids |-> dueAt(L[i], w)]

TotalAt(L, t) == Point(SumFunctionOnSet(biasesAt(L, t), Ids), SumFunctionOnSet(slopesAt(L, t), Ids), t)
Scheduled(L, changes, t) ==
    \A w \in Weeks : w > t => changes[w] = - SumFunctionOnSet(duesAt(L, w), Ids)

\* Locks end with a week.
LocksOK(L) == L \in [Ids -> Lock] /\ \A i \in Ids : L[i].end \in Weeks

\* The last point of an NFT is that of its lock.
LastPointOK(l, h, t) ==
    IF h = << >> THEN l.derived = 0
    ELSE /\ Last(h).ts <= t
         /\ Last(h).bias = biasAt(l, Last(h).ts) /\ Last(h).slope = slopeAt(l, Last(h).ts)

TotalsOK(L, p, t) ==
    /\ p = [pointHistory |-> p.pointHistory, slopeChanges |-> p.slopeChanges,
            userPointHistory |-> p.userPointHistory]
    /\ p.pointHistory \in Seq(PointRec) /\ p.pointHistory # << >>
    /\ Last(p.pointHistory).ts \in StartTime..t
    /\ Last(p.pointHistory) = TotalAt(L, Last(p.pointHistory).ts)
    /\ Len(p.pointHistory) = 1 => \A i \in Ids : L[i].derived = 0
    /\ p.slopeChanges \in [Weeks -> Int]
    /\ Scheduled(L, p.slopeChanges, Last(p.pointHistory).ts)

UsersOK(L, p, t) ==
    /\ p.userPointHistory \in [Ids -> Seq(PointRec)]
    /\ \A i \in Ids : LastPointOK(L[i], p.userPointHistory[i], t)

PointsOK(L, p, t) == TotalsOK(L, p, t) /\ UsersOK(L, p, t)

\* No loop over weeks from the last point of the total reaches its limit before t.
InReach(p, t) == t \div WEEK - Last(p.pointHistory).ts \div WEEK < CHECKPOINT_WEEKS

\* No week begins after the one time and before the other.
NoWeekBetween(from, to) == \A w \in Nat : w % WEEK = 0 /\ w > from => w >= to

\* A time lies in its week.
LEMMA InWeek ==
    ASSUME NEW t \in Nat
    PROVE  \E q \in Nat : q = t \div WEEK /\ q * WEEK <= t /\ t < (q + 1) * WEEK
                          /\ (t % WEEK = 0 <=> t = q * WEEK)
<1>1. WEEK \in Nat \ {0}
      BY VeAssumption
<1> PICK w \in Nat : w = WEEK /\ w > 0
    BY <1>1
<1> PICK q \in Nat : q = t \div w
    BY <1>1, Quotient
<1> PICK r \in Nat : r = (t % w) /\ r < w
    OBVIOUS
<1>2. t = q * w + r
      OBVIOUS
<1>3. (q + 1) * w = q * w + w
      OBVIOUS
<1>4. q * w \in Nat
      OBVIOUS
<1> QED BY <1>2, <1>3, <1>4

\* Weeks are in the order of their numbers.
LEMMA WeekOrder ==
    ASSUME NEW a \in Nat, NEW b \in Nat
    PROVE  /\ a <= b <=> a * WEEK <= b * WEEK
           /\ a < b <=> a * WEEK < b * WEEK
           /\ a * WEEK \in Nat
<1> PICK w \in Nat : w = WEEK /\ w > 0
    BY VeAssumption
<1>1. a <= b => a * w <= b * w
      OBVIOUS
<1>2. a < b => a * w < b * w
      OBVIOUS
<1>3. a * w \in Nat /\ b * w \in Nat
      OBVIOUS
<1> QED BY <1>1, <1>2, <1>3

\* The last time a lock can end at is a time.
LEMMA EndIsTime == \E last \in Nat : last = MaxTime + MAX_TIME
<1>1. MaxTime \in Nat /\ MAX_TIME \in Nat
      BY ONLY VeAssumption
<1>2. MaxTime + MAX_TIME \in Nat
      BY ONLY <1>1
<1> QED BY ONLY <1>2

\* Weeks are times.
LEMMA WeeksAreTimes == \A w \in Weeks : w \in Nat /\ w % WEEK = 0 /\ w <= MaxTime + MAX_TIME
<1>1. PICK last \in Nat : last = MaxTime + MAX_TIME
      BY ONLY EndIsTime
<1> QED BY <1>1 DEF Weeks

LEMMA ZeroIsWeek == 0 \in Weeks
<1>1. PICK last \in Nat : last = MaxTime + MAX_TIME
      BY ONLY EndIsTime
<1>2. 0 % WEEK = 0
      BY VeAssumption
<1> QED BY <1>1, <1>2 DEF Weeks

\* The stops of a walk within the limit: they lead to its end, and no week begins between two.
before(stops, from, j) == IF j = 1 THEN from ELSE stops[j - 1]

StopsOK(stops, from, to) ==
    /\ stops \in Seq(Nat) /\ Len(stops) >= 1 /\ stops[Len(stops)] = to
    /\ \A j \in 1..Len(stops) :
          /\ from <= before(stops, from, j) /\ before(stops, from, j) <= stops[j] /\ stops[j] <= to
          /\ NoWeekBetween(before(stops, from, j), stops[j])

\* Between a time in or before a week and the beginning of the next one no week begins, nor
\* within a week.
LEMMA NextWeek ==
    ASSUME NEW k \in Nat, NEW from \in Nat, NEW to \in Nat, k * WEEK <= from, to <= (k + 1) * WEEK
    PROVE  NoWeekBetween(from, to)
<1> SUFFICES ASSUME NEW w \in Nat, w % WEEK = 0, w > from
             PROVE  w >= to
    BY DEF NoWeekBetween
<1>1. PICK q \in Nat : w = q * WEEK
      BY InWeek
<1>2. k * WEEK \in Nat /\ (k + 1) * WEEK \in Nat /\ k + 1 \in Nat
      BY WeekOrder
<1>3. k * WEEK < q * WEEK
      BY <1>1, <1>2
<1>4. k < q
      BY <1>3, WeekOrder
<1>5. k + 1 <= q
      BY <1>4
<1>6. (k + 1) * WEEK <= q * WEEK
      BY <1>2, <1>5, WeekOrder
<1> QED BY <1>1, <1>2, <1>6

LEMMA StopsReach ==
    ASSUME NEW from \in Nat, NEW to \in Nat, from <= to,
           to \div WEEK - from \div WEEK < CHECKPOINT_WEEKS
    PROVE  StopsOK(_stops(from, to), from, to)
<1> PICK a \in Nat : a = from \div WEEK /\ a * WEEK <= from /\ from < (a + 1) * WEEK
    BY InWeek
<1> PICK b \in Nat : b = to \div WEEK /\ b * WEEK <= to /\ to < (b + 1) * WEEK
    BY InWeek
<1> PICK W \in Nat : W = WEEK /\ W > 0
    BY VeAssumption
<1>1. a <= b
  <2>1. a * WEEK \in Nat /\ (b + 1) * WEEK \in Nat /\ b + 1 \in Nat
        BY WeekOrder
  <2>2. a * WEEK < (b + 1) * WEEK
        BY <2>1
  <2>3. a < b + 1
        BY <2>1, <2>2, WeekOrder
  <2> QED BY <2>3
<1> PICK n \in Nat : n = b - a /\ n < CHECKPOINT_WEEKS
    BY <1>1
<1>2. weekOf(from) = a * W /\ weekOf(to) = b * W
      BY DEF weekOf
<1>3. (weekOf(to) - weekOf(from)) \div WEEK = n
  <2>1. b * W - a * W = n * W
        OBVIOUS
  <2>2. (n * W) \div W = n
        OBVIOUS
  <2> QED BY <1>2, <2>1, <2>2
<1> DEFINE weeks == [i \in 1..n |-> weekOf(from) + i * WEEK]
<1>4. /\ weeks \in Seq(Nat) /\ Len(weeks) = n
      /\ \A i \in 1..n : weeks[i] = (a + i) * WEEK /\ weeks[i] \in Nat
  <2>1. ASSUME NEW i \in 1..n
        PROVE  weekOf(from) + i * WEEK = (a + i) * WEEK /\ (a + i) * WEEK \in Nat
    <3>1. a * W + i * W = (a + i) * W /\ (a + i) * W \in Nat
          OBVIOUS
    <3> QED BY <1>2, <3>1
  <2>2. weeks \in [1..n -> Nat] /\ \A i \in 1..n : weeks[i] = (a + i) * WEEK
        BY <2>1
  <2> HIDE DEF weeks
  <2> QED BY <2>2
<1> DEFINE stops == IF weeks # << >> /\ Last(weeks) = to THEN weeks ELSE Append(weeks, to)
<1>5. StopsOK(stops, from, to) /\ Len(stops) <= n + 1
  <2> HIDE DEF weeks
  <2>1. ASSUME NEW j \in 1..n
        PROVE  /\ from <= before(weeks, from, j) /\ before(weeks, from, j) <= weeks[j] /\ weeks[j] <= to
               /\ NoWeekBetween(before(weeks, from, j), weeks[j])
    <3>1. PICK k \in Nat : k = a + (j - 1) /\ k + 1 = a + j /\ k + 1 <= b
          OBVIOUS
    <3>2. /\ weeks[j] = (k + 1) * WEEK /\ weeks[j] \in Nat /\ (k + 1) * WEEK <= b * WEEK
          /\ (k + 1) * WEEK \in Nat /\ b * WEEK \in Nat /\ k * WEEK \in Nat
          BY <1>4, <3>1, WeekOrder
    <3> PICK c : c = before(weeks, from, j)
        OBVIOUS
    <3>3. c \in Nat /\ k * WEEK <= c /\ from <= c /\ c <= (k + 1) * WEEK
      <4>1. CASE j = 1
            BY <3>1, <4>1 DEF before
      <4>2. CASE j # 1
        <5>1. j - 1 \in 1..n /\ j - 1 >= 1
              BY <4>2
        <5>2. c = k * WEEK
              BY <1>4, <3>1, <4>2, <5>1 DEF before
        <5>3. a + 1 <= k /\ a + 1 \in Nat
              BY <3>1, <5>1
        <5>4. (a + 1) * WEEK <= k * WEEK /\ (a + 1) * WEEK \in Nat /\ k * WEEK <= (k + 1) * WEEK
              BY <5>3, WeekOrder
        <5> QED BY <3>2, <5>2, <5>4
      <4> QED BY <4>1, <4>2
    <3>4. NoWeekBetween(c, weeks[j])
          BY <3>2, <3>3, NextWeek
    <3>5. weeks[j] <= to
          BY <3>2
    <3> QED BY <3>2, <3>3, <3>4, <3>5
  <2>2. CASE weeks # << >> /\ Last(weeks) = to
    <3>1. n >= 1 /\ weeks[n] = to
          BY <1>4, <2>2 DEF Last
    <3>2. stops = weeks
          BY <2>2
    <3> HIDE DEF stops
    <3> QED BY <1>4, <2>1, <3>1, <3>2 DEF StopsOK
  <2>3. CASE ~(weeks # << >> /\ Last(weeks) = to)
    <3>1. stops = Append(weeks, to)
          BY <2>3
    <3> HIDE DEF stops
    <3>2. /\ stops \in Seq(Nat) /\ Len(stops) = n + 1 /\ stops[n + 1] = to
          /\ \A i \in 1..n : stops[i] = weeks[i]
          BY <1>4, <3>1
    <3>3. ASSUME NEW j \in 1..n
          PROVE  /\ from <= before(stops, from, j) /\ before(stops, from, j) <= stops[j] /\ stops[j] <= to
                 /\ NoWeekBetween(before(stops, from, j), stops[j])
      <4>1. before(stops, from, j) = before(weeks, from, j)
        <5>1. j # 1 => j - 1 \in 1..n
              OBVIOUS
        <5> QED BY <3>2, <5>1 DEF before
      <4>2. stops[j] = weeks[j]
            BY <3>2
      <4> QED BY <2>1, <4>1, <4>2
    <3>4. /\ from <= before(stops, from, n + 1) /\ before(stops, from, n + 1) <= to
          /\ NoWeekBetween(before(stops, from, n + 1), to)
      <4> PICK c : c = before(stops, from, n + 1)
          OBVIOUS
      <4>1. c \in Nat /\ b * WEEK <= c /\ from <= c /\ c <= to
        <5>1. CASE n = 0
          <6>1. c = from /\ a = b
                BY <5>1 DEF before
          <6> QED BY <6>1
        <5>2. CASE n # 0
          <6>1. n \in 1..n /\ n + 1 # 1 /\ (n + 1) - 1 = n
                BY <5>2
          <6>2. c = (a + n) * WEEK /\ a + n = b /\ a + 1 <= b /\ a + 1 \in Nat
                BY <1>4, <3>2, <6>1 DEF before
          <6>3. (a + 1) * WEEK <= b * WEEK /\ (a + 1) * WEEK \in Nat /\ b * WEEK \in Nat
                BY <6>2, WeekOrder
          <6> QED BY <6>2, <6>3
        <5> QED BY <5>1, <5>2
      <4>2. to <= (b + 1) * WEEK
        <5>1. (b + 1) * WEEK \in Nat
              BY WeekOrder
        <5> QED BY <5>1
      <4>3. NoWeekBetween(c, to)
            BY <4>1, <4>2, NextWeek
      <4> QED BY <4>1, <4>3
    <3>5. ASSUME NEW j \in 1..(n + 1)
          PROVE  /\ from <= before(stops, from, j) /\ before(stops, from, j) <= stops[j] /\ stops[j] <= to
                 /\ NoWeekBetween(before(stops, from, j), stops[j])
      <4>1. CASE j = n + 1
            BY <3>2, <3>4, <4>1
      <4>2. CASE j # n + 1
        <5>1. j \in 1..n
              BY <4>2
        <5> QED BY <3>3, <5>1
      <4> QED BY <4>1, <4>2
    <3> QED BY <3>2, <3>5 DEF StopsOK
  <2> QED BY <2>2, <2>3
<1>6. _stops(from, to) = SubSeq(stops, 1, Min({CHECKPOINT_WEEKS, Len(stops)}))
      BY <1>3, Zenon DEF _stops
<1> HIDE DEF stops
<1>7. stops \in Seq(Nat) /\ Len(stops) \in Nat /\ Len(stops) <= CHECKPOINT_WEEKS /\ CHECKPOINT_WEEKS \in Nat
      BY <1>5, VeAssumption DEF StopsOK
<1>8. Min({CHECKPOINT_WEEKS, Len(stops)}) = Len(stops)
  <2> PICK c \in Nat, l \in Nat : c = CHECKPOINT_WEEKS /\ l = Len(stops) /\ l <= c
      BY <1>7
  <2> DEFINE S == {c, l}
  <2>1. l \in S /\ \A y \in S : l <= y
        OBVIOUS
  <2>2. Min(S) \in S /\ \A y \in S : Min(S) <= y
    <3> HIDE DEF S
    <3> QED BY <2>1 DEF Min
  <2>3. Min(S) <= l /\ Min(S) \in {c, l}
        BY <2>1, <2>2
  <2> HIDE DEF S
  <2>4. Min(S) = l
        BY <2>3
  <2> QED BY <2>4 DEF S
<1>9. SubSeq(stops, 1, Len(stops)) = stops
      BY <1>7
<1> QED BY <1>5, <1>6, <1>8, <1>9

\* What the parts of a lock count for are numbers.
LEMMA CountTypes ==
    ASSUME NEW l \in Lock, NEW t \in Nat
    PROVE  /\ slopeOf(l) \in Nat /\ (l.derived = 0 => slopeOf(l) = 0)
           /\ slopeAt(l, t) \in Nat /\ biasAt(l, t) \in Nat /\ dueAt(l, t) \in Nat
           /\ l.end \in Nat /\ l.derived \in Nat
<1>1. l.end \in Nat /\ l.derived \in Nat /\ MAX_TIME \in Nat \ {0}
      BY VeAssumption DEF Lock
<1> PICK e \in Nat : e = l.end
    BY <1>1
<1> PICK s \in Nat : s = slopeOf(l)
    BY <1>1, Quotient DEF slopeOf
<1>2. l.derived = 0 => s = 0
      BY <1>1 DEF slopeOf
<1>3. slopeAt(l, t) = IF e > t THEN s ELSE 0
      BY DEF slopeAt
<1>4. biasAt(l, t) = IF e > t THEN s * (e - t) ELSE 0 * (e - t)
      BY <1>3 DEF biasAt
<1>5. e > t => e - t \in Nat
      OBVIOUS
<1>6. e > t => s * (e - t) \in Nat
  <2> SUFFICES ASSUME e > t PROVE s * (e - t) \in Nat
      OBVIOUS
  <2> PICK d \in Nat : d = e - t
      BY <1>5
  <2>1. s * d \in Nat
        OBVIOUS
  <2> QED BY <2>1
<1>7. 0 * (e - t) = 0
      OBVIOUS
<1>8. biasAt(l, t) \in Nat
      BY <1>4, <1>6, <1>7
<1>9. dueAt(l, t) \in Nat
      BY DEF dueAt
<1> QED BY <1>1, <1>2, <1>3, <1>8, <1>9

\* The totals are natural numbers.
LEMMA TotalTypes ==
    ASSUME NEW L \in [Ids -> Lock], NEW t \in Nat
    PROVE  /\ SumFunctionOnSet(biasesAt(L, t), Ids) \in Nat
           /\ SumFunctionOnSet(slopesAt(L, t), Ids) \in Nat
           /\ SumFunctionOnSet(duesAt(L, t), Ids) \in Nat
           /\ TotalAt(L, t) \in PointRec
           /\ TotalAt(L, t).bias = SumFunctionOnSet(biasesAt(L, t), Ids)
           /\ TotalAt(L, t).slope = SumFunctionOnSet(slopesAt(L, t), Ids)
           /\ TotalAt(L, t).ts = t
<1> DEFINE f == biasesAt(L, t)
           g == slopesAt(L, t)
           h == duesAt(L, t)
<1>1. \A i \in Ids : f[i] \in Nat /\ g[i] \in Nat /\ h[i] \in Nat
      BY CountTypes DEF biasesAt, slopesAt, duesAt
<1> HIDE DEF f, g, h
<1>2. \A i \in Ids : f[i] \in Int /\ f[i] >= 0 /\ g[i] \in Int /\ g[i] >= 0 /\ h[i] \in Int /\ h[i] >= 0
      BY <1>1
<1>3. SumFunctionOnSet(f, Ids) \in Int /\ SumFunctionOnSet(f, Ids) >= 0
      BY ONLY <1>2, IdsFinite, SumNonNegative
<1>4. SumFunctionOnSet(g, Ids) \in Int /\ SumFunctionOnSet(g, Ids) >= 0
      BY ONLY <1>2, IdsFinite, SumNonNegative
<1>5. SumFunctionOnSet(h, Ids) \in Int /\ SumFunctionOnSet(h, Ids) >= 0
      BY ONLY <1>2, IdsFinite, SumNonNegative
<1>6. \A x \in Int : x >= 0 => x \in Nat
      OBVIOUS
<1>7. SumFunctionOnSet(f, Ids) \in Nat /\ SumFunctionOnSet(g, Ids) \in Nat /\ SumFunctionOnSet(h, Ids) \in Nat
      BY <1>3, <1>4, <1>5, <1>6
<1> PICK x \in Nat, y \in Nat : x = SumFunctionOnSet(f, Ids) /\ y = SumFunctionOnSet(g, Ids)
    BY <1>7
<1>8. TotalAt(L, t) = [bias |-> x, slope |-> y, ts |-> t]
      BY DEF TotalAt, Point, f, g
<1>9. TotalAt(L, t) \in PointRec /\ TotalAt(L, t).bias = x /\ TotalAt(L, t).slope = y /\ TotalAt(L, t).ts = t
      BY <1>8 DEF PointRec
<1> QED BY <1>7, <1>9 DEF f, g, h

\* One lock from a time to a later one, with no week beginning between them: its bias falls by its
\* slope, and its slope by what is due at the later time.
LEMMA LockWalks ==
    ASSUME NEW l \in Lock, l.end \in Weeks, NEW from \in Nat, NEW to \in Nat, from <= to,
           NoWeekBetween(from, to)
    PROVE  /\ biasAt(l, to) = biasAt(l, from) + (from - to) * slopeAt(l, from)
           /\ slopeAt(l, to) = slopeAt(l, from) + (-1) * (IF to > from THEN dueAt(l, to) ELSE 0)
           /\ to % WEEK # 0 => dueAt(l, to) = 0
<1> PICK e \in Nat : e = l.end /\ e % WEEK = 0
    BY VeAssumption DEF Weeks, Lock
<1> PICK s \in Nat : s = slopeOf(l)
    BY CountTypes
<1>1. e > from => e >= to
      BY DEF NoWeekBetween
<1>2. /\ slopeAt(l, from) = IF e > from THEN s ELSE 0
      /\ slopeAt(l, to) = IF e > to THEN s ELSE 0
      /\ dueAt(l, to) = IF e = to THEN s ELSE 0
      BY DEF slopeAt, dueAt
<1>3. /\ biasAt(l, from) = (IF e > from THEN s ELSE 0) * (e - from)
      /\ biasAt(l, to) = (IF e > to THEN s ELSE 0) * (e - to)
      BY <1>2 DEF biasAt
<1>4. CASE e <= from
  <2>1. slopeAt(l, from) = 0 /\ slopeAt(l, to) = 0 /\ biasAt(l, from) = 0 /\ biasAt(l, to) = 0
        BY <1>2, <1>3, <1>4
  <2>2. to > from => dueAt(l, to) = 0
        BY <1>2, <1>4
  <2> QED BY <1>2, <2>1, <2>2
<1>5. CASE e > from /\ e = to
  <2>1. slopeAt(l, from) = s /\ slopeAt(l, to) = 0 /\ biasAt(l, from) = s * (e - from) /\ biasAt(l, to) = 0
        BY <1>2, <1>3, <1>5
  <2>2. 0 = s * (e - from) + (from - e) * s
        OBVIOUS
  <2>3. 0 = s + (-1) * s
        OBVIOUS
  <2> QED BY <1>2, <1>5, <2>1, <2>2, <2>3
<1>6. CASE e > from /\ e > to
  <2>1. slopeAt(l, from) = s /\ slopeAt(l, to) = s /\ biasAt(l, from) = s * (e - from) /\ biasAt(l, to) = s * (e - to)
        BY <1>2, <1>3, <1>6
  <2>2. s * (e - to) = s * (e - from) + (from - to) * s
        OBVIOUS
  <2>3. dueAt(l, to) = 0
        BY <1>2, <1>6
  <2> QED BY <2>1, <2>2, <2>3
<1> QED BY <1>1, <1>4, <1>5, <1>6

\* The same of all locks together.
LEMMA TotalWalks ==
    ASSUME NEW L, LocksOK(L), NEW from \in Nat, NEW to \in Nat, from <= to, NoWeekBetween(from, to)
    PROVE  /\ TotalAt(L, to).bias = TotalAt(L, from).bias - TotalAt(L, from).slope * (to - from)
           /\ TotalAt(L, to).slope = TotalAt(L, from).slope
                  - (IF to > from THEN SumFunctionOnSet(duesAt(L, to), Ids) ELSE 0)
           /\ to % WEEK # 0 => SumFunctionOnSet(duesAt(L, to), Ids) = 0
<1>1. L \in [Ids -> Lock] /\ \A i \in Ids : L[i] \in Lock /\ L[i].end \in Weeks
      BY DEF LocksOK
<1> DEFINE f == biasesAt(L, from)
           g == slopesAt(L, from)
           d == duesAt(L, to)
           z == [i \in Ids |-> IF to > from THEN dueAt(L[i], to) ELSE 0]
           f2 == biasesAt(L, to)
           g2 == slopesAt(L, to)
<1>2. /\ \A i \in Ids : f[i] \in Int /\ g[i] \in Int /\ d[i] \in Int /\ z[i] \in Int
      /\ \A i \in Ids : f2[i] = f[i] + (from - to) * g[i] /\ g2[i] = g[i] + (-1) * z[i]
      /\ to % WEEK # 0 => \A i \in Ids : d[i] = 0
      /\ to > from => \A i \in Ids : z[i] = d[i]
      /\ ~(to > from) => \A i \in Ids : z[i] = 0
  <2> SUFFICES ASSUME NEW i \in Ids
               PROVE  /\ f[i] \in Int /\ g[i] \in Int /\ d[i] \in Int /\ z[i] \in Int
                      /\ f2[i] = f[i] + (from - to) * g[i] /\ g2[i] = g[i] + (-1) * z[i]
                      /\ to % WEEK # 0 => d[i] = 0
                      /\ to > from => z[i] = d[i]
                      /\ ~(to > from) => z[i] = 0
      OBVIOUS
  <2> PICK l \in Lock : l = L[i] /\ l.end \in Weeks
      BY <1>1
  <2>1. /\ biasAt(l, to) = biasAt(l, from) + (from - to) * slopeAt(l, from)
        /\ slopeAt(l, to) = slopeAt(l, from) + (-1) * (IF to > from THEN dueAt(l, to) ELSE 0)
        /\ to % WEEK # 0 => dueAt(l, to) = 0
        BY LockWalks
  <2>2. biasAt(l, from) \in Int /\ slopeAt(l, from) \in Int /\ dueAt(l, to) \in Int
        BY CountTypes
  <2>3. /\ f[i] = biasAt(l, from) /\ g[i] = slopeAt(l, from) /\ d[i] = dueAt(l, to)
        /\ f2[i] = biasAt(l, to) /\ g2[i] = slopeAt(l, to)
        /\ z[i] = IF to > from THEN dueAt(l, to) ELSE 0
        BY DEF biasesAt, slopesAt, duesAt
  <2> QED BY <2>1, <2>2, <2>3
<1> HIDE DEF f, g, d, z, f2, g2
<1>3. SumFunctionOnSet(f2, Ids) = SumFunctionOnSet(f, Ids) + (from - to) * SumFunctionOnSet(g, Ids)
  <2>1. from - to \in Int
        OBVIOUS
  <2> QED BY ONLY <1>2, <2>1, IdsFinite, SumLinear
<1>4. SumFunctionOnSet(g2, Ids) = SumFunctionOnSet(g, Ids) + (-1) * SumFunctionOnSet(z, Ids)
  <2>1. -1 \in Int
        OBVIOUS
  <2> QED BY ONLY <1>2, <2>1, IdsFinite, SumLinear
<1>5. to % WEEK # 0 => SumFunctionOnSet(d, Ids) = 0
      BY ONLY <1>2, IdsFinite, SumZero
<1>6. SumFunctionOnSet(z, Ids) = IF to > from THEN SumFunctionOnSet(d, Ids) ELSE 0
  <2>1. CASE to > from
    <3>1. \A i \in Ids : z[i] = d[i]
          BY <1>2, <2>1
    <3>2. SumFunctionOnSet(z, Ids) = SumFunctionOnSet(d, Ids)
          BY ONLY <3>1, IdsFinite, SumSame
    <3> QED BY <2>1, <3>2
  <2>2. CASE ~(to > from)
    <3>1. \A i \in Ids : z[i] = 0
          BY <1>2, <2>2
    <3>2. SumFunctionOnSet(z, Ids) = 0
          BY ONLY <3>1, IdsFinite, SumZero
    <3> QED BY <2>2, <3>2
  <2> QED BY <2>1, <2>2
<1>7. /\ SumFunctionOnSet(f, Ids) \in Nat /\ SumFunctionOnSet(g, Ids) \in Nat
      /\ TotalAt(L, from).bias = SumFunctionOnSet(f, Ids) /\ TotalAt(L, from).slope = SumFunctionOnSet(g, Ids)
      BY <1>1, TotalTypes DEF f, g
<1>8. /\ SumFunctionOnSet(d, Ids) \in Nat
      /\ TotalAt(L, to).bias = SumFunctionOnSet(f2, Ids) /\ TotalAt(L, to).slope = SumFunctionOnSet(g2, Ids)
      BY <1>1, TotalTypes DEF d, f2, g2
<1> PICK F \in Nat, G \in Nat, D \in Nat :
        F = SumFunctionOnSet(f, Ids) /\ G = SumFunctionOnSet(g, Ids) /\ D = SumFunctionOnSet(d, Ids)
    BY <1>7, <1>8
<1>9. F + (from - to) * G = F - G * (to - from)
      OBVIOUS
<1>10. G + (-1) * (IF to > from THEN D ELSE 0) = G - (IF to > from THEN D ELSE 0)
       OBVIOUS
<1>11. TotalAt(L, to).bias = TotalAt(L, from).bias - TotalAt(L, from).slope * (to - from)
       BY <1>3, <1>7, <1>8, <1>9
<1>12. TotalAt(L, to).slope = G - (IF to > from THEN D ELSE 0)
       BY <1>4, <1>6, <1>8, <1>10
<1> QED BY <1>5, <1>7, <1>11, <1>12 DEF d

\* From one stop to the next the point of the total, with the change of slope that is scheduled,
\* stays the sum of the locks; in _checkpoint, where nothing is cut off at zero, and in _supplyAt.
LEMMA NextExact ==
    ASSUME NEW L, LocksOK(L), NEW changes \in [Weeks -> Int], NEW t \in Nat, Scheduled(L, changes, t),
           NEW from \in Nat, NEW to \in Nat, t <= from, from <= to, to <= MaxTime + MAX_TIME,
           NoWeekBetween(from, to)
    PROVE  /\ _nextPoint(changes, TotalAt(L, from), to) = TotalAt(L, to)
           /\ points.slopeChanges = changes => _supplyPoint(TotalAt(L, from), to) = TotalAt(L, to)
<1>1. L \in [Ids -> Lock]
      BY DEF LocksOK
<1>2. /\ TotalAt(L, to).bias = TotalAt(L, from).bias - TotalAt(L, from).slope * (to - from)
      /\ TotalAt(L, to).slope = TotalAt(L, from).slope
             - (IF to > from THEN SumFunctionOnSet(duesAt(L, to), Ids) ELSE 0)
      /\ to % WEEK # 0 => SumFunctionOnSet(duesAt(L, to), Ids) = 0
      BY TotalWalks
<1> PICK b \in Nat, s \in Nat, d \in Nat :
        b = TotalAt(L, from).bias /\ s = TotalAt(L, from).slope /\ d = SumFunctionOnSet(duesAt(L, to), Ids)
  <2>1. TotalAt(L, from).bias \in Nat /\ TotalAt(L, from).slope \in Nat
        BY <1>1, TotalTypes
  <2>2. SumFunctionOnSet(duesAt(L, to), Ids) \in Nat
        BY <1>1, TotalTypes
  <2> QED BY <2>1, <2>2
<1> PICK b2 \in Nat, s2 \in Nat : b2 = TotalAt(L, to).bias /\ s2 = TotalAt(L, to).slope
    BY <1>1, TotalTypes
<1>3. TotalAt(L, from).ts = from /\ TotalAt(L, to) = Point(b2, s2, to)
      BY <1>1, TotalTypes DEF TotalAt, Point
<1>4. _dSlope(changes, from, to) = 0 - (IF to > from THEN d ELSE 0)
  <2>1. CASE to > from /\ to % WEEK = 0
    <3>1. to \in Weeks /\ to > t
          BY <2>1, VeAssumption DEF Weeks
    <3>2. changes[to] = - d /\ - d = 0 - d
          BY <3>1 DEF Scheduled
    <3> QED BY <2>1, <3>2 DEF _dSlope
  <2>2. CASE ~(to > from)
        BY <2>2 DEF _dSlope
  <2>3. CASE to > from /\ to % WEEK # 0
    <3>1. d = 0
          BY <1>2, <2>3
    <3> QED BY <2>3, <3>1 DEF _dSlope
  <2> QED BY <2>1, <2>2, <2>3
<1>5. s + _dSlope(changes, from, to) = s2
      BY <1>2, <1>4
<1>6. b - s * (to - from) = b2
      BY <1>2
<1>7. positiveInt128(b2) = b2 /\ positiveInt128(s2) = s2
      BY DEF positiveInt128
<1> PICK q : q = TotalAt(L, from)
    OBVIOUS
<1>8. q.bias = b /\ q.slope = s /\ q.ts = from
      BY <1>3
<1>9. _nextPoint(changes, q, to) = Point(b2, s2, to)
      BY <1>5, <1>6, <1>7, <1>8 DEF _nextPoint
<1>10. points.slopeChanges = changes => _supplyPoint(q, to) = Point(b2, s2, to)
       BY <1>5, <1>6, <1>8 DEF _supplyPoint
<1> QED BY <1>3, <1>9, <1>10

\* The walk of _checkpoint ends with the sum of the locks now.
LEMMA WalkExact ==
    ASSUME now \in Nat, now <= MaxTime + MAX_TIME, NEW L, LocksOK(L), NEW p,
           p.slopeChanges \in [Weeks -> Int], NEW from \in Nat, from <= now,
           _lastPoint(p) = TotalAt(L, from), Scheduled(L, p.slopeChanges, from),
           now \div WEEK - from \div WEEK < CHECKPOINT_WEEKS
    PROVE  /\ _walk(p) \in Seq(PointRec) /\ Len(_walk(p)) >= 2
           /\ Last(_walk(p)) = TotalAt(L, now)
<1>1. L \in [Ids -> Lock]
      BY DEF LocksOK
<1>2. _lastPoint(p).ts = from
      BY <1>1, TotalTypes
<1> PICK stops : stops = _stops(from, now)
    OBVIOUS
<1>3. StopsOK(stops, from, now)
      BY StopsReach
<1> PICK n \in Nat : n = Len(stops) /\ n >= 1 /\ stops[n] = now /\ stops \in Seq(Nat)
    BY <1>3 DEF StopsOK
<1>4. PICK h : /\ h[0] = <<_lastPoint(p)>> /\ h[n] = _walk(p)
               /\ \A m \in 0..(n - 1) :
                     h[m + 1] = Append(h[m], _nextPoint(p.slopeChanges, Last(h[m]), stops[m + 1]))
  <2>1. stops = _stops(_lastPoint(p).ts, now) /\ stops \in Seq(Nat) /\ n = Len(stops)
        BY <1>2
  <2>2. PICK h : WalksBy(h, p, stops)
        BY ONLY <2>1, WalkTurns
  <2> QED BY ONLY <2>1, <2>2, Zenon DEF WalksBy
<1> DEFINE at(m) == before(stops, from, m + 1)
           G == {m \in 0..n : /\ h[m] \in Seq(PointRec) /\ Len(h[m]) = m + 1
                              /\ Last(h[m]) = TotalAt(L, at(m))}
<1>5. 0 \in G
  <2>1. TotalAt(L, from) \in PointRec
        BY <1>1, TotalTypes
  <2>2. at(0) = from
        BY DEF before
  <2>3. h[0] \in Seq(PointRec) /\ Len(h[0]) = 1 /\ Last(h[0]) = TotalAt(L, from)
        BY <1>4, <2>1 DEF Last
  <2> QED BY <2>2, <2>3
<1>6. ASSUME NEW m \in 0..(n - 1), m \in G
      PROVE  m + 1 \in G
  <2>1. m + 1 \in 1..n /\ m + 1 \in 0..n /\ (m + 1) + 1 # 1 /\ ((m + 1) + 1) - 1 = m + 1
        OBVIOUS
  <2> PICK k \in Nat, to \in Nat : k = at(m) /\ to = stops[m + 1]
    <3>1. stops[m + 1] \in Nat
          BY <2>1
    <3>2. at(m) \in Nat
      <4>1. CASE m = 0
            BY <4>1 DEF before
      <4>2. CASE m # 0
        <5>1. m \in 1..n /\ (m + 1) - 1 = m /\ m + 1 # 1
              BY <4>2
        <5> QED BY <5>1 DEF before
      <4> QED BY <4>1, <4>2
    <3> QED BY <3>1, <3>2
  <2>2. from <= k /\ k <= to /\ to <= now /\ NoWeekBetween(k, to)
        BY <1>3, <2>1 DEF StopsOK
  <2>3. at(m + 1) = to
        BY <2>1 DEF before
  <2> HIDE DEF at
  <2>4. h[m] \in Seq(PointRec) /\ Len(h[m]) = m + 1 /\ Last(h[m]) = TotalAt(L, k)
        BY <1>6
  <2>5. to <= MaxTime + MAX_TIME
    <3>1. PICK last \in Nat : last = MaxTime + MAX_TIME
          BY ONLY EndIsTime
    <3> QED BY <2>2, <3>1
  <2>6. _nextPoint(p.slopeChanges, TotalAt(L, k), to) = TotalAt(L, to)
    <3>1. /\ LocksOK(L) /\ p.slopeChanges \in [Weeks -> Int] /\ Scheduled(L, p.slopeChanges, from)
          /\ from \in Nat /\ k \in Nat /\ to \in Nat
          OBVIOUS
    <3> QED BY ONLY <2>2, <2>5, <3>1, NextExact
  <2>7. TotalAt(L, to) \in PointRec
        BY <1>1, TotalTypes
  <2>8. h[m + 1] = Append(h[m], TotalAt(L, to))
        BY <1>4, <2>4, <2>6
  <2>9. h[m + 1] \in Seq(PointRec) /\ Len(h[m + 1]) = (m + 1) + 1 /\ Last(h[m + 1]) = TotalAt(L, to)
    <3>1. m + 1 \in Nat
          OBVIOUS
    <3> QED BY ONLY <2>4, <2>7, <2>8, <3>1 DEF Last
  <2> QED BY <2>1, <2>3, <2>9
<1>7. n \in G
  <2> HIDE DEF G
  <2>1. \A m \in 0..(n - 1) : m \in G => m + 1 \in G
        BY <1>6
  <2>2. n \in Nat
        OBVIOUS
  <2>3. \A m \in 0..n : m \in G
        BY ONLY <1>5, <2>1, <2>2, CountUp
  <2> QED BY <2>2, <2>3
<1>8. at(n) = now
      BY DEF before
<1> HIDE DEF at
<1> QED BY <1>4, <1>7, <1>8

\* The walk of totalSupplyAtT ends with the sum of the locks at its time.
LEMMA SupplyExact ==
    ASSUME NEW L, LocksOK(L), points.slopeChanges \in [Weeks -> Int], NEW from \in Nat, NEW t \in Nat,
           from <= t, t <= MaxTime + MAX_TIME, Scheduled(L, points.slopeChanges, from),
           t \div WEEK - from \div WEEK < CHECKPOINT_WEEKS
    PROVE  _supplyAt(TotalAt(L, from), t) = TotalAt(L, t)
<1>1. L \in [Ids -> Lock]
      BY DEF LocksOK
<1> PICK q : q = TotalAt(L, from) /\ q.ts = from
    BY <1>1, TotalTypes
<1> PICK stops : stops = _stops(from, t)
    OBVIOUS
<1>3. StopsOK(stops, from, t)
      BY StopsReach
<1> PICK n \in Nat : n = Len(stops) /\ n >= 1 /\ stops[n] = t /\ stops \in Seq(Nat)
    BY <1>3 DEF StopsOK
<1>4. PICK h : /\ h[0] = q /\ h[n] = _supplyAt(q, t)
               /\ \A m \in 0..(n - 1) : h[m + 1] = _supplyPoint(h[m], stops[m + 1])
  <2>1. stops = _stops(q.ts, t) /\ stops \in Seq(Nat) /\ n = Len(stops)
        OBVIOUS
  <2>2. PICK h : SuppliesBy(h, q, t, stops)
        BY ONLY <2>1, SupplyTurns
  <2>3. /\ h[0] = q /\ h[n] = _supplyAt(q, t)
        /\ \A m \in 0..(n - 1) : h[m + 1] = _supplyPoint(h[m], stops[m + 1])
        BY ONLY <2>1, <2>2, Zenon DEF SuppliesBy
  <2> QED BY ONLY <2>3, Zenon
<1> DEFINE at(m) == before(stops, from, m + 1)
           G == {m \in 0..n : h[m] = TotalAt(L, at(m))}
<1>5. 0 \in G
  <2>1. at(0) = from
        BY DEF before
  <2> QED BY <1>4, <2>1
<1>6. ASSUME NEW m \in 0..(n - 1), m \in G
      PROVE  m + 1 \in G
  <2>1. m + 1 \in 1..n /\ m + 1 \in 0..n /\ (m + 1) + 1 # 1 /\ ((m + 1) + 1) - 1 = m + 1
        OBVIOUS
  <2> PICK k \in Nat, to \in Nat : k = at(m) /\ to = stops[m + 1]
    <3>1. stops[m + 1] \in Nat
          BY <2>1
    <3>2. at(m) \in Nat
      <4>1. CASE m = 0
            BY <4>1 DEF before
      <4>2. CASE m # 0
        <5>1. m \in 1..n /\ (m + 1) - 1 = m /\ m + 1 # 1
              BY <4>2
        <5> QED BY <5>1 DEF before
      <4> QED BY <4>1, <4>2
    <3> QED BY <3>1, <3>2
  <2>2. from <= k /\ k <= to /\ to <= t /\ NoWeekBetween(k, to)
        BY <1>3, <2>1 DEF StopsOK
  <2>3. at(m + 1) = to
        BY <2>1 DEF before
  <2> HIDE DEF at
  <2>4. h[m] = TotalAt(L, k)
        BY <1>6
  <2>5. to <= MaxTime + MAX_TIME
    <3>1. PICK last \in Nat : last = MaxTime + MAX_TIME
          BY ONLY EndIsTime
    <3> QED BY <2>2, <3>1
  <2>6. _supplyPoint(TotalAt(L, k), to) = TotalAt(L, to)
        BY <2>2, <2>5, NextExact
  <2>7. h[m + 1] = TotalAt(L, to)
        BY <1>4, <2>4, <2>6
  <2> QED BY <2>1, <2>3, <2>7
<1>7. n \in G
  <2> HIDE DEF G
  <2>1. \A m \in 0..(n - 1) : m \in G => m + 1 \in G
        BY <1>6
  <2>2. n \in Nat
        OBVIOUS
  <2>3. \A m \in 0..n : m \in G
        BY ONLY <1>5, <2>1, <2>2, CountUp
  <2> QED BY <2>2, <2>3
<1>8. at(n) = t
      BY DEF before
<1> HIDE DEF at
<1> QED BY <1>4, <1>7, <1>8

\* Locks that count for nothing.
LEMMA NothingLocked ==
    ASSUME NEW L \in [Ids -> Lock], \A i \in Ids : L[i].derived = 0, NEW t \in Nat
    PROVE  TotalAt(L, t) = Point(0, 0, t)
<1> DEFINE f == biasesAt(L, t)
           g == slopesAt(L, t)
<1>1. ASSUME NEW i \in Ids
      PROVE  f[i] = 0 /\ g[i] = 0
  <2> PICK l \in Lock : l = L[i] /\ l.derived = 0
      OBVIOUS
  <2>1. slopeOf(l) = 0 /\ l.end \in Nat
        BY CountTypes
  <2>2. slopeAt(l, t) = 0
        BY <2>1 DEF slopeAt
  <2>3. biasAt(l, t) = 0
        BY <2>1, <2>2 DEF biasAt
  <2> QED BY <2>2, <2>3 DEF biasesAt, slopesAt
<1> HIDE DEF f, g
<1>2. SumFunctionOnSet(f, Ids) = 0 /\ SumFunctionOnSet(g, Ids) = 0
      BY ONLY <1>1, IdsFinite, SumZero
<1> QED BY <1>2 DEF f, g, TotalAt

\* What is added after the first point of a walk ends the history with the last one.
LEMMA HistoryGrows ==
    ASSUME NEW S, NEW s \in Seq(S), NEW w \in Seq(S), Len(w) >= 2
    PROVE  /\ s \o Tail(w) \in Seq(S) /\ Len(s \o Tail(w)) >= Len(s) + 1
           /\ Last(s \o Tail(w)) = Last(w)
<1>0. /\ Tail(w) \in Seq(S) /\ Len(Tail(w)) = Len(w) - 1
      /\ \A i \in 1..Len(Tail(w)) : Tail(w)[i] = w[i + 1]
  <2>1. w # << >>
        OBVIOUS
  <2> QED BY <2>1
<1> PICK t \in Seq(S) : t = Tail(w) /\ Len(t) = Len(w) - 1 /\ \A i \in 1..Len(t) : t[i] = w[i + 1]
    BY <1>0, Zenon
<1>1. /\ s \o t \in Seq(S) /\ Len(s \o t) = Len(s) + Len(t)
      /\ \A i \in 1..(Len(s) + Len(t)) : (s \o t)[i] = IF i <= Len(s) THEN s[i] ELSE t[i - Len(s)]
      BY Concatenation
<1>2. Len(s) \in Nat /\ Len(t) \in Nat /\ Len(t) >= 1 /\ Len(w) \in Nat
      OBVIOUS
<1>3. (s \o t)[Len(s) + Len(t)] = t[Len(t)]
      BY <1>1, <1>2
<1>4. t[Len(t)] = w[Len(w)]
      BY <1>2
<1> QED BY <1>1, <1>2, <1>3, <1>4 DEF Last

\* A checkpoint of nobody: the total now is the sum of the locks.
LEMMA FilledOK ==
    ASSUME now \in Nat, now <= MaxTime, NEW L, LocksOK(L), NEW p, PointsOK(L, p, now), InReach(p, now)
    PROVE  /\ PointsOK(L, _filled(p), now)
           /\ Last(_filled(p).pointHistory) = TotalAt(L, now)
           /\ Len(_filled(p).pointHistory) >= 2
           /\ _filled(p).slopeChanges = p.slopeChanges
           /\ _filled(p).userPointHistory = p.userPointHistory
<1>1. L \in [Ids -> Lock]
      BY DEF LocksOK
<1>2. /\ p = [pointHistory |-> p.pointHistory, slopeChanges |-> p.slopeChanges,
              userPointHistory |-> p.userPointHistory]
      /\ p.pointHistory \in Seq(PointRec) /\ p.pointHistory # << >>
      /\ Last(p.pointHistory).ts \in StartTime..now
      /\ Last(p.pointHistory) = TotalAt(L, Last(p.pointHistory).ts)
      /\ Len(p.pointHistory) = 1 => \A i \in Ids : L[i].derived = 0
      /\ p.slopeChanges \in [Weeks -> Int]
      /\ Scheduled(L, p.slopeChanges, Last(p.pointHistory).ts)
      /\ UsersOK(L, p, now)
      BY DEF PointsOK, TotalsOK
<1>3. now <= MaxTime + MAX_TIME /\ StartTime \in Nat /\ CHECKPOINT_WEEKS \in Nat \ {0}
      BY VeAssumption
<1> PICK first \in Nat : first = Last(p.pointHistory).ts /\ first <= now /\ StartTime <= first
    BY <1>2, <1>3
<1>4. Scheduled(L, p.slopeChanges, now)
  <2>1. \A w \in Weeks : w > now => w > first
        BY WeeksAreTimes
  <2> QED BY <1>2, <2>1 DEF Scheduled
<1>5. _walk(p) \in Seq(PointRec) /\ Len(_walk(p)) >= 2 /\ Last(_walk(p)) = TotalAt(L, now)
  <2>1. CASE Len(p.pointHistory) = 1
    <3>1. _lastPoint(p) = TotalAt(L, now)
          BY <1>1, <1>2, <2>1, NothingLocked DEF _lastPoint
    <3>2. now \div WEEK - now \div WEEK < CHECKPOINT_WEEKS
      <4>1. PICK q \in Nat : q = now \div WEEK
            BY InWeek
      <4> QED BY <1>3, <4>1
    <3>3. now \in Nat /\ now <= now /\ LocksOK(L) /\ p.slopeChanges \in [Weeks -> Int]
          BY <1>2
    <3> QED BY ONLY <1>3, <1>4, <3>1, <3>2, <3>3, WalkExact
  <2>2. CASE Len(p.pointHistory) # 1
    <3>1. _lastPoint(p) = TotalAt(L, first)
          BY <1>2, <2>2 DEF _lastPoint
    <3>2. now \div WEEK - first \div WEEK < CHECKPOINT_WEEKS
          BY DEF InReach
    <3>3. /\ now \in Nat /\ first \in Nat /\ first <= now /\ LocksOK(L) /\ p.slopeChanges \in [Weeks -> Int]
          /\ Scheduled(L, p.slopeChanges, first)
          BY <1>2
    <3> QED BY ONLY <1>3, <3>1, <3>2, <3>3, WalkExact
  <2> QED BY <2>1, <2>2
<1> PICK w \in Seq(PointRec) : w = _walk(p) /\ Len(w) >= 2 /\ Last(w) = TotalAt(L, now)
    BY <1>5
<1> PICK h : h = p.pointHistory \o Tail(w)
    OBVIOUS
<1>6. h \in Seq(PointRec) /\ Len(h) >= Len(p.pointHistory) + 1 /\ Last(h) = TotalAt(L, now)
      BY <1>2, HistoryGrows
<1>7. Len(p.pointHistory) \in Nat /\ Len(p.pointHistory) >= 1 /\ Len(h) \in Nat
      BY <1>2, <1>6
<1>8. Len(h) >= 2 /\ h # << >>
      BY <1>6, <1>7
<1> PICK r : r = _filled(p)
    OBVIOUS
<1>9. r = [p EXCEPT !.pointHistory = h]
      BY DEF _filled
<1>10. r = [pointHistory |-> h, slopeChanges |-> p.slopeChanges, userPointHistory |-> p.userPointHistory]
       BY <1>2, <1>9
<1>11. TotalAt(L, now).ts = now
       BY <1>1, TotalTypes
<1>12. r.pointHistory = h /\ r.slopeChanges = p.slopeChanges /\ r.userPointHistory = p.userPointHistory
       BY ONLY <1>10
<1>13. Len(h) # 1 /\ now \in StartTime..now
  <2>1. now \in StartTime..now
        BY <1>3
  <2>2. \A n \in Nat : n >= 2 => n # 1
        OBVIOUS
  <2> QED BY ONLY <1>7, <1>8, <2>1, <2>2, Zenon
<1>14. TotalsOK(L, r, now)
       BY <1>2, <1>4, <1>6, <1>8, <1>10, <1>11, <1>12, <1>13 DEF TotalsOK
<1>15. UsersOK(L, r, now)
       BY <1>2, <1>12 DEF UsersOK
<1> QED BY <1>6, <1>8, <1>12, <1>14, <1>15 DEF PointsOK

\* What _userPoint makes of a lock, if it is told its end or the lock counts for nothing.
LEMMA UserPointOf ==
    ASSUME now \in Nat, NEW l \in Lock, NEW end \in Nat, end = l.end \/ l.derived = 0
    PROVE  /\ _userPoint(l.derived, end) = Point(biasAt(l, now), slopeAt(l, now), now)
           /\ _userPoint(l.derived, end) \in PointRec
           /\ end > now => _userPoint(l.derived, end).slope = slopeOf(l)
<1> PICK s \in Nat : s = slopeOf(l) /\ (l.derived = 0 => s = 0)
    BY CountTypes
<1>1. /\ slopeAt(l, now) = IF l.end > now THEN s ELSE 0
      /\ biasAt(l, now) = (IF l.end > now THEN s ELSE 0) * (l.end - now)
      /\ l.end \in Nat
      BY CountTypes DEF slopeAt, biasAt
<1>2. _userPoint(l.derived, end) = IF end > now THEN Point(s * (end - now), s, now) ELSE Point(0, 0, now)
      BY DEF _userPoint, slopeOf
<1>3. IF end > now THEN slopeAt(l, now) = s /\ biasAt(l, now) = s * (end - now)
      ELSE slopeAt(l, now) = 0 /\ biasAt(l, now) = 0
  <2>1. CASE end = l.end
        BY <1>1, <2>1
  <2>2. CASE l.derived = 0
    <3>1. s = 0
          BY <2>2
    <3> QED BY <1>1, <3>1
  <2> QED BY <2>1, <2>2
<1>4. _userPoint(l.derived, end) = Point(biasAt(l, now), slopeAt(l, now), now)
      BY <1>2, <1>3
<1>5. biasAt(l, now) \in Int /\ slopeAt(l, now) \in Int
      BY CountTypes
<1>6. _userPoint(l.derived, end) \in PointRec /\ _userPoint(l.derived, end).slope = slopeAt(l, now)
      BY <1>4, <1>5 DEF Point, PointRec
<1> QED BY <1>3, <1>4, <1>6

\* A sum over the tokens of which one value changes.
MovesAt(f, g, id) ==
    id \in Ids /\ \A y \in Ids : f[y] \in Int /\ g[y] \in Int /\ (y # id => f[y] = g[y])

LEMMA SumMoves ==
    ASSUME NEW f, NEW g, NEW id \in Ids, MovesAt(f, g, id)
    PROVE  SumFunctionOnSet(g, Ids) = SumFunctionOnSet(f, Ids) - f[id] + g[id]
<1>1. \A y \in Ids : f[y] \in Int /\ g[y] \in Int
      BY DEF MovesAt
<1>2. PICK r : r = Ids \ {id}
      OBVIOUS
<1>3. IsFiniteSet(r) /\ \A y \in r : f[y] = g[y] /\ f[y] \in Int
      BY <1>2, IdsFinite, FS_Subset DEF MovesAt
<1>4. SumFunctionOnSet(f, r) = SumFunctionOnSet(g, r) /\ SumFunctionOnSet(f, r) \in Int
  <2>1. SumFunctionOnSet(f, r) = SumFunctionOnSet(g, r)
        BY ONLY <1>3, SumSame
  <2>2. SumFunctionOnSet(f, r) \in Int
        BY ONLY <1>3, SumType
  <2> QED BY ONLY <2>1, <2>2
<1>5. SumFunctionOnSet(f, Ids) = f[id] + SumFunctionOnSet(f, r)
      BY <1>1, <1>2, IdsFinite, SumRemove
<1>6. SumFunctionOnSet(g, Ids) = g[id] + SumFunctionOnSet(g, r)
      BY <1>1, <1>2, IdsFinite, SumRemove
<1>7. f[id] \in Int /\ g[id] \in Int
      BY <1>1
<1> QED BY ONLY <1>4, <1>5, <1>6, <1>7

\* The totals follow a change of one lock.
OneChanged(L, M, id) == \A i \in Ids : i # id => M[i].derived = L[i].derived /\ M[i].end = L[i].end

LEMMA TotalFollows ==
    ASSUME NEW L \in [Ids -> Lock], NEW M \in [Ids -> Lock], NEW id \in Ids, OneChanged(L, M, id), NEW t \in Nat
    PROVE  /\ TotalAt(M, t).bias = TotalAt(L, t).bias - biasAt(L[id], t) + biasAt(M[id], t)
           /\ TotalAt(M, t).slope = TotalAt(L, t).slope - slopeAt(L[id], t) + slopeAt(M[id], t)
           /\ SumFunctionOnSet(duesAt(M, t), Ids)
                  = SumFunctionOnSet(duesAt(L, t), Ids) - dueAt(L[id], t) + dueAt(M[id], t)
<1> DEFINE f == biasesAt(L, t)
           g == slopesAt(L, t)
           d == duesAt(L, t)
           f2 == biasesAt(M, t)
           g2 == slopesAt(M, t)
           d2 == duesAt(M, t)
<1>1. \A i \in Ids : /\ f[i] \in Int /\ g[i] \in Int /\ d[i] \in Int
                     /\ f2[i] \in Int /\ g2[i] \in Int /\ d2[i] \in Int
      BY CountTypes DEF biasesAt, slopesAt, duesAt
<1>2. \A i \in Ids : i # id => f[i] = f2[i] /\ g[i] = g2[i] /\ d[i] = d2[i]
      BY DEF OneChanged, biasesAt, slopesAt, duesAt, biasAt, slopeAt, dueAt, slopeOf
<1>3. /\ f[id] = biasAt(L[id], t) /\ g[id] = slopeAt(L[id], t) /\ d[id] = dueAt(L[id], t)
      /\ f2[id] = biasAt(M[id], t) /\ g2[id] = slopeAt(M[id], t) /\ d2[id] = dueAt(M[id], t)
      BY DEF biasesAt, slopesAt, duesAt
<1>4. id \in Ids
      OBVIOUS
<1> HIDE DEF f, g, d, f2, g2, d2
<1>5. SumFunctionOnSet(f2, Ids) = SumFunctionOnSet(f, Ids) - f[id] + f2[id]
  <2>1. MovesAt(f, f2, id)
        BY ONLY <1>1, <1>2, <1>4 DEF MovesAt
  <2> QED BY ONLY <1>4, <2>1, SumMoves
<1>6. SumFunctionOnSet(g2, Ids) = SumFunctionOnSet(g, Ids) - g[id] + g2[id]
  <2>1. MovesAt(g, g2, id)
        BY ONLY <1>1, <1>2, <1>4 DEF MovesAt
  <2> QED BY ONLY <1>4, <2>1, SumMoves
<1>7. SumFunctionOnSet(d2, Ids) = SumFunctionOnSet(d, Ids) - d[id] + d2[id]
  <2>1. MovesAt(d, d2, id)
        BY ONLY <1>1, <1>2, <1>4 DEF MovesAt
  <2> QED BY ONLY <1>4, <2>1, SumMoves
<1>8. TotalAt(L, t).bias = SumFunctionOnSet(f, Ids) /\ TotalAt(L, t).slope = SumFunctionOnSet(g, Ids)
      BY TotalTypes DEF f, g
<1>9. TotalAt(M, t).bias = SumFunctionOnSet(f2, Ids) /\ TotalAt(M, t).slope = SumFunctionOnSet(g2, Ids)
      BY TotalTypes DEF f2, g2
<1> QED BY <1>3, <1>5, <1>6, <1>7, <1>8, <1>9 DEF d, d2

\* What _checkpoint is told when one lock changes.
Tells(info, L, M) ==
    /\ info.tokenId \in Ids /\ OneChanged(L, M, info.tokenId)
    /\ info.oldDerivedAmount = L[info.tokenId].derived /\ info.newDerivedAmount = M[info.tokenId].derived
    /\ info.oldEnd \in Nat /\ info.newEnd \in Nat
    /\ info.oldEnd = L[info.tokenId].end \/ L[info.tokenId].derived = 0
    /\ info.newEnd = M[info.tokenId].end \/ M[info.tokenId].derived = 0
    /\ info.newEnd >= info.oldEnd \/ info.newEnd <= now

\* The scheduled changes follow too.
LEMMA ScheduleFollows ==
    ASSUME now \in Nat, NEW L \in [Ids -> Lock], NEW M \in [Ids -> Lock], NEW info, Tells(info, L, M),
           NEW changes \in [Weeks -> Int], Scheduled(L, changes, now),
           NEW uOld \in PointRec, info.oldEnd > now => uOld.slope = slopeOf(L[info.tokenId]),
           NEW uNew \in PointRec, info.newEnd > now => uNew.slope = slopeOf(M[info.tokenId])
    PROVE  /\ _newSlopeChanges(changes, info, uOld, uNew) \in [Weeks -> Int]
           /\ Scheduled(M, _newSlopeChanges(changes, info, uOld, uNew), now)
<1> PICK id \in Ids : id = info.tokenId
    BY DEF Tells
<1> PICK l \in Lock, m \in Lock : l = L[id] /\ m = M[id]
    OBVIOUS
<1> PICK eo \in Nat, en \in Nat : eo = info.oldEnd /\ en = info.newEnd
    BY DEF Tells
<1> PICK so \in Nat, sn \in Nat : /\ so = slopeOf(l) /\ sn = slopeOf(m)
                                  /\ (l.derived = 0 => so = 0) /\ (m.derived = 0 => sn = 0)
    BY CountTypes
<1> PICK xo \in Int, xn \in Int : xo = uOld.slope /\ xn = uNew.slope
    BY DEF PointRec
<1>1. (eo > now => xo = so) /\ (en > now => xn = sn)
      OBVIOUS
<1>2. /\ eo = l.end \/ so = 0
      /\ en = m.end \/ sn = 0
      /\ en >= eo \/ en <= now
      BY DEF Tells
<1> DEFINE change(w) == changes[w]
               + (IF w = eo /\ eo > now THEN xo - (IF en = eo THEN xn ELSE 0) ELSE 0)
               - (IF w = en /\ en > now /\ en > eo THEN xn ELSE 0)
<1>3. _newSlopeChanges(changes, info, uOld, uNew) = [w \in Weeks |-> change(w)]
      BY DEF _newSlopeChanges
<1>4. \A w \in Weeks : changes[w] \in Int /\ w \in Nat
      BY WeeksAreTimes
<1>5. [w \in Weeks |-> change(w)] \in [Weeks -> Int]
      BY <1>4
<1>6. ASSUME NEW w \in Weeks, w > now
      PROVE  change(w) = - SumFunctionOnSet(duesAt(M, w), Ids)
  <2>1. w \in Nat
        BY <1>4
  <2> PICK c \in Int : c = changes[w]
      BY <1>4
  <2> PICK a \in Nat, b \in Nat : a = SumFunctionOnSet(duesAt(L, w), Ids) /\ b = SumFunctionOnSet(duesAt(M, w), Ids)
    <3>1. SumFunctionOnSet(duesAt(L, w), Ids) \in Nat
          BY <2>1, TotalTypes
    <3>2. SumFunctionOnSet(duesAt(M, w), Ids) \in Nat
          BY <2>1, TotalTypes
    <3> QED BY <3>1, <3>2
  <2>2. c = - a
        BY <1>6 DEF Scheduled
  <2> PICK dl \in Nat, dm \in Nat : dl = dueAt(l, w) /\ dm = dueAt(m, w)
      BY <2>1, CountTypes
  <2>3. b = a - dl + dm
    <3>1. OneChanged(L, M, id)
          BY DEF Tells
    <3> QED BY <2>1, <3>1, TotalFollows
  <2>4. dl = (IF w = eo THEN so ELSE 0) /\ dm = (IF w = en THEN sn ELSE 0)
        BY <1>2 DEF dueAt
  <2>5. change(w) = c + dl - dm
    <3> HIDE DEF change
    <3>1. change(w) = c
                     + (IF w = eo /\ eo > now THEN xo - (IF en = eo THEN xn ELSE 0) ELSE 0)
                     - (IF w = en /\ en > now /\ en > eo THEN xn ELSE 0)
          BY DEF change
    <3>2. CASE w = eo /\ w = en
          BY <1>1, <1>6, <2>1, <2>4, <3>1, <3>2
    <3>3. CASE w = eo /\ w # en
          BY <1>1, <1>6, <2>1, <2>4, <3>1, <3>3
    <3>4. CASE w # eo /\ w = en
      <4>1. en > now /\ en > eo
            BY <1>2, <1>6, <3>4
      <4> QED BY <1>1, <2>4, <3>1, <3>4, <4>1
    <3>5. CASE w # eo /\ w # en
          BY <2>4, <3>1, <3>5
    <3> QED BY <3>2, <3>3, <3>4, <3>5
  <2> HIDE DEF change
  <2> QED BY <2>2, <2>3, <2>5
<1>7. Scheduled(M, [w \in Weeks |-> change(w)], now)
  <2> HIDE DEF change
  <2> QED BY <1>6 DEF Scheduled
<1> HIDE DEF change
<1> QED BY <1>3, <1>5, <1>7

\* The last element of a sequence replaced.
LEMMA LastReplaced ==
    ASSUME NEW S, NEW s \in Seq(S), s # << >>, NEW e \in S
    PROVE  /\ ReplaceAt(s, Len(s), e) \in Seq(S) /\ Len(ReplaceAt(s, Len(s), e)) = Len(s)
           /\ Last(ReplaceAt(s, Len(s), e)) = e
<1>1. Len(s) \in Nat /\ Len(s) >= 1 /\ Len(s) \in 1..Len(s)
      OBVIOUS
<1> PICK r : r = [s EXCEPT ![Len(s)] = e]
    OBVIOUS
<1>2. r \in Seq(S) /\ Len(r) = Len(s) /\ r[Len(s)] = e
      BY <1>1
<1> QED BY <1>2 DEF ReplaceAt, Last

\* _checkpoint, told of a change of one lock, makes of points that were right of the locks before
\* points that are right of the locks after.
LEMMA CheckpointOK ==
    ASSUME now \in Nat, now <= MaxTime, NEW L, LocksOK(L), NEW M, LocksOK(M),
           NEW p, PointsOK(L, p, now), InReach(p, now), NEW info, Tells(info, L, M)
    PROVE  PointsOK(M, _checkpoint(p, info), now) /\ InReach(_checkpoint(p, info), now)
<1>1. L \in [Ids -> Lock] /\ M \in [Ids -> Lock]
      BY DEF LocksOK
<1> PICK id \in Ids : id = info.tokenId
    BY DEF Tells
<1> PICK l \in Lock, m \in Lock : l = L[id] /\ m = M[id]
    BY <1>1
<1> PICK eo \in Nat, en \in Nat : eo = info.oldEnd /\ en = info.newEnd
    BY DEF Tells
<1> DEFINE uo == _userPoint(info.oldDerivedAmount, info.oldEnd)
           un == _userPoint(info.newDerivedAmount, info.newEnd)
           filled == _filled(p)
           last == Last(filled.pointHistory)
           corrected == [last EXCEPT !.slope = positiveInt128(@ + (un.slope - uo.slope)),
                                     !.bias = positiveInt128(@ + (un.bias - uo.bias))]
           r == _checkpoint(p, info)
<1>2. r = [pointHistory |-> ReplaceAt(filled.pointHistory, Len(filled.pointHistory), corrected),
           slopeChanges |-> _newSlopeChanges(p.slopeChanges, info, uo, un),
           userPointHistory |-> [p.userPointHistory EXCEPT ![info.tokenId] = Append(@, un)]]
      BY Zenon DEF _checkpoint
<1> HIDE DEF r
<1>3. uo = _userPoint(l.derived, eo) /\ un = _userPoint(m.derived, en)
      BY DEF Tells
<1>4. (eo = l.end \/ l.derived = 0) /\ (en = m.end \/ m.derived = 0)
      BY DEF Tells
<1> HIDE DEF uo, un
<1>5. /\ uo = Point(biasAt(l, now), slopeAt(l, now), now) /\ uo \in PointRec
      /\ eo > now => uo.slope = slopeOf(l)
      BY <1>3, <1>4, UserPointOf
<1>6. /\ un = Point(biasAt(m, now), slopeAt(m, now), now) /\ un \in PointRec
      /\ en > now => un.slope = slopeOf(m)
      BY <1>3, <1>4, UserPointOf
<1>7. /\ PointsOK(L, filled, now) /\ last = TotalAt(L, now)
      /\ Len(filled.pointHistory) >= 2 /\ filled.slopeChanges = p.slopeChanges
      /\ filled.userPointHistory = p.userPointHistory
      BY FilledOK
<1> HIDE DEF filled
<1>8. /\ filled.pointHistory \in Seq(PointRec) /\ filled.pointHistory # << >>
      /\ p.slopeChanges \in [Weeks -> Int] /\ Scheduled(L, p.slopeChanges, Last(filled.pointHistory).ts)
      /\ UsersOK(L, filled, now)
      BY <1>7 DEF PointsOK, TotalsOK
<1>9. Last(filled.pointHistory).ts = now /\ Scheduled(L, p.slopeChanges, now)
  <2>1. Last(filled.pointHistory).ts = now
        BY <1>1, <1>7, TotalTypes
  <2> QED BY <1>8, <2>1
<1>10. corrected = TotalAt(M, now) /\ corrected \in PointRec
  <2> PICK b \in Nat, s \in Nat : TotalAt(L, now) = [bias |-> b, slope |-> s, ts |-> now]
                                  /\ b = TotalAt(L, now).bias /\ s = TotalAt(L, now).slope
    <3>1. TotalAt(L, now).bias \in Nat /\ TotalAt(L, now).slope \in Nat
          BY <1>1, TotalTypes
    <3>2. TotalAt(L, now) = [bias |-> TotalAt(L, now).bias, slope |-> TotalAt(L, now).slope, ts |-> now]
          BY <1>1, TotalTypes DEF TotalAt, Point
    <3> QED BY <3>1, <3>2
  <2> PICK b2 \in Nat, s2 \in Nat : TotalAt(M, now) = [bias |-> b2, slope |-> s2, ts |-> now]
                                    /\ b2 = TotalAt(M, now).bias /\ s2 = TotalAt(M, now).slope
    <3>1. TotalAt(M, now).bias \in Nat /\ TotalAt(M, now).slope \in Nat
          BY <1>1, TotalTypes
    <3>2. TotalAt(M, now) = [bias |-> TotalAt(M, now).bias, slope |-> TotalAt(M, now).slope, ts |-> now]
          BY <1>1, TotalTypes DEF TotalAt, Point
    <3> QED BY <3>1, <3>2
  <2> PICK bl \in Nat, sl \in Nat, bm \in Nat, sm \in Nat :
          bl = biasAt(l, now) /\ sl = slopeAt(l, now) /\ bm = biasAt(m, now) /\ sm = slopeAt(m, now)
      BY CountTypes
  <2>1. uo.slope = sl /\ uo.bias = bl /\ un.slope = sm /\ un.bias = bm
        BY <1>5, <1>6 DEF Point
  <2>2. b2 = b - bl + bm /\ s2 = s - sl + sm
    <3>1. OneChanged(L, M, id)
          BY DEF Tells
    <3> QED BY <1>1, <3>1, TotalFollows
  <2>3. positiveInt128(s + (sm - sl)) = s2 /\ positiveInt128(b + (bm - bl)) = b2
        BY <2>2 DEF positiveInt128
  <2>4. corrected = [bias |-> b2, slope |-> s2, ts |-> now]
    <3>1. last = [bias |-> b, slope |-> s, ts |-> now]
          BY <1>7
    <3>2. positiveInt128(last.slope + (un.slope - uo.slope)) = s2 /\ positiveInt128(last.bias + (un.bias - uo.bias)) = b2
          BY <2>1, <2>3, <3>1
    <3> HIDE DEF last
    <3>3. corrected = [last EXCEPT !.slope = s2, !.bias = b2]
          BY <3>2
    <3> HIDE DEF corrected
    <3> QED BY ONLY <3>1, <3>3
  <2> HIDE DEF corrected
  <2>5. corrected \in PointRec
        BY <2>4 DEF PointRec
  <2> QED BY <2>4, <2>5
<1> HIDE DEF corrected, last
<1> PICK h : h = ReplaceAt(filled.pointHistory, Len(filled.pointHistory), corrected)
    OBVIOUS
<1>11. h \in Seq(PointRec) /\ Len(h) = Len(filled.pointHistory) /\ Last(h) = TotalAt(M, now)
       BY <1>8, <1>10, LastReplaced
<1>12. Len(h) # 1 /\ h # << >>
  <2>1. Len(h) \in Nat /\ Len(h) >= 2
        BY <1>7, <1>11
  <2>2. \A n \in Nat : n >= 2 => n # 1 /\ n # 0
        OBVIOUS
  <2>3. Len(h) # 1 /\ Len(h) # 0
        BY ONLY <2>1, <2>2, Zenon
  <2>4. Len(<< >>) = 0
        OBVIOUS
  <2> QED BY ONLY <2>3, <2>4, Zenon
<1>13. Last(h).ts = now /\ now \in StartTime..now
  <2>1. now \in StartTime..now
        BY <1>7, <1>9 DEF PointsOK, TotalsOK
  <2> QED BY <1>1, <1>11, <2>1, TotalTypes
<1> PICK changes : changes = _newSlopeChanges(p.slopeChanges, info, uo, un)
    OBVIOUS
<1>14. changes \in [Weeks -> Int] /\ Scheduled(M, changes, now)
  <2>1. /\ now \in Nat /\ Tells(info, L, M)
        /\ info.oldEnd > now => uo.slope = slopeOf(L[info.tokenId])
        /\ info.newEnd > now => un.slope = slopeOf(M[info.tokenId])
        BY <1>5, <1>6
  <2>2. /\ _newSlopeChanges(p.slopeChanges, info, uo, un) \in [Weeks -> Int]
        /\ Scheduled(M, _newSlopeChanges(p.slopeChanges, info, uo, un), now)
        BY ONLY <1>1, <1>5, <1>6, <1>8, <1>9, <2>1, ScheduleFollows
  <2> QED BY <2>2
<1> PICK users : users = p.userPointHistory
    OBVIOUS
<1> PICK users2 : users2 = [users EXCEPT ![id] = Append(@, un)]
    OBVIOUS
<1>15. r = [pointHistory |-> h, slopeChanges |-> changes, userPointHistory |-> users2]
       BY <1>2
<1>16. r.pointHistory = h /\ r.slopeChanges = changes /\ r.userPointHistory = users2
       BY ONLY <1>15
<1>17. TotalsOK(M, r, now)
       BY <1>11, <1>12, <1>13, <1>14, <1>15, <1>16 DEF TotalsOK
<1>18. users \in [Ids -> Seq(PointRec)] /\ \A i \in Ids : LastPointOK(L[i], users[i], now)
       BY <1>7, <1>8 DEF UsersOK
<1>19. users2 \in [Ids -> Seq(PointRec)] /\ users2[id] = Append(users[id], un)
       /\ \A i \in Ids : i # id => users2[i] = users[i]
       BY <1>6, <1>18
<1>20. ASSUME NEW i \in Ids
       PROVE  LastPointOK(M[i], users2[i], now)
  <2>1. CASE i = id
    <3>1. users2[i] # << >> /\ Last(users2[i]) = un
      <4> PICK u \in Seq(PointRec) : u = users[id]
          BY <1>18
      <4>1. Append(u, un) # << >> /\ Last(Append(u, un)) = un
        <5>1. un \in PointRec
              BY <1>6
        <5>2. Len(Append(u, un)) = Len(u) + 1 /\ Len(u) \in Nat /\ Append(u, un)[Len(u) + 1] = un
              BY <5>1
        <5>3. Len(<< >>) = 0
              OBVIOUS
        <5> QED BY <5>2, <5>3 DEF Last
      <4> QED BY <1>19, <2>1, <4>1
    <3>2. un.ts = now /\ un.bias = biasAt(m, now) /\ un.slope = slopeAt(m, now)
          BY <1>6 DEF Point
    <3> QED BY <2>1, <3>1, <3>2 DEF LastPointOK
  <2>2. CASE i # id
    <3>1. M[i].derived = L[i].derived /\ M[i].end = L[i].end
          BY <2>2 DEF Tells, OneChanged
    <3>2. LastPointOK(L[i], users[i], now) /\ users2[i] = users[i]
          BY <1>18, <1>19, <2>2
    <3> QED BY <3>1, <3>2 DEF LastPointOK, biasAt, slopeAt, slopeOf
  <2> QED BY <2>1, <2>2
<1>21. UsersOK(M, r, now)
       BY <1>16, <1>19, <1>20 DEF UsersOK
<1>22. InReach(r, now)
  <2>1. PICK q \in Nat : q = now \div WEEK
        BY InWeek
  <2>2. CHECKPOINT_WEEKS \in Nat \ {0}
        BY VeAssumption
  <2> QED BY <1>13, <1>16, <2>1, <2>2 DEF InReach
<1> QED BY <1>17, <1>21, <1>22 DEF PointsOK, r

\* Points know of locks only what they count for and when they end.
LEMMA SameCounts ==
    ASSUME NEW L, LocksOK(L), NEW M \in [Ids -> Lock],
           \A i \in Ids : M[i].derived = L[i].derived /\ M[i].end = L[i].end,
           NEW p, NEW t, PointsOK(L, p, t)
    PROVE  LocksOK(M) /\ PointsOK(M, p, t)
<1>1. LocksOK(M)
      BY DEF LocksOK
<1>2. \A u : biasesAt(M, u) = biasesAt(L, u) /\ slopesAt(M, u) = slopesAt(L, u) /\ duesAt(M, u) = duesAt(L, u)
      BY DEF biasesAt, slopesAt, duesAt, biasAt, slopeAt, dueAt, slopeOf
<1>3. \A u : TotalAt(M, u) = TotalAt(L, u)
      BY <1>2, Zenon DEF TotalAt
<1>4. \A c, u : Scheduled(L, c, u) => Scheduled(M, c, u)
      BY <1>2 DEF Scheduled
<1>5. TotalsOK(M, p, t)
  <2>1. TotalsOK(L, p, t)
        BY DEF PointsOK
  <2>2. TotalAt(M, Last(p.pointHistory).ts) = TotalAt(L, Last(p.pointHistory).ts)
        BY <1>3, Zenon
  <2>3. Scheduled(M, p.slopeChanges, Last(p.pointHistory).ts)
        BY <1>4, <2>1, Zenon DEF TotalsOK
  <2> QED BY <2>1, <2>2, <2>3 DEF TotalsOK
<1>6. UsersOK(M, p, t)
      BY DEF PointsOK, UsersOK, LastPointOK, biasAt, slopeAt, slopeOf
<1> QED BY <1>1, <1>5, <1>6 DEF PointsOK

\* The state a call works on has the points of its locks.
VePoints(s) == LocksOK(s.locked) /\ PointsOK(s.locked, s.points, now) /\ InReach(s.points, now)

\* What _depositFor is told of the lock it changes.
DepositTold(info, s) ==
    /\ info.tokenId \in Ids /\ info.value \in Nat /\ info.unlockTime \in Nat /\ info.lockedAmount \in Nat
    /\ info.value # 0 => info.stakingToken \in StakingTokens
    /\ info.lockedDerivedAmount = s.locked[info.tokenId].derived
    /\ info.lockedEnd \in Nat
    /\ info.lockedEnd = s.locked[info.tokenId].end \/ s.locked[info.tokenId].derived = 0
    /\ info.unlockTime = 0 => info.lockedEnd = s.locked[info.tokenId].end
    /\ info.unlockTime # 0 => info.unlockTime \in Weeks /\ info.unlockTime >= info.lockedEnd

LEMMA DepositPoints ==
    ASSUME now \in Nat, now <= MaxTime, NEW s, VeTyped(s), VePoints(s), NEW info, DepositTold(info, s)
    PROVE  VePoints(_depositFor(s, info))
<1> PICK id \in Ids : id = info.tokenId
    BY DEF DepositTold
<1> DEFINE r == _depositFor(s, info)
           newDerived == IF info.value = 0 THEN info.lockedDerivedAmount
                         ELSE _calculateDerivedAmount(info.lockedAmount, info.lockedDerivedAmount,
                                                      info.lockedAmount + info.value, info.stakingToken)
           newEnd == IF info.unlockTime = 0 THEN info.lockedEnd ELSE info.unlockTime
           told == [tokenId |-> info.tokenId, oldDerivedAmount |-> info.lockedDerivedAmount,
                    newDerivedAmount |-> newDerived, oldEnd |-> info.lockedEnd, newEnd |-> newEnd]
<1>1. r.points = _checkpoint(s.points, told)
  <2> DEFINE lock == s.locked[info.tokenId]
             deposited == IF info.value = 0 THEN lock
                          ELSE [lock EXCEPT !.amounts[info.stakingToken] = info.lockedAmount + info.value,
                                            !.derived = newDerived]
             after == IF info.unlockTime = 0 THEN deposited ELSE [deposited EXCEPT !.end = info.unlockTime]
             pulled == IF info.depositType = "MERGE_TYPE" \/ info.value = 0 THEN s.held
                       ELSE [s.held EXCEPT ![info.stakingToken] = @ + info.value]
             pts == _checkpoint(s.points, told)
  <2>1. r = [s EXCEPT !.locked[info.tokenId] = after, !.points = pts, !.held = pulled]
        BY Zenon DEF _depositFor
  <2> HIDE DEF r, pts, after, pulled
  <2>2. s = [locked |-> s.locked, points |-> s.points, nft |-> s.nft, held |-> s.held]
        BY DEF VeTyped
  <2>3. r.points = pts
        BY ONLY <2>1, <2>2
  <2> QED BY <2>3 DEF pts
<1>2. /\ s.locked[id] \in Lock /\ s.locked[id].derived \in Nat /\ s.locked[id].end \in Nat
      BY DEF VeTyped, Lock
<1>3. /\ VeTyped(r)
      /\ \A i \in Ids : i # info.tokenId => r.locked[i] = s.locked[i]
      /\ r.locked[info.tokenId].end = IF info.unlockTime = 0 THEN s.locked[info.tokenId].end ELSE info.unlockTime
      /\ info.value # 0 =>
            r.locked[info.tokenId].derived =
                _calculateDerivedAmount(info.lockedAmount, info.lockedDerivedAmount,
                                        info.lockedAmount + info.value, info.stakingToken)
      /\ info.value = 0 => r.locked[info.tokenId].derived = s.locked[info.tokenId].derived
  <2>1. /\ VeTyped(s) /\ info.tokenId \in Ids /\ info.value \in Nat /\ info.unlockTime \in Nat
        /\ info.lockedAmount \in Nat /\ info.lockedDerivedAmount \in Nat
        /\ info.value # 0 => info.stakingToken \in StakingTokens
        BY <1>2 DEF DepositTold
  <2>2. r = _depositFor(s, info)
        OBVIOUS
  <2> HIDE DEF r
  <2> QED BY ONLY <2>1, <2>2, Deposit
<1> HIDE DEF r
<1>4. newDerived = r.locked[id].derived /\ info.lockedDerivedAmount = s.locked[id].derived
      BY <1>3 DEF DepositTold
<1> HIDE DEF newDerived
<1>5. newEnd = r.locked[id].end /\ newEnd \in Nat /\ newEnd >= info.lockedEnd /\ info.lockedEnd \in Nat
      BY <1>3 DEF DepositTold
<1> HIDE DEF newEnd
<1>6. told.tokenId = id /\ told.oldDerivedAmount = s.locked[id].derived /\ told.newDerivedAmount = r.locked[id].derived
      /\ told.oldEnd = info.lockedEnd /\ told.newEnd = newEnd
      BY <1>4
<1> HIDE DEF told
<1>7. OneChanged(s.locked, r.locked, id)
      BY <1>3 DEF OneChanged
<1>8. Tells(told, s.locked, r.locked)
  <2>1. info.lockedEnd = s.locked[id].end \/ s.locked[id].derived = 0
        BY DEF DepositTold
  <2> QED BY <1>5, <1>6, <1>7, <2>1 DEF Tells
<1>9. LocksOK(s.locked) /\ PointsOK(s.locked, s.points, now) /\ InReach(s.points, now)
      BY DEF VePoints
<1>10. LocksOK(r.locked)
  <2>1. r.locked \in [Ids -> Lock]
        BY <1>3 DEF VeTyped
  <2>2. r.locked[id].end \in Weeks
    <3>1. CASE info.unlockTime = 0
          BY <1>3, <1>9, <3>1 DEF LocksOK
    <3>2. CASE info.unlockTime # 0
          BY <1>3, <3>2 DEF DepositTold
    <3> QED BY <3>1, <3>2
  <2> QED BY <1>3, <1>9, <2>1, <2>2 DEF LocksOK
<1>11. PointsOK(r.locked, r.points, now) /\ InReach(r.points, now)
  <2>1. now \in Nat /\ now <= MaxTime
        OBVIOUS
  <2>2. PointsOK(r.locked, _checkpoint(s.points, told), now) /\ InReach(_checkpoint(s.points, told), now)
        BY ONLY <1>8, <1>9, <1>10, <2>1, CheckpointOK
  <2> QED BY <1>1, <2>2
<1>12. VePoints(r)
       BY <1>10, <1>11 DEF VePoints
<1> QED BY <1>12 DEF r

\* A withdrawal, after the end.
LEMMA WithdrawalPoints ==
    ASSUME now \in Nat, now <= MaxTime, NEW s, VeTyped(s), VePoints(s),
           NEW token \in StakingTokens, NEW id \in Ids, now >= s.locked[id].end
    PROVE  VePoints(_withdrawn(s, token, id))
<1> DEFINE r == _withdrawn(s, token, id)
           lock == s.locked[id]
           derived == _derivedWithout(s, token, id)
           newEnd == IF derived = 0 THEN 0 ELSE lock.end
           told == [tokenId |-> id, oldDerivedAmount |-> lock.derived, newDerivedAmount |-> derived,
                    oldEnd |-> lock.end, newEnd |-> newEnd]
<1>1. r.points = _checkpoint(s.points, told)
  <2> DEFINE after == [amounts |-> [lock.amounts EXCEPT ![token] = 0], derived |-> derived, end |-> newEnd]
             pts == _checkpoint(s.points, told)
             n == IF derived = 0 THEN _burnt(s.nft, id) ELSE s.nft
  <2>1. r = [s EXCEPT !.locked[id] = after, !.points = pts, !.nft = n, !.held[token] = @ - lock.amounts[token]]
        BY Zenon DEF _withdrawn
  <2> HIDE DEF r, pts, n, after
  <2>2. s = [locked |-> s.locked, points |-> s.points, nft |-> s.nft, held |-> s.held]
        BY DEF VeTyped
  <2>3. r.points = pts
        BY ONLY <2>1, <2>2
  <2> QED BY <2>3 DEF pts
<1>2. lock \in Lock /\ lock.derived \in Nat /\ lock.end \in Nat
      BY DEF VeTyped, Lock
<1>3. /\ VeTyped(r)
      /\ \A i \in Ids : i # id => r.locked[i] = s.locked[i]
      /\ r.locked[id].derived = derived /\ r.locked[id].end = IF derived = 0 THEN 0 ELSE s.locked[id].end
  <2>1. VeTyped(s) /\ token \in StakingTokens /\ id \in Ids /\ r = _withdrawn(s, token, id)
        /\ derived = _derivedWithout(s, token, id)
        OBVIOUS
  <2> HIDE DEF r, derived
  <2>2. /\ VeTyped(_withdrawn(s, token, id))
        /\ \A i \in Ids : i # id => _withdrawn(s, token, id).locked[i] = s.locked[i]
        /\ _withdrawn(s, token, id).locked[id].derived = _derivedWithout(s, token, id)
        /\ _withdrawn(s, token, id).locked[id].end = IF _derivedWithout(s, token, id) = 0 THEN 0 ELSE s.locked[id].end
        BY ONLY <2>1, Withdrawal
  <2> QED BY ONLY <2>1, <2>2
<1> HIDE DEF r, derived
<1>4. newEnd = r.locked[id].end /\ newEnd \in Nat /\ newEnd <= now
      BY <1>2, <1>3
<1> HIDE DEF newEnd
<1>5. told.tokenId = id /\ told.oldDerivedAmount = s.locked[id].derived /\ told.newDerivedAmount = r.locked[id].derived
      /\ told.oldEnd = s.locked[id].end /\ told.newEnd = newEnd
      BY <1>3
<1> HIDE DEF told
<1>6. OneChanged(s.locked, r.locked, id)
      BY <1>3 DEF OneChanged
<1>7. Tells(told, s.locked, r.locked)
      BY <1>2, <1>4, <1>5, <1>6 DEF Tells
<1>8. LocksOK(s.locked) /\ PointsOK(s.locked, s.points, now) /\ InReach(s.points, now)
      BY DEF VePoints
<1>9. LocksOK(r.locked)
  <2>1. r.locked \in [Ids -> Lock]
        BY <1>3 DEF VeTyped
  <2>2. r.locked[id].end \in Weeks
    <3> QED BY <1>3, <1>8, ZeroIsWeek DEF LocksOK
  <2> QED BY <1>3, <1>8, <2>1, <2>2 DEF LocksOK
<1>10. PointsOK(r.locked, r.points, now) /\ InReach(r.points, now)
  <2>1. now \in Nat /\ now <= MaxTime
        OBVIOUS
  <2>2. PointsOK(r.locked, _checkpoint(s.points, told), now) /\ InReach(_checkpoint(s.points, told), now)
        BY ONLY <1>7, <1>8, <1>9, <2>1, CheckpointOK
  <2> QED BY <1>1, <2>2
<1>11. VePoints(r)
       BY <1>9, <1>10 DEF VePoints
<1> QED BY <1>11 DEF r

-----------------------------------------------------------------------------
(* Points through the loops.                                               *)

\* merge and split take an amount out of a lock before they deposit it in the other.
LEMMA AmountTaken ==
    ASSUME NEW s, VeTyped(s), VePoints(s), NEW id \in Ids, NEW token \in StakingTokens, NEW a \in Nat
    PROVE  LET u == [s EXCEPT !.locked[id].amounts[token] = a]
           IN  /\ VeTyped(u) /\ VePoints(u)
               /\ \A i \in Ids : u.locked[i].derived = s.locked[i].derived /\ u.locked[i].end = s.locked[i].end
<1> DEFINE u == [s EXCEPT !.locked[id].amounts[token] = a]
<1> PICK l \in Lock : l = s.locked[id] /\ l.amounts \in [StakingTokens -> Nat]
    BY DEF VeTyped, Lock
<1> DEFINE left == [l EXCEPT !.amounts = [l.amounts EXCEPT ![token] = a]]
<1>1. left \in Lock /\ left.end = l.end /\ left.derived = l.derived
      BY DEF Lock
<1>2. u = [locked |-> [s.locked EXCEPT ![id] = left], points |-> s.points, nft |-> s.nft, held |-> s.held]
      BY DEF VeTyped
<1> HIDE DEF left, u
<1>3. VeTyped(u) /\ u.points = s.points /\ u.locked = [s.locked EXCEPT ![id] = left]
      BY <1>1, <1>2 DEF VeTyped
<1>4. \A i \in Ids : u.locked[i].derived = s.locked[i].derived /\ u.locked[i].end = s.locked[i].end
      BY <1>1, <1>3 DEF VeTyped
<1>5. LocksOK(u.locked) /\ PointsOK(u.locked, s.points, now)
  <2>1. LocksOK(s.locked) /\ PointsOK(s.locked, s.points, now) /\ u.locked \in [Ids -> Lock]
        BY <1>3 DEF VePoints, VeTyped
  <2> QED BY ONLY <1>4, <2>1, SameCounts
<1>6. VePoints(u)
      BY <1>3, <1>5 DEF VePoints
<1> QED BY <1>3, <1>4, <1>6 DEF u

MergePoints(s, from) == VePoints(s) /\ s.locked[from].derived = locked[from].derived

LEMMA MergeTurnPoints ==
    ASSUME now \in Nat, now <= MaxTime, VeTyped(ve), LocksOK(locked),
           NEW from \in Ids, NEW to \in Ids, from # to,
           locked[from].end > now, NEW s, MergeOK(s, from, to), MergePoints(s, from), NEW token \in StakingTokens
    PROVE  MergePoints(_mergeToken(s, token, from, to), from)
<1> DEFINE r == _mergeToken(s, token, from, to)
           end == _mergedEnd(from, to)
           amount == s.locked[from].amounts[token]
           u == [s EXCEPT !.locked[from].amounts[token] = 0]
           info == [stakingToken |-> token, tokenId |-> to, value |-> amount,
                    unlockTime |-> end, lockedAmount |-> s.locked[to].amounts[token],
                    lockedDerivedAmount |-> s.locked[to].derived,
                    lockedEnd |-> s.locked[to].end, depositType |-> "MERGE_TYPE"]
<1>1. /\ VeTyped(s) /\ VePoints(s) /\ s.locked[from].derived = locked[from].derived
      /\ s.locked[to].end \in {locked[to].end, end}
      BY DEF MergeOK, MergePoints
<1>2. /\ \A i \in Ids : /\ s.locked[i] \in Lock /\ s.locked[i].amounts \in [StakingTokens -> Nat]
                        /\ s.locked[i].derived \in Nat /\ s.locked[i].end \in Nat
                        /\ locked[i].end \in Nat
      BY <1>1 DEF VeTyped, Lock, ve
<1>3. end \in Weeks /\ end \in Nat /\ end # 0 /\ locked[from].end <= end /\ locked[to].end <= end
  <2>1. end \in Nat /\ locked[from].end <= end /\ locked[to].end <= end
        BY MergedEnd
  <2>2. end \in {locked[from].end, locked[to].end}
    <3> DEFINE S == {locked[from].end, locked[to].end}
    <3>1. \E x \in S : \A y \in S : x >= y
          BY <1>2
    <3>2. Max(S) \in S
      <4> HIDE DEF S
      <4> QED BY <3>1 DEF Max
    <3> QED BY <3>2 DEF _mergedEnd
  <2>3. end \in Weeks
        BY <2>2 DEF LocksOK
  <2> HIDE DEF end
  <2>4. end # 0
        BY <1>2, <2>1
  <2> QED BY <2>1, <2>3, <2>4
<1> HIDE DEF end
<1>4. CASE amount = 0
  <2>1. r = s
        BY <1>4, Zenon DEF _mergeToken
  <2> QED BY <2>1
<1>5. CASE amount # 0
  <2>1. r = _depositFor(u, info)
        BY <1>5, Zenon DEF _mergeToken, end
  <2>2. /\ VeTyped(u) /\ VePoints(u)
        /\ \A i \in Ids : u.locked[i].derived = s.locked[i].derived /\ u.locked[i].end = s.locked[i].end
    <3>1. VeTyped(s) /\ VePoints(s) /\ from \in Ids /\ token \in StakingTokens /\ 0 \in Nat
          BY <1>1
    <3> QED BY ONLY <3>1, AmountTaken
  <2> HIDE DEF u
  <2>3. /\ info.tokenId = to /\ info.value = amount /\ info.unlockTime = end
        /\ info.stakingToken = token
        /\ info.lockedAmount = s.locked[to].amounts[token]
        /\ info.lockedDerivedAmount = s.locked[to].derived /\ info.lockedEnd = s.locked[to].end
        OBVIOUS
  <2>4. amount \in Nat /\ s.locked[to].amounts[token] \in Nat /\ s.locked[to].derived \in Nat
        /\ s.locked[to].end \in Nat /\ s.locked[to].end <= end
        BY <1>1, <1>2, <1>3
  <2> HIDE DEF info, amount, r
  <2>5. DepositTold(info, u)
        BY <1>3, <2>2, <2>3, <2>4 DEF DepositTold
  <2>6. VePoints(r)
    <3>1. now \in Nat /\ now <= MaxTime
          OBVIOUS
    <3> QED BY ONLY <2>1, <2>2, <2>5, <3>1, DepositPoints
  <2>7. r.locked[from] = u.locked[from]
    <3>1. /\ VeTyped(u) /\ info.tokenId \in Ids /\ info.value \in Nat /\ info.unlockTime \in Nat
          /\ info.lockedAmount \in Nat /\ info.lockedDerivedAmount \in Nat
          /\ info.value # 0 => info.stakingToken \in StakingTokens
          BY <1>3, <2>2, <2>3, <2>4
    <3>2. \A i \in Ids : i # info.tokenId => r.locked[i] = u.locked[i]
          BY ONLY <2>1, <3>1, Deposit
    <3> QED BY <2>3, <3>2
  <2>8. MergePoints(r, from)
        BY <1>1, <2>2, <2>6, <2>7 DEF MergePoints
  <2> QED BY <2>8 DEF r
<1> QED BY <1>4, <1>5

LEMMA MergeLoopPoints ==
    ASSUME now \in Nat, now <= MaxTime, VeTyped(ve), VePoints(ve), tokens \in Seq(StakingTokens),
           NEW from \in Ids, NEW to \in Ids, from # to, locked[from].end > now
    PROVE  MergePoints(_merged(from, to), from)
<1>1. PICK h : /\ h[0] = ve /\ h[Len(tokens)] = _merged(from, to)
               /\ \A m \in 0..(Len(tokens) - 1) : h[m + 1] = _mergeToken(h[m], tokens[m + 1], from, to)
      BY MergeTurns
<1> DEFINE n == Len(tokens)
           G == {m \in 0..n : MergeOK(h[m], from, to) /\ MergePoints(h[m], from)}
<1>2. n \in Nat /\ \A j \in 1..n : tokens[j] \in StakingTokens
      OBVIOUS
<1>3. LocksOK(locked)
      BY DEF VePoints, ve
<1>4. 0 \in G
  <2>1. /\ ve.locked = locked /\ ve.nft = nft /\ ve.held = held
        BY DEF ve
  <2>2. MergeOK(ve, from, to)
        BY <2>1 DEF MergeOK
  <2>3. MergePoints(ve, from)
        BY <2>1 DEF MergePoints
  <2> QED BY <1>1, <1>2, <2>2, <2>3
<1>5. ASSUME NEW m \in 0..(n - 1), m \in G
      PROVE  m + 1 \in G
  <2>1. /\ m + 1 \in 1..n /\ tokens[m + 1] \in StakingTokens
        /\ MergeOK(h[m], from, to) /\ MergePoints(h[m], from)
        BY <1>2, <1>5
  <2>2. h[m + 1] = _mergeToken(h[m], tokens[m + 1], from, to)
        BY <1>1
  <2>3. MergeOK(h[m + 1], from, to) /\ MergePoints(h[m + 1], from)
    <3> PICK tk \in StakingTokens : tk = tokens[m + 1]
        BY <2>1
    <3> PICK s : s = h[m]
        OBVIOUS
    <3>1. MergeOK(_mergeToken(s, tk, from, to), from, to)
          BY <2>1, MergeTurn
    <3>2. MergePoints(_mergeToken(s, tk, from, to), from)
          BY <1>3, <2>1, MergeTurnPoints
    <3> QED BY <2>2, <3>1, <3>2
  <2> QED BY <2>1, <2>3
<1>6. n \in G
  <2> HIDE DEF G, n
  <2> QED BY ONLY <1>2, <1>4, <1>5, CountUp
<1> QED BY <1>1, <1>6

SplitPoints(x, id, newId) ==
    /\ VePoints(x.s) /\ x.s.locked[id].derived = locked[id].derived
    /\ x.s.locked[newId].derived = 0 \/ x.s.locked[newId].end = locked[id].end

LEMMA SplitTurnPoints ==
    ASSUME now \in Nat, now <= MaxTime, VeTyped(ve), LocksOK(locked),
           NEW caller, NEW id \in Ids, NEW newId \in Ids, id # newId,
           NEW percent \in Percents, locked[id].end > now, NEW x, SplitOK(x, caller, id, newId, percent),
           SplitPoints(x, id, newId), NEW token \in StakingTokens
    PROVE  SplitPoints(_splitToken(x, token, id, newId, percent), id, newId)
<1> DEFINE r == _splitToken(x, token, id, newId, percent)
           amount == locked[id].amounts[token]
           part == _part(token, id, percent)
           rest == amount - part
           u == [x.s EXCEPT !.locked[id].amounts[token] = rest]
           info == [stakingToken |-> token, tokenId |-> newId, value |-> part,
                    unlockTime |-> locked[id].end, lockedAmount |-> 0,
                    lockedDerivedAmount |-> x.s.locked[newId].derived,
                    lockedEnd |-> locked[id].end, depositType |-> "MERGE_TYPE"]
<1>1. /\ VeTyped(x.s) /\ VePoints(x.s) /\ x.s.locked[id].derived = locked[id].derived
      /\ x.s.locked[newId].derived = 0 \/ x.s.locked[newId].end = locked[id].end
      BY DEF SplitOK, SplitPoints
<1>2. /\ x.s.locked[newId].derived \in Nat /\ locked[id].end \in Nat /\ locked[id].end \in Weeks
      BY <1>1 DEF VeTyped, Lock, ve, LocksOK
<1>3. part \in Nat /\ rest \in Nat /\ locked[id].end # 0
      BY <1>2, PartType
<1>4. CASE amount = 0
  <2>1. r = x
        BY <1>4, Zenon DEF _splitToken
  <2> QED BY <2>1
<1>5. CASE amount # 0
  <2>1. r = [derived |-> _calculateDerivedAmount(amount, x.derived, rest, token), s |-> _depositFor(u, info)]
        BY <1>5, Zenon DEF _splitToken
  <2> HIDE DEF part, rest
  <2>2. /\ VeTyped(u) /\ VePoints(u)
        /\ \A i \in Ids : u.locked[i].derived = x.s.locked[i].derived /\ u.locked[i].end = x.s.locked[i].end
    <3> PICK y : y = x.s
        OBVIOUS
    <3>1. VeTyped(y) /\ VePoints(y) /\ id \in Ids /\ token \in StakingTokens /\ rest \in Nat
          BY <1>1, <1>3
    <3>2. u = [y EXCEPT !.locked[id].amounts[token] = rest]
          OBVIOUS
    <3> HIDE DEF u
    <3>3. /\ VeTyped(u) /\ VePoints(u)
          /\ \A i \in Ids : u.locked[i].derived = y.locked[i].derived /\ u.locked[i].end = y.locked[i].end
          BY ONLY <3>1, <3>2, AmountTaken
    <3> QED BY <3>3
  <2> HIDE DEF u
  <2>3. /\ info.tokenId = newId /\ info.value = part /\ info.unlockTime = locked[id].end
        /\ info.stakingToken = token /\ info.lockedAmount = 0
        /\ info.lockedDerivedAmount = x.s.locked[newId].derived /\ info.lockedEnd = locked[id].end
        OBVIOUS
  <2> HIDE DEF info
  <2> PICK d : d = _depositFor(u, info)
      OBVIOUS
  <2>4. DepositTold(info, u)
        BY <1>1, <1>2, <1>3, <2>2, <2>3 DEF DepositTold
  <2>5. VePoints(d)
    <3>1. now \in Nat /\ now <= MaxTime /\ d = _depositFor(u, info)
          OBVIOUS
    <3> QED BY ONLY <2>2, <2>4, <3>1, DepositPoints
  <2>6. d.locked[id] = u.locked[id] /\ d.locked[newId].end = locked[id].end
    <3>1. /\ VeTyped(u) /\ info.tokenId \in Ids /\ info.value \in Nat /\ info.unlockTime \in Nat
          /\ info.lockedAmount \in Nat /\ info.lockedDerivedAmount \in Nat
          /\ info.value # 0 => info.stakingToken \in StakingTokens
          BY <1>2, <1>3, <2>2, <2>3
    <3>2. d = _depositFor(u, info)
          OBVIOUS
    <3>3. /\ \A i \in Ids : i # info.tokenId => d.locked[i] = u.locked[i]
          /\ d.locked[info.tokenId].end =
                IF info.unlockTime = 0 THEN u.locked[info.tokenId].end ELSE info.unlockTime
          BY ONLY <3>1, <3>2, Deposit
    <3> QED BY <1>3, <2>3, <3>3
  <2>7. r.s = d
        BY <2>1
  <2> HIDE DEF r
  <2>8. SplitPoints(r, id, newId)
        BY <1>1, <2>2, <2>5, <2>6, <2>7 DEF SplitPoints
  <2> QED BY <2>8 DEF r
<1> QED BY <1>4, <1>5

LEMMA SplitLoopPoints ==
    ASSUME now \in Nat, now <= MaxTime, VeTyped(ve), VePoints(ve), tokens \in Seq(StakingTokens), NEW caller,
           NEW id \in Ids, NEW newId \in Ids, id # newId, NEW percent \in Percents,
           locked[id].end > now, locked[newId] = noLock,
           \A token \in ToSet(tokens) : locked[id].amounts[token] # 0 => _part(token, id, percent) # 0
    PROVE  SplitPoints(_split(caller, id, newId, percent), id, newId)
<1> DEFINE base == [derived |-> locked[id].derived, s |-> _mint(caller, newId)]
<1>1. PICK h : /\ h[0] = base
               /\ h[Len(tokens)] = _split(caller, id, newId, percent)
               /\ \A m \in 0..(Len(tokens) - 1) : h[m + 1] = _splitToken(h[m], tokens[m + 1], id, newId, percent)
  <2>1. tokens \in Seq(StakingTokens)
        OBVIOUS
  <2> QED BY ONLY <2>1, SplitTurns
<1> DEFINE n == Len(tokens)
           G == {m \in 0..n : SplitOK(h[m], caller, id, newId, percent) /\ SplitPoints(h[m], id, newId)}
<1>2. n \in Nat /\ \A j \in 1..n : tokens[j] \in StakingTokens /\ tokens[j] \in ToSet(tokens)
      BY DEF ToSet
<1>3. LocksOK(locked)
      BY DEF VePoints, ve
<1>4. 0 \in G
  <2>1. base.s = [locked |-> locked, points |-> points, nft |-> _addTokenTo(nft, caller, newId), held |-> held]
        BY DEF ve, _mint
  <2>2. locked \in [Ids -> Lock] /\ held \in [StakingTokens -> Int] /\ locked[id].derived \in Nat
        BY DEF ve, VeTyped, Lock
  <2>3. VeTyped(base.s)
        BY <2>1, <2>2 DEF VeTyped
  <2>4. locked[newId].derived = 0 /\ \A token \in StakingTokens : locked[newId].amounts[token] = 0
        BY DEF noLock
  <2>5. base = [derived |-> base.derived, s |-> base.s] /\ base.derived = locked[id].derived
        OBVIOUS
  <2> HIDE DEF base
  <2>6. SplitOK(base, caller, id, newId, percent)
        BY <2>1, <2>2, <2>3, <2>4, <2>5 DEF SplitOK
  <2>7. VePoints(base.s)
        BY <2>1 DEF VePoints, ve
  <2>8. SplitPoints(base, id, newId)
        BY <2>1, <2>4, <2>7 DEF SplitPoints
  <2> QED BY <1>1, <1>2, <2>6, <2>8
<1>5. ASSUME NEW m \in 0..(n - 1), m \in G
      PROVE  m + 1 \in G
  <2>1. /\ m + 1 \in 1..n /\ tokens[m + 1] \in StakingTokens /\ tokens[m + 1] \in ToSet(tokens)
        /\ SplitOK(h[m], caller, id, newId, percent) /\ SplitPoints(h[m], id, newId)
        BY <1>2, <1>5
  <2>2. h[m + 1] = _splitToken(h[m], tokens[m + 1], id, newId, percent)
        BY <1>1
  <2>3. SplitOK(h[m + 1], caller, id, newId, percent) /\ SplitPoints(h[m + 1], id, newId)
    <3> PICK tk \in StakingTokens : tk = tokens[m + 1]
        BY <2>1
    <3> PICK x : x = h[m]
        OBVIOUS
    <3>1. locked[id].amounts[tk] # 0 => _part(tk, id, percent) # 0
          BY <2>1
    <3>2. SplitOK(_splitToken(x, tk, id, newId, percent), caller, id, newId, percent)
          BY <2>1, <3>1, SplitTurn
    <3>3. SplitPoints(_splitToken(x, tk, id, newId, percent), id, newId)
          BY <1>3, <2>1, SplitTurnPoints
    <3> QED BY <2>2, <3>2, <3>3
  <2> QED BY <2>1, <2>3
<1>6. n \in G
  <2> HIDE DEF G, n
  <2> QED BY ONLY <1>2, <1>4, <1>5, CountUp
<1> QED BY <1>1, <1>6

LEMMA WithdrawLoopPoints ==
    ASSUME now \in Nat, now <= MaxTime, VeOK(ve), VePoints(ve), tokens \in Seq(StakingTokens),
           NEW caller \in Accounts, NEW id \in Ids
    PROVE  VePoints(_withdrawnAll(caller, id).s)
<1> DEFINE base == [ok |-> TRUE, s |-> ve]
<1>1. PICK h : /\ h[0] = base
               /\ h[Len(tokens)] = _withdrawnAll(caller, id)
               /\ \A m \in 0..(Len(tokens) - 1) : h[m + 1] = _withdrawToken(h[m], tokens[m + 1], caller, id)
  <2>1. tokens \in Seq(StakingTokens)
        OBVIOUS
  <2> QED BY ONLY <2>1, WithdrawTurns, ZenonT(60)
<1> DEFINE n == Len(tokens)
           G == {m \in 0..n : WithdrawOK(h[m], id) /\ VePoints(h[m].s)}
<1>2. n \in Nat /\ \A j \in 1..n : tokens[j] \in StakingTokens
      OBVIOUS
<1>3. 0 \in G
  <2>1. /\ base = [ok |-> base.ok, s |-> base.s] /\ base.s = ve
        /\ ve.locked = locked /\ ve.nft = nft /\ ve.held = held
        BY DEF ve
  <2>2. locked[id].amounts \in [StakingTokens -> Nat] /\ held \in [StakingTokens -> Int]
        BY DEF ve, VeOK, VeTyped, Lock
  <2> HIDE DEF base
  <2>3. \A token \in StakingTokens : held[token] = held[token] - locked[id].amounts[token] + locked[id].amounts[token]
        BY <2>2
  <2>4. WithdrawOK(base, id) /\ VePoints(base.s)
        BY <2>1, <2>3 DEF WithdrawOK
  <2> QED BY <1>1, <1>2, <2>4
<1>4. ASSUME NEW m \in 0..(n - 1), m \in G
      PROVE  m + 1 \in G
  <2>1. m + 1 \in 1..n /\ tokens[m + 1] \in StakingTokens /\ WithdrawOK(h[m], id) /\ VePoints(h[m].s)
        BY <1>2, <1>4
  <2>2. h[m + 1] = _withdrawToken(h[m], tokens[m + 1], caller, id)
        BY <1>1
  <2>3. WithdrawOK(h[m + 1], id) /\ VePoints(h[m + 1].s)
    <3> PICK tk \in StakingTokens : tk = tokens[m + 1]
        BY <2>1
    <3> PICK x : x = h[m]
        OBVIOUS
    <3> PICK r : r = _withdrawToken(x, tk, caller, id)
        OBVIOUS
    <3>1. WithdrawOK(r, id)
          BY <2>1, WithdrawTurn
    <3>2. VePoints(r.s)
      <4>1. CASE x.ok /\ _mayWithdraw(x.s, caller, tk, id) /\ x.s.locked[id].amounts[tk] # 0
        <5> PICK s : s = x.s
            OBVIOUS
        <5>1. /\ VeTyped(s) /\ VePoints(s) /\ now >= s.locked[id].end /\ now \in Nat /\ now <= MaxTime
              /\ id \in Ids /\ tk \in StakingTokens
              BY <2>1, <4>1 DEF WithdrawOK, VeOK, _mayWithdraw
        <5>2. VePoints(_withdrawn(s, tk, id))
              BY ONLY <5>1, WithdrawalPoints
        <5>3. r = [ok |-> TRUE, s |-> _withdrawn(s, tk, id)]
              BY <4>1 DEF _withdrawToken
        <5> QED BY <5>2, <5>3
      <4>2. CASE ~(x.ok /\ _mayWithdraw(x.s, caller, tk, id) /\ x.s.locked[id].amounts[tk] # 0)
        <5>1. r = x \/ r = [ok |-> FALSE, s |-> x.s]
              BY <4>2, Zenon DEF _withdrawToken
        <5>2. r.s = x.s
              BY <5>1
        <5> QED BY <2>1, <5>2
      <4> QED BY <4>1, <4>2
    <3> QED BY <2>2, <3>1, <3>2
  <2> QED BY <2>1, <2>3
<1>5. n \in G
  <2> HIDE DEF G, n
  <2> QED BY ONLY <1>2, <1>3, <1>4, CountUp
<1> QED BY <1>1, <1>5

-----------------------------------------------------------------------------
(* Points through the calls.                                               *)

\* The end a lock is given is a week, no later than MAX_TIME from now.
LEMMA EndIsWeek ==
    ASSUME NEW t \in Nat, weekOf(t) <= MaxTime + MAX_TIME
    PROVE  weekOf(t) \in Weeks
<1>1. WEEK \in Nat \ {0} /\ MaxTime \in Nat /\ MAX_TIME \in Nat
      BY VeAssumption
<1> PICK q \in Nat : q = t \div WEEK
    BY <1>1, Quotient
<1>2. weekOf(t) = q * WEEK /\ weekOf(t) \in Nat
      BY <1>1 DEF weekOf
<1>3. (q * WEEK) % WEEK = 0
      BY <1>1
<1> QED BY <1>1, <1>2, <1>3 DEF Weeks

LEMMA CreatePoints ==
    ASSUME VInv, VePoints(ve), now <= MaxTime, NEW token \in StakingTokens, NEW value \in Values,
           NEW duration \in Durations, NEW to \in Accounts, createLockFor(token, value, duration, to)
    PROVE  \E s : VePoints(s) /\ becomes(s) /\ UNCHANGED now
<1> DEFINE unlockTime == weekOf(now + duration)
           id == tokenId + 1
           info == [stakingToken |-> token, tokenId |-> id, value |-> value, unlockTime |-> unlockTime,
                    lockedAmount |-> 0, lockedDerivedAmount |-> 0, lockedEnd |-> 0,
                    depositType |-> "CREATE_LOCK_TYPE"]
           m == _mint(to, id)
<1>1. /\ tokenId < MaxIds /\ unlockTime > now /\ unlockTime <= now + MAX_TIME
      /\ becomes(_depositFor(m, info)) /\ UNCHANGED now
      BY Zenon DEF createLockFor, OnlyLocksChange
<1>2. /\ value \in Nat /\ unlockTime \in Nat /\ unlockTime \in Weeks
  <2>1. value \in Nat /\ duration \in Nat /\ now \in Nat /\ MAX_TIME \in Nat /\ MaxTime \in Nat
        BY VeAssumption, VInvParts
  <2> PICK t \in Nat : t = now + duration
      BY <2>1
  <2>2. weekOf(t) \in Nat
        BY WeekType
  <2>3. weekOf(t) <= MaxTime + MAX_TIME
        BY <1>1, <2>1, <2>2
  <2>4. weekOf(t) \in Weeks
        BY <2>3, EndIsWeek
  <2> QED BY <2>1, <2>2, <2>4
<1> HIDE DEF unlockTime
<1>3. id \in Ids /\ id > tokenId
      BY <1>1, VInvParts DEF Ids
<1>4. locked[id].derived = 0 /\ locked[id].end = 0
      BY <1>3, VInvParts DEF noLock
<1>5. m = [locked |-> locked, points |-> points, nft |-> _addTokenTo(nft, to, id), held |-> held]
      BY DEF _mint, ve
<1> HIDE DEF m, id
<1>6. VeTyped(m) /\ m.locked = locked /\ m.points = points
      BY <1>5, VInvParts DEF VeTyped
<1>7. VePoints(m)
      BY <1>6 DEF VePoints, ve
<1>8. /\ info.tokenId = id /\ info.value = value /\ info.unlockTime = unlockTime /\ info.stakingToken = token
      /\ info.lockedAmount = 0 /\ info.lockedDerivedAmount = 0 /\ info.lockedEnd = 0
      OBVIOUS
<1> HIDE DEF info
<1>9. DepositTold(info, m)
  <2>1. unlockTime >= 0
        BY <1>2
  <2> QED BY <1>2, <1>3, <1>4, <1>6, <1>8, <2>1 DEF DepositTold
<1>10. VePoints(_depositFor(m, info))
  <2>1. now \in Nat /\ now <= MaxTime
        BY VInvParts
  <2> QED BY ONLY <1>6, <1>7, <1>9, <2>1, DepositPoints
<1> QED BY <1>1, <1>10

LEMMA IncreaseAmountPoints ==
    ASSUME VInv, VePoints(ve), now <= MaxTime, NEW token \in StakingTokens, NEW value \in Values, NEW id \in Ids,
           increaseAmount(token, id, value)
    PROVE  \E s : VePoints(s) /\ becomes(s) /\ UNCHANGED now
<1> DEFINE info == [stakingToken |-> token, tokenId |-> id, value |-> value, unlockTime |-> 0,
                    lockedAmount |-> locked[id].amounts[token], lockedDerivedAmount |-> locked[id].derived,
                    lockedEnd |-> locked[id].end, depositType |-> "INCREASE_LOCK_AMOUNT"]
<1>1. becomes(_depositFor(ve, info)) /\ UNCHANGED now
      BY Zenon DEF increaseAmount, OnlyLocksChange
<1>2. /\ value \in Nat /\ locked[id].amounts[token] \in Nat /\ locked[id].derived \in Nat
      /\ locked[id].end \in Nat /\ ve.locked = locked
      BY VeAssumption, VInvParts
<1>3. /\ info.tokenId = id /\ info.value = value /\ info.unlockTime = 0 /\ info.stakingToken = token
      /\ info.lockedAmount = locked[id].amounts[token] /\ info.lockedDerivedAmount = locked[id].derived
      /\ info.lockedEnd = locked[id].end
      OBVIOUS
<1> HIDE DEF info
<1>4. DepositTold(info, ve)
      BY <1>2, <1>3 DEF DepositTold
<1>5. VePoints(_depositFor(ve, info))
  <2>1. now \in Nat /\ now <= MaxTime /\ VeTyped(ve) /\ VePoints(ve)
        BY VInvParts
  <2> QED BY ONLY <1>4, <2>1, DepositPoints
<1> QED BY <1>1, <1>5

LEMMA IncreaseUnlockTimePoints ==
    ASSUME VInv, VePoints(ve), now <= MaxTime, NEW caller \in Accounts, NEW id \in Ids, NEW duration \in Durations,
           increaseUnlockTime(caller, id, duration)
    PROVE  \E s : VePoints(s) /\ becomes(s) /\ UNCHANGED now
<1> DEFINE unlockTime == weekOf(now + duration)
           info == [stakingToken |-> NULL, tokenId |-> id, value |-> 0, unlockTime |-> unlockTime,
                    lockedAmount |-> 0, lockedDerivedAmount |-> locked[id].derived,
                    lockedEnd |-> locked[id].end, depositType |-> "INCREASE_UNLOCK_TIME"]
<1>1. /\ unlockTime > locked[id].end /\ unlockTime <= now + MAX_TIME
      /\ becomes(_depositFor(ve, info)) /\ UNCHANGED now
      BY Zenon DEF increaseUnlockTime, OnlyLocksChange
<1>2. unlockTime \in Nat /\ unlockTime \in Weeks
  <2>1. duration \in Nat /\ now \in Nat /\ MAX_TIME \in Nat /\ MaxTime \in Nat
        BY VeAssumption, VInvParts
  <2> PICK t \in Nat : t = now + duration
      BY <2>1
  <2>2. weekOf(t) \in Nat
        BY WeekType
  <2>3. weekOf(t) <= MaxTime + MAX_TIME
        BY <1>1, <2>1, <2>2
  <2>4. weekOf(t) \in Weeks
        BY <2>3, EndIsWeek
  <2> QED BY <2>2, <2>4
<1> HIDE DEF unlockTime
<1>3. locked[id].derived \in Nat /\ locked[id].end \in Nat /\ ve.locked = locked
      BY VInvParts
<1>4. /\ info.tokenId = id /\ info.value = 0 /\ info.unlockTime = unlockTime /\ info.lockedAmount = 0
      /\ info.lockedDerivedAmount = locked[id].derived /\ info.lockedEnd = locked[id].end
      OBVIOUS
<1> HIDE DEF info
<1>5. DepositTold(info, ve)
  <2>1. unlockTime # 0 /\ unlockTime >= locked[id].end
        BY <1>1, <1>2, <1>3
  <2> QED BY <1>2, <1>3, <1>4, <2>1 DEF DepositTold
<1>6. VePoints(_depositFor(ve, info))
  <2>1. now \in Nat /\ now <= MaxTime /\ VeTyped(ve) /\ VePoints(ve)
        BY VInvParts
  <2> QED BY ONLY <1>5, <2>1, DepositPoints
<1> QED BY <1>1, <1>6

LEMMA WithdrawPoints ==
    ASSUME VInv, VePoints(ve), now <= MaxTime, NEW caller \in Accounts, NEW token \in StakingTokens, NEW id \in Ids,
           withdraw(caller, token, id)
    PROVE  \E s : VePoints(s) /\ becomes(s) /\ UNCHANGED now
<1>1. _mayWithdraw(ve, caller, token, id) /\ becomes(_withdrawn(ve, token, id)) /\ UNCHANGED now
      BY Zenon DEF withdraw, OnlyLocksChange
<1>2. /\ now \in Nat /\ now <= MaxTime /\ VeTyped(ve) /\ VePoints(ve) /\ token \in StakingTokens /\ id \in Ids
      /\ now >= ve.locked[id].end
      BY <1>1, VInvParts DEF _mayWithdraw
<1>3. VePoints(_withdrawn(ve, token, id))
      BY ONLY <1>2, WithdrawalPoints
<1> QED BY <1>1, <1>3

LEMMA WithdrawAllPoints ==
    ASSUME VInv, VePoints(ve), now <= MaxTime, NEW caller \in Accounts, NEW id \in Ids, withdrawAll(caller, id)
    PROVE  \E s : VePoints(s) /\ becomes(s) /\ UNCHANGED now
<1>1. becomes(_withdrawnAll(caller, id).s) /\ UNCHANGED now
      BY Zenon DEF withdrawAll, OnlyLocksChange
<1>2. /\ now \in Nat /\ now <= MaxTime /\ VeOK(ve) /\ VePoints(ve) /\ tokens \in Seq(StakingTokens)
      /\ caller \in Accounts /\ id \in Ids
      BY VInvParts DEF VInv
<1>3. VePoints(_withdrawnAll(caller, id).s)
      BY ONLY <1>2, WithdrawLoopPoints
<1> QED BY <1>1, <1>3

LEMMA MergeCallPoints ==
    ASSUME VInv, VePoints(ve), now <= MaxTime, NEW caller \in Accounts, NEW from \in Ids, NEW to \in Ids,
           merge(caller, from, to)
    PROVE  \E s : VePoints(s) /\ becomes(s) /\ UNCHANGED now
<1> DEFINE info == [tokenId |-> from, oldDerivedAmount |-> locked[from].derived, newDerivedAmount |-> 0,
                    oldEnd |-> locked[from].end, newEnd |-> locked[from].end]
           m == _merged(from, to)
           r == [m EXCEPT !.locked[from] = [@ EXCEPT !.derived = 0, !.end = 0],
                          !.points = _checkpoint(@, info), !.nft = _burnt(@, from)]
<1>1. from # to /\ locked[from].end > now /\ becomes(r) /\ UNCHANGED now
      BY Zenon DEF merge, OnlyLocksChange
<1>2. /\ now \in Nat /\ now <= MaxTime /\ VeTyped(ve) /\ VePoints(ve) /\ tokens \in Seq(StakingTokens)
      /\ from \in Ids /\ to \in Ids
      BY VInvParts
<1>3. MergeOK(m, from, to)
      BY ONLY <1>1, <1>2, MergeLoop
<1>4. VePoints(m) /\ m.locked[from].derived = locked[from].derived
  <2>1. MergePoints(m, from)
        BY ONLY <1>1, <1>2, MergeLoopPoints
  <2> HIDE DEF m
  <2> QED BY <2>1 DEF MergePoints
<1>5. /\ info.tokenId = from /\ info.oldDerivedAmount = locked[from].derived /\ info.newDerivedAmount = 0
      /\ info.oldEnd = locked[from].end /\ info.newEnd = locked[from].end
      OBVIOUS
<1> HIDE DEF info, m
<1>6. /\ m = [locked |-> m.locked, points |-> m.points, nft |-> m.nft, held |-> m.held]
      /\ m.locked \in [Ids -> Lock] /\ m.locked[from].end = locked[from].end
      BY <1>3 DEF MergeOK, VeTyped
<1>7. /\ r.locked = [m.locked EXCEPT ![from] = [@ EXCEPT !.derived = 0, !.end = 0]]
      /\ r.points = _checkpoint(m.points, info)
  <2> DEFINE M == [m.locked EXCEPT ![from] = [@ EXCEPT !.derived = 0, !.end = 0]]
             P == _checkpoint(m.points, info)
             N == _burnt(m.nft, from)
  <2>1. r = [m EXCEPT !.locked = M, !.points = P, !.nft = N]
        BY Zenon
  <2> HIDE DEF M, P, N, r
  <2>2. r = [locked |-> M, points |-> P, nft |-> N, held |-> m.held]
        BY <1>6, <2>1
  <2>3. r.locked = M /\ r.points = P
        BY <2>2
  <2> QED BY <2>3 DEF M, P
<1> HIDE DEF r
<1>8. /\ r.locked \in [Ids -> Lock]
      /\ \A i \in Ids : i # from => r.locked[i] = m.locked[i]
      /\ r.locked[from].derived = 0 /\ r.locked[from].end = 0
  <2> PICK k \in Lock : k = m.locked[from]
      BY <1>6
  <2> PICK j : j = [k EXCEPT !.derived = 0, !.end = 0]
      OBVIOUS
  <2>1. j \in Lock /\ j.derived = 0 /\ j.end = 0
        BY DEF Lock
  <2>2. r.locked = [m.locked EXCEPT ![from] = j]
        BY <1>7
  <2> QED BY <1>6, <2>1, <2>2
<1>9. LocksOK(m.locked) /\ PointsOK(m.locked, m.points, now) /\ InReach(m.points, now)
      BY <1>4 DEF VePoints
<1>10. LocksOK(r.locked)
       BY <1>8, <1>9, ZeroIsWeek DEF LocksOK
<1>11. Tells(info, m.locked, r.locked)
  <2>1. OneChanged(m.locked, r.locked, from)
        BY <1>8 DEF OneChanged
  <2>2. locked[from].end \in Nat /\ locked[from].end >= locked[from].end
        BY VInvParts
  <2> QED BY <1>4, <1>5, <1>6, <1>8, <2>1, <2>2 DEF Tells
<1>12. PointsOK(r.locked, r.points, now) /\ InReach(r.points, now)
  <2>1. PointsOK(r.locked, _checkpoint(m.points, info), now) /\ InReach(_checkpoint(m.points, info), now)
        BY ONLY <1>2, <1>9, <1>10, <1>11, CheckpointOK
  <2> QED BY <1>7, <2>1
<1>13. VePoints(r)
       BY <1>10, <1>12 DEF VePoints
<1> QED BY <1>1, <1>13

LEMMA SplitCallPoints ==
    ASSUME VInv, VePoints(ve), now <= MaxTime, NEW caller \in Accounts, NEW id \in Ids, NEW percent \in Percents,
           split(caller, id, percent)
    PROVE  \E s : VePoints(s) /\ becomes(s) /\ UNCHANGED now
<1> DEFINE newId == tokenId + 1
           x == _split(caller, id, newId, percent)
           info == [tokenId |-> id, oldDerivedAmount |-> locked[id].derived, newDerivedAmount |-> x.derived,
                    oldEnd |-> locked[id].end, newEnd |-> locked[id].end]
           r == [x.s EXCEPT !.locked[id].derived = x.derived, !.points = _checkpoint(@, info)]
<1>1. /\ tokenId < MaxIds /\ nft.idToOwner[id] = caller /\ locked[id].end > now
      /\ \A token \in ToSet(tokens) : locked[id].amounts[token] # 0 => _part(token, id, percent) # 0
      /\ becomes(r) /\ UNCHANGED now
      BY Zenon DEF split, OnlyLocksChange
<1>2. newId \in Ids /\ newId > tokenId
      BY <1>1, VInvParts DEF Ids
<1>3. id # newId
      BY <1>1, <1>2, VInvParts DEF Ids
<1>4. locked[newId] = noLock
      BY <1>2, VInvParts
<1> HIDE DEF newId
<1>5. /\ now \in Nat /\ now <= MaxTime /\ VeTyped(ve) /\ VePoints(ve) /\ tokens \in Seq(StakingTokens)
      /\ id \in Ids /\ percent \in Percents
      BY VInvParts
<1>6. SplitOK(x, caller, id, newId, percent)
      BY ONLY <1>1, <1>2, <1>3, <1>4, <1>5, SplitLoop
<1>7. SplitPoints(x, id, newId)
      BY ONLY <1>1, <1>2, <1>3, <1>4, <1>5, SplitLoopPoints
<1>8. /\ info.tokenId = id /\ info.oldDerivedAmount = locked[id].derived /\ info.newDerivedAmount = x.derived
      /\ info.oldEnd = locked[id].end /\ info.newEnd = locked[id].end
      OBVIOUS
<1> HIDE DEF info, x
<1> PICK m : m = x.s
    OBVIOUS
<1>9. /\ m = [locked |-> m.locked, points |-> m.points, nft |-> m.nft, held |-> m.held]
      /\ m.locked \in [Ids -> Lock] /\ m.locked[id].end = locked[id].end /\ x.derived \in Nat
      /\ VePoints(m) /\ m.locked[id].derived = locked[id].derived
      BY <1>6, <1>7 DEF SplitOK, VeTyped, SplitPoints
<1>10. /\ r.locked = [m.locked EXCEPT ![id] = [@ EXCEPT !.derived = x.derived]]
       /\ r.points = _checkpoint(m.points, info)
  <2> DEFINE M == [m.locked EXCEPT ![id] = [@ EXCEPT !.derived = x.derived]]
             P == _checkpoint(m.points, info)
  <2>1. r = [m EXCEPT !.locked = M, !.points = P]
        BY Zenon
  <2> HIDE DEF M, P, r
  <2>2. r = [locked |-> M, points |-> P, nft |-> m.nft, held |-> m.held]
        BY <1>9, <2>1
  <2>3. r.locked = M /\ r.points = P
        BY <2>2
  <2> QED BY <2>3 DEF M, P
<1> HIDE DEF r
<1>11. /\ r.locked \in [Ids -> Lock]
       /\ \A i \in Ids : i # id => r.locked[i] = m.locked[i]
       /\ r.locked[id].derived = x.derived /\ r.locked[id].end = m.locked[id].end
  <2> PICK k \in Lock : k = m.locked[id]
      BY <1>9
  <2> PICK j : j = [k EXCEPT !.derived = x.derived]
      OBVIOUS
  <2>1. j \in Lock /\ j.derived = x.derived /\ j.end = k.end
        BY <1>9 DEF Lock
  <2>2. r.locked = [m.locked EXCEPT ![id] = j]
        BY <1>10
  <2> QED BY <1>9, <2>1, <2>2
<1>12. LocksOK(m.locked) /\ PointsOK(m.locked, m.points, now) /\ InReach(m.points, now)
       BY <1>9 DEF VePoints
<1>13. LocksOK(r.locked)
       BY <1>11, <1>12 DEF LocksOK
<1>14. Tells(info, m.locked, r.locked)
  <2>1. OneChanged(m.locked, r.locked, id)
        BY <1>11 DEF OneChanged
  <2>2. locked[id].end \in Nat /\ locked[id].end >= locked[id].end
        BY VInvParts
  <2> QED BY <1>8, <1>9, <1>11, <2>1, <2>2 DEF Tells
<1>15. PointsOK(r.locked, r.points, now) /\ InReach(r.points, now)
  <2>1. PointsOK(r.locked, _checkpoint(m.points, info), now) /\ InReach(_checkpoint(m.points, info), now)
        BY ONLY <1>5, <1>12, <1>13, <1>14, CheckpointOK
  <2> QED BY <1>10, <2>1
<1>16. VePoints(r)
       BY <1>13, <1>15 DEF VePoints
<1> QED BY <1>1, <1>16

LEMMA LockCallPoints ==
    ASSUME VInv, VePoints(ve), now <= MaxTime, LockCall
    PROVE  \E s : VePoints(s) /\ becomes(s) /\ UNCHANGED now
<1>1. CASE \E token \in StakingTokens, value \in Values, duration \in Durations, to \in Accounts :
              createLockFor(token, value, duration, to)
      BY <1>1, CreatePoints, Zenon
<1>2. CASE \E token \in StakingTokens, id \in Ids, value \in Values : increaseAmount(token, id, value)
      BY <1>2, IncreaseAmountPoints, Zenon
<1>3. CASE \E caller \in Accounts, id \in Ids, duration \in Durations : increaseUnlockTime(caller, id, duration)
      BY <1>3, IncreaseUnlockTimePoints, Zenon
<1>4. CASE \E caller \in Accounts, from, to \in Ids : merge(caller, from, to)
      BY <1>4, MergeCallPoints, Zenon
<1>5. CASE \E caller \in Accounts, id \in Ids, percent \in Percents : split(caller, id, percent)
      BY <1>5, SplitCallPoints, Zenon
<1>6. CASE \E caller \in Accounts, token \in StakingTokens, id \in Ids : withdraw(caller, token, id)
      BY <1>6, WithdrawPoints, Zenon
<1>7. CASE \E caller \in Accounts, id \in Ids : withdrawAll(caller, id)
      BY <1>7, WithdrawAllPoints, Zenon
<1> QED BY Zenon, <1>1, <1>2, <1>3, <1>4, <1>5, <1>6, <1>7 DEF LockCall

-----------------------------------------------------------------------------
(* The points are those of the locks, as long as no loop over weeks is cut *)
(* short.                                                                  *)

PInv ==
    /\ VInv /\ now \in StartTime..MaxTime
    /\ LocksOK(locked) /\ PointsOK(locked, points, now)

\* Points do not become wrong with time.
LEMMA PointsLast ==
    ASSUME NEW L, NEW p, NEW t \in Nat, NEW u \in Nat, t <= u, PointsOK(L, p, t)
    PROVE  PointsOK(L, p, u)
<1>0. StartTime \in Nat
      BY VeAssumption
<1>1. TotalsOK(L, p, u)
  <2>1. Last(p.pointHistory).ts \in StartTime..t
        BY DEF PointsOK, TotalsOK
  <2>2. Last(p.pointHistory).ts \in StartTime..u
        BY <1>0, <2>1
  <2> QED BY <2>2 DEF PointsOK, TotalsOK
<1>2. UsersOK(L, p, u)
  <2>1. /\ p.userPointHistory \in [Ids -> Seq(PointRec)]
        /\ \A i \in Ids : LastPointOK(L[i], p.userPointHistory[i], t)
        BY DEF PointsOK, UsersOK
  <2>2. ASSUME NEW i \in Ids
        PROVE  LastPointOK(L[i], p.userPointHistory[i], u)
    <3> PICK h \in Seq(PointRec) : h = p.userPointHistory[i]
        BY <2>1
    <3>1. CASE h = << >>
          BY <2>1, <3>1 DEF LastPointOK
    <3>2. CASE h # << >>
      <4>1. Last(h) \in PointRec
        <5>1. Len(h) \in 1..Len(h)
              BY <3>2
        <5> QED BY <5>1 DEF Last
      <4>2. Last(h).ts \in Nat /\ Last(h).ts <= t
            BY <2>1, <3>2, <4>1 DEF LastPointOK, PointRec
      <4>3. Last(h).ts <= u
            BY <4>2
      <4> QED BY <2>1, <3>2, <4>3 DEF LastPointOK
    <3> QED BY <3>1, <3>2
  <2> QED BY <2>1, <2>2 DEF UsersOK
<1> QED BY <1>1, <1>2 DEF PointsOK

LEMMA PInvBegins ==
    ASSUME Init
    PROVE  PInv
<1>1. /\ now = StartTime /\ locked = [id \in Ids |-> noLock]
      /\ points = [pointHistory |-> <<Point(0, 0, StartTime)>>,
                   userPointHistory |-> [id \in Ids |-> << >>],
                   slopeChanges |-> [w \in Weeks |-> 0]]
      BY Zenon DEF Init, VeInit
<1>2. StartTime \in Nat /\ MaxTime \in Nat /\ StartTime <= MaxTime
      BY VeAssumption
<1>3. noLock \in Lock /\ noLock.derived = 0 /\ noLock.end = 0
      BY DEF Lock, noLock
<1>4. LocksOK(locked) /\ locked \in [Ids -> Lock] /\ \A i \in Ids : locked[i].derived = 0 /\ locked[i].end = 0
      BY <1>1, <1>3, ZeroIsWeek DEF LocksOK
<1> PICK first : first = Point(0, 0, StartTime)
    OBVIOUS
<1>0. first \in PointRec /\ first.ts = StartTime
      BY <1>2 DEF Point, PointRec
<1>5. /\ points.pointHistory = <<first>> /\ points.userPointHistory = [id \in Ids |-> << >>]
      /\ points.slopeChanges = [w \in Weeks |-> 0]
      BY <1>1
<1>6. points = [pointHistory |-> points.pointHistory, slopeChanges |-> points.slopeChanges,
                userPointHistory |-> points.userPointHistory]
      BY <1>1
<1>7. points.pointHistory \in Seq(PointRec) /\ points.pointHistory # << >> /\ Last(points.pointHistory) = first
      BY <1>0, <1>5 DEF Last
<1>8. first = TotalAt(locked, StartTime)
      BY <1>2, <1>4, NothingLocked
<1>9. Scheduled(locked, points.slopeChanges, StartTime)
  <2> SUFFICES ASSUME NEW w \in Weeks
               PROVE  points.slopeChanges[w] = - SumFunctionOnSet(duesAt(locked, w), Ids)
      BY DEF Scheduled
  <2> DEFINE f == duesAt(locked, w)
  <2>1. ASSUME NEW i \in Ids
        PROVE  f[i] = 0
    <3> PICK l \in Lock : l = locked[i] /\ l.derived = 0
        BY <1>4
    <3>1. slopeOf(l) = 0
          BY CountTypes
    <3> QED BY <3>1 DEF duesAt, dueAt
  <2> HIDE DEF f
  <2>2. SumFunctionOnSet(f, Ids) = 0
        BY ONLY <2>1, IdsFinite, SumZero
  <2> PICK z \in Nat : z = SumFunctionOnSet(f, Ids)
      BY <2>2
  <2> PICK c \in Int : c = - z
      OBVIOUS
  <2>0. c + z = 0
        OBVIOUS
  <2>3. - z = 0
    <3>1. \A x, y \in Int : x + y = 0 /\ y = 0 => x = 0
          OBVIOUS
    <3>2. c = 0
      <4>1. c \in Int /\ z \in Int /\ c + z = 0 /\ z = 0
            BY <2>0, <2>2
      <4> QED BY ONLY <3>1, <4>1, Zenon
    <3> QED BY <3>2, Zenon
  <2>4. points.slopeChanges[w] = 0
        BY <1>5
  <2> QED BY <2>3, <2>4 DEF f
<1>10. TotalsOK(locked, points, now)
  <2>1. points.slopeChanges \in [Weeks -> Int]
        BY <1>5
  <2>2. StartTime \in StartTime..now
        BY <1>1, <1>2
  <2> QED BY <1>0, <1>4, <1>6, <1>7, <1>8, <1>9, <2>1, <2>2 DEF TotalsOK
<1>11. UsersOK(locked, points, now)
  <2>1. points.userPointHistory \in [Ids -> Seq(PointRec)]
        BY <1>5
  <2> QED BY <1>4, <1>5, <2>1 DEF UsersOK, LastPointOK
<1>12. VInv
       BY VeBegins
<1>13. now \in StartTime..MaxTime
       BY <1>1, <1>2
<1> QED BY <1>4, <1>10, <1>11, <1>12, <1>13 DEF PInv, PointsOK

\* Steps that change no lock: points stay as they are or are brought up to now.
LEMMA OtherPoints ==
    ASSUME NFTCall \/ GovernanceCall \/ checkpoint \/ Distribute \/ TimePasses \/ UNCHANGED vars
    PROVE  /\ locked' = locked
           /\ \/ now' = now /\ points' \in {points, _filled(points)}
              \/ now' = Min({now + 1, MaxTime}) /\ points' = points
<1>1. CASE checkpoint
      BY <1>1, Zenon DEF checkpoint
<1>2. CASE init
      BY <1>2, Zenon DEF init, veVars
<1>3. ASSUME NEW amount, receive(amount)
      PROVE  UNCHANGED <<now, locked>> /\ points' \in {points, _filled(points)}
      BY <1>3, Zenon DEF receive, OnlyPoints, _checkpointTotalSupply
<1>4. CASE checkpointTotalSupply
      BY <1>4, Zenon DEF checkpointTotalSupply, OnlyPoints, _checkpointTotalSupply
<1>5. ASSUME NEW ids, _claims(ids)
      PROVE  UNCHANGED <<now, locked>> /\ points' \in {points, _filled(points)}
      BY <1>5, Zenon DEF _claims, OnlyPoints, _checkpointTotalSupply
<1>6. CASE TimePasses
      BY <1>6, Zenon DEF TimePasses
<1>7. CASE UNCHANGED vars
      BY <1>7, Zenon DEF vars, veVars
<1>8. CASE NFTCall
      BY <1>8, Zenon DEF NFTCall, safeTransferFrom, approve, setApprovalForAll, OnlyNFTsChange
<1>9. CASE GovernanceCall
      BY <1>9, Zenon DEF GovernanceCall, announceAction, whitelistTransferFor, addToken, OnlyGovernance
<1> QED BY <1>1, <1>2, <1>3, <1>4, <1>5, <1>6, <1>7, <1>8, <1>9, Zenon DEF Distribute, claim, claimMany

LEMMA PInvStep ==
    ASSUME PInv, InReach(points, now), [Next]_vars
    PROVE  PInv'
<1>1. VInv /\ now \in Nat /\ now >= StartTime /\ now <= MaxTime /\ StartTime \in Nat /\ MaxTime \in Nat
      BY VeAssumption DEF PInv, VInv
<1>2. VInv'
      BY <1>1, VeStep
<1>3. LocksOK(locked) /\ PointsOK(locked, points, now)
      BY DEF PInv
<1>4. /\ now' \in StartTime..MaxTime /\ LocksOK(locked')
      /\ PointsOK(locked', points', now')
  <2>1. CASE LockCall
    <3>1. VePoints(ve)
          BY <1>3 DEF VePoints, ve
    <3>2. PICK s : VePoints(s) /\ becomes(s) /\ UNCHANGED now
          BY <1>1, <2>1, <3>1, LockCallPoints
    <3>3. locked' = s.locked /\ points' = s.points /\ now' = now
          BY <3>2 DEF becomes
    <3>4. LocksOK(s.locked) /\ PointsOK(s.locked, s.points, now)
          BY <3>2 DEF VePoints
    <3> QED BY <1>1, <3>3, <3>4
  <2>2. CASE NFTCall \/ GovernanceCall \/ checkpoint \/ Distribute \/ TimePasses \/ UNCHANGED vars
    <3>1. /\ locked' = locked
          /\ \/ now' = now /\ points' \in {points, _filled(points)}
             \/ now' = Min({now + 1, MaxTime}) /\ points' = points
          BY <2>2, OtherPoints
    <3>2. CASE now' = now /\ points' \in {points, _filled(points)}
      <4>1. PointsOK(locked, _filled(points), now)
        <5>1. InReach(points, now)
              OBVIOUS
        <5> QED BY ONLY <1>1, <1>3, <5>1, FilledOK
      <4> QED BY <1>1, <1>3, <3>1, <3>2, <4>1
    <3>3. CASE now' = Min({now + 1, MaxTime}) /\ points' = points
      <4>1. now' \in now..MaxTime
        <5>1. \A m, k \in Nat : Min({m, k}) \in {m, k} /\ Min({m, k}) <= k
          <6> SUFFICES ASSUME NEW m \in Nat, NEW k \in Nat
                       PROVE  Min({m, k}) \in {m, k} /\ Min({m, k}) <= k
              OBVIOUS
          <6>1. \E x \in {m, k} : \A y \in {m, k} : x <= y
                OBVIOUS
          <6> QED BY <6>1 DEF Min
        <5>2. now + 1 \in Nat
              BY <1>1
        <5> QED BY <1>1, <3>3, <5>1, <5>2
      <4>2. now' \in Nat /\ now <= now' /\ now' \in StartTime..MaxTime
            BY <1>1, <4>1
      <4>3. PointsOK(locked, points, now')
            BY ONLY <1>1, <1>3, <4>2, PointsLast
      <4> QED BY <1>3, <3>1, <3>3, <4>2, <4>3
    <3> QED BY <3>1, <3>2, <3>3
  <2> QED BY <2>1, <2>2, Zenon DEF Next, VeNext
<1> QED BY <1>2, <1>4 DEF PInv

\* The power of an NFT, by its last point, is that of its lock.
LEMMA BalanceExact ==
    ASSUME PInv, NEW t \in Nat, now <= t, NEW id \in Ids
    PROVE  _balanceOfNFT(id, t) = biasAt(locked[id], t)
<1>1. /\ now \in Nat /\ locked \in [Ids -> Lock]
      /\ points.userPointHistory \in [Ids -> Seq(PointRec)]
      /\ LastPointOK(locked[id], points.userPointHistory[id], now)
      BY DEF PInv, VInv, LocksOK, PointsOK, UsersOK
<1> PICK l \in Lock : l = locked[id]
    BY <1>1
<1> PICK h \in Seq(PointRec) : h = points.userPointHistory[id]
    BY <1>1
<1> PICK s \in Nat : s = slopeOf(l) /\ (l.derived = 0 => s = 0)
    BY CountTypes
<1> PICK e \in Nat : e = l.end
    BY CountTypes
<1>2. \A u : slopeAt(l, u) = (IF e > u THEN s ELSE 0) /\ biasAt(l, u) = (IF e > u THEN s ELSE 0) * (e - u)
      BY DEF slopeAt, biasAt
<1>3. CASE h = << >>
  <2>1. s = 0
        BY <1>1, <1>3 DEF LastPointOK
  <2>2. biasAt(l, t) = 0
        BY <1>2, <2>1
  <2>3. _balanceOfNFT(id, t) = 0
        BY <1>3, Zenon DEF _balanceOfNFT
  <2> QED BY <2>2, <2>3
<1>4. CASE h # << >>
  <2> PICK p \in PointRec : p = Last(h)
    <3>1. Len(h) \in 1..Len(h)
          BY <1>4
    <3> QED BY <3>1 DEF Last
  <2>1. _balanceOfNFT(id, t) = positiveInt128(p.bias - p.slope * (t - p.ts))
        BY <1>4 DEF _balanceOfNFT
  <2> PICK u \in Nat : u = p.ts
      BY DEF PointRec
  <2>2. u <= t /\ p.bias = biasAt(l, u) /\ p.slope = slopeAt(l, u)
    <3>1. u <= now /\ p.bias = biasAt(l, u) /\ p.slope = slopeAt(l, u)
          BY <1>1, <1>4 DEF LastPointOK
    <3> QED BY <1>1, <3>1
  <2>3. CASE e > u
    <3>1. p.bias = s * (e - u) /\ p.slope = s
          BY <1>2, <2>2, <2>3
    <3>2. s * (e - u) - s * (t - u) = s * (e - t)
          OBVIOUS
    <3>3. CASE e > t
      <4>1. biasAt(l, t) = s * (e - t)
            BY <1>2, <3>3
      <4>2. biasAt(l, t) \in Nat
            BY CountTypes
      <4>3. positiveInt128(s * (e - t)) = s * (e - t)
            BY <4>1, <4>2 DEF positiveInt128
      <4> QED BY <2>1, <3>1, <3>2, <4>1, <4>3
    <3>4. CASE e <= t
      <4>1. biasAt(l, t) = 0
            BY <1>2, <3>4
      <4> PICK d \in Nat : d = t - e
          BY <3>4
      <4>2. s * (e - t) = 0 - s * d /\ s * d \in Nat
            OBVIOUS
      <4>3. positiveInt128(s * (e - t)) = 0
            BY <4>2 DEF positiveInt128
      <4> QED BY <2>1, <3>1, <3>2, <4>1, <4>3
    <3> QED BY <3>3, <3>4
  <2>4. CASE e <= u
    <3>1. p.bias = 0 /\ p.slope = 0 /\ biasAt(l, t) = 0
          BY <1>2, <2>2, <2>4
    <3>2. 0 - 0 * (t - u) = 0
          OBVIOUS
    <3>3. positiveInt128(0) = 0
          BY DEF positiveInt128
    <3> QED BY <2>1, <3>1, <3>2, <3>3
  <2> QED BY <2>3, <2>4
<1> QED BY <1>3, <1>4

\* The last point of the total and the scheduled changes tell the power of all NFTs at any later time
\* within the limit of the loop.
LEMMA SupplyTells ==
    ASSUME PInv, NEW t \in now..(MaxTime + MAX_TIME), InReach(points, t)
    PROVE  totalSupplyAtT(t) = SumFunctionOnSet([id \in Ids |-> _balanceOfNFT(id, t)], Ids)
<1>1. /\ now \in Nat /\ LocksOK(locked) /\ locked \in [Ids -> Lock]
      /\ Last(points.pointHistory).ts \in StartTime..now
      /\ Last(points.pointHistory) = TotalAt(locked, Last(points.pointHistory).ts)
      /\ points.slopeChanges \in [Weeks -> Int]
      /\ Scheduled(locked, points.slopeChanges, Last(points.pointHistory).ts)
      BY DEF PInv, VInv, LocksOK, PointsOK, TotalsOK
<1>2. StartTime \in Nat /\ MaxTime \in Nat /\ MAX_TIME \in Nat
      BY VeAssumption
<1>3. t \in Nat /\ now <= t /\ t <= MaxTime + MAX_TIME
      BY <1>1, <1>2
<1> PICK from \in Nat : from = Last(points.pointHistory).ts /\ from <= t
    BY <1>1, <1>2, <1>3
<1>4. _supplyAt(TotalAt(locked, from), t) = TotalAt(locked, t)
  <2>1. /\ LocksOK(locked) /\ points.slopeChanges \in [Weeks -> Int] /\ from \in Nat /\ t \in Nat /\ from <= t
        /\ t <= MaxTime + MAX_TIME /\ Scheduled(locked, points.slopeChanges, from)
        /\ t \div WEEK - from \div WEEK < CHECKPOINT_WEEKS
        BY <1>1, <1>3 DEF InReach
  <2> QED BY ONLY <2>1, SupplyExact
<1> PICK b \in Nat : b = SumFunctionOnSet(biasesAt(locked, t), Ids) /\ b = TotalAt(locked, t).bias
    BY <1>1, <1>3, TotalTypes
<1>5. totalSupplyAtT(t) = b
  <2>1. Last(points.pointHistory) = TotalAt(locked, from)
        BY <1>1
  <2>2. _supplyAt(Last(points.pointHistory), t) = TotalAt(locked, t)
        BY <1>4, <2>1
  <2>3. positiveInt128(b) = b
        BY DEF positiveInt128
  <2> QED BY <2>2, <2>3 DEF totalSupplyAtT
<1>6. [id \in Ids |-> _balanceOfNFT(id, t)] = biasesAt(locked, t)
  <2>1. \A id \in Ids : _balanceOfNFT(id, t) = biasAt(locked[id], t)
        BY <1>3, BalanceExact
  <2> QED BY <2>1, Zenon DEF biasesAt
<1> QED BY <1>5, <1>6

\* Ve.sol hopes for a checkpoint at least every 255 weeks ("Hopefully it won't happen that this won't
\* get used in 5 years!").
CheckpointInTime == InReach(points, now)

\* However locks are made, extended, merged, split, left to expire and withdrawn, the points of the
\* total and of the NFTs and the scheduled changes of slope remain those of the locks, as long as a
\* checkpoint of Ve.sol is made before the loop of _checkpoint reaches its limit.
THEOREM PointsInvariant == Spec /\ []CheckpointInTime => []PInv
<1>1. Init => PInv
      BY PInvBegins
<1>2. PInv /\ CheckpointInTime /\ [Next]_vars => PInv'
      BY PInvStep DEF CheckpointInTime
<1> QED BY <1>1, <1>2, PTL DEF Spec

\* The total power at a time the loop of totalSupplyAtT reaches is that of all NFTs.
SupplyInReach ==
    \A t \in now..(MaxTime + MAX_TIME) :
        InReach(points, t) => totalSupplyAtT(t) = SumFunctionOnSet([id \in Ids |-> _balanceOfNFT(id, t)], Ids)

\* What totalSupplyAtT of Ve.sol answers, now or at any later time its own loop reaches, is the sum of
\* what _balanceOfNFT answers for the NFTs, as long as checkpoints are made in time.
THEOREM SupplyIsExact == Spec /\ []CheckpointInTime => []SupplyInReach
<1>1. PInv => SupplyInReach
      BY SupplyTells DEF SupplyInReach
<1> QED BY <1>1, PointsInvariant, PTL

\* In a life of the contract shorter than the limit the loops always arrive, and totalSupplyAtT of
\* Ve.sol is the power of all NFTs together whether or not checkpoints are made in between.
THEOREM SupplyIsSumWithinLimit ==
    ASSUME (MaxTime + MAX_TIME) \div WEEK - StartTime \div WEEK < CHECKPOINT_WEEKS
    PROVE  Spec => []SupplyIsSum
<1>1. ASSUME PInv, NEW t \in now..(MaxTime + MAX_TIME)
      PROVE  InReach(points, t)
  <2>1. /\ StartTime \in Nat /\ MaxTime \in Nat /\ MAX_TIME \in Nat /\ CHECKPOINT_WEEKS \in Nat /\ now \in Nat
        /\ Last(points.pointHistory).ts \in StartTime..now
        BY <1>1, VeAssumption DEF PInv, VInv, PointsOK, TotalsOK
  <2> PICK end \in Nat : end = MaxTime + MAX_TIME
      BY <2>1
  <2> PICK from \in Nat : from = Last(points.pointHistory).ts /\ StartTime <= from
      BY <2>1
  <2>2. t \in Nat /\ t <= end
        BY <2>1
  <2>3. \A a, b \in Nat : a <= b => a \div WEEK \in Nat /\ b \div WEEK \in Nat /\ a \div WEEK <= b \div WEEK
    <3> SUFFICES ASSUME NEW a \in Nat, NEW b \in Nat, a <= b
                 PROVE  a \div WEEK \in Nat /\ b \div WEEK \in Nat /\ a \div WEEK <= b \div WEEK
        OBVIOUS
    <3>1. PICK q \in Nat : q = a \div WEEK /\ q * WEEK <= a /\ a < (q + 1) * WEEK
          BY InWeek
    <3>2. PICK r \in Nat : r = b \div WEEK /\ r * WEEK <= b /\ b < (r + 1) * WEEK
          BY InWeek
    <3>3. q < r + 1
      <4>1. q \in Nat /\ r + 1 \in Nat /\ q * WEEK \in Nat /\ (r + 1) * WEEK \in Nat
            BY VeAssumption
      <4>2. q * WEEK < (r + 1) * WEEK
            BY <3>1, <3>2, <4>1
      <4> QED BY <4>1, <4>2, WeekOrder
    <3> QED BY <3>1, <3>2, <3>3
  <2>4. t \div WEEK \in Nat /\ end \div WEEK \in Nat /\ t \div WEEK <= end \div WEEK
        BY <2>2, <2>3
  <2>5. StartTime \div WEEK \in Nat /\ from \div WEEK \in Nat /\ StartTime \div WEEK <= from \div WEEK
        BY <2>1, <2>3
  <2>6. t \div WEEK - from \div WEEK < CHECKPOINT_WEEKS
        BY <2>1, <2>4, <2>5
  <2> QED BY <2>6 DEF InReach
<1>2. PInv => SupplyIsSum
      BY <1>1, SupplyTells DEF SupplyIsSum
<1>3. PInv => CheckpointInTime
  <2> SUFFICES ASSUME PInv PROVE InReach(points, now)
      BY DEF CheckpointInTime
  <2>1. now \in now..(MaxTime + MAX_TIME)
        BY VeAssumption DEF PInv
  <2> QED BY <1>1, <2>1
<1>4. Init => PInv
      BY PInvBegins
<1>5. PInv /\ [Next]_vars => PInv'
      BY <1>3, PInvStep DEF CheckpointInTime
<1> QED BY <1>2, <1>4, <1>5, PTL DEF Spec

-----------------------------------------------------------------------------
(* Dust.  What the tokens of a lock would count for if locked anew exceeds *)
(* what the lock counts for by no more than the rounding of its changes,   *)
(* one point of its history each.                                          *)

counts(a, token) == (((a * WAD) \div TokenUnit[token]) * tokenWeights[token]) \div WEIGHT_DENOMINATOR
countsOf(l) == [token \in StakingTokens |-> counts(l.amounts[token], token)]

\* What a part rounded up exceeds a part rounded down by.
LEMMA RoundedBy ==
    ASSUME NEW x \in Nat, NEW y \in Nat, NEW b \in Nat \ {0}, NEW w \in Nat, x <= y + w
    PROVE  _divUp(x, b) <= y \div b + _divUp(w, b) + 1
<1> PICK c \in Nat : c = _divUp(x, b)
    BY Quotient
<1> PICK v \in Nat : v = y \div b
    BY Quotient
<1> PICK e \in Nat : e = _divUp(w, b)
    BY Quotient
<1>1. c * b <= x + b - 1
  <2> PICK z \in Nat : z = x + b - 1
      OBVIOUS
  <2>1. (z \div b) * b <= z
        OBVIOUS
  <2>2. c = z \div b
        BY DEF _divUp
  <2> QED BY <2>1, <2>2
<1>2. y < v * b + b
      OBVIOUS
<1>3. w <= e * b
  <2> PICK z \in Nat : z = w + b - 1
      OBVIOUS
  <2>1. z < (z \div b) * b + b
        OBVIOUS
  <2>2. e = z \div b
        BY DEF _divUp
  <2>3. e * b \in Nat
        OBVIOUS
  <2> QED BY <2>1, <2>2, <2>3
<1>4. c < v + e + 2
  <2> SUFFICES ASSUME v + e + 2 <= c PROVE FALSE
      OBVIOUS
  <2>1. (v + e + 2) * b <= c * b
        OBVIOUS
  <2>2. (v + e + 2) * b = v * b + e * b + 2 * b
        OBVIOUS
  <2>3. v * b \in Nat /\ e * b \in Nat /\ c * b \in Nat
        OBVIOUS
  <2> QED BY <1>1, <1>2, <1>3, <2>1, <2>2, <2>3
<1> QED BY <1>4

\* The derived amount falls short of what is added and taken off by no more than the loss.
LEMMA DerivedLoss ==
    ASSUME NEW a \in Nat, NEW d \in Nat, NEW b \in Nat, NEW token \in StakingTokens
    PROVE  /\ counts(a, token) \in Nat /\ counts(b, token) \in Nat /\ _roundingLoss(token) \in Nat
           /\ _calculateDerivedAmount(a, d, b, token)
                  >= d - counts(a, token) + counts(b, token) - _roundingLoss(token)
           /\ _calculateDerivedAmount(0, 0, b, token) = counts(b, token)
           /\ counts(0, token) = 0
<1>1. /\ TokenUnit[token] \in Nat \ {0} /\ tokenWeights[token] \in Nat /\ WAD \in Nat
      /\ WEIGHT_DENOMINATOR \in Nat \ {0}
      BY VeAssumption
<1> PICK u \in Nat \ {0}, w \in Nat, D \in Nat \ {0} :
        u = TokenUnit[token] /\ w = tokenWeights[token] /\ D = WEIGHT_DENOMINATOR
    BY <1>1
<1>2. a * WAD \in Nat /\ b * WAD \in Nat /\ 0 * WAD = 0
      BY <1>1
<1> PICK x \in Nat, y \in Nat : x = a * WAD /\ y = b * WAD
    BY <1>2
<1> PICK q \in Nat : q = _divUp(x, u)
    BY Quotient
<1> PICK f \in Nat : f = x \div u
    BY Quotient
<1> PICK r \in Nat : r = y \div u
    BY Quotient
<1>3. q <= f + 1
  <2>0. x \in Nat /\ u \in Nat \ {0} /\ 0 \in Nat /\ x <= x + 0
        OBVIOUS
  <2>1. q <= x \div u + _divUp(0, u) + 1
    <3>1. _divUp(x, u) <= x \div u + _divUp(0, u) + 1
          BY ONLY <2>0, RoundedBy
    <3> QED BY <3>1
  <2>2. _divUp(0, u) = 0
    <3>1. (u - 1) \div u = 0
          OBVIOUS
    <3> QED BY <3>1 DEF _divUp
  <2> QED BY <2>1, <2>2
<1>4. q * w \in Nat /\ f * w \in Nat /\ r * w \in Nat
      OBVIOUS
<1>5. q * w <= f * w + w
  <2>1. q * w <= (f + 1) * w
        BY <1>3
  <2>2. (f + 1) * w = f * w + w
        OBVIOUS
  <2> QED BY <2>1, <2>2
<1> PICK c \in Nat : c = _divUp(q * w, D)
    BY <1>4, Quotient
<1> PICK v \in Nat : v = (f * w) \div D
    BY <1>4, Quotient
<1> PICK n \in Nat : n = (r * w) \div D
    BY <1>4, Quotient
<1> PICK e \in Nat : e = _divUp(w, D)
    BY Quotient
<1>6. c <= v + e + 1
  <2> PICK i \in Nat, j \in Nat : i = q * w /\ j = f * w
      BY <1>4
  <2>1. i <= j + w
        BY <1>5
  <2>2. _divUp(i, D) <= j \div D + _divUp(w, D) + 1
        BY <2>1, RoundedBy
  <2> QED BY <2>2
<1>7. counts(a, token) = v /\ counts(b, token) = n /\ _roundingLoss(token) = 1 + e
      BY DEF counts, _roundingLoss
<1>8. _calculateDerivedAmount(a, d, b, token) = (IF a # 0 THEN positiveInt128(d - c) ELSE d) + n
      BY DEF _calculateDerivedAmount
<1>9. _calculateDerivedAmount(0, 0, b, token) = 0 + n
      BY DEF _calculateDerivedAmount
<1>10. counts(0, token) = 0
  <2>1. 0 \div u = 0 /\ 0 * w = 0 /\ 0 \div D = 0
        OBVIOUS
  <2> QED BY <1>2, <2>1 DEF counts
<1>11. _calculateDerivedAmount(a, d, b, token) >= d - v + n - (1 + e)
  <2>1. CASE a = 0
        BY <1>8, <2>1
  <2>2. CASE a # 0 /\ d - c < 0
    <3>1. _calculateDerivedAmount(a, d, b, token) = 0 + n
          BY <1>8, <2>2 DEF positiveInt128
    <3> QED BY <1>6, <2>2, <3>1
  <2>3. CASE a # 0 /\ ~(d - c < 0)
    <3>1. _calculateDerivedAmount(a, d, b, token) = (d - c) + n
          BY <1>8, <2>3 DEF positiveInt128
    <3> QED BY <1>6, <3>1
  <2> QED BY <2>1, <2>2, <2>3
<1> QED BY <1>7, <1>9, <1>10, <1>11

\* Less of a token counts for less.
LEMMA CountsMonotone ==
    ASSUME NEW a \in Nat, NEW b \in Nat, a <= b, NEW token \in StakingTokens
    PROVE  counts(a, token) <= counts(b, token)
<1>1. /\ TokenUnit[token] \in Nat \ {0} /\ tokenWeights[token] \in Nat /\ WAD \in Nat
      /\ WEIGHT_DENOMINATOR \in Nat \ {0}
      BY VeAssumption
<1>2. ASSUME NEW x \in Nat, NEW y \in Nat, x <= y, NEW u \in Nat \ {0}
      PROVE  x \div u <= y \div u
  <2> PICK p \in Nat, q \in Nat : p = x \div u /\ q = y \div u
      BY <1>2, Quotient
  <2>1. p * u <= x /\ y < (q + 1) * u
        BY <1>2
  <2>2. p < q + 1
    <3> SUFFICES ASSUME q + 1 <= p PROVE FALSE
        OBVIOUS
    <3>1. (q + 1) * u <= p * u
          BY <1>2
    <3>2. (q + 1) * u \in Nat /\ p * u \in Nat
          BY <1>2
    <3> QED BY <1>2, <2>1, <3>1, <3>2
  <2> QED BY <2>2
<1> PICK x \in Nat, y \in Nat : x = a * WAD /\ y = b * WAD /\ x <= y
    BY <1>1
<1> PICK u \in Nat \ {0}, w \in Nat, D \in Nat \ {0} :
        u = TokenUnit[token] /\ w = tokenWeights[token] /\ D = WEIGHT_DENOMINATOR
    BY <1>1
<1> PICK p \in Nat, q \in Nat : p = x \div u /\ q = y \div u
    BY Quotient
<1>3. p <= q
      BY <1>2
<1> PICK i \in Nat, j \in Nat : i = p * w /\ j = q * w /\ i <= j
    BY <1>3
<1>4. i \div D <= j \div D
      BY <1>2
<1> QED BY <1>4 DEF counts

\* What the tokens in T lose and count for.
LEMMA LossTypes ==
    ASSUME NEW T \in SUBSET StakingTokens, IsFiniteSet(T)
    PROVE  /\ _lossOf(T) \in Nat
           /\ \A token \in T : _roundingLoss(token) \in Nat /\ _roundingLoss(token) <= _lossOf(T)
<1> DEFINE f == [token \in StakingTokens |-> _roundingLoss(token)]
<1>1. \A token \in StakingTokens : _roundingLoss(token) \in Nat
  <2> SUFFICES ASSUME NEW token \in StakingTokens PROVE _roundingLoss(token) \in Nat
      OBVIOUS
  <2>1. 0 \in Nat
        OBVIOUS
  <2> QED BY <2>1, DerivedLoss
<1>2. \A token \in T : f[token] = _roundingLoss(token) /\ f[token] \in Int /\ f[token] >= 0
      BY <1>1
<1>3. _lossOf(T) = SumFunctionOnSet(f, T)
      BY DEF _lossOf
<1> HIDE DEF f
<1>4. /\ SumFunctionOnSet(f, T) \in Int /\ SumFunctionOnSet(f, T) >= 0
      /\ \A token \in T : f[token] <= SumFunctionOnSet(f, T)
  <2>1. IsFiniteSet(T) /\ \A token \in T : f[token] \in Int /\ f[token] >= 0
        BY <1>2
  <2> QED BY ONLY <2>1, SumNonNegative
<1> QED BY <1>1, <1>2, <1>3, <1>4

LEMMA CountsTypes ==
    ASSUME NEW T \in SUBSET StakingTokens, IsFiniteSet(T), NEW l \in Lock
    PROVE  /\ \A token \in StakingTokens : /\ countsOf(l)[token] = counts(l.amounts[token], token)
                                           /\ countsOf(l)[token] \in Nat /\ l.amounts[token] \in Nat
           /\ SumFunctionOnSet(countsOf(l), T) \in Nat
           /\ \A token \in T : countsOf(l)[token] <= SumFunctionOnSet(countsOf(l), T)
<1>1. l.amounts \in [StakingTokens -> Nat]
      BY DEF Lock
<1>2. \A token \in StakingTokens : counts(l.amounts[token], token) \in Nat
  <2> SUFFICES ASSUME NEW token \in StakingTokens PROVE counts(l.amounts[token], token) \in Nat
      OBVIOUS
  <2> PICK a \in Nat : a = l.amounts[token]
      BY <1>1
  <2>1. counts(a, token) \in Nat
        BY DerivedLoss
  <2> QED BY <2>1
<1>3. \A token \in StakingTokens : countsOf(l)[token] = counts(l.amounts[token], token)
      BY DEF countsOf
<1> PICK f : f = countsOf(l)
    OBVIOUS
<1>4. \A token \in T : f[token] \in Int /\ f[token] >= 0
      BY <1>2, <1>3
<1>5. /\ SumFunctionOnSet(f, T) \in Int /\ SumFunctionOnSet(f, T) >= 0
      /\ \A token \in T : f[token] <= SumFunctionOnSet(f, T)
  <2>1. IsFiniteSet(T)
        OBVIOUS
  <2> QED BY ONLY <1>4, <2>1, SumNonNegative
<1> QED BY <1>1, <1>2, <1>3, <1>5

\* One token of a lock changes, and its derived amount with it.
LEMMA DustFollows ==
    ASSUME NEW T \in SUBSET StakingTokens, IsFiniteSet(T), NEW token \in T, NEW l \in Lock, NEW k \in Lock,
           \A other \in T : other # token => k.amounts[other] = l.amounts[other],
           NEW d \in Nat, NEW b \in Nat, SumFunctionOnSet(countsOf(l), T) <= d + b
    PROVE  SumFunctionOnSet(countsOf(k), T)
               <= _calculateDerivedAmount(l.amounts[token], d, k.amounts[token], token) + (b + _roundingLoss(token))
<1> PICK f, g : f = countsOf(l) /\ g = countsOf(k)
    OBVIOUS
<1>1. \A other \in T : f[other] \in Int /\ g[other] \in Int
      BY CountsTypes
<1>2. \A other \in T : other # token => f[other] = g[other]
      BY CountsTypes
<1>3. /\ SumFunctionOnSet(f, T) \in Int
      /\ SumFunctionOnSet(g, T) = SumFunctionOnSet(f, T) - f[token] + g[token]
  <2> PICK R : R = T \ {token}
      OBVIOUS
  <2>1. IsFiniteSet(T) /\ token \in T /\ IsFiniteSet(R)
        BY FS_Subset
  <2>2. /\ \A other \in T : f[other] \in Int
        /\ \A other \in R : f[other] \in Int /\ f[other] = g[other]
        /\ \A other \in T : g[other] \in Int
        BY <1>1, <1>2
  <2>3. SumFunctionOnSet(f, T) = f[token] + SumFunctionOnSet(f, T \ {token})
        BY ONLY <2>1, <2>2, SumRemove
  <2>4. SumFunctionOnSet(g, T) = g[token] + SumFunctionOnSet(g, T \ {token})
        BY ONLY <2>1, <2>2, SumRemove
  <2>5. SumFunctionOnSet(f, R) = SumFunctionOnSet(g, R)
        BY ONLY <2>1, <2>2, SumSame
  <2>6. SumFunctionOnSet(f, R) \in Int
        BY ONLY <2>1, <2>2, SumType
  <2> QED BY <1>1, <2>3, <2>4, <2>5, <2>6
<1> PICK x \in Nat, y \in Nat : x = l.amounts[token] /\ y = k.amounts[token]
    BY CountsTypes
<1>4. f[token] = counts(x, token) /\ g[token] = counts(y, token)
      BY CountsTypes
<1>5. /\ counts(x, token) \in Nat /\ counts(y, token) \in Nat /\ _roundingLoss(token) \in Nat
      /\ _calculateDerivedAmount(x, d, y, token) >= d - counts(x, token) + counts(y, token) - _roundingLoss(token)
      BY DerivedLoss
<1>6. _calculateDerivedAmount(x, d, y, token) \in Nat
      BY DerivedType
<1> QED BY <1>3, <1>4, <1>5, <1>6

\* Taking out of a lock takes nothing away from what covers the rest.
LEMMA CountsFall ==
    ASSUME NEW T \in SUBSET StakingTokens, IsFiniteSet(T), NEW l \in Lock, NEW k \in Lock,
           \A token \in T : k.amounts[token] <= l.amounts[token]
    PROVE  SumFunctionOnSet(countsOf(k), T) <= SumFunctionOnSet(countsOf(l), T)
<1> PICK f, g : f = countsOf(k) /\ g = countsOf(l)
    OBVIOUS
<1>1. ASSUME NEW token \in T
      PROVE  f[token] \in Int /\ g[token] \in Int /\ f[token] <= g[token]
  <2> PICK a \in Nat, c \in Nat : a = k.amounts[token] /\ c = l.amounts[token] /\ a <= c
      BY CountsTypes
  <2>1. counts(a, token) <= counts(c, token)
        BY CountsMonotone
  <2> QED BY <2>1, CountsTypes
<1>2. SumFunctionOnSet(f, T) <= SumFunctionOnSet(g, T)
  <2>1. IsFiniteSet(T)
        OBVIOUS
  <2> QED BY ONLY <1>1, <2>1, SumMonotone
<1> QED BY <1>2

-----------------------------------------------------------------------------
(* Dust through the changes of a lock.                                     *)

HistOK(p) ==
    /\ p = [pointHistory |-> p.pointHistory, slopeChanges |-> p.slopeChanges,
            userPointHistory |-> p.userPointHistory]
    /\ p.userPointHistory \in [Ids -> Seq(PointRec)]

\* How often a lock was changed, by its history.
changesOf(p, id) == Len(p.userPointHistory[id])

\* Every lock counts for its tokens in T, but for the rounding of its changes.
Covered(s, T) ==
    /\ HistOK(s.points)
    /\ \A i \in Ids : SumFunctionOnSet(countsOf(s.locked[i]), T)
                          <= s.locked[i].derived + changesOf(s.points, i) * _lossOf(T)

LEMMA UserPointType ==
    ASSUME now \in Nat, NEW d \in Nat, NEW end \in Nat
    PROVE  _userPoint(d, end) \in PointRec
<1>1. MAX_TIME \in Nat \ {0}
      BY VeAssumption
<1> PICK q \in Nat : q = d \div MAX_TIME
    BY <1>1, Quotient
<1>2. q * (end - now) \in Int
      OBVIOUS
<1> QED BY <1>2 DEF _userPoint, Point, PointRec

\* _checkpoint leaves one point in the history of its NFT.
LEMMA CheckpointHist ==
    ASSUME now \in Nat, NEW p, HistOK(p), NEW info, info.tokenId \in Ids,
           info.newDerivedAmount \in Nat, info.newEnd \in Nat
    PROVE  /\ HistOK(_checkpoint(p, info))
           /\ \A i \in Ids : changesOf(_checkpoint(p, info), i) =
                                 changesOf(p, i) + (IF i = info.tokenId THEN 1 ELSE 0)
           /\ \A i \in Ids : changesOf(p, i) \in Nat
<1> PICK u \in PointRec : u = _userPoint(info.newDerivedAmount, info.newEnd)
    BY UserPointType
<1> PICK id \in Ids : id = info.tokenId
    OBVIOUS
<1> PICK H \in [Ids -> Seq(PointRec)] : H = p.userPointHistory
    BY DEF HistOK
<1> PICK r : r = _checkpoint(p, info)
    OBVIOUS
<1>1. \E a, c : r = [pointHistory |-> a, slopeChanges |-> c, userPointHistory |-> [H EXCEPT ![id] = Append(@, u)]]
      BY Zenon DEF _checkpoint
<1>2. r.userPointHistory = [H EXCEPT ![id] = Append(@, u)]
      BY <1>1
<1>3. H[id] \in Seq(PointRec) /\ Append(H[id], u) \in Seq(PointRec) /\ Len(Append(H[id], u)) = Len(H[id]) + 1
      BY AppendElements
<1>4. r.userPointHistory \in [Ids -> Seq(PointRec)]
      BY <1>2, <1>3
<1>5. HistOK(r)
      BY <1>1, <1>4 DEF HistOK
<1>6. ASSUME NEW i \in Ids
      PROVE  changesOf(r, i) = changesOf(p, i) + (IF i = id THEN 1 ELSE 0) /\ changesOf(p, i) \in Nat
  <2>1. r.userPointHistory[i] = IF i = id THEN Append(H[id], u) ELSE H[i]
        BY <1>2
  <2>2. Len(H[i]) \in Nat
        OBVIOUS
  <2> PICK a, c : a = r.userPointHistory[i] /\ c = p.userPointHistory[i]
      OBVIOUS
  <2>3. c = H[i] /\ Len(a) = Len(H[i]) + (IF i = id THEN 1 ELSE 0)
    <3>1. CASE i = id
          BY <1>3, <2>1, <3>1
    <3>2. CASE i # id
      <4>1. a = H[i]
            BY <2>1, <3>2
      <4>2. Len(a) = Len(H[i])
            BY <4>1
      <4> QED BY <2>2, <3>2, <4>2
    <3> QED BY <3>1, <3>2
  <2> QED BY <2>2, <2>3 DEF changesOf
<1> QED BY <1>5, <1>6

LEMMA FilledHist ==
    ASSUME NEW p, HistOK(p)
    PROVE  /\ HistOK(_filled(p))
           /\ \A i \in Ids : changesOf(_filled(p), i) = changesOf(p, i)
<1> PICK w : w = Tail(_walk(p))
    OBVIOUS
<1> PICK r : r = _filled(p)
    OBVIOUS
<1>1. r = [p EXCEPT !.pointHistory = @ \o w]
      BY DEF _filled
<1>2. r = [pointHistory |-> p.pointHistory \o w, slopeChanges |-> p.slopeChanges,
           userPointHistory |-> p.userPointHistory]
      BY <1>1 DEF HistOK
<1>3. HistOK(r) /\ r.userPointHistory = p.userPointHistory
      BY <1>2 DEF HistOK
<1> QED BY <1>3 DEF changesOf

\* A change of one lock that leaves a point.
LEMMA ChangeCovered ==
    ASSUME now \in Nat, NEW T \in SUBSET StakingTokens, IsFiniteSet(T),
           NEW s, VeTyped(s), Covered(s, T), NEW r, VeTyped(r), NEW id \in Ids,
           \A i \in Ids : i # id => r.locked[i] = s.locked[i],
           NEW info, info.tokenId = id, info.newDerivedAmount \in Nat, info.newEnd \in Nat,
           r.points = _checkpoint(s.points, info),
           SumFunctionOnSet(countsOf(r.locked[id]), T)
               <= r.locked[id].derived + (changesOf(s.points, id) * _lossOf(T) + _lossOf(T))
    PROVE  /\ Covered(r, T)
           /\ \A i \in Ids : i # id => changesOf(r.points, i) = changesOf(s.points, i)
<1>1. /\ HistOK(r.points)
      /\ \A i \in Ids : changesOf(r.points, i) = changesOf(s.points, i) + (IF i = id THEN 1 ELSE 0)
      /\ \A i \in Ids : changesOf(s.points, i) \in Nat
  <2>1. HistOK(s.points)
        BY DEF Covered
  <2> QED BY <2>1, CheckpointHist
<1>2. ASSUME NEW i \in Ids
      PROVE  SumFunctionOnSet(countsOf(r.locked[i]), T) <= r.locked[i].derived + changesOf(r.points, i) * _lossOf(T)
  <2>1. CASE i = id
    <3> PICK n \in Nat, K \in Nat : n = changesOf(s.points, id) /\ K = _lossOf(T)
        BY <1>1, LossTypes
    <3>1. (n + 1) * K = n * K + K
          OBVIOUS
    <3> QED BY <1>1, <2>1, <3>1
  <2>2. CASE i # id
    <3>1. changesOf(r.points, i) = changesOf(s.points, i)
          BY <1>1, <2>2
    <3> QED BY <2>2, <3>1 DEF Covered
  <2> QED BY <2>1, <2>2
<1>3. \A i \in Ids : i # id => changesOf(r.points, i) = changesOf(s.points, i)
      BY <1>1
<1> QED BY <1>1, <1>2, <1>3 DEF Covered

\* What _depositFor is told of the tokens of the lock.
DepositCounts(info, s, T) ==
    /\ info.tokenId \in Ids /\ info.value \in Nat /\ info.unlockTime \in Nat /\ info.lockedAmount \in Nat
    /\ info.lockedDerivedAmount = s.locked[info.tokenId].derived
    /\ info.lockedEnd \in Nat
    /\ info.value # 0 => /\ info.stakingToken \in T
                         /\ info.lockedAmount = s.locked[info.tokenId].amounts[info.stakingToken]

LEMMA DepositCovered ==
    ASSUME now \in Nat, NEW T \in SUBSET StakingTokens, IsFiniteSet(T),
           NEW s, VeTyped(s), Covered(s, T), NEW info, DepositCounts(info, s, T)
    PROVE  /\ Covered(_depositFor(s, info), T)
           /\ \A i \in Ids : i # info.tokenId =>
                 changesOf(_depositFor(s, info).points, i) = changesOf(s.points, i)
<1> PICK id \in Ids : id = info.tokenId
    BY DEF DepositCounts
<1> DEFINE r == _depositFor(s, info)
           newDerived == IF info.value = 0 THEN info.lockedDerivedAmount
                         ELSE _calculateDerivedAmount(info.lockedAmount, info.lockedDerivedAmount,
                                                      info.lockedAmount + info.value, info.stakingToken)
           newEnd == IF info.unlockTime = 0 THEN info.lockedEnd ELSE info.unlockTime
           told == [tokenId |-> info.tokenId, oldDerivedAmount |-> info.lockedDerivedAmount,
                    newDerivedAmount |-> newDerived, oldEnd |-> info.lockedEnd, newEnd |-> newEnd]
<1>1. r.points = _checkpoint(s.points, told)
  <2> DEFINE lock == s.locked[info.tokenId]
             deposited == IF info.value = 0 THEN lock
                          ELSE [lock EXCEPT !.amounts[info.stakingToken] = info.lockedAmount + info.value,
                                            !.derived = newDerived]
             after == IF info.unlockTime = 0 THEN deposited ELSE [deposited EXCEPT !.end = info.unlockTime]
             pulled == IF info.depositType = "MERGE_TYPE" \/ info.value = 0 THEN s.held
                       ELSE [s.held EXCEPT ![info.stakingToken] = @ + info.value]
             pts == _checkpoint(s.points, told)
  <2>1. r = [s EXCEPT !.locked[info.tokenId] = after, !.points = pts, !.held = pulled]
        BY Zenon DEF _depositFor
  <2> HIDE DEF r, pts, after, pulled
  <2>2. s = [locked |-> s.locked, points |-> s.points, nft |-> s.nft, held |-> s.held]
        BY DEF VeTyped
  <2>3. r.points = pts
        BY ONLY <2>1, <2>2
  <2> QED BY <2>3 DEF pts
<1> PICK l \in Lock : l = s.locked[id] /\ l.derived \in Nat /\ l.end \in Nat
    BY DEF VeTyped, Lock
<1>2. /\ VeTyped(s) /\ info.tokenId \in Ids /\ info.value \in Nat /\ info.unlockTime \in Nat
      /\ info.lockedAmount \in Nat /\ info.lockedDerivedAmount \in Nat /\ info.lockedEnd \in Nat
      /\ info.lockedDerivedAmount = l.derived
      /\ info.value # 0 => info.stakingToken \in StakingTokens
      BY DEF DepositCounts
<1>3. /\ VeTyped(r)
      /\ \A i \in Ids : i # info.tokenId => r.locked[i] = s.locked[i]
      /\ \A token \in StakingTokens :
            r.locked[info.tokenId].amounts[token] =
                IF info.value # 0 /\ token = info.stakingToken
                THEN info.lockedAmount + info.value ELSE s.locked[info.tokenId].amounts[token]
      /\ info.value # 0 =>
            r.locked[info.tokenId].derived =
                _calculateDerivedAmount(info.lockedAmount, info.lockedDerivedAmount,
                                        info.lockedAmount + info.value, info.stakingToken)
      /\ info.value = 0 => r.locked[info.tokenId].derived = s.locked[info.tokenId].derived
  <2>1. r = _depositFor(s, info)
        OBVIOUS
  <2> HIDE DEF r
  <2> QED BY ONLY <1>2, <2>1, Deposit
<1> HIDE DEF r
<1> PICK k \in Lock : k = r.locked[id] /\ k.derived \in Nat
    BY <1>3 DEF VeTyped, Lock
<1>4. newDerived = k.derived /\ newEnd \in Nat
      BY <1>2, <1>3
<1> HIDE DEF newDerived, newEnd
<1>5. told.tokenId = id /\ told.newDerivedAmount \in Nat /\ told.newEnd \in Nat
      BY <1>4
<1> HIDE DEF told
<1> PICK K \in Nat : K = _lossOf(T)
    BY LossTypes
<1> PICK n \in Nat : n = changesOf(s.points, id)
    BY DEF Covered, HistOK, changesOf
<1> PICK b \in Nat : b = n * K
    OBVIOUS
<1>6. SumFunctionOnSet(countsOf(l), T) <= l.derived + b
      BY DEF Covered
<1>7. SumFunctionOnSet(countsOf(k), T) <= k.derived + (b + K)
  <2>0. SumFunctionOnSet(countsOf(k), T) \in Nat /\ SumFunctionOnSet(countsOf(l), T) \in Nat
        BY CountsTypes
  <2>1. CASE info.value = 0
    <3>1. k.derived = l.derived /\ \A token \in T : k.amounts[token] = l.amounts[token]
          BY <1>3, <2>1
    <3>2. \A token \in T : k.amounts[token] <= l.amounts[token]
          BY <3>1, CountsTypes
    <3>3. SumFunctionOnSet(countsOf(k), T) <= SumFunctionOnSet(countsOf(l), T)
          BY <3>2, CountsFall
    <3> QED BY <1>6, <2>0, <3>1, <3>3
  <2>2. CASE info.value # 0
    <3> PICK token \in T : token = info.stakingToken
        BY <2>2 DEF DepositCounts
    <3>1. /\ \A other \in T : other # token => k.amounts[other] = l.amounts[other]
          /\ l.amounts[token] = info.lockedAmount /\ k.amounts[token] = info.lockedAmount + info.value
          /\ k.derived = _calculateDerivedAmount(info.lockedAmount, info.lockedDerivedAmount,
                                                 info.lockedAmount + info.value, info.stakingToken)
          BY <1>3, <2>2 DEF DepositCounts
    <3>2. k.derived = _calculateDerivedAmount(l.amounts[token], l.derived, k.amounts[token], token)
          BY <1>2, <3>1
    <3>3. /\ T \in SUBSET StakingTokens /\ IsFiniteSet(T) /\ token \in T /\ l \in Lock /\ k \in Lock
          /\ l.derived \in Nat /\ b \in Nat
          OBVIOUS
    <3>4. SumFunctionOnSet(countsOf(k), T)
              <= _calculateDerivedAmount(l.amounts[token], l.derived, k.amounts[token], token)
                 + (b + _roundingLoss(token))
          BY ONLY <1>6, <3>1, <3>3, DustFollows
    <3>5. _roundingLoss(token) \in Nat /\ _roundingLoss(token) <= K
          BY LossTypes
    <3> QED BY <2>0, <3>2, <3>4, <3>5
  <2> QED BY <2>1, <2>2
<1>8. /\ Covered(r, T)
      /\ \A i \in Ids : i # id => changesOf(r.points, i) = changesOf(s.points, i)
  <2>1. /\ now \in Nat /\ T \in SUBSET StakingTokens /\ IsFiniteSet(T) /\ VeTyped(s) /\ Covered(s, T) /\ id \in Ids
        OBVIOUS
  <2>2. SumFunctionOnSet(countsOf(r.locked[id]), T)
            <= r.locked[id].derived + (changesOf(s.points, id) * _lossOf(T) + _lossOf(T))
        BY <1>7
  <2>3. VeTyped(r) /\ \A i \in Ids : i # id => r.locked[i] = s.locked[i]
        BY <1>3
  <2> QED BY ONLY <1>1, <1>5, <2>1, <2>2, <2>3, ChangeCovered
<1> QED BY <1>8 DEF r

LEMMA WithdrawalCovered ==
    ASSUME now \in Nat, NEW T \in SUBSET StakingTokens, IsFiniteSet(T),
           NEW s, VeTyped(s), Covered(s, T), NEW token \in T, NEW id \in Ids
    PROVE  Covered(_withdrawn(s, token, id), T)
<1> DEFINE r == _withdrawn(s, token, id)
           lock == s.locked[id]
           derived == _derivedWithout(s, token, id)
           newEnd == IF derived = 0 THEN 0 ELSE lock.end
           told == [tokenId |-> id, oldDerivedAmount |-> lock.derived, newDerivedAmount |-> derived,
                    oldEnd |-> lock.end, newEnd |-> newEnd]
<1>1. r.points = _checkpoint(s.points, told)
  <2> DEFINE after == [amounts |-> [lock.amounts EXCEPT ![token] = 0], derived |-> derived, end |-> newEnd]
             pts == _checkpoint(s.points, told)
             n == IF derived = 0 THEN _burnt(s.nft, id) ELSE s.nft
  <2>1. r = [s EXCEPT !.locked[id] = after, !.points = pts, !.nft = n, !.held[token] = @ - lock.amounts[token]]
        BY Zenon DEF _withdrawn
  <2> HIDE DEF r, pts, n, after
  <2>2. s = [locked |-> s.locked, points |-> s.points, nft |-> s.nft, held |-> s.held]
        BY DEF VeTyped
  <2>3. r.points = pts
        BY ONLY <2>1, <2>2
  <2> QED BY <2>3 DEF pts
<1> PICK l \in Lock : l = lock /\ l.derived \in Nat /\ l.end \in Nat
    BY DEF VeTyped, Lock
<1>2. derived = _calculateDerivedAmount(l.amounts[token], l.derived, 0, token)
      BY DEF _derivedWithout
<1>3. /\ VeTyped(r)
      /\ \A i \in Ids : i # id => r.locked[i] = s.locked[i]
      /\ r.locked[id].derived = derived
      /\ \A other \in StakingTokens :
            r.locked[id].amounts[other] = IF other = token THEN 0 ELSE s.locked[id].amounts[other]
  <2>1. VeTyped(s) /\ token \in StakingTokens /\ id \in Ids /\ r = _withdrawn(s, token, id)
        /\ derived = _derivedWithout(s, token, id)
        OBVIOUS
  <2> HIDE DEF r, derived
  <2>2. /\ VeTyped(_withdrawn(s, token, id))
        /\ \A i \in Ids : i # id => _withdrawn(s, token, id).locked[i] = s.locked[i]
        /\ _withdrawn(s, token, id).locked[id].derived = _derivedWithout(s, token, id)
        /\ \A other \in StakingTokens :
              _withdrawn(s, token, id).locked[id].amounts[other] =
                  IF other = token THEN 0 ELSE s.locked[id].amounts[other]
        BY ONLY <2>1, Withdrawal
  <2> QED BY ONLY <2>1, <2>2
<1> HIDE DEF r, derived
<1> PICK k \in Lock : k = r.locked[id] /\ k.derived \in Nat
    BY <1>3 DEF VeTyped, Lock
<1>4. derived \in Nat /\ newEnd \in Nat
      BY <1>3
<1> HIDE DEF newEnd
<1>5. told.tokenId = id /\ told.newDerivedAmount \in Nat /\ told.newEnd \in Nat
      BY <1>4
<1> HIDE DEF told, lock
<1> PICK K \in Nat : K = _lossOf(T)
    BY LossTypes
<1> PICK n \in Nat : n = changesOf(s.points, id)
    BY DEF Covered, HistOK, changesOf
<1> PICK b \in Nat : b = n * K
    OBVIOUS
<1>6. SumFunctionOnSet(countsOf(l), T) <= l.derived + b
      BY DEF Covered, lock
<1>7. SumFunctionOnSet(countsOf(k), T) <= k.derived + (b + K)
  <2>0. SumFunctionOnSet(countsOf(k), T) \in Nat
        BY CountsTypes
  <2>1. k.amounts[token] = 0 /\ \A other \in T : other # token => k.amounts[other] = l.amounts[other]
        BY <1>3 DEF lock
  <2>2. k.derived = _calculateDerivedAmount(l.amounts[token], l.derived, k.amounts[token], token)
        BY <1>2, <1>3, <2>1
  <2>3. /\ T \in SUBSET StakingTokens /\ IsFiniteSet(T) /\ token \in T /\ l \in Lock /\ k \in Lock
        /\ l.derived \in Nat /\ b \in Nat
        OBVIOUS
  <2>4. SumFunctionOnSet(countsOf(k), T)
            <= _calculateDerivedAmount(l.amounts[token], l.derived, k.amounts[token], token)
               + (b + _roundingLoss(token))
        BY ONLY <1>6, <2>1, <2>3, DustFollows
  <2>5. _roundingLoss(token) \in Nat /\ _roundingLoss(token) <= K
        BY LossTypes
  <2> QED BY <2>0, <2>2, <2>4, <2>5
<1>8. Covered(r, T)
  <2>1. /\ now \in Nat /\ T \in SUBSET StakingTokens /\ IsFiniteSet(T) /\ VeTyped(s) /\ Covered(s, T) /\ id \in Ids
        OBVIOUS
  <2>2. SumFunctionOnSet(countsOf(r.locked[id]), T)
            <= r.locked[id].derived + (changesOf(s.points, id) * _lossOf(T) + _lossOf(T))
        BY <1>7
  <2>3. VeTyped(r) /\ \A i \in Ids : i # id => r.locked[i] = s.locked[i]
        BY <1>3
  <2> QED BY ONLY <1>1, <1>5, <2>1, <2>2, <2>3, ChangeCovered
<1> QED BY <1>8 DEF r

\* merge and split take an amount out of a lock before they deposit it in the other.
Taken(u, s, id, token, a) ==
    /\ VeTyped(u) /\ u.points = s.points
    /\ \A i \in Ids : i # id => u.locked[i] = s.locked[i]
    /\ u.locked[id].derived = s.locked[id].derived /\ u.locked[id].end = s.locked[id].end
    /\ \A other \in StakingTokens :
          u.locked[id].amounts[other] = IF other = token THEN a ELSE s.locked[id].amounts[other]

LEMMA TakenCovered ==
    ASSUME NEW T \in SUBSET StakingTokens, IsFiniteSet(T), NEW s, VeTyped(s), Covered(s, T), NEW id \in Ids,
           NEW token \in StakingTokens, NEW a \in Nat, a <= s.locked[id].amounts[token]
    PROVE  LET u == [s EXCEPT !.locked[id].amounts[token] = a]
           IN  Covered(u, T) /\ Taken(u, s, id, token, a)
<1> DEFINE u == [s EXCEPT !.locked[id].amounts[token] = a]
<1> PICK l \in Lock : l = s.locked[id] /\ l.amounts \in [StakingTokens -> Nat] /\ l.derived \in Nat
    BY DEF VeTyped, Lock
<1> DEFINE left == [l EXCEPT !.amounts = [l.amounts EXCEPT ![token] = a]]
<1>1. /\ left \in Lock /\ left.end = l.end /\ left.derived = l.derived
      /\ \A other \in StakingTokens : left.amounts[other] = IF other = token THEN a ELSE l.amounts[other]
      BY DEF Lock
<1>2. u = [locked |-> [s.locked EXCEPT ![id] = left], points |-> s.points, nft |-> s.nft, held |-> s.held]
      BY DEF VeTyped
<1> HIDE DEF left, u
<1>3. VeTyped(u) /\ u.points = s.points /\ u.locked = [s.locked EXCEPT ![id] = left]
      BY <1>1, <1>2 DEF VeTyped
<1>4. u.locked[id] = left /\ \A i \in Ids : i # id => u.locked[i] = s.locked[i]
      BY <1>3 DEF VeTyped
<1>5. SumFunctionOnSet(countsOf(left), T) <= SumFunctionOnSet(countsOf(l), T)
  <2>1. \A other \in T : left.amounts[other] <= l.amounts[other]
        BY <1>1
  <2> QED BY <1>1, <2>1, CountsFall
<1>6. Covered(u, T)
  <2>1. ASSUME NEW i \in Ids
        PROVE  SumFunctionOnSet(countsOf(u.locked[i]), T)
                   <= u.locked[i].derived + changesOf(u.points, i) * _lossOf(T)
    <3>1. CASE i # id
          BY <1>3, <1>4, <3>1 DEF Covered
    <3>2. CASE i = id
      <4> PICK K \in Nat : K = _lossOf(T)
          BY LossTypes
      <4> PICK n \in Nat : n = changesOf(s.points, id)
          BY DEF Covered, HistOK, changesOf
      <4> PICK b \in Nat : b = n * K
          OBVIOUS
      <4>1. SumFunctionOnSet(countsOf(l), T) <= l.derived + b
            BY DEF Covered
      <4>2. SumFunctionOnSet(countsOf(l), T) \in Nat /\ SumFunctionOnSet(countsOf(left), T) \in Nat
            BY <1>1, CountsTypes
      <4>3. SumFunctionOnSet(countsOf(left), T) <= left.derived + b
            BY <1>1, <1>5, <4>1, <4>2
      <4> QED BY <1>3, <1>4, <3>2, <4>3
    <3> QED BY <3>1, <3>2
  <2> QED BY <1>3, <2>1 DEF Covered
<1>7. /\ u.locked[id].derived = s.locked[id].derived /\ u.locked[id].end = s.locked[id].end
      /\ \A other \in StakingTokens :
            u.locked[id].amounts[other] = IF other = token THEN a ELSE s.locked[id].amounts[other]
      BY <1>1, <1>4
<1>8. Taken(u, s, id, token, a)
      BY <1>3, <1>4, <1>7 DEF Taken
<1> QED BY <1>6, <1>8 DEF u

-----------------------------------------------------------------------------
(* Dust through the loops.                                                 *)

firstTokens(m) == {tokens[j] : j \in 1..m}

LEMMA FirstTokens ==
    ASSUME tokens \in Seq(StakingTokens)
    PROVE  /\ \A m \in 0..Len(tokens) : IsFiniteSet(firstTokens(m)) /\ firstTokens(m) \in SUBSET StakingTokens
           /\ firstTokens(Len(tokens)) = ToSet(tokens) /\ firstTokens(0) = {}
           /\ IsFiniteSet(ToSet(tokens)) /\ ToSet(tokens) \in SUBSET StakingTokens
           /\ \A m \in 0..(Len(tokens) - 1) : firstTokens(m + 1) = firstTokens(m) \cup {tokens[m + 1]}
<1> DEFINE n == Len(tokens)
           G == {m \in 0..n : IsFiniteSet(firstTokens(m))}
<1>1. n \in Nat /\ DOMAIN tokens = 1..n /\ \A j \in 1..n : tokens[j] \in StakingTokens
      OBVIOUS
<1>2. firstTokens(0) = {}
      BY DEF firstTokens
<1>3. \A m \in 0..(n - 1) : firstTokens(m + 1) = firstTokens(m) \cup {tokens[m + 1]}
  <2> SUFFICES ASSUME NEW m \in 0..(n - 1)
               PROVE  firstTokens(m + 1) = firstTokens(m) \cup {tokens[m + 1]}
      OBVIOUS
  <2>1. 1..(m + 1) = (1..m) \cup {m + 1}
        BY <1>1
  <2> QED BY <2>1 DEF firstTokens
<1>4. 0 \in G
  <2>1. IsFiniteSet(firstTokens(0))
        BY ONLY <1>2, FS_EmptySet
  <2>2. 0 \in 0..n
        BY <1>1
  <2> QED BY <2>1, <2>2
<1>5. ASSUME NEW m \in 0..(n - 1), m \in G
      PROVE  m + 1 \in G
  <2>1. IsFiniteSet(firstTokens(m)) /\ m + 1 \in 0..n
        BY <1>1, <1>5
  <2>2. IsFiniteSet(firstTokens(m) \cup {tokens[m + 1]})
        BY ONLY <2>1, FS_AddElement
  <2> QED BY <1>3, <2>1, <2>2
<1>6. \A m \in 0..n : m \in G
  <2> HIDE DEF G, n
  <2> QED BY ONLY <1>1, <1>4, <1>5, CountUp
<1>7. firstTokens(n) = ToSet(tokens)
      BY <1>1 DEF firstTokens, ToSet
<1>8. \A m \in 0..n : firstTokens(m) \in SUBSET StakingTokens
      BY <1>1 DEF firstTokens
<1>9. n \in 0..n
      BY <1>1
<1> QED BY <1>2, <1>3, <1>6, <1>7, <1>8, <1>9

\* Every token counts once in the loss of all.
LEMMA NextLoss ==
    ASSUME tokens \in Seq(StakingTokens), IsInjective(tokens), NEW m \in 0..(Len(tokens) - 1)
    PROVE  /\ _lossOf(firstTokens(m + 1)) = _lossOf(firstTokens(m)) + _roundingLoss(tokens[m + 1])
           /\ _lossOf(firstTokens(m)) \in Nat /\ _roundingLoss(tokens[m + 1]) \in Nat
<1> DEFINE f == [token \in StakingTokens |-> _roundingLoss(token)]
<1> PICK S, R : S = firstTokens(m + 1) /\ R = firstTokens(m)
    OBVIOUS
<1>1. /\ IsFiniteSet(S) /\ IsFiniteSet(R) /\ S \in SUBSET StakingTokens /\ R \in SUBSET StakingTokens
      /\ S = R \cup {tokens[m + 1]}
  <2>1. m \in 0..Len(tokens) /\ m + 1 \in 0..Len(tokens)
        OBVIOUS
  <2> QED BY <2>1, FirstTokens
<1> PICK token \in S : token = tokens[m + 1]
    BY <1>1
<1>2. token \notin R
  <2>1. DOMAIN tokens = 1..Len(tokens) /\ m + 1 \in 1..Len(tokens) /\ m \in Nat
        OBVIOUS
  <2>2. \A j \in 1..m : j \in 1..Len(tokens) /\ j # m + 1
        OBVIOUS
  <2>3. \A a, c \in 1..Len(tokens) : tokens[a] = tokens[c] => a = c
        BY <2>1 DEF IsInjective
  <2> QED BY <2>1, <2>2, <2>3 DEF firstTokens
<1>3. S \ {token} = R
      BY <1>1, <1>2
<1>4. \A other \in S : _roundingLoss(other) \in Nat
      BY <1>1, LossTypes
<1>5. \A other \in S : f[other] = _roundingLoss(other) /\ f[other] \in Int
      BY <1>1, <1>4
<1>6. _lossOf(S) = SumFunctionOnSet(f, S) /\ _lossOf(R) = SumFunctionOnSet(f, R)
      BY DEF _lossOf
<1> HIDE DEF f
<1>7. SumFunctionOnSet(f, S) = f[token] + SumFunctionOnSet(f, S \ {token})
  <2>1. token \in S /\ \A other \in S : f[other] \in Int
        BY <1>5
  <2> QED BY ONLY <1>1, <2>1, SumRemove
<1>8. _lossOf(R) \in Nat
      BY <1>1, LossTypes
<1>9. _lossOf(S) = _lossOf(R) + _roundingLoss(token) /\ _roundingLoss(token) \in Nat
  <2> PICK a \in Nat, c \in Nat : a = _lossOf(R) /\ c = _roundingLoss(token)
      BY <1>4, <1>8
  <2>1. SumFunctionOnSet(f, S) = c + a
        BY <1>3, <1>5, <1>6, <1>7
  <2>2. _lossOf(S) = a + c
        BY <1>6, <2>1
  <2> QED BY <2>2
<1> QED BY <1>8, <1>9

LEMMA MergeTurnCovered ==
    ASSUME now \in Nat, VeTyped(ve), NEW T \in SUBSET StakingTokens, IsFiniteSet(T),
           NEW from \in Ids, NEW to \in Ids, from # to,
           NEW s, MergeOK(s, from, to), Covered(s, T), NEW token \in T
    PROVE  Covered(_mergeToken(s, token, from, to), T)
<1> DEFINE r == _mergeToken(s, token, from, to)
           end == _mergedEnd(from, to)
           amount == s.locked[from].amounts[token]
           u == [s EXCEPT !.locked[from].amounts[token] = 0]
           info == [stakingToken |-> token, tokenId |-> to, value |-> amount,
                    unlockTime |-> end, lockedAmount |-> s.locked[to].amounts[token],
                    lockedDerivedAmount |-> s.locked[to].derived,
                    lockedEnd |-> s.locked[to].end, depositType |-> "MERGE_TYPE"]
<1>1. VeTyped(s)
      BY DEF MergeOK
<1>2. /\ s.locked[to].amounts[token] \in Nat /\ s.locked[to].derived \in Nat /\ s.locked[to].end \in Nat
      /\ amount \in Nat
      BY <1>1 DEF VeTyped, Lock
<1>3. end \in Nat
      BY MergedEnd
<1> HIDE DEF end
<1>4. CASE amount = 0
  <2>1. r = s
        BY <1>4, Zenon DEF _mergeToken
  <2> QED BY <2>1
<1>5. CASE amount # 0
  <2>1. r = _depositFor(u, info)
        BY <1>5, Zenon DEF _mergeToken, end
  <2>2. /\ VeTyped(u) /\ Covered(u, T)
        /\ \A i \in Ids : i # from => u.locked[i] = s.locked[i]
    <3>1. /\ T \in SUBSET StakingTokens /\ IsFiniteSet(T) /\ VeTyped(s) /\ Covered(s, T) /\ from \in Ids
          /\ token \in StakingTokens /\ 0 \in Nat /\ 0 <= s.locked[from].amounts[token]
          BY <1>1, <1>2
    <3>2. Covered(u, T) /\ Taken(u, s, from, token, 0)
          BY ONLY <3>1, TakenCovered
    <3> HIDE DEF u
    <3> QED BY <3>2 DEF Taken
  <2> HIDE DEF u
  <2>3. /\ info.tokenId = to /\ info.value = amount /\ info.unlockTime = end
        /\ info.stakingToken = token
        /\ info.lockedAmount = s.locked[to].amounts[token]
        /\ info.lockedDerivedAmount = s.locked[to].derived /\ info.lockedEnd = s.locked[to].end
        OBVIOUS
  <2> HIDE DEF info, amount, r
  <2>4. DepositCounts(info, u, T)
        BY <1>2, <1>3, <2>2, <2>3 DEF DepositCounts
  <2>5. Covered(_depositFor(u, info), T)
    <3>1. now \in Nat /\ T \in SUBSET StakingTokens /\ IsFiniteSet(T)
          OBVIOUS
    <3> QED BY ONLY <2>2, <2>4, <3>1, DepositCovered
  <2> QED BY <2>1, <2>5 DEF r
<1> QED BY <1>4, <1>5

LEMMA MergeLoopCovered ==
    ASSUME now \in Nat, VeTyped(ve), tokens \in Seq(StakingTokens), Covered(ve, ToSet(tokens)),
           NEW from \in Ids, NEW to \in Ids, from # to, locked[from].end > now
    PROVE  Covered(_merged(from, to), ToSet(tokens))
<1>1. PICK h : /\ h[0] = ve /\ h[Len(tokens)] = _merged(from, to)
               /\ \A m \in 0..(Len(tokens) - 1) : h[m + 1] = _mergeToken(h[m], tokens[m + 1], from, to)
      BY MergeTurns
<1> PICK T \in SUBSET StakingTokens : T = ToSet(tokens) /\ IsFiniteSet(T)
    BY FirstTokens
<1> DEFINE n == Len(tokens)
           G == {m \in 0..n : MergeOK(h[m], from, to) /\ Covered(h[m], T)}
<1>2. n \in Nat /\ \A j \in 1..n : tokens[j] \in StakingTokens /\ tokens[j] \in T
      BY DEF ToSet
<1>3. 0 \in G
  <2>1. /\ ve.locked = locked /\ ve.nft = nft /\ ve.held = held
        BY DEF ve
  <2>2. MergeOK(ve, from, to)
        BY <2>1 DEF MergeOK
  <2> QED BY <1>1, <1>2, <2>2
<1>4. ASSUME NEW m \in 0..(n - 1), m \in G
      PROVE  m + 1 \in G
  <2>1. /\ m + 1 \in 1..n /\ tokens[m + 1] \in StakingTokens /\ tokens[m + 1] \in T
        /\ MergeOK(h[m], from, to) /\ Covered(h[m], T)
        BY <1>2, <1>4
  <2>2. h[m + 1] = _mergeToken(h[m], tokens[m + 1], from, to)
        BY <1>1
  <2>3. MergeOK(h[m + 1], from, to) /\ Covered(h[m + 1], T)
    <3> PICK tk \in T : tk = tokens[m + 1] /\ tk \in StakingTokens
        BY <2>1
    <3> PICK s : s = h[m]
        OBVIOUS
    <3>1. MergeOK(_mergeToken(s, tk, from, to), from, to)
          BY <2>1, MergeTurn
    <3>2. Covered(_mergeToken(s, tk, from, to), T)
          BY <2>1, MergeTurnCovered
    <3> QED BY <2>2, <3>1, <3>2
  <2> QED BY <2>1, <2>3
<1>5. n \in G
  <2> HIDE DEF G, n
  <2> QED BY ONLY <1>2, <1>3, <1>4, CountUp
<1> QED BY <1>1, <1>5

\* While split runs the amount derived for the NFT that is split is kept aside; the tokens the loop has
\* been through are what it may fall short by.
SplitCovered(x, id, newId, T, m) ==
    /\ Covered(x.s, T) /\ changesOf(x.s.points, id) = changesOf(points, id)
    /\ SumFunctionOnSet(countsOf(x.s.locked[id]), T)
           <= x.derived + (changesOf(points, id) * _lossOf(T) + _lossOf(firstTokens(m)))
    /\ \A j \in (m + 1)..Len(tokens) :
          /\ x.s.locked[id].amounts[tokens[j]] = locked[id].amounts[tokens[j]]
          /\ x.s.locked[newId].amounts[tokens[j]] = 0

LEMMA SplitTurnCovered ==
    ASSUME now \in Nat, VeTyped(ve), tokens \in Seq(StakingTokens), IsInjective(tokens),
           NEW T, T = ToSet(tokens), HistOK(points),
           NEW caller, NEW id \in Ids, NEW newId \in Ids, id # newId, NEW percent \in Percents,
           NEW x, SplitOK(x, caller, id, newId, percent),
           NEW m \in 0..(Len(tokens) - 1), SplitCovered(x, id, newId, T, m)
    PROVE  SplitCovered(_splitToken(x, tokens[m + 1], id, newId, percent), id, newId, T, m + 1)
<1>1. T \in SUBSET StakingTokens /\ IsFiniteSet(T)
      BY FirstTokens
<1>2. m + 1 \in 1..Len(tokens) /\ m + 1 \in (m + 1)..Len(tokens) /\ Len(tokens) \in Nat /\ DOMAIN tokens = 1..Len(tokens)
      OBVIOUS
<1> PICK token \in T : token = tokens[m + 1] /\ token \in StakingTokens
    BY <1>1, <1>2 DEF ToSet
<1>3. ASSUME NEW j \in ((m + 1) + 1)..Len(tokens)
      PROVE  j \in (m + 1)..Len(tokens) /\ tokens[j] # token /\ tokens[j] \in StakingTokens
  <2>1. j \in 1..Len(tokens) /\ j # m + 1 /\ j \in (m + 1)..Len(tokens)
        BY <1>2
  <2> QED BY <1>2, <2>1 DEF IsInjective
<1> DEFINE r == _splitToken(x, token, id, newId, percent)
           amount == locked[id].amounts[token]
           part == _part(token, id, percent)
           rest == amount - part
           u == [x.s EXCEPT !.locked[id].amounts[token] = rest]
           info == [stakingToken |-> token, tokenId |-> newId, value |-> part,
                    unlockTime |-> locked[id].end, lockedAmount |-> 0,
                    lockedDerivedAmount |-> x.s.locked[newId].derived,
                    lockedEnd |-> locked[id].end, depositType |-> "MERGE_TYPE"]
<1> PICK y : y = x.s
    OBVIOUS
<1>4. VeTyped(y) /\ Covered(y, T) /\ x.derived \in Nat /\ changesOf(y.points, id) = changesOf(points, id)
      BY DEF SplitOK, SplitCovered
<1>5. /\ y.locked[id].amounts[token] = amount /\ y.locked[newId].amounts[token] = 0
      BY <1>2 DEF SplitCovered
<1>6. /\ y.locked[newId].derived \in Nat /\ locked[id].end \in Nat
      BY <1>4 DEF VeTyped, Lock, ve
<1>7. part \in Nat /\ rest \in Nat /\ amount \in Nat /\ rest <= amount
  <2>1. part \in Nat /\ rest \in Nat
        BY PartType
  <2>2. amount \in Nat
        BY DEF VeTyped, Lock, ve
  <2> HIDE DEF part, amount
  <2> QED BY <2>1, <2>2
<1> PICK K \in Nat : K = _lossOf(T)
    BY <1>1, LossTypes
<1> PICK n \in Nat : n = changesOf(points, id)
    BY DEF HistOK, changesOf
<1> PICK e \in Nat, c \in Nat : /\ e = _lossOf(firstTokens(m)) /\ c = _roundingLoss(token)
                                /\ _lossOf(firstTokens(m + 1)) = e + c
    BY NextLoss
<1> PICK g \in Nat : g = n * K
    OBVIOUS
<1> PICK b \in Nat : b = g + e
    OBVIOUS
<1>8. n * K + (e + c) = b + c
  <2>1. g + (e + c) = b + c
        OBVIOUS
  <2> QED BY <2>1
<1>9. SumFunctionOnSet(countsOf(y.locked[id]), T) <= x.derived + b
      BY DEF SplitCovered
<1>10. CASE amount = 0
  <2>1. r = x
        BY <1>10, Zenon DEF _splitToken
  <2>2. SumFunctionOnSet(countsOf(y.locked[id]), T) \in Nat
    <3>1. y.locked[id] \in Lock
          BY <1>4 DEF VeTyped
    <3> QED BY <1>1, <3>1, CountsTypes
  <2>3. SumFunctionOnSet(countsOf(x.s.locked[id]), T)
            <= x.derived + (changesOf(points, id) * _lossOf(T) + _lossOf(firstTokens(m + 1)))
    <3> PICK z \in Nat, f \in Nat : z = x.derived /\ f = SumFunctionOnSet(countsOf(y.locked[id]), T)
        BY <1>4, <2>2
    <3>1. f <= z + b
          BY <1>9
    <3>2. f <= z + (b + c)
          BY ONLY <3>1, z \in Nat, f \in Nat, b \in Nat, c \in Nat
    <3> QED BY <1>8, <3>2
  <2>4. SplitCovered(x, id, newId, T, m + 1)
    <3>1. \A j \in ((m + 1) + 1)..Len(tokens) :
             /\ x.s.locked[id].amounts[tokens[j]] = locked[id].amounts[tokens[j]]
             /\ x.s.locked[newId].amounts[tokens[j]] = 0
          BY <1>3 DEF SplitCovered
    <3> QED BY <2>3, <3>1 DEF SplitCovered
  <2> QED BY <2>1, <2>4
<1>11. CASE amount # 0
  <2>1. r = [derived |-> _calculateDerivedAmount(amount, x.derived, rest, token), s |-> _depositFor(u, info)]
        BY <1>11, Zenon DEF _splitToken
  <2> HIDE DEF part, rest, amount
  <2>2. /\ VeTyped(u) /\ Covered(u, T) /\ u.points = y.points
        /\ \A i \in Ids : i # id => u.locked[i] = y.locked[i]
        /\ \A other \in StakingTokens :
              u.locked[id].amounts[other] = IF other = token THEN rest ELSE y.locked[id].amounts[other]
    <3>1. /\ VeTyped(y) /\ Covered(y, T) /\ id \in Ids /\ token \in StakingTokens /\ rest \in Nat
          /\ rest <= y.locked[id].amounts[token]
          BY <1>4, <1>5, <1>7
    <3>2. u = [y EXCEPT !.locked[id].amounts[token] = rest]
          OBVIOUS
    <3> HIDE DEF u
    <3>3. Covered(u, T) /\ Taken(u, y, id, token, rest)
          BY ONLY <1>1, <3>1, <3>2, TakenCovered
    <3> QED BY <3>3 DEF Taken
  <2> HIDE DEF u
  <2>3. /\ info.tokenId = newId /\ info.value = part /\ info.unlockTime = locked[id].end
        /\ info.stakingToken = token /\ info.lockedAmount = 0
        /\ info.lockedDerivedAmount = y.locked[newId].derived /\ info.lockedEnd = locked[id].end
        OBVIOUS
  <2> HIDE DEF info
  <2> PICK d : d = _depositFor(u, info)
      OBVIOUS
  <2>4. DepositCounts(info, u, T)
    <3>1. u.locked[newId] = y.locked[newId]
          BY <2>2
    <3>2. info.stakingToken \in T /\ info.lockedAmount = u.locked[info.tokenId].amounts[info.stakingToken]
          BY <1>5, <2>3, <3>1
    <3>3. info.lockedDerivedAmount = u.locked[info.tokenId].derived
          BY <2>3, <3>1
    <3>4. newId \in Ids /\ part \in Nat /\ locked[id].end \in Nat /\ 0 \in Nat
          BY <1>6, <1>7
    <3> QED BY ONLY <2>3, <3>2, <3>3, <3>4 DEF DepositCounts
  <2>5. Covered(d, T) /\ changesOf(d.points, id) = changesOf(points, id)
    <3>1. now \in Nat /\ d = _depositFor(u, info)
          OBVIOUS
    <3>2. Covered(d, T) /\ \A i \in Ids : i # info.tokenId => changesOf(d.points, i) = changesOf(u.points, i)
          BY ONLY <1>1, <2>2, <2>4, <3>1, DepositCovered
    <3> QED BY <1>4, <2>2, <2>3, <3>2
  <2>6. /\ d.locked[id] = u.locked[id]
        /\ \A other \in StakingTokens : other # token => d.locked[newId].amounts[other] = y.locked[newId].amounts[other]
    <3>1. /\ VeTyped(u) /\ info.tokenId \in Ids /\ info.value \in Nat /\ info.unlockTime \in Nat
          /\ info.lockedAmount \in Nat /\ info.lockedDerivedAmount \in Nat
          /\ info.value # 0 => info.stakingToken \in StakingTokens
          BY <1>6, <1>7, <2>2, <2>3
    <3>2. d = _depositFor(u, info)
          OBVIOUS
    <3>3. /\ \A i \in Ids : i # info.tokenId => d.locked[i] = u.locked[i]
          /\ \A other \in StakingTokens :
                d.locked[info.tokenId].amounts[other] =
                    IF info.value # 0 /\ other = info.stakingToken
                    THEN info.lockedAmount + info.value ELSE u.locked[info.tokenId].amounts[other]
          BY ONLY <3>1, <3>2, Deposit
    <3> QED BY <2>2, <2>3, <3>3
  <2> PICK l \in Lock, k \in Lock : l = y.locked[id] /\ k = u.locked[id]
      BY <1>4, <2>2 DEF VeTyped
  <2> PICK q : q = _calculateDerivedAmount(amount, x.derived, rest, token)
      OBVIOUS
  <2>7. SumFunctionOnSet(countsOf(k), T) <= q + (b + c)
    <3>1. /\ token \in T /\ l \in Lock /\ k \in Lock /\ x.derived \in Nat /\ b \in Nat
          /\ \A other \in T : other # token => k.amounts[other] = l.amounts[other]
          /\ SumFunctionOnSet(countsOf(l), T) <= x.derived + b
          BY <1>1, <1>4, <1>9, <2>2
    <3> PICK z \in Nat : z = x.derived
        BY <1>4
    <3>2. SumFunctionOnSet(countsOf(k), T)
              <= _calculateDerivedAmount(l.amounts[token], z, k.amounts[token], token) + (b + _roundingLoss(token))
      <4>1. z \in Nat /\ SumFunctionOnSet(countsOf(l), T) <= z + b
            BY <3>1
      <4> QED BY ONLY <1>1, <3>1, <4>1, DustFollows
    <3>3. l.amounts[token] = amount /\ k.amounts[token] = rest
          BY <1>5, <2>2
    <3> QED BY <3>2, <3>3
  <2>8. r.s = d /\ r.derived = q
        BY <2>1
  <2> HIDE DEF r
  <2>9. SumFunctionOnSet(countsOf(r.s.locked[id]), T)
            <= r.derived + (changesOf(points, id) * _lossOf(T) + _lossOf(firstTokens(m + 1)))
        BY <1>8, <2>6, <2>7, <2>8
  <2>10. ASSUME NEW j \in ((m + 1) + 1)..Len(tokens)
         PROVE  /\ r.s.locked[id].amounts[tokens[j]] = locked[id].amounts[tokens[j]]
                /\ r.s.locked[newId].amounts[tokens[j]] = 0
    <3>1. j \in (m + 1)..Len(tokens) /\ tokens[j] # token /\ tokens[j] \in StakingTokens
          BY <1>3
    <3>2. y.locked[id].amounts[tokens[j]] = locked[id].amounts[tokens[j]] /\ y.locked[newId].amounts[tokens[j]] = 0
          BY <3>1 DEF SplitCovered
    <3>3. /\ u.locked[id].amounts[tokens[j]] = y.locked[id].amounts[tokens[j]]
          /\ d.locked[newId].amounts[tokens[j]] = y.locked[newId].amounts[tokens[j]]
          BY <2>2, <2>6, <3>1
    <3> QED BY <2>6, <2>8, <3>2, <3>3
  <2>11. SplitCovered(r, id, newId, T, m + 1)
         BY <2>5, <2>8, <2>9, <2>10 DEF SplitCovered
  <2> QED BY <2>11 DEF r
<1> QED BY <1>10, <1>11

LEMMA SplitLoopCovered ==
    ASSUME now \in Nat, VeTyped(ve), tokens \in Seq(StakingTokens), IsInjective(tokens),
           NEW T, T = ToSet(tokens), Covered(ve, T), NEW caller,
           NEW id \in Ids, NEW newId \in Ids, id # newId, NEW percent \in Percents,
           locked[id].end > now, locked[newId] = noLock,
           \A token \in ToSet(tokens) : locked[id].amounts[token] # 0 => _part(token, id, percent) # 0
    PROVE  SplitCovered(_split(caller, id, newId, percent), id, newId, T, Len(tokens))
<1> DEFINE base == [derived |-> locked[id].derived, s |-> _mint(caller, newId)]
<1>1. PICK h : /\ h[0] = base
               /\ h[Len(tokens)] = _split(caller, id, newId, percent)
               /\ \A m \in 0..(Len(tokens) - 1) : h[m + 1] = _splitToken(h[m], tokens[m + 1], id, newId, percent)
  <2>1. tokens \in Seq(StakingTokens)
        OBVIOUS
  <2> QED BY ONLY <2>1, SplitTurns
<1> DEFINE n == Len(tokens)
           G == {m \in 0..n : SplitOK(h[m], caller, id, newId, percent) /\ SplitCovered(h[m], id, newId, T, m)}
<1>2. n \in Nat /\ \A j \in 1..n : tokens[j] \in StakingTokens /\ tokens[j] \in ToSet(tokens)
      BY DEF ToSet
<1>3. HistOK(points)
      BY DEF Covered, ve
<1>4. 0 \in G
  <2>1. base.s = [locked |-> locked, points |-> points, nft |-> _addTokenTo(nft, caller, newId), held |-> held]
        BY DEF ve, _mint
  <2>2. locked \in [Ids -> Lock] /\ held \in [StakingTokens -> Int] /\ locked[id].derived \in Nat
        BY DEF ve, VeTyped, Lock
  <2>3. VeTyped(base.s)
        BY <2>1, <2>2 DEF VeTyped
  <2>4. locked[newId].derived = 0 /\ \A token \in StakingTokens : locked[newId].amounts[token] = 0
        BY DEF noLock
  <2>5. base = [derived |-> base.derived, s |-> base.s] /\ base.derived = locked[id].derived
        OBVIOUS
  <2> HIDE DEF base
  <2>6. SplitOK(base, caller, id, newId, percent)
        BY <2>1, <2>2, <2>3, <2>4, <2>5 DEF SplitOK
  <2>7. Covered(base.s, T) /\ changesOf(base.s.points, id) = changesOf(points, id)
        BY <2>1 DEF Covered, ve
  <2>8. SumFunctionOnSet(countsOf(base.s.locked[id]), T)
            <= base.derived + (changesOf(points, id) * _lossOf(T) + _lossOf(firstTokens(0)))
    <3> PICK K \in Nat : K = _lossOf(T)
        BY FirstTokens, LossTypes
    <3> PICK k \in Nat : k = changesOf(points, id)
        BY <1>3 DEF HistOK, changesOf
    <3>1. k * K \in Nat
          OBVIOUS
    <3>2. _lossOf(firstTokens(0)) = 0
      <4>1. firstTokens(0) = {}
            BY FirstTokens
      <4> QED BY <4>1, SumEmpty DEF _lossOf
    <3>3. k * K + 0 = k * K
          BY <3>1
    <3>4. SumFunctionOnSet(countsOf(locked[id]), T) <= locked[id].derived + k * K
          BY DEF Covered, ve
    <3> QED BY <2>1, <2>5, <3>2, <3>3, <3>4
  <2>9. \A j \in (0 + 1)..n : /\ base.s.locked[id].amounts[tokens[j]] = locked[id].amounts[tokens[j]]
                              /\ base.s.locked[newId].amounts[tokens[j]] = 0
        BY <1>2, <2>1, <2>4
  <2>10. SplitCovered(base, id, newId, T, 0)
         BY <2>7, <2>8, <2>9 DEF SplitCovered
  <2> QED BY <1>1, <1>2, <2>6, <2>10
<1>5. ASSUME NEW m \in 0..(n - 1), m \in G
      PROVE  m + 1 \in G
  <2>1. /\ m + 1 \in 1..n /\ tokens[m + 1] \in StakingTokens /\ tokens[m + 1] \in ToSet(tokens)
        /\ SplitOK(h[m], caller, id, newId, percent) /\ SplitCovered(h[m], id, newId, T, m)
        BY <1>2, <1>5
  <2>2. h[m + 1] = _splitToken(h[m], tokens[m + 1], id, newId, percent)
        BY <1>1
  <2>3. SplitOK(h[m + 1], caller, id, newId, percent)
    <3> PICK tk \in StakingTokens : tk = tokens[m + 1]
        BY <2>1
    <3> PICK x : x = h[m]
        OBVIOUS
    <3>1. locked[id].amounts[tk] # 0 => _part(tk, id, percent) # 0
          BY <2>1
    <3>2. SplitOK(_splitToken(x, tk, id, newId, percent), caller, id, newId, percent)
          BY <2>1, <3>1, SplitTurn
    <3> QED BY <2>2, <3>2
  <2>4. SplitCovered(h[m + 1], id, newId, T, m + 1)
    <3> PICK x : x = h[m]
        OBVIOUS
    <3>1. SplitCovered(_splitToken(x, tokens[m + 1], id, newId, percent), id, newId, T, m + 1)
          BY <1>3, <2>1, SplitTurnCovered
    <3> QED BY <2>2, <3>1
  <2> QED BY <2>1, <2>3, <2>4
<1>6. n \in G
  <2> HIDE DEF G, n
  <2> QED BY ONLY <1>2, <1>4, <1>5, CountUp
<1> QED BY <1>1, <1>6

LEMMA WithdrawLoopCovered ==
    ASSUME now \in Nat, VeOK(ve), tokens \in Seq(StakingTokens), NEW T, T = ToSet(tokens), Covered(ve, T),
           NEW caller \in Accounts, NEW id \in Ids
    PROVE  Covered(_withdrawnAll(caller, id).s, T)
<1> DEFINE base == [ok |-> TRUE, s |-> ve]
<1>0. T \in SUBSET StakingTokens /\ IsFiniteSet(T)
      BY FirstTokens
<1>1. PICK h : /\ h[0] = base
               /\ h[Len(tokens)] = _withdrawnAll(caller, id)
               /\ \A m \in 0..(Len(tokens) - 1) : h[m + 1] = _withdrawToken(h[m], tokens[m + 1], caller, id)
  <2>1. tokens \in Seq(StakingTokens)
        OBVIOUS
  <2> QED BY ONLY <2>1, WithdrawTurns, ZenonT(60)
<1> DEFINE n == Len(tokens)
           G == {m \in 0..n : WithdrawOK(h[m], id) /\ Covered(h[m].s, T)}
<1>2. n \in Nat /\ \A j \in 1..n : tokens[j] \in StakingTokens /\ tokens[j] \in T
      BY DEF ToSet
<1>3. 0 \in G
  <2>1. /\ base = [ok |-> base.ok, s |-> base.s] /\ base.s = ve
        /\ ve.locked = locked /\ ve.nft = nft /\ ve.held = held
        BY DEF ve
  <2>2. locked[id].amounts \in [StakingTokens -> Nat] /\ held \in [StakingTokens -> Int]
        BY DEF ve, VeOK, VeTyped, Lock
  <2> HIDE DEF base
  <2>3. \A token \in StakingTokens : held[token] = held[token] - locked[id].amounts[token] + locked[id].amounts[token]
        BY <2>2
  <2>4. WithdrawOK(base, id) /\ Covered(base.s, T)
        BY <2>1, <2>3 DEF WithdrawOK
  <2> QED BY <1>1, <1>2, <2>4
<1>4. ASSUME NEW m \in 0..(n - 1), m \in G
      PROVE  m + 1 \in G
  <2>1. /\ m + 1 \in 1..n /\ tokens[m + 1] \in StakingTokens /\ tokens[m + 1] \in T
        /\ WithdrawOK(h[m], id) /\ Covered(h[m].s, T)
        BY <1>2, <1>4
  <2>2. h[m + 1] = _withdrawToken(h[m], tokens[m + 1], caller, id)
        BY <1>1
  <2>3. WithdrawOK(h[m + 1], id) /\ Covered(h[m + 1].s, T)
    <3> PICK tk \in T : tk = tokens[m + 1] /\ tk \in StakingTokens
        BY <2>1
    <3> PICK x : x = h[m]
        OBVIOUS
    <3> PICK r : r = _withdrawToken(x, tk, caller, id)
        OBVIOUS
    <3>1. WithdrawOK(r, id)
          BY <2>1, WithdrawTurn
    <3>2. Covered(r.s, T)
      <4>1. CASE x.ok /\ _mayWithdraw(x.s, caller, tk, id) /\ x.s.locked[id].amounts[tk] # 0
        <5> PICK s : s = x.s
            OBVIOUS
        <5>1. VeTyped(s) /\ Covered(s, T) /\ now \in Nat /\ id \in Ids /\ tk \in T
              BY <2>1 DEF WithdrawOK, VeOK
        <5>2. Covered(_withdrawn(s, tk, id), T)
              BY ONLY <1>0, <5>1, WithdrawalCovered
        <5>3. r = [ok |-> TRUE, s |-> _withdrawn(s, tk, id)]
              BY <4>1 DEF _withdrawToken
        <5> QED BY <5>2, <5>3
      <4>2. CASE ~(x.ok /\ _mayWithdraw(x.s, caller, tk, id) /\ x.s.locked[id].amounts[tk] # 0)
        <5>1. r = x \/ r = [ok |-> FALSE, s |-> x.s]
              BY <4>2, Zenon DEF _withdrawToken
        <5>2. r.s = x.s
              BY <5>1
        <5> QED BY <2>1, <5>2
      <4> QED BY <4>1, <4>2
    <3> QED BY <2>2, <3>1, <3>2
  <2> QED BY <2>1, <2>3
<1>5. n \in G
  <2> HIDE DEF G, n
  <2> QED BY ONLY <1>2, <1>3, <1>4, CountUp
<1> QED BY <1>1, <1>5

-----------------------------------------------------------------------------
(* Dust through the calls.                                                 *)

DInv == VInv /\ IsInjective(tokens) /\ Covered(ve, ToSet(tokens))

LEMMA DInvParts ==
    ASSUME DInv
    PROVE  /\ now \in Nat /\ tokens \in Seq(StakingTokens) /\ VeTyped(ve) /\ VeOK(ve) /\ Covered(ve, ToSet(tokens))
           /\ IsInjective(tokens) /\ ve.locked = locked /\ ve.points = points /\ HistOK(points)
           /\ ToSet(tokens) \in SUBSET StakingTokens /\ IsFiniteSet(ToSet(tokens))
<1>1. VInv /\ IsInjective(tokens) /\ Covered(ve, ToSet(tokens))
      BY DEF DInv
<1>2. now \in Nat /\ tokens \in Seq(StakingTokens) /\ VeTyped(ve) /\ VeOK(ve) /\ ve.locked = locked
      BY <1>1, VInvParts DEF VInv
<1>3. ve.points = points
      BY DEF ve
<1>4. HistOK(points)
      BY <1>1, <1>3 DEF Covered
<1>5. ToSet(tokens) \in SUBSET StakingTokens /\ IsFiniteSet(ToSet(tokens))
      BY ONLY <1>2, FirstTokens
<1> QED BY <1>1, <1>2, <1>3, <1>4, <1>5

LEMMA CreateCovered ==
    ASSUME DInv, NEW token \in StakingTokens, NEW value \in Values,
           NEW duration \in Durations, NEW to \in Accounts, createLockFor(token, value, duration, to)
    PROVE  \E s : Covered(s, ToSet(tokens)) /\ becomes(s) /\ UNCHANGED tokens
<1> DEFINE unlockTime == weekOf(now + duration)
           id == tokenId + 1
           info == [stakingToken |-> token, tokenId |-> id, value |-> value, unlockTime |-> unlockTime,
                    lockedAmount |-> 0, lockedDerivedAmount |-> 0, lockedEnd |-> 0,
                    depositType |-> "CREATE_LOCK_TYPE"]
           m == _mint(to, id)
<1>0. VInv
      BY DEF DInv
<1>1. /\ tokenId < MaxIds /\ token \in ToSet(tokens)
      /\ becomes(_depositFor(m, info)) /\ UNCHANGED tokens
      BY Zenon DEF createLockFor, OnlyLocksChange
<1>2. value \in Nat /\ unlockTime \in Nat
  <2>1. value \in Nat /\ duration \in Nat /\ now \in Nat
        BY <1>0, VeAssumption, VInvParts
  <2> PICK t \in Nat : t = now + duration
      BY <2>1
  <2>2. weekOf(t) \in Nat
        BY WeekType
  <2> QED BY <2>1, <2>2
<1> HIDE DEF unlockTime
<1>3. id \in Ids /\ id > tokenId
      BY <1>0, <1>1, VInvParts DEF Ids
<1>4. locked[id].derived = 0 /\ locked[id].amounts[token] = 0
      BY <1>0, <1>3, VInvParts DEF noLock
<1>5. m = [locked |-> locked, points |-> points, nft |-> _addTokenTo(nft, to, id), held |-> held]
      BY DEF _mint, ve
<1> HIDE DEF m, id
<1>6. VeTyped(m) /\ m.locked = locked /\ m.points = points
      BY <1>0, <1>5, VInvParts DEF VeTyped
<1>7. Covered(m, ToSet(tokens))
      BY <1>6, DInvParts DEF Covered
<1>8. /\ info.tokenId = id /\ info.value = value /\ info.unlockTime = unlockTime /\ info.stakingToken = token
      /\ info.lockedAmount = 0 /\ info.lockedDerivedAmount = 0 /\ info.lockedEnd = 0
      OBVIOUS
<1> HIDE DEF info
<1>9. DepositCounts(info, m, ToSet(tokens))
  <2>1. 0 \in Nat
        OBVIOUS
  <2> QED BY ONLY <1>1, <1>2, <1>3, <1>4, <1>6, <1>8, <2>1 DEF DepositCounts
<1>10. Covered(_depositFor(m, info), ToSet(tokens))
  <2>1. now \in Nat /\ ToSet(tokens) \in SUBSET StakingTokens /\ IsFiniteSet(ToSet(tokens))
        BY DInvParts
  <2> QED BY ONLY <1>6, <1>7, <1>9, <2>1, DepositCovered
<1> QED BY <1>1, <1>10

LEMMA IncreaseAmountCovered ==
    ASSUME DInv, NEW token \in StakingTokens, NEW value \in Values, NEW id \in Ids,
           increaseAmount(token, id, value)
    PROVE  \E s : Covered(s, ToSet(tokens)) /\ becomes(s) /\ UNCHANGED tokens
<1> DEFINE info == [stakingToken |-> token, tokenId |-> id, value |-> value, unlockTime |-> 0,
                    lockedAmount |-> locked[id].amounts[token], lockedDerivedAmount |-> locked[id].derived,
                    lockedEnd |-> locked[id].end, depositType |-> "INCREASE_LOCK_AMOUNT"]
<1>0. VInv
      BY DEF DInv
<1>1. token \in ToSet(tokens) /\ becomes(_depositFor(ve, info)) /\ UNCHANGED tokens
      BY Zenon DEF increaseAmount, OnlyLocksChange
<1>2. /\ value \in Nat /\ locked[id].amounts[token] \in Nat /\ locked[id].derived \in Nat
      /\ locked[id].end \in Nat /\ ve.locked = locked /\ id \in Ids /\ 0 \in Nat
      BY <1>0, VeAssumption, VInvParts
<1>3. /\ info.tokenId = id /\ info.value = value /\ info.unlockTime = 0 /\ info.stakingToken = token
      /\ info.lockedAmount = locked[id].amounts[token] /\ info.lockedDerivedAmount = locked[id].derived
      /\ info.lockedEnd = locked[id].end
      OBVIOUS
<1> HIDE DEF info
<1>4. DepositCounts(info, ve, ToSet(tokens))
      BY ONLY <1>1, <1>2, <1>3 DEF DepositCounts
<1>5. Covered(_depositFor(ve, info), ToSet(tokens))
      BY <1>4, DInvParts, DepositCovered
<1> QED BY <1>1, <1>5

LEMMA IncreaseUnlockTimeCovered ==
    ASSUME DInv, NEW caller \in Accounts, NEW id \in Ids, NEW duration \in Durations,
           increaseUnlockTime(caller, id, duration)
    PROVE  \E s : Covered(s, ToSet(tokens)) /\ becomes(s) /\ UNCHANGED tokens
<1> DEFINE unlockTime == weekOf(now + duration)
           info == [stakingToken |-> NULL, tokenId |-> id, value |-> 0, unlockTime |-> unlockTime,
                    lockedAmount |-> 0, lockedDerivedAmount |-> locked[id].derived,
                    lockedEnd |-> locked[id].end, depositType |-> "INCREASE_UNLOCK_TIME"]
<1>0. VInv
      BY DEF DInv
<1>1. becomes(_depositFor(ve, info)) /\ UNCHANGED tokens
      BY Zenon DEF increaseUnlockTime, OnlyLocksChange
<1>2. unlockTime \in Nat
  <2>1. duration \in Nat /\ now \in Nat
        BY <1>0, VeAssumption, VInvParts
  <2> PICK t \in Nat : t = now + duration
      BY <2>1
  <2>2. weekOf(t) \in Nat
        BY WeekType
  <2> QED BY <2>2
<1> HIDE DEF unlockTime
<1>3. locked[id].derived \in Nat /\ locked[id].end \in Nat /\ ve.locked = locked /\ id \in Ids /\ 0 \in Nat
      BY <1>0, VInvParts
<1>4. /\ info.tokenId = id /\ info.value = 0 /\ info.unlockTime = unlockTime /\ info.lockedAmount = 0
      /\ info.lockedDerivedAmount = locked[id].derived /\ info.lockedEnd = locked[id].end
      OBVIOUS
<1> HIDE DEF info
<1>5. DepositCounts(info, ve, ToSet(tokens))
      BY ONLY <1>2, <1>3, <1>4 DEF DepositCounts
<1>6. Covered(_depositFor(ve, info), ToSet(tokens))
      BY <1>5, DInvParts, DepositCovered
<1> QED BY <1>1, <1>6

LEMMA WithdrawCovered ==
    ASSUME DInv, NEW caller \in Accounts, NEW token \in StakingTokens, NEW id \in Ids,
           withdraw(caller, token, id)
    PROVE  \E s : Covered(s, ToSet(tokens)) /\ becomes(s) /\ UNCHANGED tokens
<1>1. _mayWithdraw(ve, caller, token, id) /\ becomes(_withdrawn(ve, token, id)) /\ UNCHANGED tokens
      BY Zenon DEF withdraw, OnlyLocksChange
<1>2. token \in ToSet(tokens)
  <2>1. locked[id].amounts[token] # 0
    <3>1. ve.locked[id].amounts[token] > 0
          BY <1>1 DEF _mayWithdraw
    <3> QED BY <3>1, DInvParts
  <2> QED BY <2>1 DEF DInv, VInv, Added
<1>3. Covered(_withdrawn(ve, token, id), ToSet(tokens))
  <2>1. /\ now \in Nat /\ VeTyped(ve) /\ Covered(ve, ToSet(tokens)) /\ id \in Ids
        /\ ToSet(tokens) \in SUBSET StakingTokens /\ IsFiniteSet(ToSet(tokens))
        BY DInvParts
  <2> QED BY ONLY <1>2, <2>1, WithdrawalCovered
<1> QED BY <1>1, <1>3

LEMMA WithdrawAllCovered ==
    ASSUME DInv, NEW caller \in Accounts, NEW id \in Ids, withdrawAll(caller, id)
    PROVE  \E s : Covered(s, ToSet(tokens)) /\ becomes(s) /\ UNCHANGED tokens
<1>1. becomes(_withdrawnAll(caller, id).s) /\ UNCHANGED tokens
      BY Zenon DEF withdrawAll, OnlyLocksChange
<1>2. now \in Nat /\ VeOK(ve) /\ tokens \in Seq(StakingTokens) /\ Covered(ve, ToSet(tokens)) /\ caller \in Accounts /\ id \in Ids
      BY DInvParts
<1>3. Covered(_withdrawnAll(caller, id).s, ToSet(tokens))
      BY ONLY <1>2, WithdrawLoopCovered
<1> QED BY <1>1, <1>3

LEMMA MergeCallCovered ==
    ASSUME DInv, NEW caller \in Accounts, NEW from \in Ids, NEW to \in Ids, merge(caller, from, to)
    PROVE  \E s : Covered(s, ToSet(tokens)) /\ becomes(s) /\ UNCHANGED tokens
<1> DEFINE info == [tokenId |-> from, oldDerivedAmount |-> locked[from].derived, newDerivedAmount |-> 0,
                    oldEnd |-> locked[from].end, newEnd |-> locked[from].end]
           m == _merged(from, to)
           r == [m EXCEPT !.locked[from] = [@ EXCEPT !.derived = 0, !.end = 0],
                          !.points = _checkpoint(@, info), !.nft = _burnt(@, from)]
<1> PICK T : T = ToSet(tokens)
    OBVIOUS
<1>1. from # to /\ locked[from].end > now /\ becomes(r) /\ UNCHANGED tokens
      BY Zenon DEF merge, OnlyLocksChange
<1>2. /\ now \in Nat /\ VeTyped(ve) /\ tokens \in Seq(StakingTokens) /\ Covered(ve, ToSet(tokens))
      /\ from \in Ids /\ to \in Ids
      BY DInvParts
<1>3. /\ MergeOK(m, from, to)
      /\ \A token \in ToSet(tokens) : m.locked[from].amounts[token] = 0
      BY ONLY <1>1, <1>2, MergeLoop
<1>4. Covered(m, ToSet(tokens))
      BY ONLY <1>1, <1>2, MergeLoopCovered
<1>5. /\ info.tokenId = from /\ info.newDerivedAmount = 0 /\ info.newEnd = locked[from].end
      OBVIOUS
<1> HIDE DEF info, m
<1>6. /\ VeTyped(m) /\ m = [locked |-> m.locked, points |-> m.points, nft |-> m.nft, held |-> m.held]
      /\ m.locked \in [Ids -> Lock] /\ m.held \in [StakingTokens -> Int]
      BY <1>3 DEF MergeOK, VeTyped
<1>7. /\ r.locked = [m.locked EXCEPT ![from] = [@ EXCEPT !.derived = 0, !.end = 0]]
      /\ r.points = _checkpoint(m.points, info) /\ r.held = m.held
      /\ r = [locked |-> r.locked, points |-> r.points, nft |-> r.nft, held |-> r.held]
  <2> DEFINE M == [m.locked EXCEPT ![from] = [@ EXCEPT !.derived = 0, !.end = 0]]
             P == _checkpoint(m.points, info)
             N == _burnt(m.nft, from)
  <2>1. r = [m EXCEPT !.locked = M, !.points = P, !.nft = N]
        BY Zenon
  <2> HIDE DEF M, P, N, r
  <2>2. r = [locked |-> M, points |-> P, nft |-> N, held |-> m.held]
        BY <1>6, <2>1
  <2>3. r.locked = M /\ r.points = P /\ r.held = m.held /\ r.nft = N
        BY <2>2
  <2> QED BY <2>2, <2>3 DEF M, P
<1> HIDE DEF r
<1> PICK k \in Lock : k = m.locked[from]
    BY <1>6
<1> PICK j : j = [k EXCEPT !.derived = 0, !.end = 0]
    OBVIOUS
<1>8. j \in Lock /\ j.derived = 0 /\ j.amounts = k.amounts
      BY DEF Lock
<1>9. /\ r.locked \in [Ids -> Lock] /\ r.locked[from] = j
      /\ \A i \in Ids : i # from => r.locked[i] = m.locked[i]
  <2>1. r.locked = [m.locked EXCEPT ![from] = j]
        BY <1>7
  <2> QED BY <1>6, <1>8, <2>1
<1>10. VeTyped(r)
       BY <1>6, <1>7, <1>9 DEF VeTyped
<1>11. T \in SUBSET StakingTokens /\ IsFiniteSet(T)
       BY DInvParts
<1>12. SumFunctionOnSet(countsOf(j), T) = 0
  <2> PICK f : f = countsOf(j)
      OBVIOUS
  <2>1. ASSUME NEW token \in T
        PROVE  f[token] = 0
    <3>1. j.amounts[token] = 0
          BY <1>3, <1>8
    <3>2. f[token] = counts(j.amounts[token], token) /\ token \in StakingTokens
          BY <1>8, <1>11, CountsTypes
    <3>3. counts(0, token) = 0
      <4>1. 0 \in Nat /\ token \in StakingTokens
            BY <3>2
      <4> QED BY ONLY <4>1, DerivedLoss
    <3> QED BY <3>1, <3>2, <3>3
  <2>2. SumFunctionOnSet(f, T) = 0
        BY ONLY <1>11, <2>1, SumZero
  <2> QED BY <2>2
<1>13. SumFunctionOnSet(countsOf(r.locked[from]), T)
           <= r.locked[from].derived + (changesOf(m.points, from) * _lossOf(T) + _lossOf(T))
  <2> PICK K \in Nat : K = _lossOf(T)
      BY <1>11, LossTypes
  <2> PICK n \in Nat : n = changesOf(m.points, from)
      BY <1>4 DEF Covered, HistOK, changesOf
  <2> PICK b \in Nat : b = n * K
      OBVIOUS
  <2>1. 0 <= 0 + (b + K)
        OBVIOUS
  <2> QED BY <1>8, <1>9, <1>12, <2>1
<1>14. Covered(r, T)
  <2>1. /\ now \in Nat /\ info.tokenId = from /\ info.newDerivedAmount \in Nat /\ info.newEnd \in Nat
        /\ Covered(m, T) /\ from \in Ids
        BY <1>2, <1>4, <1>5 DEF VeTyped, ve, Lock
  <2> QED BY ONLY <1>6, <1>7, <1>9, <1>10, <1>11, <1>13, <2>1, ChangeCovered
<1> QED BY <1>1, <1>14

LEMMA SplitCallCovered ==
    ASSUME DInv, NEW caller \in Accounts, NEW id \in Ids, NEW percent \in Percents,
           split(caller, id, percent)
    PROVE  \E s : Covered(s, ToSet(tokens)) /\ becomes(s) /\ UNCHANGED tokens
<1> DEFINE newId == tokenId + 1
           x == _split(caller, id, newId, percent)
           info == [tokenId |-> id, oldDerivedAmount |-> locked[id].derived, newDerivedAmount |-> x.derived,
                    oldEnd |-> locked[id].end, newEnd |-> locked[id].end]
           r == [x.s EXCEPT !.locked[id].derived = x.derived, !.points = _checkpoint(@, info)]
<1> PICK T : T = ToSet(tokens)
    OBVIOUS
<1>0. VInv
      BY DEF DInv
<1>1. /\ tokenId < MaxIds /\ nft.idToOwner[id] = caller /\ locked[id].end > now
      /\ \A token \in ToSet(tokens) : locked[id].amounts[token] # 0 => _part(token, id, percent) # 0
      /\ becomes(r) /\ UNCHANGED tokens
      BY Zenon DEF split, OnlyLocksChange
<1>2. newId \in Ids /\ newId > tokenId
      BY <1>0, <1>1, VInvParts DEF Ids
<1>3. id # newId
      BY <1>0, <1>1, <1>2, VInvParts DEF Ids
<1>4. locked[newId] = noLock
      BY <1>0, <1>2, VInvParts
<1> HIDE DEF newId
<1>5. /\ now \in Nat /\ VeTyped(ve) /\ tokens \in Seq(StakingTokens) /\ id \in Ids /\ percent \in Percents
      BY DInvParts
<1>6. SplitOK(x, caller, id, newId, percent)
      BY ONLY <1>1, <1>2, <1>3, <1>4, <1>5, SplitLoop
<1>7. SplitCovered(x, id, newId, T, Len(tokens))
  <2>1. IsInjective(tokens) /\ T = ToSet(tokens) /\ Covered(ve, T)
        BY DInvParts
  <2> QED BY ONLY <1>1, <1>2, <1>3, <1>4, <1>5, <2>1, SplitLoopCovered
<1>8. /\ info.tokenId = id /\ info.newDerivedAmount = x.derived /\ info.newEnd = locked[id].end
      OBVIOUS
<1> HIDE DEF info, x
<1> PICK m : m = x.s
    OBVIOUS
<1>9. /\ m = [locked |-> m.locked, points |-> m.points, nft |-> m.nft, held |-> m.held]
      /\ m.locked \in [Ids -> Lock] /\ m.held \in [StakingTokens -> Int] /\ x.derived \in Nat /\ VeTyped(m)
      BY <1>6 DEF SplitOK, VeTyped
<1>10. /\ r.locked = [m.locked EXCEPT ![id] = [@ EXCEPT !.derived = x.derived]]
       /\ r.points = _checkpoint(m.points, info) /\ r.held = m.held
       /\ r = [locked |-> r.locked, points |-> r.points, nft |-> r.nft, held |-> r.held]
  <2> DEFINE M == [m.locked EXCEPT ![id] = [@ EXCEPT !.derived = x.derived]]
             P == _checkpoint(m.points, info)
  <2>1. r = [m EXCEPT !.locked = M, !.points = P]
        BY Zenon
  <2> HIDE DEF M, P, r
  <2>2. r = [locked |-> M, points |-> P, nft |-> m.nft, held |-> m.held]
        BY <1>9, <2>1
  <2>3. r.locked = M /\ r.points = P /\ r.held = m.held /\ r.nft = m.nft
        BY <2>2
  <2> QED BY <2>2, <2>3 DEF M, P
<1> HIDE DEF r
<1> PICK k \in Lock : k = m.locked[id]
    BY <1>9
<1> PICK j : j = [k EXCEPT !.derived = x.derived]
    OBVIOUS
<1>11. j \in Lock /\ j.derived = x.derived /\ j.amounts = k.amounts
       BY <1>9 DEF Lock
<1>12. /\ r.locked \in [Ids -> Lock] /\ r.locked[id] = j
       /\ \A i \in Ids : i # id => r.locked[i] = m.locked[i]
  <2>1. r.locked = [m.locked EXCEPT ![id] = j]
        BY <1>10
  <2> QED BY <1>9, <1>11, <2>1
<1>13. VeTyped(r)
       BY <1>9, <1>10, <1>12 DEF VeTyped
<1>14. T \in SUBSET StakingTokens /\ IsFiniteSet(T)
       BY DInvParts
<1>15. SumFunctionOnSet(countsOf(r.locked[id]), T)
           <= r.locked[id].derived + (changesOf(m.points, id) * _lossOf(T) + _lossOf(T))
  <2>1. countsOf(j) = countsOf(k)
        BY <1>11 DEF countsOf
  <2>2. firstTokens(Len(tokens)) = T
        BY <1>5, FirstTokens
  <2>3. /\ SumFunctionOnSet(countsOf(k), T) <= x.derived + (changesOf(points, id) * _lossOf(T) + _lossOf(T))
        /\ changesOf(m.points, id) = changesOf(points, id)
        BY <1>7, <2>2 DEF SplitCovered
  <2> QED BY <1>11, <1>12, <2>1, <2>3
<1>16. Covered(r, T)
  <2>1. /\ now \in Nat /\ info.tokenId = id /\ info.newDerivedAmount \in Nat /\ info.newEnd \in Nat
        /\ Covered(m, T) /\ id \in Ids
        BY <1>5, <1>7, <1>8, <1>9 DEF VeTyped, ve, Lock, SplitCovered
  <2> QED BY ONLY <1>9, <1>10, <1>12, <1>13, <1>14, <1>15, <2>1, ChangeCovered
<1> QED BY <1>1, <1>16

LEMMA LockCallCovered ==
    ASSUME DInv, LockCall
    PROVE  \E s : Covered(s, ToSet(tokens)) /\ becomes(s) /\ UNCHANGED tokens
<1>1. CASE \E token \in StakingTokens, value \in Values, duration \in Durations, to \in Accounts :
              createLockFor(token, value, duration, to)
      BY <1>1, CreateCovered, Zenon
<1>2. CASE \E token \in StakingTokens, id \in Ids, value \in Values : increaseAmount(token, id, value)
      BY <1>2, IncreaseAmountCovered, Zenon
<1>3. CASE \E caller \in Accounts, id \in Ids, duration \in Durations : increaseUnlockTime(caller, id, duration)
      BY <1>3, IncreaseUnlockTimeCovered, Zenon
<1>4. CASE \E caller \in Accounts, from, to \in Ids : merge(caller, from, to)
      BY <1>4, MergeCallCovered, Zenon
<1>5. CASE \E caller \in Accounts, id \in Ids, percent \in Percents : split(caller, id, percent)
      BY <1>5, SplitCallCovered, Zenon
<1>6. CASE \E caller \in Accounts, token \in StakingTokens, id \in Ids : withdraw(caller, token, id)
      BY <1>6, WithdrawCovered, Zenon
<1>7. CASE \E caller \in Accounts, id \in Ids : withdrawAll(caller, id)
      BY <1>7, WithdrawAllCovered, Zenon
<1> QED BY Zenon, <1>1, <1>2, <1>3, <1>4, <1>5, <1>6, <1>7 DEF LockCall

\* Only governance changes the list of tokens, and adds a token that is not there.
LEMMA OtherTokens ==
    ASSUME NFTCall \/ GovernanceCall \/ checkpoint \/ Distribute \/ TimePasses \/ UNCHANGED vars
    PROVE  \/ tokens' = tokens
           \/ \E token \in StakingTokens : token \notin ToSet(tokens) /\ tokens' = Append(tokens, token)
<1>1. CASE checkpoint
      BY <1>1, Zenon DEF checkpoint
<1>2. CASE init
      BY <1>2, Zenon DEF init, veVars
<1>3. ASSUME NEW amount, receive(amount)
      PROVE  UNCHANGED tokens
      BY <1>3, Zenon DEF receive, OnlyPoints, _checkpointTotalSupply
<1>4. CASE checkpointTotalSupply
      BY <1>4, Zenon DEF checkpointTotalSupply, OnlyPoints, _checkpointTotalSupply
<1>5. ASSUME NEW ids, _claims(ids)
      PROVE  UNCHANGED tokens
      BY <1>5, Zenon DEF _claims, OnlyPoints, _checkpointTotalSupply
<1>6. CASE TimePasses
      BY <1>6, Zenon DEF TimePasses
<1>7. CASE UNCHANGED vars
      BY <1>7, Zenon DEF vars, veVars
<1>8. CASE NFTCall
      BY <1>8, Zenon DEF NFTCall, safeTransferFrom, approve, setApprovalForAll, OnlyNFTsChange
<1>9. CASE GovernanceCall
      BY <1>9, Zenon DEF GovernanceCall, announceAction, whitelistTransferFor, addToken, OnlyGovernance
<1> QED BY <1>1, <1>2, <1>3, <1>4, <1>5, <1>6, <1>7, <1>8, <1>9, Zenon DEF Distribute, claim, claimMany

\* A token that is added is in no lock yet.
LEMMA AddedCovered ==
    ASSUME NEW T \in SUBSET StakingTokens, IsFiniteSet(T), NEW s, VeTyped(s), Covered(s, T),
           NEW token \in StakingTokens, token \notin T, \A i \in Ids : s.locked[i].amounts[token] = 0
    PROVE  Covered(s, T \cup {token})
<1> PICK S \in SUBSET StakingTokens : S = T \cup {token} /\ IsFiniteSet(S) /\ token \in S
  <2>1. IsFiniteSet(T)
        OBVIOUS
  <2>2. IsFiniteSet(T \cup {token})
        BY ONLY <2>1, FS_AddElement
  <2> QED BY <2>2
<1>1. S \ {token} = T
      OBVIOUS
<1> PICK K \in Nat, J \in Nat : K = _lossOf(T) /\ J = _lossOf(S) /\ K <= J
  <2> DEFINE f == [other \in StakingTokens |-> _roundingLoss(other)]
  <2>1. _lossOf(T) \in Nat /\ _lossOf(S) \in Nat /\ \A other \in S : _roundingLoss(other) \in Nat
        BY LossTypes
  <2>2. \A other \in S : f[other] \in Int /\ f[other] = _roundingLoss(other)
        BY <2>1
  <2>3. _lossOf(T) = SumFunctionOnSet(f, T) /\ _lossOf(S) = SumFunctionOnSet(f, S)
        BY DEF _lossOf
  <2> HIDE DEF f
  <2>4. SumFunctionOnSet(f, S) = f[token] + SumFunctionOnSet(f, S \ {token})
    <3>1. IsFiniteSet(S) /\ token \in S /\ \A other \in S : f[other] \in Int
          BY <2>2
    <3> QED BY ONLY <3>1, SumRemove
  <2> PICK a \in Nat, c \in Nat, d \in Nat : a = _lossOf(T) /\ c = _lossOf(S) /\ d = f[token]
      BY <2>1, <2>2
  <2>5. SumFunctionOnSet(f, S \ {token}) = a
        BY <1>1, <2>3
  <2>6. c = d + a
        BY <2>3, <2>4, <2>5
  <2>7. a <= c
        BY <2>6
  <2> QED BY <2>7
<1>2. ASSUME NEW i \in Ids
      PROVE  SumFunctionOnSet(countsOf(s.locked[i]), S) <= s.locked[i].derived + changesOf(s.points, i) * _lossOf(S)
  <2> PICK l \in Lock : l = s.locked[i] /\ l.derived \in Nat
      BY DEF VeTyped, Lock
  <2> PICK f : f = countsOf(l)
      OBVIOUS
  <2>1. f[token] = 0 /\ \A other \in S : f[other] \in Int
    <3>1. counts(0, token) = 0
      <4>1. 0 \in Nat /\ token \in StakingTokens
            OBVIOUS
      <4> QED BY ONLY <4>1, DerivedLoss
    <3>2. /\ f[token] = counts(l.amounts[token], token)
          /\ \A other \in S : f[other] \in Int
          BY CountsTypes
    <3> QED BY <3>1, <3>2
  <2>2. SumFunctionOnSet(f, S) = f[token] + SumFunctionOnSet(f, S \ {token})
    <3>1. IsFiniteSet(S) /\ token \in S
          OBVIOUS
    <3> QED BY ONLY <2>1, <3>1, SumRemove
  <2>3. SumFunctionOnSet(f, T) \in Nat
        BY CountsTypes
  <2> PICK n \in Nat : n = changesOf(s.points, i)
      BY DEF Covered, HistOK, changesOf
  <2>4. SumFunctionOnSet(f, T) <= l.derived + n * K
        BY DEF Covered
  <2> PICK a \in Nat, c \in Nat : a = n * K /\ c = n * J /\ a <= c
      OBVIOUS
  <2>5. SumFunctionOnSet(f, S) = SumFunctionOnSet(f, T)
    <3>1. SumFunctionOnSet(f, S \ {token}) = SumFunctionOnSet(f, T)
          BY <1>1
    <3> PICK e \in Nat : e = SumFunctionOnSet(f, T)
        BY <2>3
    <3>2. SumFunctionOnSet(f, S) = 0 + e
          BY <2>1, <2>2, <3>1
    <3> QED BY <3>2
  <2>6. SumFunctionOnSet(f, S) <= l.derived + c
        BY <2>3, <2>4, <2>5
  <2> QED BY <2>6
<1> QED BY <1>2 DEF Covered

LEMMA DInvStep ==
    ASSUME DInv, [Next]_vars
    PROVE  DInv'
<1>1. VInv'
      BY VeStep DEF DInv
<1>2. ve' = [locked |-> locked', points |-> points', nft |-> nft', held |-> held']
      BY DEF ve
<1>3. ve'.locked = locked' /\ ve'.points = points'
      BY <1>2
<1>4. CASE LockCall
  <2>1. PICK s : Covered(s, ToSet(tokens)) /\ becomes(s) /\ UNCHANGED tokens
        BY <1>4, LockCallCovered
  <2>2. locked' = s.locked /\ points' = s.points /\ tokens' = tokens
        BY <2>1 DEF becomes
  <2>3. IsInjective(tokens')
        BY <2>2, DInvParts
  <2>4. Covered(ve', ToSet(tokens))
        BY <1>3, <2>1, <2>2 DEF Covered
  <2>5. ToSet(tokens') = ToSet(tokens)
        BY <2>2
  <2>6. Covered(ve', ToSet(tokens'))
        BY <2>4, <2>5
  <2>7. Covered(ve, ToSet(tokens))'
        BY <2>6
  <2> QED BY <1>1, <2>3, <2>7 DEF DInv
<1>5. CASE NFTCall \/ GovernanceCall \/ checkpoint \/ Distribute \/ TimePasses \/ UNCHANGED vars
  <2>1. locked' = locked /\ points' \in {points, _filled(points)}
        BY <1>5, OtherPoints
  <2> PICK T \in SUBSET StakingTokens : T = ToSet(tokens) /\ IsFiniteSet(T)
      BY DInvParts
  <2>2. HistOK(points') /\ \A i \in Ids : changesOf(points', i) = changesOf(points, i)
    <3>1. HistOK(points)
          BY DInvParts
    <3>2. HistOK(_filled(points)) /\ \A i \in Ids : changesOf(_filled(points), i) = changesOf(points, i)
          BY ONLY <3>1, FilledHist
    <3> QED BY <2>1, <3>1, <3>2
  <2> PICK s : s = ve'
      OBVIOUS
  <2>3. Covered(s, T)
    <3>1. s.locked = locked /\ s.points = points'
          BY <1>3, <2>1
    <3>2. \A i \in Ids : SumFunctionOnSet(countsOf(locked[i]), T)
                             <= locked[i].derived + changesOf(points, i) * _lossOf(T)
          BY DInvParts DEF Covered
    <3> QED BY <2>2, <3>1, <3>2 DEF Covered
  <2>4. CASE tokens' = tokens
    <3>1. IsInjective(tokens') /\ ToSet(tokens') = T
          BY <2>4, DInvParts
    <3>2. Covered(s, ToSet(tokens'))
          BY <2>3, <3>1
    <3>3. Covered(ve, ToSet(tokens))'
          BY <3>2
    <3> QED BY <1>1, <3>1, <3>3 DEF DInv
  <2>5. ASSUME NEW token \in StakingTokens, token \notin T, tokens' = Append(tokens, token)
        PROVE  DInv'
    <3>1. tokens \in Seq(StakingTokens) /\ IsInjective(tokens)
          BY DInvParts
    <3> PICK n \in Nat : n = Len(tokens)
        BY <3>1
    <3>2. /\ DOMAIN tokens = 1..n /\ DOMAIN tokens' = 1..(n + 1) /\ tokens'[n + 1] = token
          /\ \A i \in 1..n : tokens'[i] = tokens[i]
          BY <2>5, <3>1
    <3>3. \A i \in 1..n : tokens[i] \in T
          BY <3>2 DEF ToSet
    <3>4. IsInjective(tokens')
      <4> SUFFICES ASSUME NEW a \in 1..(n + 1), NEW c \in 1..(n + 1), tokens'[a] = tokens'[c]
                   PROVE  a = c
          BY <3>2 DEF IsInjective
      <4>1. CASE a \in 1..n /\ c \in 1..n
            BY <3>1, <3>2, <4>1 DEF IsInjective
      <4>2. CASE a = n + 1 /\ c \in 1..n
            BY <2>5, <3>2, <3>3, <4>2
      <4>3. CASE c = n + 1 /\ a \in 1..n
            BY <2>5, <3>2, <3>3, <4>3
      <4>4. CASE a = n + 1 /\ c = n + 1
            BY <4>4
      <4> QED BY <4>1, <4>2, <4>3, <4>4
    <3>5. ToSet(tokens') = T \cup {token}
      <4>1. ToSet(tokens') = {tokens'[i] : i \in 1..(n + 1)} /\ T = {tokens[i] : i \in 1..n}
            BY <3>2, Zenon DEF ToSet
      <4>2. 1..(n + 1) = (1..n) \cup {n + 1}
            OBVIOUS
      <4> QED BY <3>2, <4>1, <4>2
    <3>6. Covered(s, T \cup {token})
      <4>1. VeTyped(s)
        <5>1. VeTyped(ve)'
              BY <1>1 DEF VInv, VeOK
        <5> QED BY <5>1 DEF VeTyped, Lock
      <4>2. \A i \in Ids : s.locked[i].amounts[token] = 0
        <5>1. \A i \in Ids : locked[i].amounts[token] = 0
              BY <2>5 DEF DInv, VInv, Added
        <5> QED BY <1>3, <2>1, <5>1
      <4>3. T \in SUBSET StakingTokens /\ IsFiniteSet(T) /\ token \in StakingTokens /\ token \notin T
            BY <2>5
      <4> QED BY ONLY <2>3, <4>1, <4>2, <4>3, AddedCovered
    <3>7. Covered(s, ToSet(tokens'))
          BY <3>5, <3>6
    <3>8. Covered(ve, ToSet(tokens))'
          BY <3>7
    <3> QED BY <1>1, <3>4, <3>8 DEF DInv
  <2> QED BY <1>5, <2>4, <2>5, OtherTokens
<1> QED BY <1>4, <1>5, Zenon DEF Next, VeNext

LEMMA DInvBegins ==
    ASSUME Init
    PROVE  DInv
<1>1. /\ locked = [id \in Ids |-> noLock] /\ tokens \in InitialTokens
      /\ points = [pointHistory |-> <<Point(0, 0, StartTime)>>,
                   userPointHistory |-> [id \in Ids |-> << >>],
                   slopeChanges |-> [w \in Weeks |-> 0]]
      BY Zenon DEF Init, VeInit
<1>2. VInv /\ IsInjective(tokens) /\ tokens \in Seq(StakingTokens)
      BY <1>1, VeBegins, VeAssumption
<1> PICK T \in SUBSET StakingTokens : T = ToSet(tokens) /\ IsFiniteSet(T)
    BY <1>2, FirstTokens
<1>3. /\ points = [pointHistory |-> points.pointHistory, slopeChanges |-> points.slopeChanges,
                   userPointHistory |-> points.userPointHistory]
      /\ points.userPointHistory = [id \in Ids |-> << >>]
      BY <1>1
<1>4. HistOK(points) /\ \A i \in Ids : changesOf(points, i) = 0
  <2>1. points.userPointHistory \in [Ids -> Seq(PointRec)]
        BY <1>3
  <2>2. \A i \in Ids : points.userPointHistory[i] = << >>
        BY <1>3
  <2> QED BY <1>3, <2>1, <2>2 DEF HistOK, changesOf
<1>5. noLock \in Lock /\ noLock.derived = 0 /\ \A token \in StakingTokens : noLock.amounts[token] = 0
      BY DEF Lock, noLock
<1>6. SumFunctionOnSet(countsOf(noLock), T) = 0
  <2> PICK f : f = countsOf(noLock)
      OBVIOUS
  <2>1. ASSUME NEW token \in T
        PROVE  f[token] = 0
    <3>1. f[token] = counts(noLock.amounts[token], token)
          BY <1>5, CountsTypes
    <3>2. counts(0, token) = 0
      <4>1. 0 \in Nat /\ token \in StakingTokens
            OBVIOUS
      <4> QED BY ONLY <4>1, DerivedLoss
    <3> QED BY <1>5, <3>1, <3>2
  <2>2. SumFunctionOnSet(f, T) = 0
    <3>1. IsFiniteSet(T)
          OBVIOUS
    <3> QED BY ONLY <2>1, <3>1, SumZero
  <2> QED BY <2>2
<1>7. Covered(ve, T)
  <2>1. ve.locked = locked /\ ve.points = points
        BY DEF ve
  <2>2. ASSUME NEW i \in Ids
        PROVE  SumFunctionOnSet(countsOf(locked[i]), T) <= locked[i].derived + changesOf(points, i) * _lossOf(T)
    <3> PICK K \in Nat : K = _lossOf(T)
        BY LossTypes
    <3>1. 0 <= 0 + 0 * K
          OBVIOUS
    <3>2. locked[i] = noLock
          BY <1>1
    <3> QED BY <1>4, <1>5, <1>6, <3>1, <3>2
  <2> QED BY <1>4, <2>1, <2>2 DEF Covered
<1> QED BY <1>2, <1>7 DEF DInv

\* Locks are backed.  Whatever locks are made, added to, extended, merged, split and withdrawn in
\* whatever order, Ve.sol holds the tokens it owes, owes them to owners it lists as such, and what an
\* NFT that withdraw or merge burnt leaves behind is dust: no more than _calculateDerivedAmount, which
\* rounds up what it takes off and down what it adds, lost at the changes the history of the NFT counts.
THEOREM LocksAreBacked == Spec => []LocksBacked
<1>1. Init => DInv
      BY DInvBegins
<1>2. DInv /\ [Next]_vars => DInv'
      BY DInvStep
<1>3. DInv => OnlyDustIsLost
  <2> SUFFICES ASSUME DInv PROVE OnlyDustIsLost
      OBVIOUS
  <2>0. VInv
        BY DEF DInv
  <2> SUFFICES ASSUME NEW id \in Ids, nft.idToOwner[id] = NULL
               PROVE  /\ locked[id].derived = 0 /\ locked[id].end = 0
                      /\ \A token \in StakingTokens :
                            _calculateDerivedAmount(0, 0, locked[id].amounts[token], token)
                                <= Len(points.userPointHistory[id]) * _lossOf(ToSet(tokens))
      BY DEF OnlyDustIsLost
  <2> PICK T \in SUBSET StakingTokens : T = ToSet(tokens) /\ IsFiniteSet(T)
      BY DInvParts
  <2>1. locked[id].derived = 0 /\ locked[id].end = 0 /\ locked[id] \in Lock
        BY <2>0, VInvParts
  <2> PICK l \in Lock : l = locked[id]
      BY <2>1
  <2> PICK n \in Nat : n = Len(points.userPointHistory[id])
      BY DInvParts DEF HistOK
  <2> PICK K \in Nat : K = _lossOf(T)
      BY LossTypes
  <2> PICK b \in Nat : b = n * K
      OBVIOUS
  <2>2. SumFunctionOnSet(countsOf(l), T) <= 0 + b /\ SumFunctionOnSet(countsOf(l), T) \in Nat
    <3>1. SumFunctionOnSet(countsOf(locked[id]), T) <= locked[id].derived + changesOf(points, id) * _lossOf(T)
          BY DInvParts DEF Covered
    <3> QED BY <2>1, <3>1, CountsTypes DEF changesOf
  <2>3. ASSUME NEW token \in StakingTokens
        PROVE  _calculateDerivedAmount(0, 0, l.amounts[token], token) <= b
    <3> PICK a \in Nat : a = l.amounts[token]
        BY CountsTypes
    <3>1. _calculateDerivedAmount(0, 0, a, token) = counts(a, token) /\ counts(0, token) = 0
      <4>1. 0 \in Nat /\ a \in Nat /\ token \in StakingTokens
            OBVIOUS
      <4> QED BY ONLY <4>1, DerivedLoss
    <3>2. CASE token \in T
      <4>1. counts(a, token) \in Nat /\ counts(a, token) <= SumFunctionOnSet(countsOf(l), T)
        <5>1. /\ countsOf(l)[token] = counts(l.amounts[token], token) /\ countsOf(l)[token] \in Nat
              /\ countsOf(l)[token] <= SumFunctionOnSet(countsOf(l), T)
              BY <3>2, CountsTypes
        <5> QED BY <5>1
      <4> QED BY <2>2, <3>1, <4>1
    <3>3. CASE token \notin T
      <4>1. a = 0
            BY <2>0, <3>3 DEF VInv, Added
      <4> QED BY <3>1, <4>1
    <3> QED BY <3>2, <3>3
  <2> QED BY <2>1, <2>3
<1>4. TokensHeld /\ OwnersListed /\ OnlyDustIsLost => LocksBacked
      BY DEF LocksBacked
<1> QED BY <1>1, <1>2, <1>3, <1>4, TokensAreHeld, NFTsListed, PTL DEF Spec
=============================================================================
