---------------------------- MODULE DataTheorems ----------------------------
(***************************************************************************)
(* What the proofs need of the data the models are made of: sums of the    *)
(* values of a function over a finite set (balances, debts, stakes), and   *)
(* lists out of which an element is taken and into which one is put.       *)
(*                                                                         *)
(* The library defines a sum by recursion over the subsets of the set.     *)
(* That the recursion has a solution, and what it computes, is shown by    *)
(* looking at a smallest subset for which it would fail: strict inclusion  *)
(* of finite sets is well founded.                                         *)
(***************************************************************************)
EXTENDS Functions, SequencesExt, Integers, FiniteSetTheorems, TLAPS

\* The element that the fold takes first.
Chosen(s) == CHOOSE x \in s : TRUE

\* g holds the sums of f over all subsets of T.
SumsOf(g, f, T) ==
    g = [s \in SUBSET T |-> IF s = {} THEN 0 ELSE f[Chosen(s)] + g[s \ {Chosen(s)}]]

\* The element taken first is one of the set.
LEMMA ChosenIn == \A s : s # {} => Chosen(s) \in s
BY DEF Chosen

\* The library's sum is the value at the set itself of some solution of the recursion.
LEMMA SumIsChosen ==
    ASSUME NEW f, NEW S
    PROVE  SumFunctionOnSet(f, S) = (CHOOSE g : SumsOf(g, f, S))[S]
BY DEF SumFunctionOnSet, FoldFunctionOnSet, MapThenFoldSet, SumsOf, Chosen

-----------------------------------------------------------------------------
(* Induction over the subsets of a finite set.                             *)

\* Among subsets of a finite set there is one without a smaller one.
LEMMA MinimalSubset ==
    ASSUME NEW S, IsFiniteSet(S), NEW B \in SUBSET (SUBSET S), B # {}
    PROVE  \E T \in B : \A U \in SUBSET T : U # T => U \notin B
<1>1. B \subseteq FiniteSubsetsOf(S)
      BY FS_Subset DEF FiniteSubsetsOf
<1>2. IsWellFoundedOn(StrictSubsetOrdering(S), FiniteSubsetsOf(S))
      BY FS_StrictSubsetOrderingWellFounded
<1>3. PICK T \in B : \A U \in B : ~(<<U, T>> \in StrictSubsetOrdering(S))
      BY <1>1, <1>2, WFMin
<1>4. ASSUME NEW U \in SUBSET T, U # T, U \in B
      PROVE  FALSE
      BY <1>3, <1>4 DEF StrictSubsetOrdering
<1> QED BY <1>4

\* A set of subsets that has the empty one, and every T whose rest without its chosen element it
\* has, has the whole set.
LEMMA SubsetInduction ==
    ASSUME NEW S, IsFiniteSet(S), NEW G, {} \in G,
           \A T \in SUBSET S : T # {} /\ T \ {Chosen(T)} \in G => T \in G
    PROVE  S \in G
<1> DEFINE B == {T \in SUBSET S : T \notin G}
<1> SUFFICES ASSUME B # {} PROVE FALSE
    OBVIOUS
<1>1. PICK T \in B : \A U \in SUBSET T : U # T => U \notin B
      <2>1. B \in SUBSET (SUBSET S)
            OBVIOUS
      <2> HIDE DEF B
      <2> QED BY <2>1, MinimalSubset
<1>2. T \in SUBSET S /\ T \notin G /\ T # {}
      OBVIOUS
<1>3. T \ {Chosen(T)} \in SUBSET T /\ T \ {Chosen(T)} # T
      BY <1>2, ChosenIn
<1>4. T \ {Chosen(T)} \in G
      BY <1>1, <1>2, <1>3
<1> QED BY <1>2, <1>4

-----------------------------------------------------------------------------
(* Counting.                                                               *)

\* A set of natural numbers has a least one.
LEMMA LeastNumber ==
    ASSUME NEW S \in SUBSET Nat, S # {}
    PROVE  \E m \in S : \A y \in S : m <= y
<1> DEFINE R == {p \in Nat \X Nat : p[1] < p[2]}
<1>1. \A x \in Nat : \A y \in Nat : y < x => <<y, x>> \in R
      OBVIOUS
<1>2. IsWellFoundedOn(R, Nat)
      BY NatLessThanWellFounded DEF OpToRel
<1> HIDE DEF R
<1>3. PICK m \in S : \A y \in S : ~(<<y, m>> \in R)
      BY <1>2, WFMin
<1>4. \A y \in S : ~(y < m)
      BY <1>1, <1>3
<1> QED BY <1>3, <1>4

\* Counting up to a number: a set with 0, and with the next number of every one below n that it
\* has, has n.
LEMMA CountUp ==
    ASSUME NEW n \in Nat, NEW G, 0 \in G, \A m \in 0..(n - 1) : m \in G => m + 1 \in G
    PROVE  \A m \in 0..n : m \in G
<1> DEFINE B == {m \in 0..n : m \notin G}
<1> SUFFICES ASSUME B # {} PROVE FALSE
    OBVIOUS
<1>1. PICK m \in B : \A y \in B : m <= y
  <2>1. B \in SUBSET Nat
        OBVIOUS
  <2> HIDE DEF B
  <2> QED BY <2>1, LeastNumber
<1>2. m \in 1..n /\ m \notin G
      OBVIOUS
<1>3. m - 1 \in G
      BY <1>1, <1>2
<1> QED BY <1>2, <1>3

\* The greatest of a finite set of numbers, and what FoldLeft takes last of the first m places.
LEMMA GreatestOf ==
    ASSUME NEW n \in Nat, NEW s \in SUBSET (1..n), s # {}
    PROVE  Max(s) \in s /\ \A y \in s : y <= Max(s)
<1> DEFINE S == {k \in 0..n : \A y \in s : y <= k}
<1>1. PICK m \in S : \A k \in S : m <= k
  <2>1. S \in SUBSET Nat
        OBVIOUS
  <2>2. n \in S
        OBVIOUS
  <2> HIDE DEF S
  <2> QED BY <2>1, <2>2, LeastNumber
<1>2. m \in s
  <2> SUFFICES ASSUME m \notin s PROVE FALSE
      OBVIOUS
  <2>1. PICK y \in s : TRUE
        OBVIOUS
  <2>2. m - 1 \in 0..n
        BY <2>1
  <2>3. \A z \in s : z <= m - 1
        OBVIOUS
  <2> QED BY <1>1, <2>2, <2>3
<1>3. \A y \in s : m >= y
      OBVIOUS
<1>4. Max(s) \in s /\ \A y \in s : Max(s) >= y
      BY <1>2, <1>3 DEF Max
<1> QED BY <1>4

LEMMA GreatestOfFirst ==
    ASSUME NEW m \in Nat
    PROVE  Max(1..(m + 1)) = m + 1 /\ (1..(m + 1)) \ {m + 1} = 1..m
<1>1. Max(1..(m + 1)) \in 1..(m + 1) /\ \A y \in 1..(m + 1) : y <= Max(1..(m + 1))
  <2>1. m + 1 \in Nat /\ 1..(m + 1) \in SUBSET (1..(m + 1)) /\ 1..(m + 1) # {}
        OBVIOUS
  <2> QED BY <2>1, GreatestOf
<1> QED BY <1>1

-----------------------------------------------------------------------------
(* The recursion has a solution.                                           *)

\* Solutions over a set and over one of its subsets agree on that.
LEMMA SumsAgree ==
    ASSUME NEW f, NEW T, IsFiniteSet(T), NEW r, r \subseteq T,
           NEW g, NEW h, SumsOf(g, f, T), SumsOf(h, f, r)
    PROVE  g[r] = h[r]
<1> DEFINE G == {s \in SUBSET r : g[s] = h[s]}
<1>1. ASSUME NEW s \in SUBSET r
      PROVE  /\ g[s] = IF s = {} THEN 0 ELSE f[Chosen(s)] + g[s \ {Chosen(s)}]
             /\ h[s] = IF s = {} THEN 0 ELSE f[Chosen(s)] + h[s \ {Chosen(s)}]
      <2>1. s \in SUBSET T
            OBVIOUS
      <2> QED BY <2>1 DEF SumsOf
<1>2. IsFiniteSet(r)
      BY FS_Subset
<1>3. {} \in G
      BY <1>1
<1>4. \A s \in SUBSET r : s # {} /\ s \ {Chosen(s)} \in G => s \in G
      BY <1>1
<1>5. r \in G
      <2> HIDE DEF G
      <2> QED BY <1>2, <1>3, <1>4, SubsetInduction
<1> QED BY <1>5

\* A smallest subset without a solution would have one, made of those of its own subsets.
LEMMA SumsExist ==
    ASSUME NEW S, IsFiniteSet(S), NEW f
    PROVE  \E g : SumsOf(g, f, S)
<1> DEFINE B == {T \in SUBSET S : ~ \E g : SumsOf(g, f, T)}
<1> SUFFICES ASSUME B # {} PROVE FALSE
    OBVIOUS
<1>1. PICK T \in B : \A U \in SUBSET T : U # T => U \notin B
      <2>1. B \in SUBSET (SUBSET S)
            OBVIOUS
      <2> HIDE DEF B
      <2> QED BY <2>1, MinimalSubset
<1> DEFINE solution(s) == CHOOSE g : SumsOf(g, f, s)
           value(s) == IF s = {} THEN 0
                       ELSE f[Chosen(s)] + solution(s \ {Chosen(s)})[s \ {Chosen(s)}]
           g == [s \in SUBSET T |-> value(s)]
<1>2. T \in SUBSET S /\ ~ \E h : SumsOf(h, f, T)
      OBVIOUS
<1>3. ASSUME NEW s \in SUBSET T, s # T
      PROVE  SumsOf(solution(s), f, s)
      <2>1. s \notin B /\ s \in SUBSET S
            BY <1>1, <1>2, <1>3
      <2>2. PICK h : SumsOf(h, f, s)
            BY <2>1
      <2> HIDE DEF B
      <2> QED BY <2>2
<1> HIDE DEF solution, B
<1>4. ASSUME NEW s \in SUBSET T, s # T
      PROVE  solution(s)[s] = value(s)
      <2>1. SumsOf(solution(s), f, s)
            BY <1>3, <1>4
      <2>2. solution(s)[s] = IF s = {} THEN 0 ELSE f[Chosen(s)] + solution(s)[s \ {Chosen(s)}]
            BY <2>1 DEF SumsOf
      <2>3. CASE s = {}
            BY <2>2, <2>3
      <2>4. CASE s # {}
            <3> DEFINE r == s \ {Chosen(s)}
            <3>1. r \in SUBSET T /\ r # T /\ r \subseteq s
                  BY <2>4, ChosenIn
            <3>2. SumsOf(solution(r), f, r)
                  BY <3>1, <1>3
            <3>3. IsFiniteSet(s)
                  BY <1>2, FS_Subset
            <3> HIDE DEF r, value, g
            <3>4. solution(s)[r] = solution(r)[r]
                  BY <3>1, <3>2, <3>3, <2>1, SumsAgree
            <3> QED BY <2>2, <2>4, <3>4 DEF r, value
      <2> QED BY <2>3, <2>4
<1> HIDE DEF value
<1>5. ASSUME NEW s \in SUBSET T
      PROVE  g[s] = IF s = {} THEN 0 ELSE f[Chosen(s)] + g[s \ {Chosen(s)}]
      <2>1. g[s] = value(s)
            OBVIOUS
      <2>2. CASE s = {}
            BY <2>1, <2>2 DEF value
      <2>3. CASE s # {}
            <3>1. s \ {Chosen(s)} \in SUBSET T /\ s \ {Chosen(s)} # T
                  BY <2>3, ChosenIn
            <3>2. g[s \ {Chosen(s)}] = solution(s \ {Chosen(s)})[s \ {Chosen(s)}]
                  BY <3>1, <1>4
            <3> QED BY <2>1, <2>3, <3>2 DEF value
      <2> QED BY <2>2, <2>3
<1>6. g = [s \in SUBSET T |-> g[s]]
      OBVIOUS
<1>7. SumsOf(g, f, T)
      <2> HIDE DEF g
      <2> QED BY <1>5, <1>6 DEF SumsOf
<1> QED BY <1>2, <1>7

\* The recursion equation of the sum.
LEMMA SumStep ==
    ASSUME NEW S, IsFiniteSet(S), NEW f
    PROVE  SumFunctionOnSet(f, S) =
              IF S = {} THEN 0 ELSE f[Chosen(S)] + SumFunctionOnSet(f, S \ {Chosen(S)})
<1> DEFINE solution(s) == CHOOSE g : SumsOf(g, f, s)
           r == S \ {Chosen(S)}
<1>1. IsFiniteSet(r)
      BY FS_Subset
<1>2. SumsOf(solution(S), f, S) /\ SumsOf(solution(r), f, r)
      BY <1>1, SumsExist
<1>3. SumFunctionOnSet(f, S) = solution(S)[S] /\ SumFunctionOnSet(f, r) = solution(r)[r]
      BY SumIsChosen
<1> HIDE DEF solution
<1>4. solution(S)[S] = IF S = {} THEN 0 ELSE f[Chosen(S)] + solution(S)[r]
      BY <1>2 DEF SumsOf
<1>5. solution(S)[r] = solution(r)[r]
      <2>1. r \subseteq S
            OBVIOUS
      <2> HIDE DEF r
      <2> QED BY <2>1, <1>2, SumsAgree
<1> QED BY <1>3, <1>4, <1>5

-----------------------------------------------------------------------------
(* Arithmetic of sums.                                                     *)

\* The sum over nothing is nothing.
LEMMA SumEmpty == \A f : SumFunctionOnSet(f, {}) = 0
BY SumStep, FS_EmptySet

\* A sum of integers is an integer.
LEMMA SumType ==
    ASSUME NEW S, IsFiniteSet(S), NEW f, \A x \in S : f[x] \in Int
    PROVE  SumFunctionOnSet(f, S) \in Int
<1> DEFINE G == {T \in SUBSET S : SumFunctionOnSet(f, T) \in Int}
<1>1. {} \in G
      BY SumEmpty
<1>2. ASSUME NEW T \in SUBSET S, T # {}, T \ {Chosen(T)} \in G
      PROVE  T \in G
      <2>1. SumFunctionOnSet(f, T) = f[Chosen(T)] + SumFunctionOnSet(f, T \ {Chosen(T)})
            BY <1>2, SumStep, FS_Subset
      <2>2. Chosen(T) \in S
            BY <1>2, ChosenIn
      <2> QED BY <1>2, <2>1, <2>2
<1>3. S \in G
      <2> HIDE DEF G
      <2> QED BY <1>1, <1>2, SubsetInduction
<1> QED BY <1>3

\* Any element may be taken first.
LEMMA SumRemove ==
    ASSUME NEW S, IsFiniteSet(S), NEW f, \A x \in S : f[x] \in Int, NEW x \in S
    PROVE  SumFunctionOnSet(f, S) = f[x] + SumFunctionOnSet(f, S \ {x})
<1> DEFINE splits(T, y) == SumFunctionOnSet(f, T) = f[y] + SumFunctionOnSet(f, T \ {y})
           B == {T \in SUBSET S : \E y \in T : ~splits(T, y)}
<1> SUFFICES ASSUME B # {} PROVE FALSE
    OBVIOUS
<1>1. PICK T \in B : \A U \in SUBSET T : U # T => U \notin B
      <2>1. B \in SUBSET (SUBSET S)
            OBVIOUS
      <2> HIDE DEF B
      <2> QED BY <2>1, MinimalSubset
<1>2. PICK y \in T : ~splits(T, y)
      OBVIOUS
<1> DEFINE p == Chosen(T)
<1>3. T \in SUBSET S /\ IsFiniteSet(T) /\ p \in T
      BY FS_Subset, ChosenIn
<1>4. splits(T, p)
      BY <1>3, SumStep
<1>5. p # y
      BY <1>2, <1>4
<1>6. splits(T \ {p}, y)
      <2>1. T \ {p} \in SUBSET T /\ T \ {p} # T /\ T \ {p} \in SUBSET S /\ y \in T \ {p}
            BY <1>3, <1>5
      <2> HIDE DEF p, splits
      <2> QED BY <2>1, <1>1
<1>7. splits(T \ {y}, p)
      <2>1. T \ {y} \in SUBSET T /\ T \ {y} # T /\ T \ {y} \in SUBSET S /\ p \in T \ {y}
            BY <1>3, <1>5
      <2> HIDE DEF p, splits
      <2> QED BY <2>1, <1>1
<1> DEFINE q == SumFunctionOnSet(f, (T \ {p}) \ {y})
<1>8. (T \ {p}) \ {y} = (T \ {y}) \ {p}
      OBVIOUS
<1>9. q \in Int /\ f[p] \in Int /\ f[y] \in Int
      <2>1. IsFiniteSet((T \ {p}) \ {y}) /\ \A z \in (T \ {p}) \ {y} : f[z] \in Int
            BY <1>3, FS_Subset
      <2> QED BY <2>1, <1>3, SumType
<1>10. SumFunctionOnSet(f, T) = f[p] + (f[y] + q) /\ SumFunctionOnSet(f, T \ {y}) = f[p] + q
       BY <1>4, <1>6, <1>7, <1>8
<1>11. ~(SumFunctionOnSet(f, T) = f[y] + SumFunctionOnSet(f, T \ {y}))
       BY <1>2
<1> HIDE DEF p, q, B, splits
<1> QED BY <1>9, <1>10, <1>11

\* Functions that agree on the set have the same sum.
LEMMA SumSame ==
    ASSUME NEW S, IsFiniteSet(S), NEW f, NEW g, \A x \in S : f[x] = g[x]
    PROVE  SumFunctionOnSet(f, S) = SumFunctionOnSet(g, S)
<1> DEFINE G == {T \in SUBSET S : SumFunctionOnSet(f, T) = SumFunctionOnSet(g, T)}
<1>1. {} \in G
      BY SumEmpty
<1>2. ASSUME NEW T \in SUBSET S, T # {}, T \ {Chosen(T)} \in G
      PROVE  T \in G
      <2>1. /\ SumFunctionOnSet(f, T) = f[Chosen(T)] + SumFunctionOnSet(f, T \ {Chosen(T)})
            /\ SumFunctionOnSet(g, T) = g[Chosen(T)] + SumFunctionOnSet(g, T \ {Chosen(T)})
            BY <1>2, SumStep, FS_Subset
      <2>2. Chosen(T) \in S
            BY <1>2, ChosenIn
      <2> QED BY <1>2, <2>1, <2>2
<1>3. S \in G
      <2> HIDE DEF G
      <2> QED BY <1>1, <1>2, SubsetInduction
<1> QED BY <1>3

\* The sum moves by as much as the one value that changes.
LEMMA SumChange ==
    ASSUME NEW S, IsFiniteSet(S), NEW f, NEW g, NEW x \in S,
           \A y \in S : f[y] \in Int /\ g[y] \in Int,
           \A y \in S : y # x => f[y] = g[y]
    PROVE  /\ SumFunctionOnSet(f, S) \in Int
           /\ SumFunctionOnSet(g, S) = SumFunctionOnSet(f, S) - f[x] + g[x]
<1> DEFINE r == S \ {x}
<1>1. IsFiniteSet(r) /\ \A y \in r : f[y] = g[y] /\ f[y] \in Int
      BY FS_Subset
<1>2. SumFunctionOnSet(f, r) = SumFunctionOnSet(g, r) /\ SumFunctionOnSet(f, r) \in Int
      BY <1>1, SumSame, SumType
<1>3. /\ SumFunctionOnSet(f, S) = f[x] + SumFunctionOnSet(f, r)
      /\ SumFunctionOnSet(g, S) = g[x] + SumFunctionOnSet(g, r)
      BY SumRemove
<1> HIDE DEF r
<1> QED BY <1>2, <1>3

\* The same for two of them.
LEMMA SumTwoChange ==
    ASSUME NEW S, IsFiniteSet(S), NEW x \in S, NEW y \in S \ {x}, NEW f, NEW g,
           \A z \in S : f[z] \in Int /\ g[z] \in Int /\ (f[z] = g[z] \/ z \in {x, y})
    PROVE  /\ SumFunctionOnSet(f, S) \in Int
           /\ SumFunctionOnSet(g, S) = SumFunctionOnSet(f, S) - f[x] - f[y] + g[x] + g[y]
<1> DEFINE h == [z \in S |-> IF z = x THEN g[z] ELSE f[z]]
<1>1. /\ \A z \in S : f[z] \in Int /\ h[z] \in Int
      /\ \A z \in S : h[z] \in Int /\ g[z] \in Int
      /\ \A z \in S : z # x => f[z] = h[z]
      /\ \A z \in S : z # y => h[z] = g[z]
      OBVIOUS
<1>2. h[x] = g[x] /\ h[y] = f[y]
      OBVIOUS
<1> HIDE DEF h
<1>3. /\ SumFunctionOnSet(f, S) \in Int
      /\ SumFunctionOnSet(h, S) = SumFunctionOnSet(f, S) - f[x] + h[x]
      BY <1>1, SumChange
<1>4. SumFunctionOnSet(g, S) = SumFunctionOnSet(h, S) - h[y] + g[y]
  <2>1. y \in S /\ IsFiniteSet(S)
        OBVIOUS
  <2>2. /\ \A z \in S : h[z] \in Int /\ g[z] \in Int
        /\ \A z \in S : z # y => h[z] = g[z]
        BY <1>1
  <2> QED BY ONLY <2>1, <2>2, SumChange
<1> QED BY <1>2, <1>3, <1>4

\* Sums keep inequalities, and add up: what holds of the values holds of the sums.
LEMMA SumMonotone ==
    ASSUME NEW S, IsFiniteSet(S), NEW f, NEW g,
           \A x \in S : f[x] \in Int /\ g[x] \in Int /\ f[x] <= g[x]
    PROVE  SumFunctionOnSet(f, S) <= SumFunctionOnSet(g, S)
<1> DEFINE G == {T \in SUBSET S : /\ SumFunctionOnSet(f, T) \in Int /\ SumFunctionOnSet(g, T) \in Int
                                  /\ SumFunctionOnSet(f, T) <= SumFunctionOnSet(g, T)}
<1>1. {} \in G
      BY SumEmpty
<1>2. ASSUME NEW T \in SUBSET S, T # {}, T \ {Chosen(T)} \in G
      PROVE  T \in G
      <2>1. /\ SumFunctionOnSet(f, T) = f[Chosen(T)] + SumFunctionOnSet(f, T \ {Chosen(T)})
            /\ SumFunctionOnSet(g, T) = g[Chosen(T)] + SumFunctionOnSet(g, T \ {Chosen(T)})
            BY <1>2, SumStep, FS_Subset
      <2>2. Chosen(T) \in S
            BY <1>2, ChosenIn
      <2> QED BY <1>2, <2>1, <2>2
<1>3. S \in G
      <2> HIDE DEF G
      <2> QED BY <1>1, <1>2, SubsetInduction
<1> QED BY <1>3

\* The sum of f + d * g, for a fixed d.
LEMMA SumLinear ==
    ASSUME NEW S, IsFiniteSet(S), NEW f, NEW g, NEW h, NEW d \in Int,
           \A x \in S : f[x] \in Int /\ g[x] \in Int /\ h[x] = f[x] + d * g[x]
    PROVE  SumFunctionOnSet(h, S) = SumFunctionOnSet(f, S) + d * SumFunctionOnSet(g, S)
<1> DEFINE F(T) == SumFunctionOnSet(f, T)
           K(T) == SumFunctionOnSet(g, T)
           H(T) == SumFunctionOnSet(h, T)
           G == {T \in SUBSET S : F(T) \in Int /\ K(T) \in Int /\ H(T) = F(T) + d * K(T)}
<1>1. {} \in G
      <2>1. F({}) = 0 /\ K({}) = 0 /\ H({}) = 0
            BY SumEmpty
      <2> HIDE DEF F, K, H
      <2> QED BY <2>1
<1>2. ASSUME NEW T \in SUBSET S, T # {}, T \ {Chosen(T)} \in G
      PROVE  T \in G
      <2> DEFINE c == Chosen(T)
                 r == T \ {c}
      <2>1. F(T) = f[c] + F(r) /\ K(T) = g[c] + K(r) /\ H(T) = h[c] + H(r)
            BY <1>2, SumStep, FS_Subset
      <2>2. F(r) \in Int /\ K(r) \in Int /\ H(r) = F(r) + d * K(r)
            BY <1>2
      <2>3. f[c] \in Int /\ g[c] \in Int /\ h[c] = f[c] + d * g[c]
            BY <1>2, ChosenIn
      <2> HIDE DEF F, K, H, c, r
      <2>4. d * (g[c] + K(r)) = d * g[c] + d * K(r)
            BY <2>2, <2>3
      <2>5. d * g[c] \in Int /\ d * K(r) \in Int
            BY <2>2, <2>3
      <2> QED BY <2>1, <2>2, <2>3, <2>4, <2>5
<1>3. S \in G
      <2> HIDE DEF G
      <2> QED BY <1>1, <1>2, SubsetInduction
<1> QED BY <1>3

\* The sum of a value that the elements of A have and others do not.
LEMMA SumConstant ==
    ASSUME NEW S, IsFiniteSet(S), NEW A, S \cap A = A, NEW f, NEW c \in Int,
           \A x \in S : (x \in A => f[x] = c) /\ (x \notin A => f[x] = 0)
    PROVE  SumFunctionOnSet(f, S) = Cardinality(A) * c
<1> DEFINE F(T) == SumFunctionOnSet(f, T)
           N(T) == Cardinality(T \cap A)
           G == {T \in SUBSET S : F(T) = N(T) * c}
<1>1. {} \in G
      <2>1. F({}) = 0
            BY SumEmpty
      <2>2. {} \cap A = {}
            OBVIOUS
      <2>3. N({}) = 0
            BY <2>2, FS_EmptySet
      <2> HIDE DEF F, N
      <2> QED BY <2>1, <2>3
<1>2. ASSUME NEW T \in SUBSET S, T # {}, T \ {Chosen(T)} \in G
      PROVE  T \in G
      <2> DEFINE x == Chosen(T)
                 r == T \ {x}
      <2>1. x \in T /\ IsFiniteSet(T) /\ IsFiniteSet(r) /\ IsFiniteSet(r \cap A)
            BY <1>2, ChosenIn, FS_Subset
      <2>2. F(T) = f[x] + F(r)
            BY <1>2, <2>1, SumStep
      <2>3. F(r) = N(r) * c
            BY <1>2
      <2>4. N(r) \in Nat
            BY <2>1, FS_CardinalityType
      <2>5. CASE x \in A
            <3>1. T \cap A = (r \cap A) \cup {x} /\ x \notin r \cap A
                  BY <2>1, <2>5
            <3>2. N(T) = N(r) + 1
                  <4> DEFINE q == r \cap A
                  <4>1. IsFiniteSet(q) /\ x \notin q /\ T \cap A = q \cup {x}
                        BY <2>1, <3>1
                  <4> HIDE DEF q, x, r
                  <4>2. Cardinality(q \cup {x}) = Cardinality(q) + 1
                        BY <4>1, FS_AddElement
                  <4> QED BY <4>1, <4>2 DEF q
            <3>3. f[x] = c
                  BY <2>1, <2>5
            <3> HIDE DEF F, N, x, r
            <3>4. (N(r) + 1) * c = N(r) * c + c
                  BY <2>4
            <3> QED BY <2>2, <2>3, <2>4, <3>2, <3>3, <3>4
      <2>6. CASE x \notin A
            <3>1. T \cap A = r \cap A
                  BY <2>1, <2>6
            <3>2. f[x] = 0
                  BY <2>1, <2>6
            <3>3. N(T) = N(r)
                  BY <3>1
            <3> HIDE DEF F, N, x, r
            <3>4. N(r) * c \in Int
                  BY <2>4
            <3> QED BY <2>2, <2>3, <3>2, <3>3, <3>4
      <2> QED BY <2>5, <2>6
<1>3. S \in G
      <2> HIDE DEF G
      <2> QED BY <1>1, <1>2, SubsetInduction
<1> QED BY <1>3

\* A sum of zeros is zero.
LEMMA SumZero ==
    ASSUME NEW S, IsFiniteSet(S), NEW f, \A x \in S : f[x] = 0
    PROVE  SumFunctionOnSet(f, S) = 0
<1> DEFINE G == {T \in SUBSET S : SumFunctionOnSet(f, T) = 0}
<1>1. {} \in G
      BY SumEmpty
<1>2. ASSUME NEW T \in SUBSET S, T # {}, T \ {Chosen(T)} \in G
      PROVE  T \in G
      <2>1. SumFunctionOnSet(f, T) = f[Chosen(T)] + SumFunctionOnSet(f, T \ {Chosen(T)})
            BY <1>2, SumStep, FS_Subset
      <2>2. f[Chosen(T)] = 0
            BY <1>2, ChosenIn
      <2> QED BY <1>2, <2>1, <2>2
<1>3. S \in G
      <2> HIDE DEF G
      <2> QED BY <1>1, <1>2, SubsetInduction
<1> QED BY <1>3

\* A sum of amounts that are not negative is none, and none of them exceeds it.
LEMMA SumNonNegative ==
    ASSUME NEW S, IsFiniteSet(S), NEW f, \A x \in S : f[x] \in Int /\ f[x] >= 0
    PROVE  /\ SumFunctionOnSet(f, S) \in Int /\ SumFunctionOnSet(f, S) >= 0
           /\ \A x \in S : f[x] <= SumFunctionOnSet(f, S)
<1>1. ASSUME NEW T \in SUBSET S
      PROVE  SumFunctionOnSet(f, T) \in Int /\ SumFunctionOnSet(f, T) >= 0
      <2> DEFINE G == {U \in SUBSET T : SumFunctionOnSet(f, U) \in Int /\ SumFunctionOnSet(f, U) >= 0}
      <2>1. {} \in G
            BY SumEmpty
      <2>2. ASSUME NEW U \in SUBSET T, U # {}, U \ {Chosen(U)} \in G
            PROVE  U \in G
            <3>1. SumFunctionOnSet(f, U) = f[Chosen(U)] + SumFunctionOnSet(f, U \ {Chosen(U)})
                  BY <2>2, SumStep, FS_Subset
            <3>2. Chosen(U) \in S
                  BY <2>2, ChosenIn
            <3> QED BY <2>2, <3>1, <3>2
      <2>3. T \in G
            <3>1. IsFiniteSet(T)
                  BY FS_Subset
            <3> HIDE DEF G
            <3> QED BY <3>1, <2>1, <2>2, SubsetInduction
      <2> QED BY <2>3
<1>2. ASSUME NEW x \in S
      PROVE  f[x] <= SumFunctionOnSet(f, S)
      <2>1. SumFunctionOnSet(f, S) = f[x] + SumFunctionOnSet(f, S \ {x})
            BY SumRemove
      <2>2. SumFunctionOnSet(f, S \ {x}) \in Int /\ SumFunctionOnSet(f, S \ {x}) >= 0
            BY <1>1
      <2> QED BY <2>1, <2>2
<1> QED BY <1>1, <1>2

-----------------------------------------------------------------------------
(* Lists.                                                                  *)

\* No element of s stands at two places.
NoRepeats(s) == \A i, j \in 1..Len(s) : s[i] = s[j] => i = j

\* The elements of a concatenation.
LEMMA Concatenation ==
    ASSUME NEW S, NEW p \in Seq(S), NEW q \in Seq(S)
    PROVE  /\ p \o q \in Seq(S)
           /\ Len(p \o q) = Len(p) + Len(q)
           /\ \A i \in 1..Len(p) + Len(q) : (p \o q)[i] = IF i <= Len(p) THEN p[i] ELSE q[i - Len(p)]
OBVIOUS

\* Removing the element at position k of a list without repeats (sortedTroves.remove):
\* what is behind it moves up by one.
LEMMA RemoveFirstElements ==
    ASSUME NEW S, NEW s \in Seq(S), NoRepeats(s), NEW k \in 1..Len(s)
    PROVE  /\ RemoveFirst(s, s[k]) \in Seq(S)
           /\ Len(RemoveFirst(s, s[k])) = Len(s) - 1
           /\ \A i \in 1..Len(s) - 1 :
                 RemoveFirst(s, s[k])[i] = IF i < k THEN s[i] ELSE s[i + 1]
<1> DEFINE p == SubSeq(s, 1, k - 1)
           q == SubSeq(s, k + 1, Len(s))
           c == p \o q
<1>1. RemoveFirst(s, s[k]) = c
      <2> DEFINE I == {i \in 1..Len(s) : s[i] = s[k]}
      <2>1. I = {k}
            BY DEF NoRepeats
      <2>2. Min({k}) = k
            BY DEF Min
      <2>3. SelectInSeq(s, LAMBDA v : v = s[k]) = k
            BY <2>1, <2>2 DEF SelectInSeq
      <2> QED BY <2>3 DEF RemoveFirst, RemoveAt
<1>2. p \in Seq(S) /\ Len(p) = k - 1 /\ \A i \in 1..k - 1 : p[i] = s[i]
      OBVIOUS
<1>3. q \in Seq(S) /\ Len(q) = Len(s) - k /\ \A i \in 1..Len(s) - k : q[i] = s[i + k]
      OBVIOUS
<1>4. Len(s) \in Nat /\ Len(p) \in Nat /\ Len(q) \in Nat
      BY <1>2, <1>3
<1> HIDE DEF p, q
<1>5. /\ c \in Seq(S) /\ Len(c) = Len(p) + Len(q)
      /\ \A i \in 1..Len(p) + Len(q) : c[i] = IF i <= Len(p) THEN p[i] ELSE q[i - Len(p)]
      BY <1>2, <1>3, Concatenation
<1> HIDE DEF c
<1>6. \A i \in 1..Len(s) - 1 : c[i] = IF i < k THEN s[i] ELSE s[i + 1]
      <2> TAKE i \in 1..Len(s) - 1
      <2>0. i \in 1..Len(p) + Len(q)
            BY <1>2, <1>3, <1>4
      <2>1. ASSUME i < k PROVE c[i] = s[i]
            <3>1. i <= Len(p) /\ i \in 1..k - 1
                  BY <2>1, <1>2, <1>4
            <3> QED BY <3>1, <2>0, <1>2, <1>5
      <2>2. ASSUME ~(i < k) PROVE c[i] = s[i + 1]
            <3>1. i - Len(p) \in 1..Len(s) - k /\ i - Len(p) + k = i + 1
                  BY <2>2, <1>2, <1>4
            <3>2. ~(i <= Len(p))
                  BY <2>2, <1>2, <1>4
            <3>3. c[i] = q[i - Len(p)]
                  BY <3>2, <2>0, <1>5
            <3> QED BY <3>1, <3>3, <1>3
      <2> QED BY <2>1, <2>2
<1> QED BY <1>1, <1>2, <1>3, <1>4, <1>5, <1>6

\* Inserting at position k (sortedTroves.insert): what is behind it moves down by one.
LEMMA InsertAtElements ==
    ASSUME NEW S, NEW s \in Seq(S), NEW e \in S, NEW k \in 1..Len(s) + 1
    PROVE  /\ InsertAt(s, k, e) \in Seq(S)
           /\ Len(InsertAt(s, k, e)) = Len(s) + 1
           /\ \A i \in 1..Len(s) + 1 : InsertAt(s, k, e)[i] =
                 IF i < k THEN s[i] ELSE IF i = k THEN e ELSE s[i - 1]
<1> DEFINE p == SubSeq(s, 1, k - 1)
           q == SubSeq(s, k, Len(s))
           r == p \o <<e>>
           c == r \o q
<1>1. InsertAt(s, k, e) = c
      BY Zenon DEF InsertAt
<1>2. p \in Seq(S) /\ Len(p) = k - 1 /\ \A i \in 1..k - 1 : p[i] = s[i]
      OBVIOUS
<1>3. /\ q \in Seq(S) /\ Len(q) = Len(s) - k + 1
      /\ \A i \in 1..Len(s) - k + 1 : q[i] = s[i + k - 1]
      OBVIOUS
<1>4. Len(s) \in Nat
      OBVIOUS
<1> HIDE DEF p, q
<1>5. <<e>> \in Seq(S) /\ Len(<<e>>) = 1 /\ <<e>>[1] = e
      OBVIOUS
<1>6. r \in Seq(S) /\ Len(r) = k /\ \A i \in 1..k : r[i] = IF i < k THEN s[i] ELSE e
      BY <1>2, <1>5, Concatenation
<1> HIDE DEF r
<1>7. /\ c \in Seq(S) /\ Len(c) = Len(r) + Len(q)
      /\ \A i \in 1..Len(r) + Len(q) : c[i] = IF i <= Len(r) THEN r[i] ELSE q[i - Len(r)]
      BY <1>3, <1>6, Concatenation
<1> HIDE DEF c
<1>8. \A i \in 1..Len(s) + 1 : c[i] = IF i < k THEN s[i] ELSE IF i = k THEN e ELSE s[i - 1]
      <2> TAKE i \in 1..Len(s) + 1
      <2>0. i \in 1..Len(r) + Len(q)
            BY <1>3, <1>4, <1>6
      <2>1. ASSUME i <= k PROVE c[i] = IF i < k THEN s[i] ELSE e
            <3>1. i <= Len(r) /\ i \in 1..k
                  BY <2>1, <1>4, <1>6
            <3>2. c[i] = r[i]
                  BY <3>1, <2>0, <1>7
            <3> QED BY <3>1, <3>2, <1>6
      <2>2. ASSUME ~(i <= k) PROVE c[i] = s[i - 1]
            <3>1. i - Len(r) \in 1..Len(s) - k + 1 /\ i - Len(r) + k - 1 = i - 1
                  BY <2>2, <1>4, <1>6
            <3>2. ~(i <= Len(r))
                  BY <2>2, <1>4, <1>6
            <3>3. c[i] = q[i - Len(r)]
                  BY <3>2, <2>0, <1>7
            <3> QED BY <3>1, <3>3, <1>3
      <2> QED BY <2>1, <2>2, <1>4
<1> QED BY <1>1, <1>3, <1>4, <1>6, <1>7, <1>8
=============================================================================
