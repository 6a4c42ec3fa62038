--------------------------- MODULE RankingProofs ----------------------------
(***************************************************************************)
(* Proofs about the algorithms of Ranking, for arguments of every length:   *)
(* the percentile, the metrics, the fusion and nDCG.                        *)
(***************************************************************************)
EXTENDS RankingProperties, TLAPS, FiniteSetTheorems, SequenceTheorems, WellFoundedInduction

----------------------------------------------------------------------------
(* The percentile of runner.py.                                             *)

\* round() of x percent is the quotient or, unless nothing is left over, the next
\* number (runner.py:194-200).
LEMMA Rounding ==
  ASSUME NEW x \in Nat
  PROVE  LET q == x \div 100
             r == x % 100
         IN  /\ q \in Nat /\ r \in 0..99 /\ x = 100 * q + r
             /\ RoundHalfEven(x, 100) \in {q, q + 1}
             /\ r = 0 => RoundHalfEven(x, 100) = q
  BY DEF RoundHalfEven

\* round() keeps the order (runner.py:194-200).
LEMMA RoundingKeepsOrder ==
  ASSUME NEW x \in Nat, NEW y \in Nat, x <= y
  PROVE  RoundHalfEven(x, 100) <= RoundHalfEven(y, 100)
  <1>1. CASE x \div 100 = y \div 100
    <2>1. x % 100 <= y % 100
      BY <1>1, Rounding
    <2>2. QED
      BY <1>1, <2>1, Rounding DEF RoundHalfEven
  <1>2. CASE x \div 100 # y \div 100
    <2>1. x \div 100 + 1 <= y \div 100
      BY <1>2, Rounding
    <2>2. QED
      BY <2>1, Rounding
  <1>3. QED
    BY <1>1, <1>2

\* _percentile of any number of samples takes one of them, the nearest rank or the one
\* below it, and never a smaller one for a higher percentage (runner.py:194-200).
THEOREM PercentilesNear ==
  ASSUME call \in [of : {"_percentile"}, samples : Nat \ {0}, pct : 0..100]
  PROVE  PercentileNear
  <1>1. PICK n \in Nat \ {0}, p \in 0..100 :
          call = [of |-> "_percentile", samples |-> n, pct |-> p]
    OBVIOUS
  <1>2. call.samples = n /\ call.pct = p
    BY <1>1
  <1>3. PICK x \in Nat : x = n * p
    OBVIOUS
  <1>4. x <= 100 * n /\ n * (p + 1) = x + n
    BY <1>3
  <1>5. PICK r \in Nat : r = RoundHalfEven(x, 100)
    BY Rounding
  <1>6. PercentileIndex(n, p) = IF n = 1 THEN 0 ELSE Clamp(0, n - 1, r - 1)
    BY <1>3, <1>5 DEF PercentileIndex
  <1>7. /\ PercentileIndex(n, p) + 1 \in 1..n
        /\ PercentileIndex(n, p) = 0
             \/ PercentileIndex(n, p) + 1 \in {(x + 99) \div 100 - 1, (x + 99) \div 100}
    <2>0. PICK q \in Nat, s \in 0..99 : q = x \div 100 /\ s = x % 100
      BY Rounding
    <2>1. x = 100 * q + s /\ r \in {q, q + 1} /\ (s = 0 => r = q)
      BY <1>5, <2>0, Rounding
    <2>2. (x + 99) \div 100 = IF s = 0 THEN q ELSE q + 1
      BY <2>1
    <2>3. r <= n
      BY <1>4, <2>1
    <2>4. QED
      BY <1>6, <2>1, <2>2, <2>3 DEF Clamp
  <1>8. ASSUME p < 100
        PROVE  PercentileIndex(n, p) <= PercentileIndex(n, p + 1)
    <2>1. PICK t \in Nat : t = RoundHalfEven(x + n, 100)
      BY Rounding
    <2>2. r <= t
      BY <1>5, <2>1, RoundingKeepsOrder
    <2>3. PercentileIndex(n, p + 1) = IF n = 1 THEN 0 ELSE Clamp(0, n - 1, t - 1)
      BY <1>4, <2>1 DEF PercentileIndex
    <2>4. QED
      BY <1>6, <2>2, <2>3 DEF Clamp
  <1>9. PercentileIndex(n, p) \in Int /\ PercentileIndex(n, p + 1) \in Int
    BY DEF PercentileIndex, Clamp, RoundHalfEven
  <1>10. QED
    BY <1>2, <1>3, <1>7, <1>8, <1>9 DEF PercentileNear

----------------------------------------------------------------------------
(* The metrics of metrics.py.                                               *)

\* Of positions in a list one is the first, and one the last.
LEMMA FirstPosition ==
  ASSUME NEW T \in SUBSET Nat, T # {}
  PROVE  \E x \in T : \A y \in T : x <= y
  <1>1. PICK x \in T : \A y \in T : <<y, x>> \notin OpToRel(<, Nat)
    BY WFMin, NatLessThanWellFounded
  <1>2. \A y \in T : ~(y < x)
    BY <1>1 DEF OpToRel
  <1>3. QED
    BY <1>2

LEMMA LastPosition ==
  ASSUME NEW n \in Nat, NEW T \in SUBSET (1..n), T # {}
  PROVE  \E x \in T : \A y \in T : y <= x
  <1> DEFINE U == {n - y : y \in T}
  <1>0. \A y \in T : y \in Nat /\ n - y \in Nat
    OBVIOUS
  <1>1. U \in SUBSET Nat /\ U # {}
    BY <1>0
  <1>2. PICK u \in U : \A v \in U : u <= v
    BY <1>1, FirstPosition
  <1>3. PICK x \in T : u = n - x
    BY <1>2
  <1>4. \A y \in T : n - x <= n - y
    BY <1>2, <1>3
  <1>5. QED
    BY <1>0, <1>4

\* s[:k] is a list of the first k, or of all (metrics.py:22-71, rrf.py:42).
LEMMA TopTypes ==
  ASSUME NEW S, NEW s \in Seq(S), NEW k \in Nat
  PROVE  /\ Top(s, k) \in Seq(S)
         /\ DOMAIN Top(s, k) = {i \in DOMAIN s : i <= k}
         /\ \A i \in DOMAIN Top(s, k) : Top(s, k)[i] = s[i]
  <1>1. PICK n \in Nat : n = IF k < Len(s) THEN k ELSE Len(s)
    OBVIOUS
  <1>2. Top(s, k) = SubSeq(s, 1, n) /\ n <= Len(s)
    BY <1>1 DEF Top
  <1>3. /\ SubSeq(s, 1, n) \in Seq(S) /\ Len(SubSeq(s, 1, n)) = n
        /\ \A i \in 1..n : SubSeq(s, 1, n)[i] = s[i]
    BY <1>2, SubSeqProperties
  <1>4. DOMAIN SubSeq(s, 1, n) = 1..n
    BY <1>3
  <1>5. 1..n = {i \in DOMAIN s : i <= k}
    BY <1>1
  <1>6. QED
    BY <1>2, <1>3, <1>4, <1>5

\* The positives that the first k show (metrics.py:22-48).
LEMMA PositivesOnTop ==
  ASSUME NEW predicted \in Seq(Docs), NEW relevance, NEW k \in Nat
  PROVE  PositiveAt(Top(predicted, k), relevance)
           = {i \in PositiveAt(predicted, relevance) : i <= k}
  <1>1. PICK t : t = Top(predicted, k)
    OBVIOUS
  <1>2. DOMAIN t = {i \in DOMAIN predicted : i <= k} /\ \A i \in DOMAIN t : t[i] = predicted[i]
    BY <1>1, TopTypes
  <1>3. PositiveAt(t, relevance) = {i \in PositiveAt(predicted, relevance) : i <= k}
    BY <1>2 DEF PositiveAt
  <1>4. QED
    BY <1>1, <1>3

\* For every ranking that shows no candidate twice, every set of labels and every k:
\* there is a hit at k exactly when the reciprocal rank is that of one of the first k
\* and when recall at k is above 0, and recall never exceeds 1 (metrics.py:22-57).
THEOREM HitsAgree ==
  ASSUME NEW predicted \in Seq(Docs), IsInjective(predicted),
         NEW S \in SUBSET Docs, IsFiniteSet(S), NEW relevance \in [S -> 0..2], NEW k \in Nat
  PROVE  /\ HitAt(predicted, relevance, k) <=> FirstPositive(predicted, relevance) \in 1..k
         /\ HitAt(predicted, relevance, k) <=> Found(predicted, relevance, k) > 0
         /\ Found(predicted, relevance, k) <= Cardinality(Positives(relevance))
  <1> DEFINE at == PositiveAt(predicted, relevance)
             top == PositiveAt(Top(predicted, k), relevance)
  <1>0. at \subseteq DOMAIN predicted
    BY DEF PositiveAt
  <1>1. top = {i \in at : i <= k} /\ at \subseteq DOMAIN predicted
    BY <1>0, PositivesOnTop
  <1>2. at \in SUBSET Nat /\ \A i \in at : i >= 1
    BY <1>1
  <1>3. IsFiniteSet(top) /\ Cardinality(top) \in Nat /\ (top = {} <=> Cardinality(top) = 0)
    <2>1. IsFiniteSet(top)
      BY <1>1, <1>2, FS_BoundedSetOfNaturals
    <2>2. QED
      BY <2>1, FS_CardinalityType, FS_EmptySet
  <1>4. HitAt(predicted, relevance, k) <=> FirstPositive(predicted, relevance) \in 1..k
    <2>1. CASE at = {}
      BY <1>1, <2>1 DEF HitAt, FirstPositive
    <2>2. CASE at # {}
      <3>1. PICK x \in at : \A y \in at : x <= y
        BY <1>2, <2>2, FirstPosition
      <3>2. FirstPositive(predicted, relevance) = CHOOSE i \in at : \A j \in at : i <= j
        BY <2>2 DEF FirstPositive
      <3>3. /\ FirstPositive(predicted, relevance) \in at
            /\ \A j \in at : FirstPositive(predicted, relevance) <= j
        BY <3>1, <3>2
      <3>4. HitAt(predicted, relevance, k) <=> top # {}
        BY DEF HitAt
      <3>5. QED
        BY <1>1, <1>2, <3>3, <3>4
    <2>3. QED
      BY <2>1, <2>2
  <1>5. Found(predicted, relevance, k) <= Cardinality(Positives(relevance))
    <2> DEFINE shown == [i \in top |-> predicted[i]]
    <2>1. IsFiniteSet(Positives(relevance))
      <3>1. Positives(relevance) \in SUBSET S
        BY DEF Positives
      <3>2. QED
        BY <3>1, FS_Subset
    <2>2. \A i \in top : predicted[i] \in Positives(relevance)
      BY <1>1 DEF PositiveAt, LabelOf, IsPositive, Positives
    <2>3. shown \in Injection(top, Positives(relevance))
      BY <1>1, <2>2 DEF Injection, IsInjective
    <2>4. QED
      BY <2>1, <2>3, FS_Injection DEF Found
  <1>6. QED
    BY <1>3, <1>4, <1>5 DEF HitAt, Found

----------------------------------------------------------------------------
(* Sorted.                                                                  *)

StrictOrder(R, S) ==
    /\ \A x \in S : <<x, x>> \notin R
    /\ \A x, y \in S : x # y => <<x, y>> \in R \/ <<y, x>> \in R
    /\ \A x, y, z \in S : <<x, y>> \in R /\ <<y, z>> \in R => <<x, z>> \in R

\* How many come before x.
Place(R, S, x) == Cardinality({y \in S : <<y, x>> \in R})

\* A part that lacks something is smaller.
LEMMA PartSmaller ==
  ASSUME NEW S, IsFiniteSet(S), NEW T \in SUBSET S, NEW x \in S, x \notin T
  PROVE  Cardinality(T) \in Nat /\ Cardinality(S) \in Nat /\ Cardinality(T) < Cardinality(S)
  <1>1. IsFiniteSet(T) /\ Cardinality(T) <= Cardinality(S) /\ Cardinality(T) # Cardinality(S)
    BY FS_Subset
  <1>2. QED
    BY <1>1, FS_CardinalityType

\* What comes before something has fewer before it.
LEMMA PlaceGrows ==
  ASSUME NEW S, IsFiniteSet(S), NEW R, StrictOrder(R, S)
  PROVE  \A x \in S : /\ Place(R, S, x) \in 0..(Cardinality(S) - 1)
                      /\ \A y \in S : <<x, y>> \in R <=> Place(R, S, x) < Place(R, S, y)
  <1>1. ASSUME NEW x \in S
        PROVE  Place(R, S, x) \in 0..(Cardinality(S) - 1)
    <2>1. PICK T \in SUBSET S : T = {y \in S : <<y, x>> \in R}
      OBVIOUS
    <2>2. x \notin T
      BY <2>1 DEF StrictOrder
    <2>3. /\ Cardinality(T) \in Nat /\ Cardinality(S) \in Nat
          /\ Cardinality(T) < Cardinality(S)
      BY <2>2, PartSmaller
    <2>4. Place(R, S, x) = Cardinality(T)
      BY <2>1 DEF Place
    <2>5. QED
      BY <2>3, <2>4
  <1>2. ASSUME NEW x \in S, NEW y \in S, <<x, y>> \in R
        PROVE  Place(R, S, x) < Place(R, S, y)
    <2>1. PICK T \in SUBSET S, U \in SUBSET S :
            T = {z \in S : <<z, x>> \in R} /\ U = {z \in S : <<z, y>> \in R}
      OBVIOUS
    <2>2. T \in SUBSET U /\ x \in U /\ x \notin T
      BY <1>2, <2>1 DEF StrictOrder
    <2>3. IsFiniteSet(U)
      BY FS_Subset
    <2>4. Cardinality(T) < Cardinality(U)
      BY <2>2, <2>3, PartSmaller
    <2>5. Place(R, S, x) = Cardinality(T) /\ Place(R, S, y) = Cardinality(U)
      BY <2>1 DEF Place
    <2>6. QED
      BY <2>4, <2>5
  <1>3. ASSUME NEW x \in S, NEW y \in S, Place(R, S, x) < Place(R, S, y)
        PROVE  <<x, y>> \in R
    <2>1. x # y /\ ~(Place(R, S, y) < Place(R, S, x))
      BY <1>1, <1>3
    <2>2. QED
      BY <1>2, <2>1 DEF StrictOrder
  <1>4. QED
    BY <1>1, <1>2, <1>3

\* Every place is taken.
LEMMA PlaceTaken ==
  ASSUME NEW S, IsFiniteSet(S), NEW R, StrictOrder(R, S), NEW i \in 1..Cardinality(S)
  PROVE  \E x \in S : Place(R, S, x) = i - 1
  <1> DEFINE n == Cardinality(S)
             place == [x \in S |-> Place(R, S, x)]
  <1>0. n \in Nat
    BY FS_CardinalityType
  <1> HIDE DEF n
  <1>1. n \in Nat /\ IsFiniteSet(0..(n - 1)) /\ Cardinality(0..(n - 1)) = n
    BY <1>0, FS_Interval
  <1>2. place \in Injection(S, 0..(n - 1))
    <2>1. \A x \in S : place[x] \in 0..(n - 1)
      BY PlaceGrows DEF n
    <2>2. ASSUME NEW x \in S, NEW y \in S, place[x] = place[y]
          PROVE  x = y
      <3>1. Place(R, S, x) = Place(R, S, y) /\ Place(R, S, x) \in Int
        BY <2>2, PlaceGrows
      <3>2. <<x, y>> \notin R /\ <<y, x>> \notin R
        BY <3>1, PlaceGrows
      <3>3. QED
        BY <3>2 DEF StrictOrder
    <2>3. place \in [S -> 0..(n - 1)] /\ DOMAIN place = S
      BY <2>1
    <2>4. \A x, y \in DOMAIN place : place[x] = place[y] => x = y
      BY <2>2, <2>3
    <2> HIDE DEF place
    <2>5. QED
      BY <2>3, <2>4 DEF Injection, IsInjective
  <1>3. place \in Surjection(S, 0..(n - 1))
    <2>1. Cardinality(S) = Cardinality(0..(n - 1))
      BY <1>1 DEF n
    <2> HIDE DEF place
    <2>2. QED
      BY <1>1, <1>2, <2>1, FS_Injection
  <1>4. i - 1 \in 0..(n - 1)
    BY <1>1 DEF n
  <1>5. QED
    BY <1>3, <1>4 DEF Surjection

\* What follows i - 1 others is the i-th of a list that has everything once and in order.
LEMMA SortedList ==
  ASSUME NEW S, IsFiniteSet(S), NEW R, StrictOrder(R, S),
         NEW s \in [1..Cardinality(S) -> S],
         \A i \in 1..Cardinality(S) : Place(R, S, s[i]) = i - 1
  PROVE  /\ s \in Seq(S) /\ Len(s) = Cardinality(S) /\ Cardinality(S) \in Nat
         /\ DOMAIN s = 1..Cardinality(S)
         /\ IsInjective(s) /\ ToSet(s) = S
         /\ \A i, j \in DOMAIN s : <<s[i], s[j]>> \in R <=> i < j
  <1>1. Cardinality(S) \in Nat
    BY FS_CardinalityType
  <1>2. DOMAIN s = 1..Cardinality(S)
    OBVIOUS
  <1>3. s \in Seq(S) /\ Len(s) = Cardinality(S)
    BY <1>1, <1>2
  <1>4. \A i, j \in 1..Cardinality(S) : <<s[i], s[j]>> \in R <=> i < j
    BY PlaceGrows
  <1>5. IsInjective(s)
    <2>1. \A i, j \in 1..Cardinality(S) : s[i] = s[j] => i - 1 = j - 1
      BY <1>2
    <2>2. QED
      BY <1>2, <2>1 DEF IsInjective
  <1>6. ASSUME NEW x \in S
        PROVE  x \in ToSet(s)
    <2>1. Place(R, S, x) \in 0..(Cardinality(S) - 1)
      BY PlaceGrows
    <2>2. PICK i \in 1..Cardinality(S) : i = Place(R, S, x) + 1
      BY <1>1, <2>1
    <2>3. s[i] \in S /\ Place(R, S, s[i]) = Place(R, S, x)
      BY <2>1, <2>2
    <2>4. s[i] = x
      BY <2>1, <2>3, PlaceGrows DEF StrictOrder
    <2>5. QED
      BY <1>2, <2>4 DEF ToSet
  <1>7. ToSet(s) = S
    BY <1>2, <1>6 DEF ToSet
  <1>8. QED
    BY <1>1, <1>2, <1>3, <1>4, <1>5, <1>7

----------------------------------------------------------------------------
(* Joined lists (the dict of rrf.py, the loops of runner.py).               *)

Steps(seqs, n, g) ==
    g = [i \in 1..n |-> IF i = 1 THEN seqs[i] ELSE g[i - 1] \o seqs[i]]

\* The lists can be joined one after the other.
LEMMA JoinExists ==
  ASSUME NEW seqs, NEW n \in Nat \ {0}
  PROVE  \E g : Steps(seqs, n, g)
  <1> DEFINE T == {m \in 1..n : \E g : Steps(seqs, m, g)}
  <1>1. 1 \in T
    <2>1. Steps(seqs, 1, [i \in 1..1 |-> seqs[i]])
      BY DEF Steps
    <2>2. QED
      BY <2>1
  <1>2. PICK m \in T : \A k \in T : k <= m
    <2>1. T \in SUBSET (1..n) /\ T # {}
      BY <1>1
    <2> HIDE DEF T
    <2>2. QED
      BY <2>1, LastPosition
  <1>3. CASE m = n
    BY <1>2, <1>3
  <1>4. CASE m # n
    <2>1. PICK g : Steps(seqs, m, g)
      BY <1>2
    <2>2. m \in 1..n /\ m + 1 \in 1..n
      BY <1>2, <1>4
    <2> DEFINE h == [i \in 1..(m + 1) |-> IF i <= m THEN g[i] ELSE g[m] \o seqs[i]]
    <2>3. \A i \in 1..(m + 1) : h[i] = IF i = 1 THEN seqs[i] ELSE h[i - 1] \o seqs[i]
      <3>1. \A i \in 1..m : g[i] = IF i = 1 THEN seqs[i] ELSE g[i - 1] \o seqs[i]
        BY <2>1, <2>2 DEF Steps
      <3>2. QED
        BY <2>2, <3>1
    <2>4. h = [i \in 1..(m + 1) |-> h[i]]
      OBVIOUS
    <2> HIDE DEF h
    <2>5. Steps(seqs, m + 1, h)
      BY <2>3, <2>4 DEF Steps
    <2>6. m + 1 \in T
      BY <2>2, <2>5
    <2>7. QED
      BY <1>2, <2>2, <2>6
  <1>5. QED
    BY <1>3, <1>4

\* FlattenSeq joins them.
LEMMA FlattenJoins ==
  ASSUME NEW seqs, Len(seqs) \in Nat \ {0}
  PROVE  \E g : Steps(seqs, Len(seqs), g) /\ FlattenSeq(seqs) = g[Len(seqs)]
  <1> DEFINE flatten[i \in 1..Len(seqs)] ==
               IF i = 1 THEN seqs[i] ELSE flatten[i - 1] \o seqs[i]
  <1>1. \E g : g = [i \in 1..Len(seqs) |-> IF i = 1 THEN seqs[i] ELSE g[i - 1] \o seqs[i]]
    BY JoinExists DEF Steps
  <1>2. flatten = [i \in 1..Len(seqs) |-> IF i = 1 THEN seqs[i] ELSE flatten[i - 1] \o seqs[i]]
    BY <1>1, Zenon
  <1>3. Len(seqs) # 0
    OBVIOUS
  <1>4. FlattenSeq(seqs) = flatten[Len(seqs)]
    BY <1>3, Zenon DEF FlattenSeq
  <1>5. QED
    BY <1>2, <1>4, Zenon DEF Steps

----------------------------------------------------------------------------
(* Sums over short lists.                                                   *)

\* The last of some positions.
LEMMA MaxOf ==
  ASSUME NEW n \in Nat, NEW T \in SUBSET (1..n), T # {}
  PROVE  Max(T) \in T /\ \A y \in T : y <= Max(T)
  <1>1. \E x \in T : \A y \in T : x >= y
    <2>1. PICK x \in T : \A y \in T : y <= x
      BY LastPosition
    <2>2. \A y \in T : x >= y
      BY <2>1
    <2>3. QED
      BY <2>2
  <1>2. Max(T) \in T /\ \A y \in T : Max(T) >= y
    BY <1>1, Zenon DEF Max
  <1>3. QED
    BY <1>2

\* The fold that takes the last position first and adds up what c says.
Adds(n, c, iter) ==
    iter = [T \in SUBSET (1..n) |->
               IF T = {} THEN 0 ELSE iter[T \ {Max(T)}] + c[Max(T)]]

SumUpTo(c, n) ==
    (IF n >= 1 THEN c[1] ELSE 0) + (IF n >= 2 THEN c[2] ELSE 0) + (IF n >= 3 THEN c[3] ELSE 0)
      + (IF n >= 4 THEN c[4] ELSE 0) + (IF n >= 5 THEN c[5] ELSE 0)

\* There is such a fold over up to five positions.
LEMMA AddsExists ==
  ASSUME NEW n \in 0..5, NEW c \in [1..n -> Int]
  PROVE  \E iter : Adds(n, c, iter)
  <1> DEFINE part(T, i) == IF i \in T THEN c[i] ELSE 0
             sum(T) == part(T, 1) + part(T, 2) + part(T, 3) + part(T, 4) + part(T, 5)
             iter == [T \in SUBSET (1..n) |-> sum(T)]
  <1>0. n \in Nat
    OBVIOUS
  <1>1. ASSUME NEW T \in SUBSET (1..n), T # {}
        PROVE  sum(T) = sum(T \ {Max(T)}) + c[Max(T)]
    <2>1. PICK x \in T : x = Max(T)
      BY <1>0, <1>1, MaxOf
    <2>2. x \in 1..5 /\ x \in 1..n
      OBVIOUS
    <2>3. ASSUME NEW i \in 1..5
          PROVE  part(T, i) \in Int /\ part(T \ {x}, i) = IF i = x THEN 0 ELSE part(T, i)
      <3>1. i \in T => c[i] \in Int
        OBVIOUS
      <3>2. i \in T \ {x} <=> i \in T /\ i # x
        OBVIOUS
      <3> HIDE <2>1
      <3>3. QED
        BY <3>1, <3>2
    <2>4. part(T, x) = c[x] /\ c[x] \in Int
      BY <2>2
    <2> HIDE DEF part
    <2>5. x = 1 \/ x = 2 \/ x = 3 \/ x = 4 \/ x = 5
      BY <2>2
    <2>6. sum(T) = sum(T \ {x}) + c[x]
      <3>1. \A i \in 1..5 : part(T, i) \in Int
        BY <2>3
      <3>2. \A i \in 1..5 : part(T \ {x}, i) = IF i = x THEN 0 ELSE part(T, i)
        BY <2>3
      <3>3. PICK p \in [1..5 -> Int] : \A i \in 1..5 : p[i] = part(T, i)
        <4>1. [i \in 1..5 |-> part(T, i)] \in [1..5 -> Int]
          BY <3>1
        <4>2. QED
          BY <4>1
      <3>4. \A i \in 1..5 : part(T \ {x}, i) = IF i = x THEN 0 ELSE p[i]
        BY <3>2, <3>3
      <3>5. sum(T) = p[1] + p[2] + p[3] + p[4] + p[5]
        BY <3>3
      <3>6. c[x] = p[x]
        BY <2>2, <2>4, <3>3
      <3>7. p[1] \in Int /\ p[2] \in Int /\ p[3] \in Int /\ p[4] \in Int /\ p[5] \in Int
        OBVIOUS
      <3>8. sum(T \ {x}) = (IF 1 = x THEN 0 ELSE p[1]) + (IF 2 = x THEN 0 ELSE p[2])
              + (IF 3 = x THEN 0 ELSE p[3]) + (IF 4 = x THEN 0 ELSE p[4]) + (IF 5 = x THEN 0 ELSE p[5])
        BY <3>4
      <3> HIDE DEF sum
      <3>9. QED
        <4>1. PICK a \in Int, b \in Int, d \in Int, e \in Int, f \in Int :
                p[1] = a /\ p[2] = b /\ p[3] = d /\ p[4] = e /\ p[5] = f
          BY <3>7
        <4>2. /\ x = 1 => c[x] = a
              /\ x = 2 => c[x] = b
              /\ x = 3 => c[x] = d
              /\ x = 4 => c[x] = e
              /\ x = 5 => c[x] = f
          BY <3>6, <4>1
        <4>3. sum(T) = a + b + d + e + f
          BY <3>5, <4>1
        <4>4. sum(T \ {x}) = (IF 1 = x THEN 0 ELSE a) + (IF 2 = x THEN 0 ELSE b)
                + (IF 3 = x THEN 0 ELSE d) + (IF 4 = x THEN 0 ELSE e) + (IF 5 = x THEN 0 ELSE f)
          BY <3>8, <4>1
        <4>5. CASE x = 1
          BY <4>2, <4>3, <4>4, <4>5
        <4>6. CASE x = 2
          BY <4>2, <4>3, <4>4, <4>6
        <4>7. CASE x = 3
          BY <4>2, <4>3, <4>4, <4>7
        <4>8. CASE x = 4
          BY <4>2, <4>3, <4>4, <4>8
        <4>9. CASE x = 5
          BY <4>2, <4>3, <4>4, <4>9
        <4>10. QED
          BY <2>5, <4>5, <4>6, <4>7, <4>8, <4>9
    <2> HIDE DEF sum
    <2>7. QED
      BY <2>1, <2>6
  <1>2. sum({}) = 0
    OBVIOUS
  <1>3. ASSUME NEW T \in SUBSET (1..n)
        PROVE  sum(T) = IF T = {} THEN 0 ELSE iter[T \ {Max(T)}] + c[Max(T)]
    <2>1. T \ {Max(T)} \in SUBSET (1..n)
      OBVIOUS
    <2>2. iter[T \ {Max(T)}] = sum(T \ {Max(T)})
      BY <2>1
    <2> HIDE DEF iter, sum
    <2>3. QED
      BY <1>1, <1>2, <2>2
  <1>4. iter = [T \in SUBSET (1..n) |->
                  IF T = {} THEN 0 ELSE iter[T \ {Max(T)}] + c[Max(T)]]
    <2>1. iter = [T \in SUBSET (1..n) |-> sum(T)]
      OBVIOUS
    <2> HIDE DEF iter, sum
    <2>2. QED
      BY <1>3, <2>1
  <1>5. QED
    BY <1>4 DEF Adds

\* What it adds up to.
LEMMA AddsUp ==
  ASSUME NEW n \in 0..5, NEW c \in [1..n -> Int], NEW iter, Adds(n, c, iter)
  PROVE  iter[1..n] = SumUpTo(c, n)
  <1>0. n \in Nat
    OBVIOUS
  <1>1. iter[{}] = 0
    BY DEF Adds
  <1>2. ASSUME NEW m \in 1..n
        PROVE  iter[1..m] = iter[1..(m - 1)] + c[m]
    <2>1. 1..m \in SUBSET (1..n) /\ m \in 1..m
      OBVIOUS
    <2>2. Max(1..m) = m
      <3>1. Max(1..m) \in 1..m /\ \A y \in 1..m : y <= Max(1..m)
        <4>1. 1..m # {}
          BY <2>1, Zenon
        <4>2. QED
          BY <1>0, <2>1, <4>1, MaxOf
      <3>2. QED
        BY <2>1, <3>1
    <2>3. (1..m) \ {m} = 1..(m - 1)
      OBVIOUS
    <2>4. iter[1..m] = IF 1..m = {} THEN 0 ELSE iter[(1..m) \ {Max(1..m)}] + c[Max(1..m)]
      BY <2>1 DEF Adds
    <2>5. QED
      BY <2>1, <2>2, <2>3, <2>4
  <1>3. 1..0 = {}
    OBVIOUS
  <1>4. \A m \in 1..n : c[m] \in Int
    OBVIOUS
  <1>5. CASE n = 0
    BY <1>1, <1>3, <1>5 DEF SumUpTo
  <1>6. CASE n = 1
    <2>1. iter[1..1] = iter[1..0] + c[1]
      BY <1>2, <1>6
    <2>2. QED
      BY <1>1, <1>3, <1>4, <1>6, <2>1 DEF SumUpTo
  <1>7. CASE n = 2
    <2>1. iter[1..1] = iter[1..0] + c[1] /\ iter[1..2] = iter[1..1] + c[2]
      BY <1>2, <1>7
    <2>2. QED
      BY <1>1, <1>3, <1>4, <1>7, <2>1 DEF SumUpTo
  <1>8. CASE n = 3
    <2>1. /\ iter[1..1] = iter[1..0] + c[1] /\ iter[1..2] = iter[1..1] + c[2]
          /\ iter[1..3] = iter[1..2] + c[3]
      BY <1>2, <1>8
    <2>2. QED
      BY <1>1, <1>3, <1>4, <1>8, <2>1 DEF SumUpTo
  <1>9. CASE n = 4
    <2>1. /\ iter[1..1] = iter[1..0] + c[1] /\ iter[1..2] = iter[1..1] + c[2]
          /\ iter[1..3] = iter[1..2] + c[3] /\ iter[1..4] = iter[1..3] + c[4]
      BY <1>2, <1>9
    <2>2. QED
      BY <1>1, <1>3, <1>4, <1>9, <2>1 DEF SumUpTo
  <1>10. CASE n = 5
    <2>1. /\ iter[1..1] = iter[1..0] + c[1] /\ iter[1..2] = iter[1..1] + c[2]
          /\ iter[1..3] = iter[1..2] + c[3] /\ iter[1..4] = iter[1..3] + c[4]
          /\ iter[1..5] = iter[1..4] + c[5]
      BY <1>2, <1>10
    <2>2. QED
      BY <1>1, <1>3, <1>4, <1>10, <2>1 DEF SumUpTo
  <1>11. QED
    BY <1>5, <1>6, <1>7, <1>8, <1>9, <1>10

----------------------------------------------------------------------------
(* The fusion of rrf.py.                                                    *)

\* Of something that a list shows, RankIn is the first place, and different things have
\* different ones (rrf.py:33-42).
LEMMA FirstRank ==
  ASSUME NEW D, NEW r \in Seq(D), NEW z \in ToSet(r)
  PROVE  /\ RankIn(r, z) \in DOMAIN r /\ r[RankIn(r, z)] = z
         /\ \A i \in DOMAIN r : r[i] = z => RankIn(r, z) <= i
  <1> DEFINE at == {i \in DOMAIN r : r[i] = z}
  <1>1. at \in SUBSET Nat /\ at # {}
    BY DEF ToSet
  <1>2. \E x \in at : \A y \in at : x <= y
    <2> HIDE DEF at
    <2>1. QED
      BY <1>1, FirstPosition
  <1>3. RankIn(r, z) = CHOOSE x \in at : \A y \in at : x <= y
    BY Zenon DEF RankIn, Min
  <1>4. RankIn(r, z) \in at /\ \A y \in at : RankIn(r, z) <= y
    <2> HIDE DEF at
    <2>1. QED
      BY <1>2, <1>3, Zenon
  <1>5. QED
    BY <1>4

\* Every contribution is a number, and a better rank never contributes less
\* (rrf.py:33-37).
LEMMA Contributions ==
  ASSUME NEW r \in Seq(Docs), IsInjective(r), NEW x, NEW y
  PROVE  /\ Contribution(r, x) \in Nat
         /\ \A i \in DOMAIN r : RankIn(r, r[i]) = i
         /\ x \in ToSet(r) => RankIn(r, x) \in DOMAIN r /\ r[RankIn(r, x)] = x
         /\ Ahead(r, x, y) => Contribution(r, x) >= Contribution(r, y)
  <1>0. DOMAIN r = 1..Len(r) /\ Len(r) \in Nat
    OBVIOUS
  <1>1. ASSUME NEW z \in ToSet(r)
        PROVE  RankIn(r, z) \in DOMAIN r /\ r[RankIn(r, z)] = z
    BY FirstRank
  <1>2. \A i \in DOMAIN r : RankIn(r, r[i]) = i
    <2>1. ASSUME NEW i \in DOMAIN r
          PROVE  RankIn(r, r[i]) = i
      <3>1. r[i] \in ToSet(r)
        BY DEF ToSet
      <3>2. QED
        BY <1>1, <3>1 DEF IsInjective
    <2>2. QED
      BY <2>1
  <1>3. FusionK \in Nat \ {0} /\ Scale \in Nat
    BY RankingAssumption
  <1>4. \A a, b \in Nat \ {0} : a <= b => /\ Scale \div a \in Nat /\ Scale \div b \in Nat
                                          /\ Scale \div a >= Scale \div b
    <2>1. ASSUME NEW a \in Nat \ {0}, NEW b \in Nat \ {0}, a <= b
          PROVE  /\ Scale \div a \in Nat /\ Scale \div b \in Nat
                 /\ Scale \div a >= Scale \div b
      <3>1. PICK p \in Int, q \in Int : p = Scale \div a /\ q = Scale \div b
        BY <1>3
      <3>2. a * p <= Scale /\ Scale < a * (p + 1) /\ b * q <= Scale /\ Scale < b * (q + 1)
        BY <1>3, <3>1
      <3>3. p >= 0 /\ q >= 0
        BY <1>3, <3>1, <3>2
      <3>4. a * q <= b * q
        BY <2>1, <3>3
      <3>5. a * q < a * (p + 1)
        <4>1. PICK u \in Int, v \in Int, w \in Int : u = a * q /\ v = b * q /\ w = a * (p + 1)
          OBVIOUS
        <4>2. QED
          BY <1>3, <3>2, <3>4, <4>1
      <3>6. q < p + 1
        BY <3>1, <3>3, <3>5
      <3>7. QED
        BY <3>1, <3>3, <3>6
    <2>2. QED
      BY <2>1
  <1>5. \A z \in ToSet(r) : FusionK + RankIn(r, z) \in Nat \ {0}
    BY <1>0, <1>1, <1>3
  <1>6. \A z : Contribution(r, z) \in Nat
    BY <1>4, <1>5 DEF Contribution
  <1>7. ASSUME Ahead(r, x, y)
        PROVE  Contribution(r, x) >= Contribution(r, y)
    <2>1. CASE y \notin ToSet(r)
      BY <1>6, <2>1 DEF Contribution
    <2>2. CASE y \in ToSet(r)
      <3>1. x \in ToSet(r) /\ RankIn(r, x) < RankIn(r, y)
        BY <1>7, <2>2 DEF Ahead
      <3>2. FusionK + RankIn(r, x) <= FusionK + RankIn(r, y)
        BY <1>0, <1>1, <1>3, <2>2, <3>1
      <3>3. QED
        BY <1>4, <1>5, <2>2, <3>1, <3>2 DEF Contribution
    <2>3. QED
      BY <2>1, <2>2
  <1>8. QED
    BY <1>1, <1>2, <1>6, <1>7

\* The score is the sum of both contributions (rrf.py:33-37).
LEMMA ScoreOfTwo ==
  ASSUME NEW f \in Seq(Docs), NEW g \in Seq(Docs), NEW d,
         Contribution(f, d) \in Nat, Contribution(g, d) \in Nat
  PROVE  Score(<<f, g>>, d) = Contribution(f, d) + Contribution(g, d)
  <1> DEFINE rankings == <<f, g>>
             c == [i \in 1..2 |-> Contribution(rankings[i], d)]
  <1>1. DOMAIN rankings = 1..2 /\ rankings[1] = f /\ rankings[2] = g
    OBVIOUS
  <1>2. c[1] = Contribution(f, d) /\ c[2] = Contribution(g, d)
    OBVIOUS
  <1>3. c \in [1..2 -> Int]
    <2>1. \A i \in 1..2 : i = 1 \/ i = 2
      OBVIOUS
    <2>2. \A i \in 1..2 : c[i] \in Int
      BY <1>2, <2>1
    <2>3. c = [i \in 1..2 |-> c[i]]
      OBVIOUS
    <2> HIDE DEF c
    <2>4. QED
      BY <2>2, <2>3
  <1>4. \A i \in 1..2 : c[i] = Contribution(rankings[i], d)
    OBVIOUS
  <1> HIDE DEF rankings, c
  <1>5. 2 \in 0..5 /\ 2 \in Nat
    OBVIOUS
  <1>6. ASSUME NEW iter
        PROVE  Adds(2, c, iter) <=>
                 iter = [T \in SUBSET DOMAIN rankings |->
                           IF T = {} THEN 0
                           ELSE LET x == Max(T)
                                IN  iter[T \ {x}] + Contribution(rankings[x], d)]
    <2>1. ASSUME NEW T \in SUBSET (1..2), T # {}
          PROVE  c[Max(T)] = Contribution(rankings[Max(T)], d)
      BY <1>4, <1>5, <2>1, MaxOf
    <2>2. QED
      BY <1>1, <2>1 DEF Adds
  <1> DEFINE sum[T \in SUBSET DOMAIN rankings] ==
               IF T = {} THEN 0
               ELSE LET x == Max(T)
                    IN  sum[T \ {x}] + Contribution(rankings[x], d)
  <1>7. \E iter : iter = [T \in SUBSET DOMAIN rankings |->
                            IF T = {} THEN 0
                            ELSE LET x == Max(T)
                                 IN  iter[T \ {x}] + Contribution(rankings[x], d)]
    <2>1. PICK iter : Adds(2, c, iter)
      BY <1>3, <1>5, AddsExists
    <2>2. QED
      BY <1>6, <2>1
  <1>8. Score(rankings, d) = sum[DOMAIN rankings]
    BY Zenon DEF Score, FoldLeft, MapThenFoldSet
  <1>9. sum = [T \in SUBSET DOMAIN rankings |->
                 IF T = {} THEN 0
                 ELSE LET x == Max(T)
                      IN  sum[T \ {x}] + Contribution(rankings[x], d)]
    BY <1>7, Zenon
  <1> HIDE DEF sum
  <1>10. Adds(2, c, sum)
    BY <1>6, <1>9, Zenon
  <1>11. sum[1..2] = SumUpTo(c, 2)
    BY <1>3, <1>5, <1>10, AddsUp
  <1>12. SumUpTo(c, 2) = c[1] + c[2]
    BY <1>2 DEF SumUpTo
  <1>13. QED
    BY <1>1, <1>2, <1>8, <1>11, <1>12 DEF rankings

\* The rankings, one behind the other: the order of the dict (rrf.py:33-42).
LEMMA SeenOfTwo ==
  ASSUME NEW f \in Seq(Docs), NEW g \in Seq(Docs)
  PROVE  /\ FlattenSeq(<<f, g>>) = f \o g /\ f \o g \in Seq(Docs)
         /\ DOMAIN (f \o g) = 1..(Len(f) + Len(g))
         /\ \A i \in 1..Len(f) : (f \o g)[i] = f[i]
         /\ \A i \in 1..Len(g) : (f \o g)[Len(f) + i] = g[i]
         /\ ToSet(f \o g) = ToSet(f) \cup ToSet(g)
         /\ IsFiniteSet(ToSet(f) \cup ToSet(g))
  <1>1. PICK n \in Nat, m \in Nat : n = Len(f) /\ m = Len(g)
    OBVIOUS
  <1>2. FlattenSeq(<<f, g>>) = f \o g
    <2>1. Len(<<f, g>>) = 2 /\ 2 \in Nat \ {0} /\ <<f, g>>[1] = f /\ <<f, g>>[2] = g
      OBVIOUS
    <2>2. PICK h : Steps(<<f, g>>, 2, h) /\ FlattenSeq(<<f, g>>) = h[2]
      BY <2>1, FlattenJoins
    <2>3. h[2] = h[1] \o <<f, g>>[2] /\ h[1] = <<f, g>>[1]
      BY <2>2 DEF Steps
    <2>4. QED
      BY <2>1, <2>2, <2>3
  <1>3. PICK s : s = f \o g
    OBVIOUS
  <1>4. /\ s \in Seq(Docs) /\ Len(s) = n + m /\ DOMAIN s = 1..(n + m)
        /\ \A i \in 1..(n + m) : s[i] = IF i <= n THEN f[i] ELSE g[i - n]
    BY <1>1, <1>3, ConcatProperties
  <1>5. DOMAIN f = 1..n /\ DOMAIN g = 1..m
    BY <1>1
  <1>6. (\A i \in 1..n : s[i] = f[i]) /\ (\A i \in 1..m : s[n + i] = g[i])
    <2>1. ASSUME NEW i \in 1..m
          PROVE  n + i \in 1..(n + m) /\ ~(n + i <= n) /\ (n + i) - n = i
      OBVIOUS
    <2>2. \A i \in 1..n : i \in 1..(n + m)
      OBVIOUS
    <2>3. QED
      BY <1>4, <2>1, <2>2
  <1>7. ToSet(s) = ToSet(f) \cup ToSet(g)
    <2>1. ASSUME NEW i \in 1..(n + m)
          PROVE  s[i] \in ToSet(f) \cup ToSet(g)
      <3>1. CASE i <= n
        <4>1. i \in DOMAIN f /\ s[i] = f[i]
          BY <1>4, <1>5, <3>1
        <4>2. QED
          BY <4>1 DEF ToSet
      <3>2. CASE i > n
        <4>1. i - n \in DOMAIN g /\ s[i] = g[i - n]
          BY <1>4, <1>5, <3>2
        <4>2. QED
          BY <4>1 DEF ToSet
      <3>3. QED
        BY <3>1, <3>2
    <2>2. ASSUME NEW i \in 1..n
          PROVE  f[i] \in ToSet(s)
      <3>1. i \in DOMAIN s /\ s[i] = f[i]
        BY <1>4, <1>6
      <3>2. QED
        BY <3>1 DEF ToSet
    <2>3. ASSUME NEW i \in 1..m
          PROVE  g[i] \in ToSet(s)
      <3>1. n + i \in DOMAIN s /\ s[n + i] = g[i]
        BY <1>4, <1>6
      <3>2. QED
        BY <3>1 DEF ToSet
    <2>4. QED
      BY <1>4, <1>5, <2>1, <2>2, <2>3 DEF ToSet
  <1>8. IsFiniteSet(ToSet(s))
    <2>1. s \in Surjection(1..(n + m), ToSet(s))
      <3>1. s \in [1..(n + m) -> ToSet(s)]
        BY <1>4 DEF ToSet
      <3>2. \A x \in ToSet(s) : \E i \in 1..(n + m) : s[i] = x
        BY <1>4 DEF ToSet
      <3>3. QED
        BY <3>1, <3>2 DEF Surjection
    <2>2. IsFiniteSet(1..(n + m))
      BY FS_Interval
    <2>3. QED
      BY <2>1, <2>2, FS_Surjection
  <1>9. QED
    BY <1>1, <1>2, <1>3, <1>4, <1>6, <1>7, <1>8

Shown(f, g) == ToSet(f) \cup ToSet(g)
FusedOf(S, f, g) == Sorted(S, LAMBDA x, y : Before(<<f, g>>, x, y))
Fused(f, g) == FusedOf(Shown(f, g), f, g)
Points(f, g, d) == Contribution(f, d) + Contribution(g, d)

\* What decides whether x comes before y in a fusion (rrf.py:38-41).
LEMMA BeforeOfTwo ==
  ASSUME NEW f \in Seq(Docs), IsInjective(f), NEW g \in Seq(Docs), IsInjective(g), NEW x, NEW y
  PROVE  /\ Points(f, g, x) \in Nat
         /\ Before(<<f, g>>, x, y) <=>
              \/ Points(f, g, x) > Points(f, g, y)
              \/ Points(f, g, x) = Points(f, g, y) /\ RankIn(f \o g, x) < RankIn(f \o g, y)
  <1>1. /\ Contribution(f, x) \in Nat /\ Contribution(g, x) \in Nat
        /\ Contribution(f, y) \in Nat /\ Contribution(g, y) \in Nat
    BY Contributions
  <1>2. Score(<<f, g>>, x) = Points(f, g, x) /\ Score(<<f, g>>, y) = Points(f, g, y)
    BY <1>1, ScoreOfTwo DEF Points
  <1>3. FlattenSeq(<<f, g>>) = f \o g
    BY SeenOfTwo
  <1>4. Points(f, g, x) \in Nat
    BY <1>1 DEF Points
  <1>5. QED
    BY <1>2, <1>3, <1>4, Zenon DEF Before

\* sorted() of the dict: everything once, in the order of Before (rrf.py:38-42).
LEMMA FusedInOrder ==
  ASSUME NEW f \in Seq(Docs), IsInjective(f), NEW g \in Seq(Docs), IsInjective(g)
  PROVE  /\ Fused(f, g) \in Seq(Shown(f, g)) /\ IsInjective(Fused(f, g))
         /\ ToSet(Fused(f, g)) = Shown(f, g)
         /\ Len(Fused(f, g)) = Cardinality(Shown(f, g))
         /\ DOMAIN Fused(f, g) = 1..Len(Fused(f, g)) /\ Len(Fused(f, g)) \in Nat
         /\ \A i, j \in DOMAIN Fused(f, g) :
              Before(<<f, g>>, Fused(f, g)[i], Fused(f, g)[j]) => i < j
  <1>1. PICK S : S = Shown(f, g)
    OBVIOUS
  <1>2. PICK s : s = f \o g
    OBVIOUS
  <1>3. /\ FlattenSeq(<<f, g>>) = s /\ s \in Seq(Docs) /\ ToSet(s) = S /\ IsFiniteSet(S)
        /\ DOMAIN s = 1..(Len(f) + Len(g)) /\ Len(f) \in Nat /\ Len(g) \in Nat
    <2>1. Len(f) \in Nat /\ Len(g) \in Nat
      OBVIOUS
    <2>2. QED
      BY <1>1, <1>2, <2>1, SeenOfTwo, Zenon DEF Shown
  <1>0. IsFiniteSet(S)
    BY <1>3
  <1> DEFINE R == {p \in S \X S : Before(<<f, g>>, p[1], p[2])}
  <1>4. \A x, y \in S : <<x, y>> \in R <=> Before(<<f, g>>, x, y)
    OBVIOUS
  <1> HIDE DEF R
  <1>5. StrictOrder(R, S)
    <2> DEFINE points == [x \in S |-> Points(f, g, x)]
               place == [x \in S |-> RankIn(s, x)]
    <2>1. ASSUME NEW x \in S
          PROVE  points[x] \in Nat /\ place[x] \in Int /\ s[place[x]] = x
      <3>1. points[x] = Points(f, g, x) /\ place[x] = RankIn(s, x)
        OBVIOUS
      <3>2. Points(f, g, x) \in Nat
        BY BeforeOfTwo
      <3>3. RankIn(s, x) \in DOMAIN s /\ s[RankIn(s, x)] = x
        BY <1>3, FirstRank
      <3>4. RankIn(s, x) \in Int
        BY <1>3, <3>3
      <3>5. QED
        BY <3>1, <3>2, <3>3, <3>4
    <2>2. ASSUME NEW x \in S, NEW y \in S
          PROVE  <<x, y>> \in R <=> \/ points[x] > points[y]
                                    \/ points[x] = points[y] /\ place[x] < place[y]
      <3>1. /\ points[x] = Points(f, g, x) /\ place[x] = RankIn(s, x)
            /\ points[y] = Points(f, g, y) /\ place[y] = RankIn(s, y)
        OBVIOUS
      <3>2. Before(<<f, g>>, x, y) <=>
              \/ Points(f, g, x) > Points(f, g, y)
              \/ Points(f, g, x) = Points(f, g, y) /\ RankIn(s, x) < RankIn(s, y)
        BY <1>2, BeforeOfTwo
      <3>3. QED
        BY <1>4, <3>1, <3>2, Zenon
    <2>3. \A x, y \in S : x # y => place[x] # place[y]
      BY <2>1
    <2> HIDE DEF points, place
    <2>4. QED
      BY <2>1, <2>2, <2>3 DEF StrictOrder
  <1>6. \A x \in S : Place(R, S, x) = Cardinality({y \in S : Before(<<f, g>>, y, x)})
    <2>1. \A x \in S : {y \in S : <<y, x>> \in R} = {y \in S : Before(<<f, g>>, y, x)}
      BY <1>4
    <2>2. QED
      BY <2>1 DEF Place
  <1>7. PICK a : a = Fused(f, g)
    OBVIOUS
  <1>8. a = [i \in 1..Cardinality(S) |->
               CHOOSE x \in S : Cardinality({y \in S : Before(<<f, g>>, y, x)}) = i - 1]
    <2>1. a = FusedOf(S, f, g)
      BY <1>1, <1>7, Zenon DEF Fused
    <2>2. QED
      BY <2>1, Zenon DEF FusedOf, Sorted
  <1>9. ASSUME NEW i \in 1..Cardinality(S)
        PROVE  a[i] \in S /\ Place(R, S, a[i]) = i - 1
    <2>1. \E x \in S : Cardinality({y \in S : Before(<<f, g>>, y, x)}) = i - 1
      <3>1. PICK x \in S : Place(R, S, x) = i - 1
        BY <1>0, <1>5, PlaceTaken
      <3>2. QED
        BY <1>6, <3>1
    <2>2. a[i] = CHOOSE x \in S : Cardinality({y \in S : Before(<<f, g>>, y, x)}) = i - 1
      BY <1>8
    <2>3. a[i] \in S /\ Cardinality({y \in S : Before(<<f, g>>, y, a[i])}) = i - 1
      BY <2>1, <2>2, Zenon
    <2>4. QED
      BY <1>6, <2>3
  <1>10. a \in [1..Cardinality(S) -> S]
    BY <1>8, <1>9, Zenon
  <1>11. /\ a \in Seq(S) /\ Len(a) = Cardinality(S) /\ DOMAIN a = 1..Cardinality(S)
         /\ Cardinality(S) \in Nat /\ IsInjective(a) /\ ToSet(a) = S
         /\ \A i, j \in DOMAIN a : <<a[i], a[j]>> \in R <=> i < j
    <2>1. \A i \in 1..Cardinality(S) : Place(R, S, a[i]) = i - 1
      BY <1>9
    <2>2. QED
      BY <1>0, <1>5, <1>10, <2>1, SortedList
  <1>12. \A i, j \in DOMAIN a : Before(<<f, g>>, a[i], a[j]) => i < j
    BY <1>4, <1>9, <1>11
  <1>13. QED
    BY <1>1, <1>7, <1>11, <1>12

\* What both rankings put ahead, and of two that changed places the one that the first
\* ranking puts ahead, comes first in the fusion (rrf.py:33-42).
LEMMA AgreementKept ==
  ASSUME NEW f \in Seq(Docs), IsInjective(f), NEW g \in Seq(Docs), IsInjective(g),
         NEW x \in ToSet(f) \cup ToSet(g), NEW y \in ToSet(f) \cup ToSet(g),
         \/ Ahead(f, x, y) /\ Ahead(g, x, y)
         \/ ChangedPlaces(f, g, x, y) /\ RankIn(f, x) < RankIn(f, y)
  PROVE  Before(<<f, g>>, x, y)
  <1>1. PICK s : s = f \o g
    OBVIOUS
  <1>2. /\ s \in Seq(Docs) /\ DOMAIN s = 1..(Len(f) + Len(g)) /\ Len(f) \in Nat /\ Len(g) \in Nat
        /\ \A i \in 1..Len(f) : s[i] = f[i]
        /\ \A i \in 1..Len(g) : s[Len(f) + i] = g[i]
        /\ ToSet(s) = ToSet(f) \cup ToSet(g)
    <2>1. Len(f) \in Nat /\ Len(g) \in Nat
      OBVIOUS
    <2>2. QED
      BY <1>1, <2>1, SeenOfTwo, Zenon
  <1>3. \A z \in ToSet(f) : RankIn(s, z) = RankIn(f, z) /\ RankIn(f, z) \in 1..Len(f)
    <2>1. ASSUME NEW z \in ToSet(f)
          PROVE  RankIn(s, z) = RankIn(f, z) /\ RankIn(f, z) \in 1..Len(f)
      <3>1. PICK p \in 1..Len(f) : p = RankIn(f, z) /\ f[p] = z /\ \A i \in 1..Len(f) : f[i] = z => p <= i
        BY FirstRank
      <3>2. z \in ToSet(s)
        BY <1>2
      <3>3. PICK q \in 1..(Len(f) + Len(g)) :
              q = RankIn(s, z) /\ s[q] = z /\ \A i \in 1..(Len(f) + Len(g)) : s[i] = z => q <= i
        BY <1>2, <3>2, FirstRank
      <3>4. q <= p
        <4>1. p \in 1..(Len(f) + Len(g)) /\ s[p] = z
          BY <1>2, <3>1
        <4>2. QED
          BY <3>3, <4>1
      <3>5. p <= q
        <4>1. q \in 1..Len(f) /\ f[q] = z
          BY <1>2, <3>1, <3>3, <3>4
        <4>2. QED
          BY <3>1, <4>1
      <3>6. QED
        BY <3>1, <3>3, <3>4, <3>5
    <2>2. QED
      BY <2>1
  <1>4. Points(f, g, x) \in Nat /\ Points(f, g, y) \in Nat
    BY BeforeOfTwo
  <1>5. /\ Contribution(f, x) \in Nat /\ Contribution(g, x) \in Nat
        /\ Contribution(f, y) \in Nat /\ Contribution(g, y) \in Nat
    BY Contributions
  <1>6. CASE Ahead(f, x, y) /\ Ahead(g, x, y)
    <2>1. Contribution(f, x) >= Contribution(f, y) /\ Contribution(g, x) >= Contribution(g, y)
      BY <1>6, Contributions
    <2>2. Points(f, g, x) >= Points(f, g, y)
      BY <1>5, <2>1 DEF Points
    <2>3. RankIn(s, x) < RankIn(s, y)
      <3>1. x \in ToSet(f) /\ (y \in ToSet(f) => RankIn(f, x) < RankIn(f, y))
        BY <1>6 DEF Ahead
      <3>2. CASE y \in ToSet(f)
        BY <1>3, <3>1, <3>2
      <3>3. CASE y \notin ToSet(f)
        <4>1. PICK q \in 1..(Len(f) + Len(g)) : q = RankIn(s, y) /\ s[q] = y
          BY <1>2, FirstRank
        <4>2. q > Len(f)
          BY <1>2, <3>3, <4>1 DEF ToSet
        <4>3. QED
          BY <1>2, <1>3, <3>1, <4>1, <4>2
      <3>4. QED
        BY <3>2, <3>3
    <2>4. QED
      BY <1>1, <1>4, <2>2, <2>3, BeforeOfTwo
  <1>7. CASE ChangedPlaces(f, g, x, y) /\ RankIn(f, x) < RankIn(f, y)
    <2>1. /\ {x, y} \subseteq ToSet(f) \cap ToSet(g)
          /\ RankIn(f, x) = RankIn(g, y) /\ RankIn(f, y) = RankIn(g, x)
      BY <1>7 DEF ChangedPlaces
    <2>2. Contribution(f, x) = Contribution(g, y) /\ Contribution(f, y) = Contribution(g, x)
      BY <2>1 DEF Contribution
    <2>3. Points(f, g, x) = Points(f, g, y)
      BY <1>5, <2>2 DEF Points
    <2>4. RankIn(s, x) < RankIn(s, y)
      BY <1>3, <1>7, <2>1
    <2>5. QED
      BY <1>1, <2>3, <2>4, BeforeOfTwo
  <1>8. QED
    BY <1>6, <1>7

\* For rankings of any length that show nothing twice, and any cut: a fusion has
\* everything once and cuts only its tail, keeps what both rankings agree on, and leaves
\* two that changed places as the first ranking has them (rrf.py:18-42).
THEOREM FusionsSound ==
  ASSUME call \in [of : {"rrf_merge"}, first : Seq(Docs), second : Seq(Docs), top : Nat],
         IsInjective(call.first), IsInjective(call.second)
  PROVE  FusionSound
  <1>1. PICK f \in Seq(Docs), g \in Seq(Docs), k \in Nat :
          f = call.first /\ g = call.second /\ k = call.top /\ IsInjective(f) /\ IsInjective(g)
    OBVIOUS
  <1>2. PICK S : S = Shown(f, g)
    OBVIOUS
  <1>3. PICK a : a = Fused(f, g)
    OBVIOUS
  <1>4. PICK n \in Nat :
         /\ a \in Seq(S) /\ IsInjective(a) /\ ToSet(a) = S /\ n = Cardinality(S) /\ n = Len(a)
         /\ DOMAIN a = 1..n
         /\ \A i, j \in DOMAIN a : Before(<<f, g>>, a[i], a[j]) => i < j
    BY <1>1, <1>2, <1>3, FusedInOrder
  <1>5. \A m : RrfMerge(<<f, g>>, m) = Top(a, m)
    <2>1. ToSet(FlattenSeq(<<f, g>>)) = Shown(f, g)
      BY SeenOfTwo, Zenon DEF Shown
    <2>2. \A m : RrfMerge(<<f, g>>, m) = Top(FusedOf(ToSet(FlattenSeq(<<f, g>>)), f, g), m)
      BY Zenon DEF RrfMerge, FusedOf
    <2>3. QED
      BY <1>3, <2>1, <2>2, Zenon DEF Fused
  <1>6. RrfMerge(<<f, g>>, n) = a
    <2>1. Top(a, n) = SubSeq(a, 1, n)
      BY <1>4 DEF Top
    <2>2. SubSeq(a, 1, n) = a
      BY <1>4, SubSeqProperties
    <2>3. QED
      BY <1>5, <2>1, <2>2
  <1>7. PICK b : b = RrfMerge(<<f, g>>, k)
    OBVIOUS
  <1>8. PICK m \in Nat : m = IF k < n THEN k ELSE n
    OBVIOUS
  <1>9. b = SubSeq(a, 1, m) /\ m <= n
    <2>1. b = Top(a, k)
      BY <1>5, <1>7
    <2>2. n = Len(a)
      BY <1>4
    <2>3. QED
      BY <1>8, <2>1, <2>2 DEF Top
  <1>10. Len(b) = m /\ IsPrefix(b, a)
    <2>1. Len(b) = m /\ b \in Seq(S)
      BY <1>4, <1>9, SubSeqProperties
    <2>2. SubSeq(b, 1, m) = b
      BY <2>1, SubSeqProperties
    <2>3. QED
      BY <1>4, <1>9, <2>1, <2>2 DEF IsPrefix
  <1>11. ASSUME NEW x \in S, NEW y \in S,
                \/ Ahead(f, x, y) /\ Ahead(g, x, y)
                \/ ChangedPlaces(f, g, x, y) /\ RankIn(f, x) < RankIn(f, y)
         PROVE  RankIn(a, x) < RankIn(a, y)
    <2>1. Before(<<f, g>>, x, y)
      BY <1>1, <1>2, <1>11, AgreementKept DEF Shown
    <2>2. /\ RankIn(a, x) \in DOMAIN a /\ a[RankIn(a, x)] = x
          /\ RankIn(a, y) \in DOMAIN a /\ a[RankIn(a, y)] = y
      BY <1>4, FirstRank
    <2>3. QED
      BY <1>4, <2>1, <2>2
  <1>12. QED
    BY <1>1, <1>2, <1>4, <1>6, <1>7, <1>8, <1>10, <1>11 DEF FusionSound, Shown

----------------------------------------------------------------------------
(* nDCG.                                                                    *)

Labelled5 == [1..5 -> 0..2]
Weighted(a) == a[1] * 10000 + a[2] * 6309 + a[3] * 5000 + a[4] * 4307 + a[5] * 3869

\* A list of labels, with zeros behind it: what it lacks adds nothing (metrics.py:47-57).
Padded(labels, n) == [i \in 1..5 |-> IF i <= n THEN labels[i] ELSE 0]

LEMMA GainWeighs ==
  ASSUME NEW n \in 0..5, NEW labels \in [1..n -> 0..2]
  PROVE  Padded(labels, n) \in Labelled5 /\ Gain(labels) = Weighted(Padded(labels, n))
  <1> DEFINE c == [i \in 1..n |-> labels[i] * Discount[i]]
             idx == [i \in DOMAIN labels |-> i]
  <1>1. /\ Discount[1] = 10000 /\ Discount[2] = 6309 /\ Discount[3] = 5000
        /\ Discount[4] = 4307 /\ Discount[5] = 3869
    BY DEF Discount
  <1>2. \A i \in 1..n : Discount[i] \in Int /\ labels[i] \in 0..2
    <2>1. ASSUME NEW i \in 1..n
          PROVE  i = 1 \/ i = 2 \/ i = 3 \/ i = 4 \/ i = 5
      OBVIOUS
    <2>2. QED
      BY <1>1, <2>1
  <1>3. c \in [1..n -> Int]
    BY <1>2
  <1>4. DOMAIN labels = 1..n /\ DOMAIN idx = 1..n /\ \A i \in 1..n : idx[i] = i
    OBVIOUS
  <1>5. \A i \in 1..n : c[i] = labels[idx[i]] * Discount[idx[i]]
    BY <1>4
  <1>6. n \in Nat
    OBVIOUS
  <1>7. \A i \in 1..n : c[i] = labels[i] * Discount[i]
    OBVIOUS
  <1> HIDE DEF c, idx
  <1>8. ASSUME NEW iter
        PROVE  Adds(n, c, iter) <=>
                 iter = [T \in SUBSET DOMAIN idx |->
                           IF T = {} THEN 0
                           ELSE LET x == Max(T)
                                IN  iter[T \ {x}] + labels[idx[x]] * Discount[idx[x]]]
    <2>1. ASSUME NEW T \in SUBSET (1..n), T # {}
          PROVE  c[Max(T)] = labels[idx[Max(T)]] * Discount[idx[Max(T)]]
      <3>1. Max(T) \in 1..n
        BY <1>6, <2>1, MaxOf
      <3>2. QED
        BY <1>5, <3>1
    <2>2. QED
      BY <1>4, <2>1 DEF Adds
  <1> DEFINE sum[T \in SUBSET DOMAIN idx] ==
               IF T = {} THEN 0
               ELSE LET x == Max(T)
                    IN  sum[T \ {x}] + labels[idx[x]] * Discount[idx[x]]
  <1>9. \E iter : iter = [T \in SUBSET DOMAIN idx |->
                            IF T = {} THEN 0
                            ELSE LET x == Max(T)
                                 IN  iter[T \ {x}] + labels[idx[x]] * Discount[idx[x]]]
    <2>1. PICK iter : Adds(n, c, iter)
      BY <1>3, AddsExists
    <2>2. QED
      BY <1>8, <2>1
  <1>10. Gain(labels) = sum[DOMAIN idx]
    BY Zenon DEF Gain, FoldLeftDomain, FoldLeft, MapThenFoldSet, idx
  <1>11. sum = [T \in SUBSET DOMAIN idx |->
                  IF T = {} THEN 0
                  ELSE LET x == Max(T)
                       IN  sum[T \ {x}] + labels[idx[x]] * Discount[idx[x]]]
    BY <1>9, Zenon
  <1> HIDE DEF sum
  <1>12. Adds(n, c, sum)
    BY <1>8, <1>11, Zenon
  <1>13. sum[1..n] = SumUpTo(c, n)
    BY <1>3, <1>12, AddsUp
  <1>14. Gain(labels) = SumUpTo(c, n)
    BY <1>4, <1>10, <1>13
  <1>15. PICK a \in Labelled5 : a = Padded(labels, n) /\ \A i \in 1..5 : a[i] = IF i <= n THEN labels[i] ELSE 0
    <2>1. \A i \in 1..5 : (IF i <= n THEN labels[i] ELSE 0) \in 0..2
      OBVIOUS
    <2>2. PICK a \in [1..5 -> 0..2] : a = Padded(labels, n)
      BY <2>1 DEF Padded
    <2>3. \A i \in 1..5 : a[i] = IF i <= n THEN labels[i] ELSE 0
      BY <2>2 DEF Padded
    <2>4. QED
      BY <2>2, <2>3, Zenon DEF Labelled5
  <1>16. a[1] \in 0..2 /\ a[2] \in 0..2 /\ a[3] \in 0..2 /\ a[4] \in 0..2 /\ a[5] \in 0..2
    BY DEF Labelled5
  <1>17. ASSUME NEW i \in 1..5
         PROVE  (IF n >= i THEN c[i] ELSE 0) = a[i] * Discount[i]
    <2>1. Discount[i] \in Int
      <3>1. i = 1 \/ i = 2 \/ i = 3 \/ i = 4 \/ i = 5
        OBVIOUS
      <3>2. QED
        BY <1>1, <3>1
    <2>2. CASE i <= n
      <3>1. i \in 1..n /\ a[i] = labels[i]
        BY <1>15, <2>2
      <3>2. QED
        BY <1>6, <1>7, <2>2, <3>1
    <2>3. CASE ~(i <= n)
      BY <1>6, <1>15, <2>1, <2>3
    <2>4. QED
      BY <2>2, <2>3
  <1>18. SumUpTo(c, n) = a[1] * Discount[1] + a[2] * Discount[2] + a[3] * Discount[3]
                           + a[4] * Discount[4] + a[5] * Discount[5]
    BY <1>17 DEF SumUpTo
  <1>19. SumUpTo(c, n) = Weighted(a)
    BY <1>1, <1>16, <1>18 DEF Weighted
  <1>20. QED
    BY <1>14, <1>15, <1>19

\* How many of up to five positions.
LEMMA CountFive ==
  ASSUME NEW T \in SUBSET (1..5)
  PROVE  /\ IsFiniteSet(T)
         /\ Cardinality(T) = (IF 1 \in T THEN 1 ELSE 0) + (IF 2 \in T THEN 1 ELSE 0)
                               + (IF 3 \in T THEN 1 ELSE 0) + (IF 4 \in T THEN 1 ELSE 0)
                               + (IF 5 \in T THEN 1 ELSE 0)
  <1> DEFINE U(m) == {i \in T : i <= m}
  <1>1. ASSUME NEW m \in 1..5, IsFiniteSet(U(m - 1)), Cardinality(U(m - 1)) \in Nat
        PROVE  /\ IsFiniteSet(U(m)) /\ Cardinality(U(m)) \in Nat
               /\ Cardinality(U(m)) = Cardinality(U(m - 1)) + (IF m \in T THEN 1 ELSE 0)
    <2>0. m \notin U(m - 1) /\ \A i \in T : i <= m <=> i <= m - 1 \/ i = m
      OBVIOUS
    <2>1. CASE m \in T
      <3>1. U(m) = U(m - 1) \cup {m} /\ m \notin U(m - 1)
        BY <2>0, <2>1
      <3>2. PICK V : V = U(m - 1)
        OBVIOUS
      <3> HIDE DEF U
      <3>3. /\ IsFiniteSet(V \cup {m})
            /\ Cardinality(V \cup {m}) = IF m \in V THEN Cardinality(V) ELSE Cardinality(V) + 1
        BY <1>1, <3>2, FS_AddElement
      <3>4. QED
        BY <1>1, <2>1, <3>1, <3>2, <3>3
    <2>2. CASE m \notin T
      <3>1. U(m) = U(m - 1)
        BY <2>0, <2>2
      <3> HIDE DEF U
      <3>2. QED
        BY <1>1, <2>2, <3>1
    <2>3. QED
      BY <2>1, <2>2
  <1>2. U(0) = {} /\ U(5) = T
    <2>1. \A i \in T : ~(i <= 0) /\ i <= 5
      OBVIOUS
    <2>2. QED
      BY <2>1
  <1>3. 1 - 1 = 0 /\ 2 - 1 = 1 /\ 3 - 1 = 2 /\ 4 - 1 = 3 /\ 5 - 1 = 4
    OBVIOUS
  <1> HIDE DEF U
  <1>4. IsFiniteSet(U(0)) /\ Cardinality(U(0)) = 0
    BY <1>2, FS_EmptySet
  <1>5. /\ IsFiniteSet(U(1)) /\ Cardinality(U(1)) \in Nat
        /\ Cardinality(U(1)) = (IF 1 \in T THEN 1 ELSE 0)
    BY <1>1, <1>3, <1>4
  <1>6. /\ IsFiniteSet(U(2)) /\ Cardinality(U(2)) \in Nat
        /\ Cardinality(U(2)) = Cardinality(U(1)) + (IF 2 \in T THEN 1 ELSE 0)
    BY <1>1, <1>3, <1>5
  <1>7. /\ IsFiniteSet(U(3)) /\ Cardinality(U(3)) \in Nat
        /\ Cardinality(U(3)) = Cardinality(U(2)) + (IF 3 \in T THEN 1 ELSE 0)
    BY <1>1, <1>3, <1>6
  <1>8. /\ IsFiniteSet(U(4)) /\ Cardinality(U(4)) \in Nat
        /\ Cardinality(U(4)) = Cardinality(U(3)) + (IF 4 \in T THEN 1 ELSE 0)
    BY <1>1, <1>3, <1>7
  <1>9. /\ IsFiniteSet(U(5)) /\ Cardinality(U(5)) \in Nat
        /\ Cardinality(U(5)) = Cardinality(U(4)) + (IF 5 \in T THEN 1 ELSE 0)
    BY <1>1, <1>3, <1>8
  <1>10. QED
    BY <1>2, <1>5, <1>6, <1>7, <1>8, <1>9

\* The positions among the first j whose label is at least t.
AtLeast(a, j, t) == {i \in 1..5 : i <= j /\ a[i] >= t}

\* The sum of the first j labels, level by level.
LEMMA SumByLevel ==
  ASSUME NEW a \in Labelled5, NEW j \in 1..5
  PROVE  SumUpTo(a, j) = Cardinality(AtLeast(a, j, 1)) + Cardinality(AtLeast(a, j, 2))
  <1> DEFINE one(t, i) == IF i <= j /\ a[i] >= t THEN 1 ELSE 0
  <1>1. ASSUME NEW t \in 1..2
        PROVE  Cardinality(AtLeast(a, j, t))
                 = one(t, 1) + one(t, 2) + one(t, 3) + one(t, 4) + one(t, 5)
    <2>1. AtLeast(a, j, t) \in SUBSET (1..5)
      BY DEF AtLeast
    <2>2. \A i \in 1..5 : i \in AtLeast(a, j, t) <=> i <= j /\ a[i] >= t
      BY DEF AtLeast
    <2>3. /\ (1 \in AtLeast(a, j, t) <=> 1 <= j /\ a[1] >= t)
          /\ (2 \in AtLeast(a, j, t) <=> 2 <= j /\ a[2] >= t)
          /\ (3 \in AtLeast(a, j, t) <=> 3 <= j /\ a[3] >= t)
          /\ (4 \in AtLeast(a, j, t) <=> 4 <= j /\ a[4] >= t)
          /\ (5 \in AtLeast(a, j, t) <=> 5 <= j /\ a[5] >= t)
      BY <2>2
    <2>4. QED
      BY <2>1, <2>3, CountFive
  <1>2. ASSUME NEW i \in 1..5
        PROVE  one(1, i) + one(2, i) = IF j >= i THEN a[i] ELSE 0
    <2>1. a[i] = 0 \/ a[i] = 1 \/ a[i] = 2
      BY DEF Labelled5
    <2>2. QED
      BY <2>1
  <1>3. \A i \in 1..5 : one(1, i) \in Int /\ one(2, i) \in Int
    OBVIOUS
  <1> HIDE DEF one
  <1>4. /\ one(1, 1) + one(2, 1) = IF j >= 1 THEN a[1] ELSE 0
        /\ one(1, 2) + one(2, 2) = IF j >= 2 THEN a[2] ELSE 0
        /\ one(1, 3) + one(2, 3) = IF j >= 3 THEN a[3] ELSE 0
        /\ one(1, 4) + one(2, 4) = IF j >= 4 THEN a[4] ELSE 0
        /\ one(1, 5) + one(2, 5) = IF j >= 5 THEN a[5] ELSE 0
    BY <1>2
  <1>5. /\ one(1, 1) \in Int /\ one(1, 2) \in Int /\ one(1, 3) \in Int /\ one(1, 4) \in Int
        /\ one(1, 5) \in Int /\ one(2, 1) \in Int /\ one(2, 2) \in Int /\ one(2, 3) \in Int
        /\ one(2, 4) \in Int /\ one(2, 5) \in Int
    BY <1>3
  <1>6. QED
    BY <1>1, <1>4, <1>5 DEF SumUpTo

\* If no beginning of a list of labels has a larger sum than that of another, neither
\* has the list a larger gain; and with the same gain both are the same
\* (metrics.py:47-57).
LEMMA SumsDecide ==
  ASSUME NEW a \in Labelled5, NEW b \in Labelled5,
         \A j \in 1..5 : SumUpTo(a, j) <= SumUpTo(b, j)
  PROVE  /\ Weighted(a) <= Weighted(b)
         /\ Weighted(a) = Weighted(b) => \A i \in 1..5 : a[i] = b[i]
  <1>1. PICK a1 \in Int, a2 \in Int, a3 \in Int, a4 \in Int, a5 \in Int :
          a1 = a[1] /\ a2 = a[2] /\ a3 = a[3] /\ a4 = a[4] /\ a5 = a[5]
    BY DEF Labelled5
  <1>2. PICK b1 \in Int, b2 \in Int, b3 \in Int, b4 \in Int, b5 \in Int :
          b1 = b[1] /\ b2 = b[2] /\ b3 = b[3] /\ b4 = b[4] /\ b5 = b[5]
    BY DEF Labelled5
  <1>3. /\ SumUpTo(a, 1) <= SumUpTo(b, 1) /\ SumUpTo(a, 2) <= SumUpTo(b, 2)
        /\ SumUpTo(a, 3) <= SumUpTo(b, 3) /\ SumUpTo(a, 4) <= SumUpTo(b, 4)
        /\ SumUpTo(a, 5) <= SumUpTo(b, 5)
    OBVIOUS
  <1>4. /\ a1 <= b1 /\ a1 + a2 <= b1 + b2 /\ a1 + a2 + a3 <= b1 + b2 + b3
        /\ a1 + a2 + a3 + a4 <= b1 + b2 + b3 + b4
        /\ a1 + a2 + a3 + a4 + a5 <= b1 + b2 + b3 + b4 + b5
    BY <1>1, <1>2, <1>3 DEF SumUpTo
  <1>5. /\ Weighted(a) = a1 * 10000 + a2 * 6309 + a3 * 5000 + a4 * 4307 + a5 * 3869
        /\ Weighted(b) = b1 * 10000 + b2 * 6309 + b3 * 5000 + b4 * 4307 + b5 * 3869
    BY <1>1, <1>2 DEF Weighted
  <1>6. Weighted(a) <= Weighted(b)
    BY <1>4, <1>5
  <1>7. ASSUME Weighted(a) = Weighted(b)
        PROVE  a1 = b1 /\ a2 = b2 /\ a3 = b3 /\ a4 = b4 /\ a5 = b5
    BY <1>4, <1>5, <1>7
  <1>8. ASSUME Weighted(a) = Weighted(b), NEW i \in 1..5
        PROVE  a[i] = b[i]
    <2>1. i = 1 \/ i = 2 \/ i = 3 \/ i = 4 \/ i = 5
      OBVIOUS
    <2>2. QED
      BY <1>1, <1>2, <1>7, <1>8, <2>1
  <1>9. QED
    BY <1>6, <1>8

\* The labels that dcg adds up, with zeros behind them (metrics.py:47-57).
Shows(p, relevance, k) ==
    [i \in 1..5 |-> IF i <= k /\ i \in DOMAIN p THEN LabelOf(relevance, p[i]) ELSE 0]

LEMMA DcgWeighs ==
  ASSUME NEW p \in Seq(Docs), NEW S, NEW relevance \in [S -> 0..2], NEW k \in 0..5
  PROVE  /\ Shows(p, relevance, k) \in Labelled5
         /\ Dcg(p, relevance, k) = Weighted(Shows(p, relevance, k))
         /\ DOMAIN Top(p, k) = {i \in DOMAIN p : i <= k}
  <1>1. k \in Nat /\ Len(p) \in Nat /\ DOMAIN p = 1..Len(p)
    OBVIOUS
  <1>2. PICK n \in 0..5 : n = IF k < Len(p) THEN k ELSE Len(p)
    BY <1>1
  <1>3. \A i : i \in 1..n <=> i \in DOMAIN p /\ i <= k
    <2>1. PICK l \in Nat : l = Len(p)
      BY <1>1
    <2>2. n <= k /\ n <= l /\ (n = k \/ n = l)
      <3>1. n = IF k < l THEN k ELSE l
        BY <1>2, <2>1
      <3>2. QED
        BY <1>1, <3>1
    <2>3. ASSUME NEW i \in Int
          PROVE  i \in 1..n <=> i \in 1..l /\ i <= k
      <3>1. k \in Int /\ n \in Int /\ l \in Int
        OBVIOUS
      <3>2. i <= n <=> i <= l /\ i <= k
        BY <2>2, <3>1
      <3>3. QED
        BY <3>1, <3>2
    <2>4. (\A i \in 1..n : i \in Int) /\ (\A i \in 1..l : i \in Int)
      OBVIOUS
    <2>5. DOMAIN p = 1..l
      BY <1>1, <2>1
    <2>6. QED
      BY <2>3, <2>4, <2>5, Zenon
  <1>4. DOMAIN Top(p, k) = {i \in DOMAIN p : i <= k}
    BY <1>1, TopTypes
  <1>5. DOMAIN Top(p, k) = 1..n
    BY <1>3, <1>4
  <1>6. \A d : LabelOf(relevance, d) \in 0..2
    BY DEF LabelOf
  <1>7. PICK labels : labels = [i \in 1..n |-> LabelOf(relevance, p[i])]
    OBVIOUS
  <1>8. labels \in [1..n -> 0..2] /\ \A i \in 1..n : labels[i] = LabelOf(relevance, p[i])
    BY <1>6, <1>7
  <1>9. Dcg(p, relevance, k) = Gain(labels)
    BY <1>5, <1>7, Zenon DEF Dcg
  <1>10. Padded(labels, n) = Shows(p, relevance, k)
    <2>1. \A i \in 1..5 : i <= n <=> i <= k /\ i \in DOMAIN p
      <3>1. \A i \in 1..5 : i <= n <=> i \in 1..n
        OBVIOUS
      <3>2. QED
        BY <1>3, <3>1
    <2>2. \A i \in 1..5 : (IF i <= n THEN labels[i] ELSE 0)
                            = (IF i <= k /\ i \in DOMAIN p THEN LabelOf(relevance, p[i]) ELSE 0)
      BY <1>8, <2>1
    <2>3. QED
      BY <2>2 DEF Padded, Shows
  <1>11. QED
    BY <1>8, <1>9, <1>10, <1>4, GainWeighs

IdealOf(S, relevance) ==
    Sorted(S, LAMBDA x, y : \/ relevance[x] > relevance[y]
                            \/ relevance[x] = relevance[y] /\ x < y)
IdealOrder(relevance) == IdealOf(DOMAIN relevance, relevance)

\* The ideal order shows everything that is labelled, once, with labels that descend
\* (metrics.py:60-71).
LEMMA IdealDescends ==
  ASSUME NEW S \in SUBSET Docs, IsFiniteSet(S), NEW relevance \in [S -> 0..2]
  PROVE  /\ IdealOrder(relevance) \in Seq(S) /\ IsInjective(IdealOrder(relevance))
         /\ ToSet(IdealOrder(relevance)) = S
         /\ DOMAIN IdealOrder(relevance) = 1..Len(IdealOrder(relevance))
         /\ \A i, j \in DOMAIN IdealOrder(relevance) :
              i < j => relevance[IdealOrder(relevance)[i]] >= relevance[IdealOrder(relevance)[j]]
  <1> DEFINE before(x, y) == \/ relevance[x] > relevance[y]
                             \/ relevance[x] = relevance[y] /\ x < y
             R == {q \in S \X S : before(q[1], q[2])}
  <1>1. PICK s : s = IdealOrder(relevance)
    OBVIOUS
  <1>2. \A x, y \in S : <<x, y>> \in R <=> before(x, y)
    OBVIOUS
  <1>3. StrictOrder(R, S)
    <2>1. \A x \in S : relevance[x] \in Int /\ x \in Int
      BY RankingAssumption
    <2> HIDE DEF R
    <2>2. QED
      BY <1>2, <2>1 DEF StrictOrder
  <1> HIDE DEF R
  <1>4. \A x \in S : Place(R, S, x) = Cardinality({y \in S : before(y, x)})
    <2>1. \A x \in S : {y \in S : <<y, x>> \in R} = {y \in S : before(y, x)}
      BY <1>2
    <2>2. QED
      BY <2>1 DEF Place
  <1>5. s = [i \in 1..Cardinality(S) |->
               CHOOSE x \in S : Cardinality({y \in S : before(y, x)}) = i - 1]
    <2>1. DOMAIN relevance = S
      OBVIOUS
    <2>2. s = IdealOf(S, relevance)
      BY <1>1, <2>1, Zenon DEF IdealOrder
    <2>3. QED
      BY <2>2, Zenon DEF IdealOf, Sorted
  <1> HIDE DEF before
  <1>6. ASSUME NEW i \in 1..Cardinality(S)
        PROVE  s[i] \in S /\ Place(R, S, s[i]) = i - 1
    <2>1. \E x \in S : Cardinality({y \in S : before(y, x)}) = i - 1
      <3>1. PICK x \in S : Place(R, S, x) = i - 1
        BY <1>3, PlaceTaken
      <3>2. QED
        BY <1>4, <3>1
    <2>2. s[i] = CHOOSE x \in S : Cardinality({y \in S : before(y, x)}) = i - 1
      BY <1>5
    <2>3. s[i] \in S /\ Cardinality({y \in S : before(y, s[i])}) = i - 1
      BY <2>1, <2>2, Zenon
    <2>4. QED
      BY <1>4, <2>3
  <1>7. s \in [1..Cardinality(S) -> S]
    BY <1>5, <1>6, Zenon
  <1>8. /\ s \in Seq(S) /\ Len(s) = Cardinality(S) /\ DOMAIN s = 1..Cardinality(S)
        /\ IsInjective(s) /\ ToSet(s) = S
        /\ \A i, j \in DOMAIN s : <<s[i], s[j]>> \in R <=> i < j
    <2>1. \A i \in 1..Cardinality(S) : Place(R, S, s[i]) = i - 1
      BY <1>6
    <2>2. Cardinality(S) \in Nat
      BY FS_CardinalityType
    <2>3. QED
      BY <1>3, <1>7, <2>1, <2>2, SortedList, SMTT(60)
  <1>9. ASSUME NEW i \in DOMAIN s, NEW j \in DOMAIN s, i < j
        PROVE  relevance[s[i]] >= relevance[s[j]]
    <2>1. s[i] \in S /\ s[j] \in S
      BY <1>6, <1>8
    <2>2. before(s[i], s[j])
      BY <1>2, <1>8, <1>9, <2>1
    <2>3. relevance[s[i]] \in Int /\ relevance[s[j]] \in Int
      BY <2>1
    <2>4. QED
      BY <2>2, <2>3 DEF before
  <1>10. QED
    BY <1>1, <1>8, <1>9

\* Up to any place, the ideal order has shown at least as many labels of a level
\* (metrics.py:60-71).
LEMMA IdealAhead ==
  ASSUME NEW p \in Seq(Docs), IsInjective(p),
         NEW S \in SUBSET Docs, IsFiniteSet(S), NEW relevance \in [S -> 0..2],
         NEW k \in 0..5, NEW j \in 1..5, NEW t \in 1..2
  PROVE  LET a == Shows(p, relevance, k)
             b == Shows(IdealOrder(relevance), relevance, k)
         IN  /\ Cardinality(AtLeast(a, j, t)) \in Nat /\ Cardinality(AtLeast(b, j, t)) \in Nat
             /\ Cardinality(AtLeast(a, j, t)) <= Cardinality(AtLeast(b, j, t))
  <1>1. PICK s \in Seq(S) :
          /\ s = IdealOrder(relevance) /\ IsInjective(s) /\ ToSet(s) = S /\ DOMAIN s = 1..Len(s)
          /\ Len(s) \in Nat
          /\ \A i, l \in DOMAIN s : i < l => relevance[s[i]] >= relevance[s[l]]
    <2>1. PICK s : s = IdealOrder(relevance)
      OBVIOUS
    <2>2. s \in Seq(S) => Len(s) \in Nat
      OBVIOUS
    <2>3. QED
      BY <2>1, <2>2, IdealDescends
  <1>2. PICK P, Q : /\ P = AtLeast(Shows(p, relevance, k), j, t)
                    /\ Q = AtLeast(Shows(s, relevance, k), j, t)
    OBVIOUS
  <1>3. DOMAIN p = 1..Len(p) /\ Len(p) \in Nat
    OBVIOUS
  <1>4. P \in SUBSET (1..5) /\ Q \in SUBSET (1..5)
    BY <1>2 DEF AtLeast
  <1>5. /\ IsFiniteSet(P) /\ IsFiniteSet(Q) /\ Cardinality(P) \in Nat /\ Cardinality(Q) \in Nat
    BY <1>4, CountFive, FS_CardinalityType
  <1>6. \A i \in P : /\ i <= j /\ i <= k /\ i \in DOMAIN p /\ p[i] \in S
                     /\ relevance[p[i]] >= t
    BY <1>2 DEF AtLeast, Shows, LabelOf
  <1>7. \A i \in 1..5 : i \in Q <=> i <= j /\ i <= k /\ i \in DOMAIN s /\ relevance[s[i]] >= t
    <2>1. \A i \in DOMAIN s : s[i] \in S
      BY <1>1
    <2>2. QED
      BY <1>2, <2>1 DEF AtLeast, Shows, LabelOf
  <1>8. CASE \A i \in 1..5 : i <= j /\ i <= k => i \in Q
    <2>1. P \in SUBSET Q
      BY <1>4, <1>6, <1>8
    <2>2. QED
      BY <1>1, <1>2, <1>5, <2>1, FS_Subset
  <1>9. CASE \E i \in 1..5 : i <= j /\ i <= k /\ i \notin Q
    <2>1. PICK o \in 1..5 : o <= j /\ o <= k /\ o \notin Q
      BY <1>9
    <2> DEFINE h == [i \in P |-> RankIn(s, p[i])]
    <2>2. ASSUME NEW i \in P
          PROVE  h[i] \in Q /\ s[h[i]] = p[i]
      <3>1. PICK r \in DOMAIN s : r = RankIn(s, p[i]) /\ s[r] = p[i]
        BY <1>1, <1>6, FirstRank
      <3>2. relevance[s[r]] >= t /\ relevance[s[r]] \in Int
        BY <1>6, <3>1
      <3>3. r < o
        <4>1. CASE o \notin DOMAIN s
          BY <1>1, <2>1, <3>1, <4>1
        <4>2. CASE o \in DOMAIN s
          <5>1. ~(relevance[s[o]] >= t) /\ s[o] \in S
            BY <1>1, <1>7, <2>1, <4>2
          <5>2. relevance[s[o]] \in Int
            BY <5>1
          <5>3. ~(o < r) /\ o # r
            BY <1>1, <3>1, <3>2, <4>2, <5>1, <5>2
          <5>4. QED
            BY <1>1, <3>1, <5>3
        <4>3. QED
          BY <4>1, <4>2
      <3>4. r \in 1..5 /\ r <= j /\ r <= k
        BY <1>1, <2>1, <3>1, <3>3
      <3>5. r \in Q
        BY <1>7, <3>1, <3>2, <3>4
      <3>6. QED
        BY <3>1, <3>5
    <2>3. h \in Injection(P, Q)
      <3>1. h \in [P -> Q] /\ DOMAIN h = P
        BY <2>2
      <3>2. \A i, l \in P : h[i] = h[l] => p[i] = p[l]
        BY <2>2
      <3>3. \A i, l \in P : p[i] = p[l] => i = l
        BY <1>6 DEF IsInjective
      <3> HIDE DEF h
      <3>4. QED
        BY <3>1, <3>2, <3>3 DEF Injection, IsInjective
    <2> HIDE DEF h
    <2>4. QED
      BY <1>1, <1>2, <1>5, <2>3, FS_Injection
  <1>10. QED
    BY <1>8, <1>9

\* For a ranking of any length that shows nothing twice, any finite set of labels, and
\* every k that the discounts cover (nDCG is taken at 5): hits, reciprocal rank and
\* recall agree, no ranking gains more than the ideal order, and one that gains as much
\* shows its labels in descending order (metrics.py:22-71).
THEOREM MetricsAgree ==
  ASSUME call \in [of : {"metrics"}, predicted : Seq(Docs),
                   relevance : UNION {[S -> 0..2] : S \in SUBSET Docs}, k : 1..5],
         IsInjective(call.predicted), IsFiniteSet(DOMAIN call.relevance)
  PROVE  MetricsSound
  <1>0. PICK S \in SUBSET Docs : call.relevance \in [S -> 0..2]
    OBVIOUS
  <1>1. PICK p \in Seq(Docs), relevance \in [S -> 0..2], k \in 1..5 :
          /\ p = call.predicted /\ relevance = call.relevance /\ k = call.k
          /\ IsInjective(p) /\ IsFiniteSet(S)
    <2>1. DOMAIN call.relevance = S
      BY <1>0
    <2>2. QED
      BY <1>0, <2>1
  <1>2. k \in Nat /\ k \in 0..5
    OBVIOUS
  <1>3. /\ HitAt(p, relevance, k) <=> FirstPositive(p, relevance) \in 1..k
        /\ HitAt(p, relevance, k) <=> Found(p, relevance, k) > 0
        /\ Found(p, relevance, k) <= Cardinality(Positives(relevance))
    BY <1>1, <1>2, HitsAgree
  <1>4. PICK s : s = IdealOrder(relevance)
    OBVIOUS
  <1>5. /\ s \in Seq(S) /\ DOMAIN s = 1..Len(s) /\ Len(s) \in Nat
        /\ \A i, j \in DOMAIN s : i < j => relevance[s[i]] >= relevance[s[j]]
    <2>1. s \in Seq(S) => Len(s) \in Nat
      OBVIOUS
    <2>2. QED
      BY <1>1, <1>4, <2>1, IdealDescends
  <1>6. s \in Seq(Docs)
    <2>1. \A i \in 1..Len(s) : s[i] \in Docs
      BY <1>5
    <2>2. QED
      BY <1>5, <2>1
  <1>7. PICK a, b : a = Shows(p, relevance, k) /\ b = Shows(s, relevance, k)
    OBVIOUS
  <1>8. /\ a \in Labelled5 /\ Dcg(p, relevance, k) = Weighted(a)
        /\ b \in Labelled5 /\ IdealDcg(relevance, k) = Weighted(b)
    <2>1. IdealDcg(relevance, k) = Dcg(s, relevance, k)
      BY <1>4, Zenon DEF IdealDcg, IdealOf, IdealOrder
    <2>2. QED
      BY <1>2, <1>6, <1>7, <2>1, DcgWeighs
  <1>9. \A j \in 1..5 : SumUpTo(a, j) <= SumUpTo(b, j)
    <2>1. ASSUME NEW j \in 1..5
          PROVE  SumUpTo(a, j) <= SumUpTo(b, j)
      <3>1. ASSUME NEW t \in 1..2
            PROVE  /\ Cardinality(AtLeast(a, j, t)) \in Nat
                   /\ Cardinality(AtLeast(b, j, t)) \in Nat
                   /\ Cardinality(AtLeast(a, j, t)) <= Cardinality(AtLeast(b, j, t))
        BY <1>1, <1>2, <1>4, <1>7, IdealAhead
      <3>2. 1 \in 1..2 /\ 2 \in 1..2
        OBVIOUS
      <3>3. /\ SumUpTo(a, j) = Cardinality(AtLeast(a, j, 1)) + Cardinality(AtLeast(a, j, 2))
            /\ SumUpTo(b, j) = Cardinality(AtLeast(b, j, 1)) + Cardinality(AtLeast(b, j, 2))
        BY <1>8, SumByLevel
      <3>4. QED
        BY <3>1, <3>2, <3>3
    <2>2. QED
      BY <2>1
  <1>10. /\ Weighted(a) <= Weighted(b)
         /\ Weighted(a) = Weighted(b) => \A i \in 1..5 : a[i] = b[i]
    BY <1>8, <1>9, SumsDecide
  <1>11. PICK shown : shown = [i \in DOMAIN Top(p, k) |-> LabelOf(relevance, p[i])]
    OBVIOUS
  <1>12. /\ DOMAIN shown = {i \in DOMAIN p : i <= k} /\ DOMAIN p = 1..Len(p) /\ Len(p) \in Nat
         /\ \A i \in DOMAIN shown : i \in 1..5 /\ shown[i] = a[i]
    <2>1. DOMAIN p = 1..Len(p) /\ Len(p) \in Nat
      OBVIOUS
    <2>2. DOMAIN shown = {i \in DOMAIN p : i <= k}
      <3>1. DOMAIN Top(p, k) = {i \in DOMAIN p : i <= k}
        BY <1>2, DcgWeighs
      <3>2. QED
        BY <1>11, <3>1
    <2>3. \A i \in DOMAIN shown : shown[i] = LabelOf(relevance, p[i])
      BY <1>11
    <2>4. QED
      BY <1>7, <2>1, <2>2, <2>3 DEF Shows
  <1>13. ASSUME Weighted(a) = Weighted(b), NEW i \in DOMAIN shown, NEW j \in DOMAIN shown, i < j
         PROVE  shown[i] >= shown[j]
    <2>1. /\ i \in 1..5 /\ j \in 1..5 /\ i <= k /\ j <= k /\ shown[i] = b[i] /\ shown[j] = b[j]
      BY <1>10, <1>12, <1>13
    <2>2. /\ b[i] = IF i \in DOMAIN s THEN LabelOf(relevance, s[i]) ELSE 0
          /\ b[j] = IF j \in DOMAIN s THEN LabelOf(relevance, s[j]) ELSE 0
      BY <1>7, <2>1 DEF Shows
    <2>3. CASE j \in DOMAIN s
      <3>1. i \in DOMAIN s
        BY <1>5, <1>13, <2>1, <2>3
      <3>2. s[i] \in S /\ s[j] \in S
        BY <1>5, <2>3, <3>1
      <3>3. b[i] = relevance[s[i]] /\ b[j] = relevance[s[j]]
        BY <2>2, <2>3, <3>1, <3>2 DEF LabelOf
      <3>4. QED
        BY <1>5, <1>13, <2>1, <2>3, <3>1, <3>3
    <2>4. CASE j \notin DOMAIN s
      <3>1. b[j] = 0 /\ b[i] \in 0..2
        BY <1>8, <2>1, <2>2, <2>4 DEF Labelled5
      <3>2. QED
        BY <2>1, <3>1
    <2>5. QED
      BY <2>3, <2>4
  <1>14. QED
    BY <1>1, <1>3, <1>8, <1>10, <1>11, <1>13 DEF MetricsSound

=============================================================================
