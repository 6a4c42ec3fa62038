------------------------------ MODULE Ranking -------------------------------
(***************************************************************************)
(* The pure algorithms behind a ranking and its figures: the fusion of      *)
(* src/matching/rrf.py, the metrics of src/eval/metrics.py and the          *)
(* percentile of src/eval/runner.py.  Fractions are integers over a common  *)
(* denominator, labels are halves (0, 1, 2 for 0, 0.5, 1).                  *)
(***************************************************************************)
EXTENDS Integers, Sequences, SequencesExt

CONSTANTS
    Docs,       \* bound: what is ranked
    FusionK,    \* settings.fusion_k
    Scale       \* a common multiple of FusionK + 1, ... FusionK + |Docs|

ASSUME RankingAssumption ==
    /\ Docs \subseteq Nat /\ FusionK \in Nat \ {0} /\ Scale \in Nat
    /\ \A r \in 1..Cardinality(Docs) : Scale % (FusionK + r) = 0

----------------------------------------------------------------------------
(* rrf_merge                                                                *)

\* sorted() of different values in a strict order: the i-th follows i - 1 others.
\* (SetToSortSeq rests on SortSeq, of which the provers know no definition.)
Sorted(S, Precedes(_, _)) ==
    [i \in 1..Cardinality(S) |->
        CHOOSE x \in S : Cardinality({y \in S : Precedes(y, x)}) = i - 1]

\* s[:k]
Top(s, k) == SubSeq(s, 1, IF k < Len(s) THEN k ELSE Len(s))

\* Where it stands first.
RankIn(ranking, d) == Min({i \in DOMAIN ranking : ranking[i] = d})
Contribution(ranking, d) ==
    IF d \in ToSet(ranking) THEN Scale \div (FusionK + RankIn(ranking, d)) ELSE 0

LastScore(rankings, d) ==   \* mutant: = for +=
    FoldLeft(LAMBDA s, r : IF d \in ToSet(r) THEN Contribution(r, d) ELSE s, 0, rankings)
Score(rankings, d) == FoldLeft(LAMBDA s, r : s + Contribution(r, d), 0, rankings)

\* sorted() is stable and the dict is in order of insertion.
Before(rankings, x, y) ==
    LET seen == FlattenSeq(rankings)
    IN  \/ Score(rankings, x) > Score(rankings, y)
        \/ /\ Score(rankings, x) = Score(rankings, y)
           /\ RankIn(seen, x) < RankIn(seen, y)

RrfMerge(rankings, topN) ==
    LET fused == Sorted(ToSet(FlattenSeq(rankings)), LAMBDA x, y : Before(rankings, x, y))
    IN  Top(fused, topN)

----------------------------------------------------------------------------
(* metrics.py                                                               *)

IsPositive(label) == label >= 1   \* POSITIVE_THRESHOLD = 0.5
LabelOf(relevance, d) == IF d \in DOMAIN relevance THEN relevance[d] ELSE 0
PositiveAt(predicted, relevance) ==
    {i \in DOMAIN predicted : IsPositive(LabelOf(relevance, predicted[i]))}

HitAt(predicted, relevance, k) == PositiveAt(Top(predicted, k), relevance) # {}

\* The rank whose reciprocal is returned; 0 for none.
FirstPositive(predicted, relevance) ==
    LET at == PositiveAt(predicted, relevance)
    IN  IF at = {} THEN 0 ELSE CHOOSE i \in at : \A j \in at : i <= j

FoundAll(predicted, relevance, k) == Cardinality(PositiveAt(predicted, relevance))   \* mutant
\* recall_at_k is Found over Positives; 0 without positives.
Found(predicted, relevance, k) == Cardinality(PositiveAt(Top(predicted, k), relevance))
Positives(relevance) == {d \in DOMAIN relevance : IsPositive(relevance[d])}

\* 1 / log2(i + 1) in units of 1/10000.
Discount == <<10000, 6309, 5000, 4307, 3869>>
Gain(labels) == FoldLeftDomain(LAMBDA s, i : s + labels[i] * Discount[i], 0, labels)

Dcg(predicted, relevance, k) ==
    Gain([i \in DOMAIN Top(predicted, k) |-> LabelOf(relevance, predicted[i])])

\* The denominator of ndcg_at_k.
IdealDcg(relevance, k) ==
    LET ideal == Sorted(DOMAIN relevance,
                     LAMBDA x, y : \/ relevance[x] > relevance[y]
                                   \/ relevance[x] = relevance[y] /\ x < y)
    IN  Dcg(ideal, relevance, k)

----------------------------------------------------------------------------
(* _percentile                                                              *)

\* round(): a half goes to the even side.
RoundHalfEven(num, den) ==
    LET q == num \div den
        r == num % den
    IN  IF 2 * r > den \/ (2 * r = den /\ q % 2 = 1) THEN q + 1 ELSE q

AtMost(lo, hi, x) == IF x > hi THEN hi ELSE x   \* mutant: no max
Clamp(lo, hi, x) == IF x < lo THEN lo ELSE IF x > hi THEN hi ELSE x

\* The index, counted from 0, of the value that stands for pct percent of n.
PercentileIndex(n, pct) ==
    IF n = 1 THEN 0 ELSE Clamp(0, n - 1, RoundHalfEven(n * pct, 100) - 1)

============================================================================
