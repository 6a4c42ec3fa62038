------------------------- MODULE RankingProperties --------------------------
(***************************************************************************)
(* What the algorithms of Ranking promise for every call with bounded       *)
(* arguments.                                                               *)
(***************************************************************************)
EXTENDS Ranking

Rankings == {s \in BoundedSeq(Docs, Cardinality(Docs)) : IsInjective(s)}
Labellings == UNION {[S -> 0..2] : S \in SUBSET Docs}

Fusions == [of : {"rrf_merge"}, first : Rankings, second : Rankings, top : 1..Cardinality(Docs)]
Measurements == [of : {"metrics"}, predicted : Rankings, relevance : Labellings, k : 1..3]
Percentiles == [of : {"_percentile"}, samples : 1..60, pct : 0..100]
NoCall == [of |-> "nothing"]

VARIABLE call   \* a call with its arguments

Ahead(ranking, x, y) ==
    /\ x \in ToSet(ranking)
    /\ y \in ToSet(ranking) => RankIn(ranking, x) < RankIn(ranking, y)

ChangedPlaces(a, b, x, y) ==
    /\ {x, y} \subseteq ToSet(a) \cap ToSet(b)
    /\ RankIn(a, x) = RankIn(b, y) /\ RankIn(a, y) = RankIn(b, x)

\* rrf.py:18-42: a fusion of two rankings ranks everything once and cuts only
\* its tail; what both rankings put ahead of something is ahead of it and is not
\* cut before it; two that changed places stand as in the first ranking.
FusionSound ==
    call.of = "rrf_merge" =>
        LET first == call.first
            second == call.second
            ranked == ToSet(first) \cup ToSet(second)
            all == RrfMerge(<<first, second>>, Cardinality(ranked))
            merged == RrfMerge(<<first, second>>, call.top)
        IN  /\ IsInjective(all) /\ ToSet(all) = ranked
            /\ IsPrefix(merged, all)
            /\ Len(merged) = (IF call.top < Len(all) THEN call.top ELSE Len(all))
            /\ \A x, y \in ranked :
                   \/ Ahead(first, x, y) /\ Ahead(second, x, y)
                   \/ /\ ChangedPlaces(first, second, x, y)
                      /\ RankIn(first, x) < RankIn(first, y)
                   => RankIn(all, x) < RankIn(all, y)

\* metrics.py:22-71: the figures tell one story.  There is a hit at k exactly when
\* the first positive is within k and when recall at k is above 0; recall is at
\* most 1; no ranking has a better DCG than the ideal order, and one that has as
\* good a one shows its labels in descending order.
MetricsSound ==
    call.of = "metrics" =>
        LET p == call.predicted
            rel == call.relevance
            k == call.k
            shown == [i \in DOMAIN Top(p, k) |-> LabelOf(rel, p[i])]
        IN  /\ HitAt(p, rel, k) <=> FirstPositive(p, rel) \in 1..k
            /\ HitAt(p, rel, k) <=> Found(p, rel, k) > 0
            /\ Found(p, rel, k) <= Cardinality(Positives(rel))
            /\ Dcg(p, rel, k) <= IdealDcg(rel, k)
            /\ Dcg(p, rel, k) = IdealDcg(rel, k) =>
                   \A i, j \in DOMAIN shown : i < j => shown[i] >= shown[j]

\* runner.py:194-200: the value is one of the samples, is the nearest rank or the
\* one below it, and a higher percentile is never a smaller value, so p50 is at
\* most p95.
PercentileNear ==
    call.of = "_percentile" =>
        LET i == PercentileIndex(call.samples, call.pct) + 1
            nearest == (call.samples * call.pct + 99) \div 100
        IN  /\ i \in 1..call.samples
            /\ i = 1 \/ i \in {nearest - 1, nearest}
            /\ call.pct < 100 => i <= PercentileIndex(call.samples, call.pct + 1) + 1

============================================================================
