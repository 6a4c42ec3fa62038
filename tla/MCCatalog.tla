----------------------------- MODULE MCCatalog ------------------------------
(* Seeds, labels and calls for the run of Jobs, Evaluation and Ranking.     *)
EXTENDS Evaluation, RankingProperties

CONSTANT a

\* Two files of one title, with another between them.
MCSeedTitle == <<"python", "data", "python">>
MCSeedLanguage == <<"ru", "ru", "ru">>

\* The third entry is for the pair of the first, the fourth for no file.
MCGolden == <<[resume |-> "cv", file |-> 1, label |-> 2],
              [resume |-> "cv", file |-> 2, label |-> 1],
              [resume |-> "cv", file |-> 3, label |-> 0],
              [resume |-> "cv", file |-> NoFile, label |-> 1]>>

MCMethods == <<"tfidf", "hybrid">>

\* The calls of the pure algorithms are initial states of their own; behind
\* them the evaluation and the API start.
MCInit == Init /\ call \in Fusions \cup Measurements \cup Percentiles
MCNext ==
    \/ call # NoCall /\ call' = NoCall /\ UNCHANGED vars
    \/ call = NoCall /\ Next /\ UNCHANGED call

MCSpec == MCInit /\ [][MCNext]_<<vars, call>>

=============================================================================
