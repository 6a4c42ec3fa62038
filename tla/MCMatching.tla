----------------------------- MODULE MCMatching -----------------------------
(* Operations and symmetry for the runs of Matching.                        *)
EXTENDS MatchingProperties, TLC

CONSTANTS j1, c1, c2

Gets(methods) == [kind : {"get"}, job : Jobs, method : methods]
Posts(methods) == [kind : {"post"}, job : {NoJob}, method : methods]
CandidateDeletions == [kind : {"delete_candidate"}, candidate : Candidates]
JobDeletions == [kind : {"delete_job"}, job : Jobs]

\* What can meet in the tables.
MeetingOperations == Gets({"dense", "hybrid"}) \cup CandidateDeletions \cup JobDeletions

\* What can meet in the pool and on the row of a job.
WaitingOperations == Gets({"tfidf", "llm"}) \cup Posts({"hybrid"}) \cup JobDeletions

DeletionsOnly == CandidateDeletions \cup Gets({"llm"})

MCSymmetry == Permutations(Requests) \cup Permutations(Candidates)

=============================================================================
