------------------------- MODULE MatchingProperties -------------------------
(***************************************************************************)
(* What the endpoints of Matching are meant to guarantee.                   *)
(***************************************************************************)
EXTENDS Matching

RequestStates ==
    {"begin", "retrieve", "load", "judge", "judging", "persist", "drop_point", "drop_row",
     "drop_file", "drop_job", "done"}

\* Every variable has the type its column or its Python name gives it, a request
\* never has more than two connections, and the pool is never overdrawn
\* (db.py:44-169, matching/pipeline.py:68-178).
TypeOK ==
    /\ candidates \subseteq Candidates /\ jobs \subseteq Jobs /\ embedded \subseteq jobs
    /\ matches \subseteq Candidates \X Jobs
    /\ cache \subseteq Candidates \X (Jobs \cup {NoJob})
    /\ audited \subseteq Candidates
    /\ points \subseteq used /\ files \subseteq used /\ ingesting \subseteq used
    /\ used \subseteq Candidates
    /\ op \in [Requests -> Operations]
    /\ pc \in [Requests -> RequestStates]
    /\ reply \in [Requests -> {"none", "ok", "not_found", "error"}]
    /\ answer \in [Requests -> SUBSET Candidates]
    /\ conns \in [Requests -> 0..2]
    /\ Cardinality(Held) <= PoolSize
    /\ denseLeg \in [Requests -> {"embed", "update", "search", "done"}]
    /\ sqlLeg \in [Requests -> {"select", "done"}]
    /\ locked \in [Requests -> BOOLEAN]
    /\ hits \in [Requests -> SUBSET Candidates]
    /\ loaded \in [Requests -> SUBSET Candidates]
    /\ judging \in [Requests -> Candidates \cup {NoCandidate}]
    /\ results \in [Requests -> SUBSET Candidates]

Deletes(r, c) == op[r].kind = "delete_candidate" /\ op[r].candidate = c

\* The decision history refers to rows: a recommendation that was being judged
\* while its candidate or its job was deleted leaves no match behind
\* (db.py:81-86, recommendations.py:107-109).
MatchesRefer == \A m \in matches : m[1] \in candidates /\ m[2] \in jobs

\* What a GET has shown is in the decision history until its candidate or its
\* job is deleted (recommendations.py:100-109).
AnswersRecorded ==
    \A r \in Requests : \A c \in answer[r] :
        op[r].kind = "get" /\ c \in candidates /\ op[r].job \in jobs
            => <<c, op[r].job>> \in matches

\* No point without a row gets as far as the judge, and no GET answers with one:
\* hits of Qdrant are checked against the table first (matching/pipeline.py:78-80,
\* recommendations.py:108-109).
GhostsFiltered ==
    \A r \in Requests :
        /\ judging[r] # NoCandidate => judging[r] \in candidates \cup audited
        /\ op[r].kind = "get" => answer[r] \subseteq candidates \cup audited

\* DATA_POLICY.md:62: a deletion takes everything, the database, Qdrant and the
\* file (candidates.py:68-129).
Forgotten ==
    \A r \in Requests : \A c \in Candidates :
        Deletes(r, c) /\ reply[r] = "ok"
            => /\ c \notin points \cup files \cup candidates
               /\ \A e \in cache \cup matches : e[1] # c

\* Every request is answered and gives its connections back, whoever waits for a
\* connection or for the lock of a job (matching/pipeline.py:97-111, db.py:166).
EventuallyAnswered ==
    \A r \in Requests : <>[](pc[r] = "done" /\ reply[r] # "none" /\ conns[r] = 0)

=============================================================================
