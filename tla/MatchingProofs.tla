--------------------------- MODULE MatchingProofs ---------------------------
(***************************************************************************)
(* Proofs about Matching, for every set of requests, candidates and jobs,   *)
(* every size of the pool and every call that may raise.                    *)
(***************************************************************************)
EXTENDS MatchingProperties, TLAPS, FiniteSetTheorems

\* A step is one of a request or of ingestion; only five kinds of step touch
\* candidates, jobs, matches or audited (candidates.py:103-119,
\* jobs.py:247-257, recommendations.py:107-109).
LEMMA TableSteps ==
  ASSUME [Next]_vars
  PROVE  \/ UNCHANGED <<candidates, jobs, matches, audited>>
         \/ \E c \in Candidates : CommitResume(c)
         \/ \E r \in Requests : CommitDelete(r) \/ CommitDeleteJob(r)
         \/ \E r \in Requests : \E kept \in SUBSET Candidates : PersistMatches(r, kept)
  <1> USE DEF tables
  <1>1. ASSUME NEW c \in Candidates, IndexResume(c) \/ RollbackResume(c)
        PROVE  UNCHANGED <<candidates, jobs, matches, audited>>
    BY <1>1 DEF IndexResume, RollbackResume
  <1>2. ASSUME NEW r \in Requests, Retrieve(r) \/ NotFound(r)
        PROVE  UNCHANGED <<candidates, jobs, matches, audited>>
    BY <1>2 DEF Retrieve, NotFound, BeginGet, BeginPost, StartRetrieval, EmbedQuery,
       UpdateEmbedding, SessionBusy, SearchPoints, SelectCorpus, TakeHits, FuseHits, Fail
  <1>3. ASSUME NEW r \in Requests, Judge(r)
        PROVE  UNCHANGED <<candidates, jobs, matches, audited>>
    BY <1>3 DEF Judge, LoadCandidates, CacheHit, CacheMiss, JudgeAnswers, EndJudging
  <1>4. ASSUME NEW r \in Requests, NEW kept \in SUBSET Candidates,
               PersistFails(r, kept) \/ AnswerPost(r, kept)
        PROVE  UNCHANGED <<candidates, jobs, matches, audited>>
    BY <1>4 DEF PersistFails, AnswerPost, Fail
  <1>5. ASSUME NEW r \in Requests, BeginDelete(r) \/ DeletePoint(r) \/ UnlinkFile(r)
        PROVE  UNCHANGED <<candidates, jobs, matches, audited>>
    BY <1>5 DEF BeginDelete, DeletePoint, UnlinkFile
  <1>6. ASSUME NEW r \in Requests,
               Timeout(r) \/ CallRaises(r) \/ JudgeRaises(r) \/ DeletePointFails(r)
        PROVE  UNCHANGED <<candidates, jobs, matches, audited>>
    BY <1>6 DEF Timeout, SessionTimeout, TaskTimeout, CallRaises, JudgeRaises, TaskFails,
       DeletePointFails, Fail
  <1>7. CASE UNCHANGED vars
    BY <1>7 DEF vars
  <1>8. QED
    BY <1>1, <1>2, <1>3, <1>4, <1>5, <1>6, <1>7 DEF Next, Step, Reply, Delete

\* No step leaves a match without its candidate or its job: an insert is checked
\* against both tables, and a deletion takes its matches with it (db.py:81-86).
LEMMA MatchesReferStep ==
  MatchesRefer /\ [Next]_vars => MatchesRefer'
  <1> SUFFICES ASSUME MatchesRefer, [Next]_vars
               PROVE  MatchesRefer'
    OBVIOUS
  <1> USE DEF MatchesRefer, tables
  <1>1. CASE UNCHANGED <<candidates, jobs, matches, audited>>
    BY <1>1
  <1>2. ASSUME NEW c \in Candidates, CommitResume(c)
        PROVE  MatchesRefer'
    BY <1>2 DEF CommitResume
  <1>3. ASSUME NEW r \in Requests, CommitDelete(r)
        PROVE  MatchesRefer'
    BY <1>3 DEF CommitDelete, MatchesOfCandidate
  <1>4. ASSUME NEW r \in Requests, CommitDeleteJob(r)
        PROVE  MatchesRefer'
    BY <1>4 DEF CommitDeleteJob, MatchesOfJob
  <1>5. ASSUME NEW r \in Requests, NEW kept \in SUBSET Candidates, PersistMatches(r, kept)
        PROVE  MatchesRefer'
    <2>1. \A m \in MatchRows(r, kept) : m[1] \in candidates /\ m[2] \in jobs
      BY <1>5 DEF PersistMatches, RefersToRows, MatchRows
    <2>2. QED
      BY <1>5, <2>1 DEF PersistMatches
  <1>6. QED
    BY <1>1, <1>2, <1>3, <1>4, <1>5, TableSteps

\* A match always refers to rows, however long its candidate was judged and
\* whatever was deleted meanwhile (db.py:81-86, recommendations.py:107-109).
THEOREM HistoryRefers == Spec => []MatchesRefer
  <1>1. Init => MatchesRefer
    BY DEF Init, MatchesRefer
  <1>2. QED
    BY <1>1, MatchesReferStep, PTL DEF Spec

----------------------------------------------------------------------------
(* A point without a row is never judged and never answers a GET.           *)

\* Candidates that have a row, or had one until a deletion was recorded.
Known == candidates \cup audited

GhostTypes ==
    /\ answer \in [Requests -> SUBSET Candidates]
    /\ loaded \in [Requests -> SUBSET Candidates]
    /\ judging \in [Requests -> Candidates \cup {NoCandidate}]

\* What a request is going to judge, judges and has answered has been a row.
GhostInv ==
    /\ GhostTypes
    /\ candidates \subseteq Candidates
    /\ GhostsFiltered
    /\ \A r \in Requests : loaded[r] \subseteq Known

\* A candidate leaves its table only into the audit log (candidates.py:108-119).
LEMMA KnownGrows ==
  ASSUME [Next]_vars, candidates \subseteq Candidates
  PROVE  Known \subseteq Known' /\ candidates' \subseteq Candidates
  BY TableSteps DEF Known, CommitResume, CommitDelete, CommitDeleteJob, PersistMatches

\* An error answers with nothing and judges nothing
\* (matching/pipeline.py:105-111).
LEMMA FailureKept ==
  ASSUME GhostInv, [Next]_vars, NEW r \in Requests,
         Answer(r, "error", {}) \/ Answer(r, "ok", {}) \/ Answer(r, "not_found", {}),
         op' = op, judging' \in {judging, [judging EXCEPT ![r] = NoCandidate]},
         \/ loaded' = loaded
         \/ \E c \in Candidates : loaded' = [loaded EXCEPT ![r] = @ \ {c}]
  PROVE  GhostInv'
  <1>1. Known \subseteq Known' /\ candidates' \subseteq Candidates
    BY KnownGrows DEF GhostInv
  <1>2. answer' = [answer EXCEPT ![r] = {}]
    BY DEF Answer
  <1>3. GhostTypes'
    BY <1>2 DEF GhostInv, GhostTypes
  <1>4. \A q \in Requests : loaded'[q] \subseteq loaded[q] /\ answer'[q] \subseteq answer[q]
                            /\ judging'[q] \in {judging[q], NoCandidate}
    BY <1>2 DEF GhostInv, GhostTypes
  <1>5. QED
    BY <1>1, <1>3, <1>4 DEF GhostInv, GhostsFiltered, Known

\* Steps that leave answers, judgements and their tasks alone.
LEMMA QuietKept ==
  ASSUME GhostInv, [Next]_vars, UNCHANGED <<op, answer, loaded, judging>>
  PROVE  GhostInv'
  <1>1. Known \subseteq Known' /\ candidates' \subseteq Candidates
    BY KnownGrows DEF GhostInv
  <1>2. QED
    BY <1>1 DEF GhostInv, GhostTypes, GhostsFiltered, Known

\* Every step keeps GhostInv: rows are read before they are judged, and a GET
\* that answers has inserted its matches (matching/pipeline.py:78-111,
\* recommendations.py:107-109).
LEMMA GhostStep ==
  GhostInv /\ [Next]_vars => GhostInv'
  <1> SUFFICES ASSUME GhostInv, [Next]_vars
               PROVE  GhostInv'
    OBVIOUS
  <1> USE DEF judgement
  <1>0. Known \subseteq Known' /\ candidates' \subseteq Candidates
    BY KnownGrows DEF GhostInv
  <1>1. ASSUME NEW c \in Candidates, IndexResume(c) \/ CommitResume(c) \/ RollbackResume(c)
        PROVE  GhostInv'
    BY <1>1, QuietKept DEF IndexResume, CommitResume, RollbackResume
  <1>2. ASSUME NEW r \in Requests, Retrieve(r)
        PROVE  GhostInv'
    <2>1. CASE SessionBusy(r)
      BY <2>1, FailureKept DEF SessionBusy, Fail
    <2>2. CASE ~SessionBusy(r)
      BY <1>2, <2>2, QuietKept DEF Retrieve, BeginGet, BeginPost, StartRetrieval, EmbedQuery,
         UpdateEmbedding, SearchPoints, SelectCorpus, TakeHits, FuseHits
    <2>3. QED
      BY <2>1, <2>2
  <1>3. ASSUME NEW r \in Requests, LoadCandidates(r)
        PROVE  GhostInv'
    <2>1. /\ loaded' = [loaded EXCEPT ![r] = hits[r] \cap candidates]
          /\ UNCHANGED <<answer, judging, op>>
      BY <1>3 DEF LoadCandidates, HitsWithRow
    <2>2. QED
      BY <1>0, <2>1 DEF GhostInv, GhostTypes, GhostsFiltered, Known
  <1>4. ASSUME NEW r \in Requests, NEW c \in Candidates, CacheHit(r, c) \/ CacheMiss(r, c)
        PROVE  GhostInv'
    <2>1. /\ c \in loaded[r]
          /\ loaded' = [loaded EXCEPT ![r] = @ \ {c}]
          /\ judging' \in {judging, [judging EXCEPT ![r] = c]}
          /\ UNCHANGED <<answer, op>>
      BY <1>4 DEF CacheHit, CacheMiss
    <2>2. QED
      BY <1>0, <2>1 DEF GhostInv, GhostTypes, GhostsFiltered, Known
  <1>5. ASSUME NEW r \in Requests, JudgeAnswers(r)
        PROVE  GhostInv'
    <2>1. /\ judging' = [judging EXCEPT ![r] = NoCandidate]
          /\ UNCHANGED <<answer, op, loaded>>
      BY <1>5 DEF JudgeAnswers
    <2>2. QED
      BY <1>0, <2>1 DEF GhostInv, GhostTypes, GhostsFiltered, Known
  <1>6. ASSUME NEW r \in Requests, EndJudging(r)
        PROVE  GhostInv'
    BY <1>6, QuietKept DEF EndJudging
  <1>7. ASSUME NEW r \in Requests, NEW kept \in SUBSET Candidates, PersistMatches(r, kept)
        PROVE  GhostInv'
    <2>1. /\ kept \subseteq Known
          /\ answer' = [answer EXCEPT ![r] = kept]
          /\ UNCHANGED <<op, loaded, judging>>
      BY <1>7 DEF PersistMatches, RefersToRows, Answer, Known
    <2>2. QED
      BY <1>0, <2>1 DEF GhostInv, GhostTypes, GhostsFiltered, Known
  <1>8. ASSUME NEW r \in Requests, NEW kept \in SUBSET Candidates, AnswerPost(r, kept)
        PROVE  GhostInv'
    <2>1. /\ op[r].kind # "get"
          /\ answer' = [answer EXCEPT ![r] = kept]
          /\ UNCHANGED <<op, loaded, judging>>
      BY <1>8 DEF AnswerPost, Answer
    <2>2. QED
      BY <1>0, <2>1 DEF GhostInv, GhostTypes, GhostsFiltered, Known
  <1>9. ASSUME NEW r \in Requests, NEW kept \in SUBSET Candidates, PersistFails(r, kept)
        PROVE  GhostInv'
    BY <1>9, FailureKept DEF PersistFails, Fail
  <1>10. ASSUME NEW r \in Requests, BeginDelete(r) \/ DeletePoint(r) \/ CommitDelete(r)
         PROVE  GhostInv'
    BY <1>10, QuietKept DEF BeginDelete, DeletePoint, CommitDelete
  <1>11. ASSUME NEW r \in Requests, NotFound(r) \/ UnlinkFile(r) \/ CommitDeleteJob(r)
         PROVE  GhostInv'
    BY <1>11, FailureKept DEF NotFound, UnlinkFile, CommitDeleteJob
  <1>12. ASSUME NEW r \in Requests, Timeout(r) \/ CallRaises(r) \/ JudgeRaises(r)
         PROVE  GhostInv'
    BY <1>12, FailureKept DEF Timeout, SessionTimeout, TaskTimeout, TaskFails, CallRaises,
       JudgeRaises, Fail
  <1>13. ASSUME NEW r \in Requests, DeletePointFails(r)
         PROVE  GhostInv'
    BY <1>13, QuietKept DEF DeletePointFails
  <1>14. CASE UNCHANGED vars
    BY <1>14, QuietKept DEF vars
  <1>15. QED
    BY <1>1, <1>2, <1>3, <1>4, <1>5, <1>6, <1>7, <1>8, <1>9, <1>10, <1>11, <1>12, <1>13,
       <1>14 DEF Next, Step, Judge, Reply, Delete

\* At the start nothing has been found or judged.
LEMMA GhostInit == Init => GhostInv
  BY NoneAssumption DEF Init, GhostInv, GhostTypes, GhostsFiltered, Known

\* Whatever Qdrant finds, the judge and the answer of a GET only ever see
\* candidates that had a row (matching/pipeline.py:78-80, recommendations.py:108).
THEOREM NoGhosts == Spec => []GhostsFiltered
  <1>1. GhostInv => GhostsFiltered
    BY DEF GhostInv
  <1>2. QED
    BY <1>1, GhostInit, GhostStep, PTL DEF Spec

----------------------------------------------------------------------------
(* Types, and the connections of the pool.                                  *)

\* Where a request is decides what it asks, what it judges and how many connections
\* it has; who has updated a job's embedding keeps the job in its table.
RequestControl(r) ==
    /\ conns[r] <= 1 \/ pc[r] = "judging"
    /\ pc[r] = "judging" => conns[r] > 0
    /\ judging[r] # NoCandidate <=> pc[r] = "judging"
    /\ pc[r] \in {"retrieve", "load", "judge", "judging", "persist"}
          => op[r].kind \in {"get", "post"}
    /\ pc[r] \in {"drop_point", "drop_row", "drop_file"} => op[r].kind = "delete_candidate"
    /\ denseLeg[r] = "update" => op[r].kind = "get"
    /\ locked[r] => op[r].kind = "get" /\ op[r].job \in jobs

TypeInv == TypeOK /\ IsFiniteSet(Held) /\ \A r \in Requests : RequestControl(r)

\* What the kinds of requests carry (recommendations.py:60-130, candidates.py:68,
\* jobs.py:230).
LEMMA OperationTyped ==
  ASSUME NEW o \in Operations
  PROVE  /\ o.kind \in {"get", "post", "delete_candidate", "delete_job"}
         /\ o.kind \in {"get", "delete_job"} => o.job \in Jobs
         /\ o.kind = "post" => o.job = NoJob
         /\ o.kind \in {"get", "post"} => o.method \in Methods
         /\ o.kind = "delete_candidate" => o.candidate \in Candidates
  BY OperationsAssumption DEF AllOperations

\* A step changes the connections of one request: it gives them back, one or all, or
\* takes one that is free (db.py:166, matching/pipeline.py:97-111).
LEMMA ConnectionSteps ==
  ASSUME TypeInv, [Next]_vars
  PROVE  \/ conns' = conns
         \/ \E r \in Requests : \E n \in Nat :
              /\ conns' = [conns EXCEPT ![r] = n]
              /\ n <= conns[r] \/ (n = conns[r] + 1 /\ FreeConnection)
  <1> DEFINE Moved(r) == \E n \in Nat :
                           /\ conns' = [conns EXCEPT ![r] = n]
                           /\ n <= conns[r] \/ (n = conns[r] + 1 /\ FreeConnection)
  <1>0. ASSUME NEW r \in Requests
        PROVE  conns[r] \in Nat /\ 0 <= conns[r]
    BY DEF TypeInv, TypeOK
  <1>1. ASSUME NEW r \in Requests, NEW code, NEW found, Answer(r, code, found)
        PROVE  Moved(r)
    BY <1>0, <1>1 DEF Answer
  <1>6. ASSUME NEW r \in Requests, NEW n \in Nat, conns' = [conns EXCEPT ![r] = n],
               n <= conns[r] \/ (n = conns[r] + 1 /\ FreeConnection)
        PROVE  Moved(r)
    BY <1>6
  <1> HIDE DEF Moved
  <1>2. ASSUME NEW r \in Requests, Connected(r), Connect(r)
        PROVE  Moved(r)
    <2>1. CASE conns[r] = 0
      <3>1. conns' = [conns EXCEPT ![r] = 1] /\ FreeConnection
        BY <1>2, <2>1 DEF Connected, Connect
      <3>2. 1 \in Nat /\ 1 = conns[r] + 1
        BY <2>1
      <3>3. QED
        BY <1>6, <3>1, <3>2
    <2>2. CASE conns[r] # 0
      <3>1. conns' = [conns EXCEPT ![r] = conns[r]]
        BY <1>2, <2>2 DEF Connect
      <3>2. conns[r] <= conns[r]
        BY <1>0
      <3>3. QED
        BY <1>0, <1>6, <3>1, <3>2
    <2>3. QED
      BY <2>1, <2>2
  <1>3. ASSUME NEW r \in Requests, Step(r)
        PROVE  Moved(r) \/ conns' = conns
    <2>1. CASE NotFound(r) \/ SessionBusy(r) \/ Reply(r) \/ UnlinkFile(r) \/ CommitDeleteJob(r)
      BY <1>1, <2>1 DEF NotFound, SessionBusy, Fail, Reply, PersistMatches, PersistFails,
         AnswerPost, UnlinkFile, CommitDeleteJob
    <2>2. CASE BeginGet(r) \/ SelectCorpus(r) \/ LoadCandidates(r) \/ BeginDelete(r)
      BY <1>2, <2>2 DEF BeginGet, SelectCorpus, LoadCandidates, BeginDelete
    <2>3. ASSUME NEW c \in Candidates, CacheMiss(r, c)
          PROVE  Moved(r)
      <3>1. conns' = [conns EXCEPT ![r] = conns[r] + 1] /\ FreeConnection
        BY <2>3 DEF CacheMiss
      <3>2. conns[r] + 1 \in Nat
        BY <1>0
      <3>3. QED
        BY <1>6, <3>1, <3>2
    <2>4. CASE JudgeAnswers(r)
      <3>1. conns' = [conns EXCEPT ![r] = conns[r] - 1] /\ conns[r] > 0
        BY <2>4 DEF JudgeAnswers, SessionClosed, TypeInv, RequestControl
      <3>2. conns[r] - 1 \in Nat /\ conns[r] - 1 <= conns[r]
        BY <1>0, <3>1
      <3>3. QED
        BY <1>6, <3>1, <3>2
    <2>5. QED
      BY <1>3, <2>1, <2>2, <2>3, <2>4
      DEF Step, Retrieve, Judge, Delete, BeginPost, EmbedQuery, UpdateEmbedding, SearchPoints,
         TakeHits, FuseHits, CacheHit, EndJudging, DeletePoint, CommitDelete
  <1>4. ASSUME NEW r \in Requests, Timeout(r) \/ CallRaises(r) \/ JudgeRaises(r)
        PROVE  Moved(r)
    BY <1>1, <1>4
    DEF Timeout, SessionTimeout, TaskTimeout, TaskFails, CallRaises, JudgeRaises, Fail
  <1>5. QED
    BY <1>3, <1>4 DEF Next, IndexResume, CommitResume, RollbackResume, DeletePointFails, vars,
       Moved

\* The pool is never overdrawn: whoever takes a connection has found one free
\* (db.py:166).
LEMMA PoolStep ==
  ASSUME TypeInv, [Next]_vars
  PROVE  IsFiniteSet(Held)' /\ (Cardinality(Held) <= PoolSize)'
  <1>1. IsFiniteSet(Held) /\ Cardinality(Held) <= PoolSize /\ Cardinality(Held) \in Nat
        /\ PoolSize \in Nat
    BY PoolAssumption, FS_CardinalityType DEF TypeInv, TypeOK
  <1>2. ASSUME Held' \subseteq Held
        PROVE  IsFiniteSet(Held)' /\ (Cardinality(Held) <= PoolSize)'
    <2>1. IsFiniteSet(Held') /\ Cardinality(Held') <= Cardinality(Held)
          /\ Cardinality(Held') \in Nat
      BY <1>1, <1>2, FS_Subset, FS_CardinalityType
    <2>2. QED
      BY <1>1, <2>1
  <1>3. CASE conns' = conns
    BY <1>2, <1>3 DEF Held
  <1>4. ASSUME NEW r \in Requests, NEW n \in Nat, conns' = [conns EXCEPT ![r] = n]
        PROVE  /\ n <= conns[r] => Held' \subseteq Held
               /\ n = conns[r] + 1 => Held' \subseteq Held \cup {<<r, n>>}
    <2>1. conns[r] \in Nat /\ \A q \in Requests : conns'[q] = IF q = r THEN n ELSE conns[q]
      BY <1>4 DEF TypeInv, TypeOK
    <2>2. ASSUME NEW h \in Held'
          PROVE  /\ n <= conns[r] => h \in Held
                 /\ n = conns[r] + 1 => h \in Held \/ h = <<r, n>>
      <3>1. PICK q \in Requests : h \in {q} \X (1..conns'[q])
        BY DEF Held
      <3>2. PICK i \in 1..conns'[q] : h = <<q, i>>
        BY <3>1
      <3>3. i \in 1..conns[q] => h \in Held
        BY <3>2 DEF Held
      <3>4. CASE q = r
        BY <2>1, <3>2, <3>3, <3>4
      <3>5. CASE q # r
        BY <2>1, <3>2, <3>3, <3>5
      <3>6. QED
        BY <3>4, <3>5
    <2>3. QED
      BY <2>2
  <1>5. ASSUME NEW r \in Requests, NEW n \in Nat, Held' \subseteq Held \cup {<<r, n>>},
               FreeConnection
        PROVE  IsFiniteSet(Held)' /\ (Cardinality(Held) <= PoolSize)'
    <2> DEFINE more == Held \cup {<<r, n>>}
    <2>1. /\ IsFiniteSet(more)
          /\ Cardinality(more) = Cardinality(Held) \/ Cardinality(more) = Cardinality(Held) + 1
      BY <1>1, FS_AddElement
    <2>2. IsFiniteSet(Held') /\ Cardinality(Held') <= Cardinality(more)
          /\ Cardinality(Held') \in Nat /\ Cardinality(more) \in Nat
      <3> HIDE DEF more
      <3>1. Held' \subseteq more
        BY <1>5 DEF more
      <3>2. QED
        BY <2>1, <3>1, FS_Subset, FS_CardinalityType
    <2> HIDE DEF more
    <2>3. QED
      BY <1>1, <1>5, <2>1, <2>2 DEF FreeConnection
  <1>6. QED
    BY <1>2, <1>3, <1>4, <1>5, ConnectionSteps

\* An answer, and an exception, end a request with the types of its variables kept.
LEMMA AnswerTyped ==
  ASSUME TypeInv, NEW r \in Requests,
         NEW code \in {"ok", "not_found", "error"}, NEW found \in SUBSET Candidates,
         Answer(r, code, found)
  PROVE  /\ reply' \in [Requests -> {"none", "ok", "not_found", "error"}]
         /\ answer' \in [Requests -> SUBSET Candidates]
         /\ locked' \in [Requests -> BOOLEAN] /\ conns' \in [Requests -> 0..2]
         /\ locked'[r] = FALSE /\ conns'[r] = 0
         /\ \A q \in Requests \ {r} : locked'[q] = locked[q] /\ conns'[q] = conns[q]
  <1>1. locked' = [locked EXCEPT ![r] = FALSE] /\ locked \in [Requests -> BOOLEAN]
    BY DEF Answer, TypeInv, TypeOK
  <1>2. locked' \in [Requests -> BOOLEAN] /\ locked'[r] = FALSE
        /\ \A q \in Requests \ {r} : locked'[q] = locked[q]
    BY <1>1
  <1>3. QED
    BY <1>2 DEF Answer, TypeInv, TypeOK

\* An exception keeps TypeInv wherever it leaves the request without a judgement
\* (matching/pipeline.py:97-111).
LEMMA FailTyped ==
  ASSUME TypeInv, [Next]_vars, NEW r \in Requests, Fail(r), pc[r] # "judging"
  PROVE  TypeInv'
  <1>1. IsFiniteSet(Held)' /\ (Cardinality(Held) <= PoolSize)'
    BY PoolStep
  <1>2. Answer(r, "error", {}) /\ pc' = [pc EXCEPT ![r] = "done"]
        /\ UNCHANGED <<tables, stores, op, retrieval, judgement>>
    BY DEF Fail
  <1>3. /\ reply' \in [Requests -> {"none", "ok", "not_found", "error"}]
        /\ answer' \in [Requests -> SUBSET Candidates]
        /\ locked' \in [Requests -> BOOLEAN] /\ conns' \in [Requests -> 0..2]
        /\ locked'[r] = FALSE /\ conns'[r] = 0
        /\ \A q \in Requests \ {r} : locked'[q] = locked[q] /\ conns'[q] = conns[q]
    <2>1. {} \in SUBSET Candidates
      OBVIOUS
    <2>2. QED
      BY <1>2, <2>1, AnswerTyped
  <1>4. TypeOK'
    BY <1>1, <1>2, <1>3
    DEF TypeInv, TypeOK, RequestStates, tables, stores, retrieval, judgement
  <1>5. \A q \in Requests : RequestControl(q)'
    BY <1>2, <1>3 DEF TypeInv, TypeOK, RequestControl, tables, stores, retrieval, judgement
  <1>6. QED
    BY <1>1, <1>4, <1>5 DEF TypeInv

\* What ingestion does keeps TypeInv (pipeline.py:231-268).
LEMMA IngestTyped ==
  ASSUME TypeInv, [Next]_vars, NEW c \in Candidates,
         IndexResume(c) \/ CommitResume(c) \/ RollbackResume(c)
  PROVE  TypeInv'
  <1>1. IsFiniteSet(Held)' /\ (Cardinality(Held) <= PoolSize)'
    BY PoolStep
  <1>2. TypeOK'
    BY <1>1 DEF TypeInv, TypeOK, tables, retrieval, judgement, IndexResume, CommitResume,
       RollbackResume
  <1>3. \A r \in Requests : RequestControl(r)'
    BY DEF TypeInv, RequestControl, tables, retrieval, judgement, IndexResume, CommitResume,
       RollbackResume
  <1>4. QED
    BY <1>1, <1>2, <1>3 DEF TypeInv

\* Retrieval keeps TypeInv (matching/pipeline.py:114-160, methods.py:20-90).
LEMMA RetrieveTyped ==
  ASSUME TypeInv, [Next]_vars, NEW r \in Requests, Retrieve(r)
  PROVE  TypeInv'
  <1> USE DEF TypeInv, TypeOK, RequestControl, tables, stores, retrieval, judgement
  <1>0. IsFiniteSet(Held)' /\ (Cardinality(Held) <= PoolSize)'
    BY PoolStep
  <1>1. CASE BeginGet(r) \/ BeginPost(r)
    <2>1. StartRetrieval(r) /\ pc[r] = "begin" /\ op[r].kind \in {"get", "post"}
          /\ (Connect(r) \/ conns' = conns) /\ judging[r] = NoCandidate
      BY <1>1 DEF BeginGet, BeginPost
    <2>2. denseLeg' \in [Requests -> {"embed", "update", "search", "done"}]
          /\ denseLeg'[r] # "update"
          /\ \A q \in Requests \ {r} : denseLeg'[q] = denseLeg[q]
      BY <2>1 DEF StartRetrieval
    <2>3. conns' \in [Requests -> 0..2] /\ conns'[r] <= 1
          /\ \A q \in Requests \ {r} : conns'[q] = conns[q]
      BY <2>1 DEF Connect
    <2>4. /\ pc' = [pc EXCEPT ![r] = "retrieve"]
          /\ sqlLeg' \in [Requests -> {"select", "done"}]
          /\ UNCHANGED <<tables, stores, op, reply, answer, hits, locked, judgement>>
      BY <2>1 DEF StartRetrieval
    <2>5. TypeOK'
      BY <1>0, <2>2, <2>3, <2>4 DEF RequestStates
    <2>6. \A q \in Requests : RequestControl(q)'
      BY <2>1, <2>2, <2>3, <2>4
    <2>7. QED
      BY <1>0, <2>5, <2>6
  <1>2. CASE EmbedQuery(r)
    <2>1. pc[r] = "retrieve" /\ op[r].kind \in {"get", "post"}
      BY <1>2 DEF EmbedQuery
    <2>2. QED
      BY <1>0, <1>2, <2>1 DEF EmbedQuery
  <1>3. CASE UpdateEmbedding(r)
    <2> DEFINE saved == op[r].job \in jobs
    <2>1. op[r].kind = "get" /\ saved \in BOOLEAN
          /\ locked' = [locked EXCEPT ![r] = saved]
      BY <1>3 DEF UpdateEmbedding
    <2> HIDE DEF saved
    <2>2. locked' \in [Requests -> BOOLEAN] /\ locked'[r] = saved
          /\ \A q \in Requests \ {r} : locked'[q] = locked[q]
      BY <2>1
    <2>3. denseLeg' = [denseLeg EXCEPT ![r] = "search"]
          /\ UNCHANGED <<tables, stores, op, pc, reply, answer, conns, sqlLeg, hits, judgement>>
      BY <1>3 DEF UpdateEmbedding
    <2>4. TypeOK'
      BY <1>0, <2>2, <2>3
    <2>5. \A q \in Requests : RequestControl(q)'
      BY <2>1, <2>2, <2>3 DEF saved
    <2>6. QED
      BY <1>0, <2>4, <2>5
  <1>4. CASE SessionBusy(r)
    BY <1>4, FailTyped DEF SessionBusy
  <1>5. CASE SearchPoints(r)
    BY <1>0, <1>5 DEF SearchPoints
  <1>6. CASE SelectCorpus(r)
    BY <1>0, <1>6 DEF SelectCorpus, Connect
  <1>7. CASE TakeHits(r) \/ FuseHits(r)
    <2>1. /\ pc[r] = "retrieve" /\ op[r].kind \in {"get", "post"}
          /\ pc' \in {[pc EXCEPT ![r] = "persist"], [pc EXCEPT ![r] = "load"]}
          /\ results' \in {results, [results EXCEPT ![r] = hits[r]]}
          /\ UNCHANGED <<tables, stores, op, reply, answer, conns, retrieval, locked, loaded,
                         judging>>
      BY <1>7 DEF TakeHits, FuseHits, Retrieved
    <2>2. QED
      BY <1>0, <2>1 DEF RequestStates
  <1>8. QED
    BY <1>1, <1>2, <1>3, <1>4, <1>5, <1>6, <1>7 DEF Retrieve

\* Judging keeps TypeInv: a task takes the second connection of its request, and
\* its answer is cached for the job of a recommendation (matching/pipeline.py:64-111,
\* llm_judge.py:149-212).
LEMMA JudgeTyped ==
  ASSUME TypeInv, [Next]_vars, NEW r \in Requests, Judge(r)
  PROVE  TypeInv'
  <1> USE DEF TypeInv, TypeOK, RequestControl, tables, stores, retrieval, judgement
  <1>0. IsFiniteSet(Held)' /\ (Cardinality(Held) <= PoolSize)'
    BY PoolStep
  <1>1. CASE LoadCandidates(r)
    <2>1. /\ pc[r] = "load" /\ op[r].kind \in {"get", "post"} /\ judging[r] = NoCandidate
          /\ Connect(r)
          /\ loaded' \in [Requests -> SUBSET Candidates]
          /\ pc' = [pc EXCEPT ![r] = "judge"]
          /\ UNCHANGED <<tables, stores, op, reply, answer, retrieval, locked, judging, results>>
      BY <1>1 DEF LoadCandidates, HitsWithRow
    <2>2. conns' \in [Requests -> 0..2] /\ conns'[r] <= 1
          /\ \A q \in Requests \ {r} : conns'[q] = conns[q]
      BY <2>1 DEF Connect
    <2>3. QED
      BY <1>0, <2>1, <2>2 DEF RequestStates
  <1>2. ASSUME NEW c \in Candidates, CacheHit(r, c)
        PROVE  TypeInv'
    BY <1>0, <1>2 DEF CacheHit
  <1>3. ASSUME NEW c \in Candidates, CacheMiss(r, c)
        PROVE  TypeInv'
    <2>1. /\ pc[r] = "judge" /\ op[r].kind \in {"get", "post"} /\ c # NoCandidate
          /\ conns' = [conns EXCEPT ![r] = conns[r] + 1]
          /\ loaded' = [loaded EXCEPT ![r] = @ \ {c}]
          /\ judging' = [judging EXCEPT ![r] = c]
          /\ pc' = [pc EXCEPT ![r] = "judging"]
          /\ UNCHANGED <<tables, stores, op, reply, answer, retrieval, locked, results>>
      BY <1>3, NoneAssumption DEF CacheMiss
    <2>2. conns' \in [Requests -> 0..2] /\ conns'[r] > 0
          /\ \A q \in Requests \ {r} : conns'[q] = conns[q]
      BY <2>1
    <2>3. TypeOK'
      BY <1>0, <2>1, <2>2 DEF RequestStates
    <2>4. \A q \in Requests : RequestControl(q)'
      BY <2>1, <2>2
    <2>5. QED
      BY <1>0, <2>3, <2>4
  <1>4. CASE JudgeAnswers(r)
    <2> DEFINE job == op[r].job
               c == judging[r]
    <2>1. /\ pc[r] = "judging" /\ op[r].kind \in {"get", "post"}
          /\ c \in Candidates /\ conns[r] > 0
          /\ cache' = cache \cup {<<c, job>>}
          /\ results' = [results EXCEPT ![r] = @ \cup {c}]
          /\ judging' = [judging EXCEPT ![r] = NoCandidate]
          /\ conns' = [conns EXCEPT ![r] = conns[r] - 1]
          /\ pc' = [pc EXCEPT ![r] = "judge"]
          /\ UNCHANGED <<candidates, jobs, embedded, matches, audited, stores, op, reply,
                         answer, retrieval, locked, loaded>>
      BY <1>4 DEF JudgeAnswers, SessionClosed
    <2>2. job \in Jobs \cup {NoJob}
      BY <2>1, OperationTyped
    <2> HIDE DEF job, c
    <2>3. conns' \in [Requests -> 0..2] /\ conns'[r] <= 1
          /\ \A q \in Requests \ {r} : conns'[q] = conns[q]
      BY <2>1
    <2>4. cache' \subseteq Candidates \X (Jobs \cup {NoJob})
          /\ results' \in [Requests -> SUBSET Candidates]
      BY <2>1, <2>2
    <2>5. TypeOK'
      BY <1>0, <2>1, <2>3, <2>4 DEF RequestStates
    <2>6. \A q \in Requests : RequestControl(q)'
      BY <2>1, <2>3
    <2>7. QED
      BY <1>0, <2>5, <2>6
  <1>5. CASE EndJudging(r)
    BY <1>0, <1>5 DEF EndJudging, RequestStates
  <1>6. QED
    BY <1>1, <1>2, <1>3, <1>4, <1>5 DEF Judge

\* A task that fails answers for its request, which gives its connections back
\* (matching/pipeline.py:105-111).
LEMMA TaskFailsTyped ==
  ASSUME TypeInv, [Next]_vars, NEW r \in Requests, pc[r] \in {"judge", "judging"},
         TaskFails(r), loaded' \in [Requests -> SUBSET Candidates]
  PROVE  TypeInv'
  <1>0. IsFiniteSet(Held)' /\ (Cardinality(Held) <= PoolSize)'
    BY PoolStep
  <1>1. /\ Answer(r, "error", {}) /\ pc' = [pc EXCEPT ![r] = "judge"]
        /\ judging' = [judging EXCEPT ![r] = NoCandidate]
        /\ UNCHANGED <<tables, stores, op, retrieval, results>>
    BY DEF TaskFails
  <1>2. {} \in SUBSET Candidates
    OBVIOUS
  <1>3. /\ reply' \in [Requests -> {"none", "ok", "not_found", "error"}]
        /\ answer' \in [Requests -> SUBSET Candidates]
        /\ locked' \in [Requests -> BOOLEAN] /\ conns' \in [Requests -> 0..2]
        /\ locked'[r] = FALSE /\ conns'[r] = 0
        /\ \A q \in Requests \ {r} : locked'[q] = locked[q] /\ conns'[q] = conns[q]
    BY <1>1, <1>2, AnswerTyped
  <1>4. TypeOK'
    BY <1>0, <1>1, <1>3
    DEF TypeInv, TypeOK, RequestStates, tables, stores, retrieval, judgement
  <1>5. \A q \in Requests : RequestControl(q)'
    BY <1>1, <1>3 DEF TypeInv, TypeOK, RequestControl, tables, stores, retrieval, judgement
  <1>6. QED
    BY <1>0, <1>4, <1>5 DEF TypeInv

\* The answer keeps TypeInv: an embedding is only saved for a job that is still in
\* its table, since its row has been locked (recommendations.py:92-114,
\* matching/pipeline.py:150-160).
LEMMA ReplyTyped ==
  ASSUME TypeInv, [Next]_vars, NEW r \in Requests, Reply(r)
  PROVE  TypeInv'
  <1>0. IsFiniteSet(Held)' /\ (Cardinality(Held) <= PoolSize)'
    BY PoolStep
  <1>1. ASSUME NEW kept \in SUBSET Candidates, PersistFails(r, kept)
        PROVE  TypeInv'
    <2>1. Fail(r) /\ pc[r] # "judging"
      BY <1>1 DEF PersistFails
    <2>2. QED
      BY <2>1, FailTyped
  <1>2. ASSUME NEW kept \in SUBSET Candidates, PersistMatches(r, kept) \/ AnswerPost(r, kept)
        PROVE  TypeInv'
    <2>1. /\ pc[r] = "persist" /\ Answer(r, "ok", kept)
          /\ pc' = [pc EXCEPT ![r] = "done"]
          /\ UNCHANGED <<candidates, jobs, cache, audited, stores, op, retrieval, judgement>>
      BY <1>2 DEF PersistMatches, AnswerPost, tables
    <2>2. /\ reply' \in [Requests -> {"none", "ok", "not_found", "error"}]
          /\ answer' \in [Requests -> SUBSET Candidates]
          /\ locked' \in [Requests -> BOOLEAN] /\ conns' \in [Requests -> 0..2]
          /\ locked'[r] = FALSE /\ conns'[r] = 0
          /\ \A q \in Requests \ {r} : locked'[q] = locked[q] /\ conns'[q] = conns[q]
      BY <2>1, AnswerTyped
    <2>3. embedded \subseteq jobs /\ matches \subseteq Candidates \X Jobs
      BY DEF TypeInv, TypeOK
    <2>4. ASSUME AnswerPost(r, kept)
          PROVE  embedded' \subseteq jobs /\ matches' \subseteq Candidates \X Jobs
      BY <2>3, <2>4 DEF AnswerPost, tables
    <2>5. ASSUME PersistMatches(r, kept)
          PROVE  embedded' \subseteq jobs /\ matches' \subseteq Candidates \X Jobs
      <3>1. op[r] \in Operations /\ op[r].kind = "get" /\ (locked[r] => op[r].job \in jobs)
        BY <2>5 DEF PersistMatches, TypeInv, TypeOK, RequestControl
      <3>2. op[r].job \in Jobs
        BY <3>1, OperationTyped
      <3>3. embedded' \subseteq jobs
        BY <2>3, <2>5, <3>1 DEF PersistMatches
      <3>4. matches' \subseteq Candidates \X Jobs
        BY <2>3, <2>5, <3>2 DEF PersistMatches, MatchRows
      <3>5. QED
        BY <3>3, <3>4
    <2>6. embedded' \subseteq jobs' /\ matches' \subseteq Candidates \X Jobs
      BY <1>2, <2>1, <2>4, <2>5
    <2>7. TypeOK'
      BY <1>0, <2>1, <2>2, <2>6
      DEF TypeInv, TypeOK, RequestStates, stores, retrieval, judgement
    <2>8. \A q \in Requests : RequestControl(q)'
      BY <2>1, <2>2 DEF TypeInv, TypeOK, RequestControl, stores, retrieval, judgement
    <2>9. QED
      BY <1>0, <2>7, <2>8 DEF TypeInv
  <1>3. QED
    BY <1>1, <1>2 DEF Reply

\* A request that ends elsewhere than in a judgement keeps TypeInv, whatever it
\* answers, when it takes nothing from the tables.
LEMMA EndTyped ==
  ASSUME TypeInv, [Next]_vars, NEW r \in Requests, pc[r] # "judging",
         NEW code \in {"ok", "not_found", "error"}, Answer(r, code, {}),
         pc' = [pc EXCEPT ![r] = "done"],
         files' \subseteq files,
         UNCHANGED <<tables, points, used, ingesting, op, retrieval, judgement>>
  PROVE  TypeInv'
  <1>0. IsFiniteSet(Held)' /\ (Cardinality(Held) <= PoolSize)'
    BY PoolStep
  <1>1. {} \in SUBSET Candidates
    OBVIOUS
  <1>2. /\ reply' \in [Requests -> {"none", "ok", "not_found", "error"}]
        /\ answer' \in [Requests -> SUBSET Candidates]
        /\ locked' \in [Requests -> BOOLEAN] /\ conns' \in [Requests -> 0..2]
        /\ locked'[r] = FALSE /\ conns'[r] = 0
        /\ \A q \in Requests \ {r} : locked'[q] = locked[q] /\ conns'[q] = conns[q]
    BY <1>1, AnswerTyped
  <1>3. TypeOK'
    BY <1>0, <1>2 DEF TypeInv, TypeOK, RequestStates, tables, retrieval, judgement
  <1>4. \A q \in Requests : RequestControl(q)'
    BY <1>2 DEF TypeInv, TypeOK, RequestControl, tables, retrieval, judgement
  <1>5. QED
    BY <1>0, <1>3, <1>4 DEF TypeInv

\* A deletion keeps TypeInv: a job only goes when no recommendation has its row
\* locked (candidates.py:68-129, jobs.py:230-257).
LEMMA DeleteTyped ==
  ASSUME TypeInv, [Next]_vars, NEW r \in Requests, Delete(r) \/ DeletePointFails(r)
  PROVE  TypeInv'
  <1>0. IsFiniteSet(Held)' /\ (Cardinality(Held) <= PoolSize)'
    BY PoolStep
  <1>1. CASE BeginDelete(r)
    <2>1. /\ pc[r] = "begin" /\ op[r].kind \in {"delete_candidate", "delete_job"}
          /\ judging[r] = NoCandidate /\ Connect(r)
          /\ pc' \in {[pc EXCEPT ![r] = "drop_job"], [pc EXCEPT ![r] = "drop_point"]}
          /\ pc'[r] = "drop_point" => op[r].kind = "delete_candidate"
          /\ UNCHANGED <<tables, stores, op, reply, answer, retrieval, locked, judgement>>
      BY <1>1 DEF BeginDelete, TypeInv, TypeOK, RequestControl
    <2>2. conns' \in [Requests -> 0..2] /\ conns'[r] <= 1
          /\ \A q \in Requests \ {r} : conns'[q] = conns[q]
      BY <2>1 DEF Connect, TypeInv, TypeOK, RequestControl
    <2>3. TypeOK'
      BY <1>0, <2>1, <2>2
      DEF TypeInv, TypeOK, RequestStates, tables, stores, retrieval, judgement
    <2>4. \A q \in Requests : RequestControl(q)'
      BY <2>1, <2>2 DEF TypeInv, TypeOK, RequestControl, tables, stores, retrieval, judgement
    <2>5. QED
      BY <1>0, <2>3, <2>4 DEF TypeInv
  <1>2. CASE DeletePoint(r) \/ DeletePointFails(r)
    <2>1. /\ pc[r] = "drop_point" /\ op[r].kind = "delete_candidate"
          /\ points' \subseteq points
          /\ pc' = [pc EXCEPT ![r] = "drop_row"]
          /\ UNCHANGED <<tables, files, used, ingesting, op, reply, answer, conns, retrieval,
                         locked, judgement>>
      BY <1>2 DEF DeletePoint, DeletePointFails, stores, TypeInv, TypeOK, RequestControl
    <2>2. TypeOK'
      BY <1>0, <2>1 DEF TypeInv, TypeOK, RequestStates, tables, retrieval, judgement
    <2>3. \A q \in Requests : RequestControl(q)'
      BY <2>1 DEF TypeInv, TypeOK, RequestControl, tables, retrieval, judgement
    <2>4. QED
      BY <1>0, <2>2, <2>3 DEF TypeInv
  <1>3. CASE CommitDelete(r)
    <2>1. pc[r] = "drop_row" /\ op[r] \in Operations /\ op[r].kind = "delete_candidate"
      BY <1>3 DEF CommitDelete, TypeInv, TypeOK, RequestControl
    <2>2. op[r].candidate \in Candidates
      BY <2>1, OperationTyped
    <2>3. /\ candidates' \subseteq candidates /\ matches' \subseteq matches
          /\ audited' \subseteq Candidates
          /\ pc' = [pc EXCEPT ![r] = "drop_file"]
          /\ UNCHANGED <<jobs, embedded, cache, stores, op, reply, answer, conns, retrieval,
                         locked, judgement>>
      BY <1>3, <2>2 DEF CommitDelete, TypeInv, TypeOK
    <2>4. TypeOK'
      BY <1>0, <2>3 DEF TypeInv, TypeOK, RequestStates, stores, retrieval, judgement
    <2>5. \A q \in Requests : RequestControl(q)'
      BY <2>1, <2>3 DEF TypeInv, TypeOK, RequestControl, stores, retrieval, judgement
    <2>6. QED
      BY <1>0, <2>4, <2>5 DEF TypeInv
  <1>4. CASE UnlinkFile(r)
    <2>1. /\ pc[r] # "judging" /\ Answer(r, "ok", {}) /\ files' \subseteq files
          /\ pc' = [pc EXCEPT ![r] = "done"]
          /\ UNCHANGED <<tables, points, used, ingesting, op, retrieval, judgement>>
      BY <1>4 DEF UnlinkFile
    <2>2. QED
      BY <2>1, EndTyped
  <1>5. CASE CommitDeleteJob(r)
    <2> DEFINE j == op[r].job
    <2>1. /\ pc[r] = "drop_job" /\ Answer(r, "ok", {})
          /\ \A q \in Requests : locked[q] => op[q].job # j
          /\ jobs' = jobs \ {j} /\ embedded' = embedded \ {j} /\ matches' \subseteq matches
          /\ pc' = [pc EXCEPT ![r] = "done"]
          /\ UNCHANGED <<candidates, cache, audited, stores, op, retrieval, judgement>>
      BY <1>5 DEF CommitDeleteJob
    <2> HIDE DEF j
    <2>2. {} \in SUBSET Candidates
      OBVIOUS
    <2>3. /\ reply' \in [Requests -> {"none", "ok", "not_found", "error"}]
          /\ answer' \in [Requests -> SUBSET Candidates]
          /\ locked' \in [Requests -> BOOLEAN] /\ conns' \in [Requests -> 0..2]
          /\ locked'[r] = FALSE /\ conns'[r] = 0
          /\ \A q \in Requests \ {r} : locked'[q] = locked[q] /\ conns'[q] = conns[q]
      BY <2>1, <2>2, AnswerTyped
    <2>4. TypeOK'
      BY <1>0, <2>1, <2>3 DEF TypeInv, TypeOK, RequestStates, stores, retrieval, judgement
    <2>5. \A q \in Requests : RequestControl(q)'
      BY <2>1, <2>3 DEF TypeInv, TypeOK, RequestControl, stores, retrieval, judgement
    <2>6. QED
      BY <1>0, <2>4, <2>5 DEF TypeInv
  <1>6. QED
    BY <1>1, <1>2, <1>3, <1>4, <1>5 DEF Delete

\* Every step keeps TypeInv.
LEMMA TypeStep ==
  TypeInv /\ [Next]_vars => TypeInv'
  <1> SUFFICES ASSUME TypeInv, [Next]_vars
               PROVE  TypeInv'
    OBVIOUS
  <1>1. ASSUME NEW c \in Candidates, IndexResume(c) \/ CommitResume(c) \/ RollbackResume(c)
        PROVE  TypeInv'
    BY <1>1, IngestTyped
  <1>2. ASSUME NEW r \in Requests, Step(r) \/ DeletePointFails(r)
        PROVE  TypeInv'
    <2>1. CASE NotFound(r)
      <3>1. /\ pc[r] # "judging" /\ Answer(r, "not_found", {}) /\ files' \subseteq files
            /\ pc' = [pc EXCEPT ![r] = "done"]
            /\ UNCHANGED <<tables, points, used, ingesting, op, retrieval, judgement>>
        BY <2>1 DEF NotFound, stores
      <3>2. QED
        BY <3>1, EndTyped
    <2>2. QED
      BY <1>2, <2>1, RetrieveTyped, JudgeTyped, ReplyTyped, DeleteTyped DEF Step
  <1>3. ASSUME NEW r \in Requests, SessionTimeout(r) \/ CallRaises(r)
        PROVE  TypeInv'
    <2>1. Fail(r) /\ pc[r] # "judging"
      BY <1>3 DEF SessionTimeout, WantsSession, CallRaises
    <2>2. QED
      BY <2>1, FailTyped
  <1>4. ASSUME NEW r \in Requests, NEW c \in Candidates, TaskTimeout(r, c)
        PROVE  TypeInv'
    <2>1. TaskFails(r) /\ pc[r] = "judge" /\ loaded' \in [Requests -> SUBSET Candidates]
      BY <1>4 DEF TaskTimeout, TypeInv, TypeOK
    <2>2. QED
      BY <2>1, TaskFailsTyped
  <1>5. ASSUME NEW r \in Requests, JudgeRaises(r)
        PROVE  TypeInv'
    <2>1. TaskFails(r) /\ pc[r] = "judging" /\ loaded' \in [Requests -> SUBSET Candidates]
      BY <1>5 DEF JudgeRaises, TypeInv, TypeOK
    <2>2. QED
      BY <2>1, TaskFailsTyped
  <1>6. CASE UNCHANGED vars
    BY <1>6 DEF vars, TypeInv, TypeOK, RequestControl, Held, tables, stores, retrieval,
       judgement
  <1>7. QED
    BY <1>1, <1>2, <1>3, <1>4, <1>5, <1>6 DEF Next, Timeout

\* At the start the pool is free and nobody has asked.
LEMMA TypeInit == Init => TypeInv
  <1> SUFFICES ASSUME Init
               PROVE  TypeInv
    OBVIOUS
  <1>1. Held = {}
    <2>1. \A r \in Requests : 1..conns[r] = {}
      BY DEF Init
    <2>2. QED
      BY <2>1 DEF Held
  <1>2. IsFiniteSet(Held) /\ Cardinality(Held) <= PoolSize
    BY <1>1, FS_EmptySet, PoolAssumption
  <1>3. TypeOK
    BY <1>2 DEF Init, TypeOK, RequestStates
  <1>4. \A r \in Requests : RequestControl(r)
    BY DEF Init, RequestControl
  <1>5. QED
    BY <1>2, <1>3, <1>4 DEF TypeInv

\* Every variable keeps its type, a request never has more than two connections, and
\* all of them together never have more than the pool
\* (db.py:44-169, matching/pipeline.py:68-178).
THEOREM MatchingTyped == Spec => []TypeOK
  <1>1. TypeInv => TypeOK
    BY DEF TypeInv
  <1>2. QED
    BY <1>1, TypeInit, TypeStep, PTL DEF Spec

----------------------------------------------------------------------------
(* What a GET has shown is in the decision history.                         *)

Dropping == {"drop_point", "drop_row", "drop_file"}

\* Ids are given out once, so a row that ingestion has not committed has never been
\* seen by a request; a deletion is of a row that has been there.
IdInv ==
    /\ Known \subseteq used /\ Known \cap ingesting = {}
    /\ \A r \in Requests : pc[r] \in Dropping => op[r].candidate \in Known

RecordInv == TypeInv /\ GhostInv /\ IdInv /\ AnswersRecorded

\* No step changes what a request asks; a request that goes on to delete has found
\* the row (candidates.py:74-78), and one that answers a GET with candidates has
\* inserted their matches (recommendations.py:100-114).
LEMMA RequestSteps ==
  ASSUME TypeInv, [Next]_vars
  PROVE  /\ op' = op
         /\ \A q \in Requests :
              /\ pc'[q] \in Dropping => pc[q] \in Dropping \/ op[q].candidate \in candidates
              /\ \/ op[q].kind # "get" \/ answer'[q] \subseteq answer[q]
                 \/ \E kept \in SUBSET Candidates : PersistMatches(q, kept)
  <1> DEFINE Kept(q) ==
               /\ pc'[q] \in Dropping => pc[q] \in Dropping \/ op[q].candidate \in candidates
               /\ \/ op[q].kind # "get" \/ answer'[q] \subseteq answer[q]
                  \/ \E kept \in SUBSET Candidates : PersistMatches(q, kept)
  <1> USE DEF TypeInv, TypeOK, Dropping, tables, stores, retrieval, judgement
  <1>1. ASSUME NEW c \in Candidates, IndexResume(c) \/ CommitResume(c) \/ RollbackResume(c)
        PROVE  op' = op /\ \A q \in Requests : Kept(q)
    BY <1>1 DEF IndexResume, CommitResume, RollbackResume
  <1>2. ASSUME NEW r \in Requests, NEW code, Answer(r, code, {}),
               pc' \in {[pc EXCEPT ![r] = "done"], [pc EXCEPT ![r] = "judge"]}, op' = op
        PROVE  op' = op /\ \A q \in Requests : Kept(q)
    BY <1>2 DEF Answer
  <1>3. ASSUME NEW r \in Requests, Retrieve(r) \/ Judge(r)
        PROVE  op' = op /\ \A q \in Requests : Kept(q)
    <2>1. CASE SessionBusy(r)
      BY <1>2, <2>1 DEF SessionBusy, Fail
    <2>2. CASE ~SessionBusy(r)
      <3>1. op' = op /\ answer' = answer
            /\ \E s \in RequestStates \ Dropping : pc' \in {pc, [pc EXCEPT ![r] = s]}
        BY <1>3, <2>2 DEF RequestStates, Retrieve, BeginGet, BeginPost, StartRetrieval,
           EmbedQuery, UpdateEmbedding, SearchPoints, SelectCorpus, TakeHits, FuseHits,
           Judge, LoadCandidates, CacheHit, CacheMiss, JudgeAnswers, EndJudging
      <3>2. QED
        BY <3>1
    <2>3. QED
      BY <2>1, <2>2
  <1>4. ASSUME NEW r \in Requests, NEW kept \in SUBSET Candidates, PersistFails(r, kept)
        PROVE  op' = op /\ \A q \in Requests : Kept(q)
    BY <1>2, <1>4 DEF PersistFails, Fail
  <1>5. ASSUME NEW r \in Requests, NEW kept \in SUBSET Candidates,
               PersistMatches(r, kept) \/ AnswerPost(r, kept)
        PROVE  op' = op /\ \A q \in Requests : Kept(q)
    <2>1. /\ op' = op /\ pc' = [pc EXCEPT ![r] = "done"]
          /\ answer' = [answer EXCEPT ![r] = kept]
          /\ op[r].kind # "get" \/ PersistMatches(r, kept)
      BY <1>5 DEF PersistMatches, AnswerPost, Answer
    <2>2. QED
      BY <2>1
  <1>6. ASSUME NEW r \in Requests,
               BeginDelete(r) \/ DeletePoint(r) \/ DeletePointFails(r) \/ CommitDelete(r)
        PROVE  op' = op /\ \A q \in Requests : Kept(q)
    <2>1. op' = op /\ answer' = answer
      BY <1>6 DEF BeginDelete, DeletePoint, DeletePointFails, CommitDelete
    <2>2. \A q \in Requests : pc'[q] \in Dropping
                                => pc[q] \in Dropping \/ op[q].candidate \in candidates
      BY <1>6 DEF BeginDelete, DeletePoint, DeletePointFails, CommitDelete, Found
    <2>3. QED
      BY <2>1, <2>2
  <1>7. ASSUME NEW r \in Requests, NotFound(r) \/ UnlinkFile(r) \/ CommitDeleteJob(r)
        PROVE  op' = op /\ \A q \in Requests : Kept(q)
    BY <1>2, <1>7 DEF NotFound, UnlinkFile, CommitDeleteJob
  <1>8. ASSUME NEW r \in Requests, Timeout(r) \/ CallRaises(r) \/ JudgeRaises(r)
        PROVE  op' = op /\ \A q \in Requests : Kept(q)
    BY <1>2, <1>8
    DEF Timeout, SessionTimeout, TaskTimeout, TaskFails, CallRaises, JudgeRaises, Fail
  <1>9. CASE UNCHANGED vars
    BY <1>9 DEF vars
  <1>10. QED
    BY <1>1, <1>3, <1>4, <1>5, <1>6, <1>7, <1>8, <1>9 DEF Next, Step, Reply, Delete

\* An id stays used once, and known once its row was committed
\* (candidates.py:103-119, pipeline.py:231-268).
LEMMA IdStep ==
  ASSUME TypeInv, IdInv, [Next]_vars
  PROVE  IdInv'
  <1>1. Known \subseteq Known' /\ op' = op
    BY KnownGrows, RequestSteps DEF TypeInv, TypeOK
  <1>2. \A q \in Requests : pc'[q] \in Dropping => op'[q].candidate \in Known'
    BY <1>1, RequestSteps DEF IdInv, Known
  <1>3. /\ Known' \subseteq Known \cup ingesting
        /\ Known' \subseteq Known \/ \E c \in Candidates : CommitResume(c)
    <2>1. ASSUME NEW r \in Requests, CommitDelete(r)
          PROVE  Known' \subseteq Known
      <3>1. op[r].candidate \in Known
        BY <2>1 DEF CommitDelete, IdInv, Dropping
      <3>2. QED
        BY <2>1, <3>1 DEF CommitDelete, Known
    <2>2. QED
      BY <2>1, TableSteps DEF Known, CommitResume, CommitDeleteJob, PersistMatches
  <1>4. \/ used' = used /\ ingesting' = ingesting /\ Known' \subseteq Known
        \/ \E c \in Candidates : IndexResume(c) \/ CommitResume(c) \/ RollbackResume(c)
    <2> USE DEF stores
    <2>1. ASSUME NEW r \in Requests, Step(r)
          PROVE  used' = used /\ ingesting' = ingesting
      BY <2>1 DEF Step, NotFound, Retrieve, BeginGet, BeginPost, StartRetrieval, EmbedQuery,
         UpdateEmbedding, SessionBusy, SearchPoints, SelectCorpus, TakeHits, FuseHits, Judge,
         LoadCandidates, CacheHit, CacheMiss, JudgeAnswers, EndJudging, Reply, PersistMatches,
         PersistFails, AnswerPost, Delete, BeginDelete, DeletePoint, CommitDelete, UnlinkFile,
         CommitDeleteJob, Fail
    <2>2. ASSUME NEW r \in Requests,
                 Timeout(r) \/ CallRaises(r) \/ JudgeRaises(r) \/ DeletePointFails(r)
          PROVE  used' = used /\ ingesting' = ingesting
      BY <2>2 DEF Timeout, SessionTimeout, TaskTimeout, TaskFails, CallRaises, JudgeRaises,
         DeletePointFails, Fail
    <2>3. QED
      BY <1>3, <2>1, <2>2 DEF Next, vars
  <1>5. Known' \subseteq used' /\ Known' \cap ingesting' = {}
    <2>1. CASE used' = used /\ ingesting' = ingesting /\ Known' \subseteq Known
      BY <2>1 DEF IdInv
    <2>2. ASSUME NEW c \in Candidates, IndexResume(c)
          PROVE  Known' \subseteq used' /\ Known' \cap ingesting' = {}
      <3>1. Known' = Known /\ c \notin used /\ used' = used \cup {c}
            /\ ingesting' = ingesting \cup {c}
        BY <2>2 DEF IndexResume, Known, tables
      <3>2. QED
        BY <3>1 DEF IdInv
    <2>3. ASSUME NEW c \in Candidates, CommitResume(c)
          PROVE  Known' \subseteq used' /\ Known' \cap ingesting' = {}
      <3>1. Known' = Known \cup {c} /\ c \in ingesting /\ used' = used
            /\ ingesting' = ingesting \ {c}
        BY <2>3 DEF CommitResume, Known
      <3>2. QED
        BY <3>1 DEF IdInv, TypeInv, TypeOK
    <2>4. ASSUME NEW c \in Candidates, RollbackResume(c)
          PROVE  Known' \subseteq used' /\ Known' \cap ingesting' = {}
      <3>1. Known' = Known /\ used' = used /\ ingesting' = ingesting \ {c}
        BY <2>4 DEF RollbackResume, Known, stores, tables
      <3>2. QED
        BY <3>1 DEF IdInv
    <2>5. QED
      BY <1>4, <2>1, <2>2, <2>3, <2>4
  <1>6. QED
    BY <1>2, <1>5 DEF IdInv

\* Rows only leave the decision history with their candidate or their job, and a row
\* that ingestion commits was in no answer before (recommendations.py:100-109,
\* db.py:81-86).
LEMMA RecordStep ==
  ASSUME RecordInv, [Next]_vars
  PROVE  AnswersRecorded'
  <1>1. op' = op
    BY RequestSteps DEF RecordInv
  <1>2. SUFFICES ASSUME NEW r \in Requests, NEW c \in answer'[r],
                        op[r].kind = "get", c \in candidates', op[r].job \in jobs'
                 PROVE  <<c, op[r].job>> \in matches'
    BY <1>1 DEF AnswersRecorded
  <1>3. ASSUME NEW kept \in SUBSET Candidates, PersistMatches(r, kept)
        PROVE  <<c, op[r].job>> \in matches'
    <2>1. answer'[r] = kept
      BY <1>3 DEF PersistMatches, Answer, RecordInv, TypeInv, TypeOK
    <2>2. QED
      BY <1>3, <2>1 DEF PersistMatches, MatchRows
  <1>4. ASSUME c \in answer[r]
        PROVE  <<c, op[r].job>> \in matches'
    <2>1. c \in Known
      BY <1>2, <1>4 DEF RecordInv, GhostInv, GhostsFiltered, Known
    <2>2. CASE UNCHANGED <<candidates, jobs, matches, audited>>
      BY <1>2, <1>4, <2>2 DEF RecordInv, AnswersRecorded
    <2>3. ASSUME NEW d \in Candidates, CommitResume(d)
          PROVE  <<c, op[r].job>> \in matches'
      <3>1. c # d
        BY <2>1, <2>3 DEF CommitResume, RecordInv, IdInv
      <3>2. c \in candidates /\ op[r].job \in jobs /\ matches' = matches
        BY <1>2, <2>3, <3>1 DEF CommitResume
      <3>3. QED
        BY <1>2, <1>4, <3>2 DEF RecordInv, AnswersRecorded
    <2>4. ASSUME NEW q \in Requests, CommitDelete(q) \/ CommitDeleteJob(q)
          PROVE  <<c, op[r].job>> \in matches'
      <3>1. c \in candidates /\ op[r].job \in jobs
        BY <1>2, <2>4 DEF CommitDelete, CommitDeleteJob
      <3>2. <<c, op[r].job>> \in matches
        BY <1>2, <1>4, <3>1 DEF RecordInv, AnswersRecorded
      <3>3. CASE CommitDelete(q)
        <4>1. matches' = matches \ MatchesOfCandidate(op[q].candidate) /\ c # op[q].candidate
          BY <1>2, <3>3 DEF CommitDelete
        <4>2. QED
          BY <3>2, <4>1 DEF MatchesOfCandidate
      <3>4. CASE CommitDeleteJob(q)
        <4>1. matches' = matches \ MatchesOfJob(op[q].job) /\ op[r].job # op[q].job
          BY <1>2, <3>4 DEF CommitDeleteJob
        <4>2. QED
          BY <3>2, <4>1 DEF MatchesOfJob
      <3>5. QED
        BY <2>4, <3>3, <3>4
    <2>5. ASSUME NEW q \in Requests, NEW kept \in SUBSET Candidates, PersistMatches(q, kept)
          PROVE  <<c, op[r].job>> \in matches'
      <3>1. candidates' = candidates /\ jobs' = jobs /\ matches \subseteq matches'
        BY <2>5 DEF PersistMatches
      <3>2. QED
        BY <1>2, <1>4, <3>1 DEF RecordInv, AnswersRecorded
    <2>6. QED
      BY <2>2, <2>3, <2>4, <2>5, TableSteps
  <1>5. answer'[r] \subseteq answer[r] \/ \E kept \in SUBSET Candidates : PersistMatches(r, kept)
    BY <1>2, RequestSteps DEF RecordInv
  <1>6. QED
    BY <1>2, <1>3, <1>4, <1>5

\* Whatever is deleted and ingested meanwhile, the decision history has what a GET
\* has shown, as long as its candidate and its job exist
\* (recommendations.py:100-109).
THEOREM ShownIsRecorded == Spec => []AnswersRecorded
  <1>1. Init => IdInv /\ AnswersRecorded
    BY DEF Init, IdInv, Known, Dropping, AnswersRecorded
  <1>2. RecordInv /\ [Next]_vars => RecordInv'
    BY TypeStep, GhostStep, IdStep, RecordStep DEF RecordInv
  <1>3. Init => RecordInv
    BY <1>1, TypeInit, GhostInit DEF RecordInv
  <1>4. RecordInv => AnswersRecorded
    BY DEF RecordInv
  <1>5. QED
    BY <1>2, <1>3, <1>4, PTL DEF Spec

=============================================================================
