------------------------------ MODULE Matching ------------------------------
(***************************************************************************)
(* The HTTP endpoints that recommend candidates and delete candidates and   *)
(* jobs (src/api, src/matching), over the tables they share, the Qdrant     *)
(* points, the resume files and the connection pool.                        *)
(*                                                                          *)
(* A request is one call of an endpoint.  It holds one connection for its   *)
(* own session from its first query to its end, and llm and hybrid take a   *)
(* second one for each candidate they judge.  A commit and the statements   *)
(* flushed with it are one step, since no other lock is taken between them; *)
(* the lock of an UPDATE of jobs.embedding_cached is held much longer and   *)
(* is modelled.  Ingestion appears as the environment that writes a point   *)
(* and then commits or rolls back the row.                                  *)
(***************************************************************************)
EXTENDS Naturals, FiniteSets

CONSTANTS
    Requests,    \* requests
    Candidates,  \* ids of candidates
    Jobs,        \* ids of jobs, all saved at the start
    Operations,  \* what a request may ask, out of AllOperations
    PoolSize,    \* connections of the pool, overflow included
    FailAt,      \* calls that may raise, out of Calls
    NoJob, NoCandidate

Methods == {"dense", "tfidf", "llm", "hybrid"}

AllOperations ==
    [kind : {"get"}, job : Jobs, method : Methods]
    \cup [kind : {"post"}, job : {NoJob}, method : Methods]
    \cup [kind : {"delete_candidate"}, candidate : Candidates]
    \cup [kind : {"delete_job"}, job : Jobs]

Calls == {"embed", "search", "judge", "qdrant", "commit", "unlink"}

ASSUME OperationsAssumption == Operations \subseteq AllOperations
ASSUME PoolAssumption == PoolSize \in Nat \ {0}
ASSUME FailAssumption == FailAt \subseteq Calls
ASSUME NoneAssumption == NoJob \notin Jobs /\ NoCandidate \notin Candidates

VARIABLES
    candidates,  \* rows of candidates
    jobs,        \* rows of jobs
    embedded,    \* jobs with embedding_cached
    matches,     \* rows of matches, as <<candidate, job>>
    cache,       \* rows of match_cache, as <<candidate, job>>
    audited,     \* candidates with a delete_candidate row in audit_log
    points,      \* Qdrant points
    files,       \* candidates whose resume file is on disk
    used,        \* candidate ids the sequence has given out
    ingesting,   \* ids of rows in open ingestion transactions
    op,          \* what each request asks
    pc, reply, answer, conns,
    denseLeg, sqlLeg,  \* the two retrievers of a request
    locked,      \* the request's transaction has updated its job's embedding
    hits, loaded, judging, results

tables == <<candidates, jobs, embedded, matches, cache, audited>>
stores == <<points, files, used, ingesting>>
retrieval == <<denseLeg, sqlLeg, hits>>
judgement == <<loaded, judging, results>>
vars == <<tables, stores, op, pc, reply, answer, conns, retrieval, locked, judgement>>

Init ==
    /\ candidates = {} /\ jobs = Jobs /\ embedded = {} /\ matches = {}
    /\ cache = {} /\ audited = {}
    /\ points = {} /\ files = {} /\ used = {} /\ ingesting = {}
    /\ op \in [Requests -> Operations]
    /\ pc = [r \in Requests |-> "begin"]
    /\ reply = [r \in Requests |-> "none"]
    /\ answer = [r \in Requests |-> {}]
    /\ conns = [r \in Requests |-> 0]
    /\ denseLeg = [r \in Requests |-> "done"]
    /\ sqlLeg = [r \in Requests |-> "done"]
    /\ locked = [r \in Requests |-> FALSE]
    /\ hits = [r \in Requests |-> {}]
    /\ loaded = [r \in Requests |-> {}]
    /\ judging = [r \in Requests |-> NoCandidate]
    /\ results = [r \in Requests |-> {}]

----------------------------------------------------------------------------
(* Ingestion, as far as requests can see it.                                *)

\* The file, the uncommitted row and its point.
IndexResume(c) ==
    /\ c \notin used
    /\ used' = used \cup {c}
    /\ files' = files \cup {c}
    /\ points' = points \cup {c}
    /\ ingesting' = ingesting \cup {c}
    /\ UNCHANGED <<tables, op, pc, reply, answer, conns, retrieval, locked, judgement>>

CommitResume(c) ==
    /\ c \in ingesting
    /\ ingesting' = ingesting \ {c}
    /\ candidates' = candidates \cup {c}
    /\ UNCHANGED <<jobs, embedded, matches, cache, audited, points, files, used, op, pc,
                   reply, answer, conns, retrieval, locked, judgement>>

\* The point and the file stay.
RollbackResume(c) ==
    /\ c \in ingesting
    /\ ingesting' = ingesting \ {c}
    /\ UNCHANGED <<tables, points, files, used, op, pc, reply, answer, conns, retrieval,
                   locked, judgement>>

----------------------------------------------------------------------------
(* The connection pool, and how a request ends.                             *)

Held == UNION {{r} \X (1..conns[r]) : r \in Requests}
FreeConnection == Cardinality(Held) < PoolSize

\* The request's session has its connection, or takes one now.
Connected(r) == conns[r] > 0 \/ FreeConnection
Connect(r) == conns' = [conns EXCEPT ![r] = IF @ = 0 THEN 1 ELSE @]

\* The response is out and the request's own session is closed.
Answer(r, code, found) ==
    /\ reply' = [reply EXCEPT ![r] = code]
    /\ answer' = [answer EXCEPT ![r] = found]
    /\ locked' = [locked EXCEPT ![r] = FALSE]
    /\ conns' = [conns EXCEPT ![r] = 0]

\* An exception leaves the endpoint: the transaction is rolled back.
Fail(r) ==
    /\ Answer(r, "error", {})
    /\ pc' = [pc EXCEPT ![r] = "done"]
    /\ UNCHANGED <<tables, stores, op, retrieval, judgement>>

\* The next statement of r needs the session's connection.
WantsSession(r) ==
    \/ pc[r] = "begin" /\ op[r].kind # "post"
    \/ pc[r] = "retrieve" /\ sqlLeg[r] = "select"
    \/ pc[r] = "load"

\* No connection came free within the pool's timeout.
SessionTimeout(r) ==
    /\ WantsSession(r)
    /\ ~Connected(r)
    /\ Fail(r)

----------------------------------------------------------------------------
(* get_recommendations and post_recommendations: retrieval                  *)

\* The row session.get looks for in the endpoints that have one.
Found(r) ==
    \/ op[r].kind \in {"get", "delete_job"} /\ op[r].job \in jobs
    \/ op[r].kind = "delete_candidate" /\ op[r].candidate \in candidates

NotFound(r) ==
    /\ pc[r] = "begin"
    /\ op[r].kind # "post"
    /\ Connected(r)
    /\ ~Found(r)
    /\ Answer(r, "not_found", {})
    /\ pc' = [pc EXCEPT ![r] = "done"]
    /\ UNCHANGED <<tables, stores, op, retrieval, judgement>>

\* find_candidates starts the retrievers of its method.
StartRetrieval(r) ==
    /\ pc' = [pc EXCEPT ![r] = "retrieve"]
    /\ denseLeg' = [denseLeg EXCEPT ![r] =
          IF op[r].method = "tfidf" THEN "done"
          ELSE IF op[r].job \in embedded THEN "search" ELSE "embed"]
    /\ sqlLeg' = [sqlLeg EXCEPT ![r] =
          IF op[r].method \in {"tfidf", "hybrid"} THEN "select" ELSE "done"]
    /\ UNCHANGED <<tables, stores, op, reply, answer, hits, locked, judgement>>

BeginGet(r) ==
    /\ pc[r] = "begin"
    /\ op[r].kind = "get"
    /\ Connected(r)
    /\ Found(r)
    /\ Connect(r)
    /\ StartRetrieval(r)

\* A text that is not saved: no row to read.
BeginPost(r) ==
    /\ pc[r] = "begin"
    /\ op[r].kind = "post"
    /\ StartRetrieval(r)
    /\ UNCHANGED conns

\* embedder.embed_query
EmbedQuery(r) ==
    /\ pc[r] = "retrieve"
    /\ denseLeg[r] = "embed"
    /\ denseLeg' = [denseLeg EXCEPT ![r] = IF op[r].kind = "get" THEN "update" ELSE "search"]
    /\ UNCHANGED <<tables, stores, op, pc, reply, answer, conns, sqlLeg, hits, locked,
                   judgement>>

\* UPDATE jobs SET embedding_cached: no row if the job is gone, and another
\* transaction that has updated it must end first.
UpdateEmbedding(r) ==
    /\ pc[r] = "retrieve"
    /\ denseLeg[r] = "update"
    /\ sqlLeg[r] = "done"
    /\ \A q \in Requests \ {r} : locked[q] => op[q].job # op[r].job
    /\ locked' = [locked EXCEPT ![r] = op[r].job \in jobs]
    /\ denseLeg' = [denseLeg EXCEPT ![r] = "search"]
    /\ UNCHANGED <<tables, stores, op, pc, reply, answer, conns, sqlLeg, hits, judgement>>

\* hybrid: both retrievers use one AsyncSession, and the SELECT of the other is
\* still running on its connection.
SessionBusy(r) ==
    /\ pc[r] = "retrieve"
    /\ denseLeg[r] = "update"
    /\ sqlLeg[r] = "select"
    /\ Fail(r)

\* qdrant_store.search_resumes
SearchPoints(r) ==
    /\ pc[r] = "retrieve"
    /\ denseLeg[r] = "search"
    /\ denseLeg' = [denseLeg EXCEPT ![r] = "done"]
    /\ hits' = [hits EXCEPT ![r] = @ \cup points]
    /\ UNCHANGED <<tables, stores, op, pc, reply, answer, conns, sqlLeg, locked, judgement>>

\* The SELECT of the TF-IDF corpus.
SelectCorpus(r) ==
    /\ pc[r] = "retrieve"
    /\ sqlLeg[r] = "select"
    /\ Connected(r)
    /\ Connect(r)
    /\ sqlLeg' = [sqlLeg EXCEPT ![r] = "done"]
    /\ hits' = [hits EXCEPT ![r] = @ \cup candidates]
    /\ UNCHANGED <<tables, stores, op, pc, reply, answer, denseLeg, locked, judgement>>

Retrieved(r) == pc[r] = "retrieve" /\ denseLeg[r] = "done" /\ sqlLeg[r] = "done"

\* dense and tfidf: a synthetic result for every hit.
TakeHits(r) ==
    /\ Retrieved(r)
    /\ op[r].method \in {"dense", "tfidf"}
    /\ results' = [results EXCEPT ![r] = hits[r]]
    /\ pc' = [pc EXCEPT ![r] = "persist"]
    /\ UNCHANGED <<tables, stores, op, reply, answer, conns, retrieval, locked, loaded,
                   judging>>

----------------------------------------------------------------------------
(* _judge_candidates and judge_with_cache                                   *)

FuseHits(r) ==
    /\ Retrieved(r)
    /\ op[r].method \in {"llm", "hybrid"}
    /\ pc' = [pc EXCEPT ![r] = IF hits[r] = {} THEN "persist" ELSE "load"]
    /\ UNCHANGED <<tables, stores, op, reply, answer, conns, retrieval, locked, judgement>>

HitsUnchecked(r) == hits[r]   \* mutant: judge whatever was found
HitsWithRow(r) == hits[r] \cap candidates

\* SELECT ... WHERE id IN hits: a point without a row drops out here.
LoadCandidates(r) ==
    /\ pc[r] = "load"
    /\ Connected(r)
    /\ Connect(r)
    /\ loaded' = [loaded EXCEPT ![r] = HitsWithRow(r)]
    /\ pc' = [pc EXCEPT ![r] = "judge"]
    /\ UNCHANGED <<tables, stores, op, reply, answer, retrieval, locked, judging, results>>

\* The task of c has its turn at the semaphore and finds its answer cached.
CacheHit(r, c) ==
    /\ pc[r] = "judge"
    /\ c \in loaded[r]
    /\ FreeConnection
    /\ <<c, op[r].job>> \in cache
    /\ loaded' = [loaded EXCEPT ![r] = @ \ {c}]
    /\ results' = [results EXCEPT ![r] = @ \cup {c}]
    /\ UNCHANGED <<tables, stores, op, pc, reply, answer, conns, retrieval, locked, judging>>

\* Not cached, or expired: the judge is called with the connection held.
CacheMiss(r, c) ==
    /\ pc[r] = "judge"
    /\ c \in loaded[r]
    /\ FreeConnection
    /\ conns' = [conns EXCEPT ![r] = @ + 1]
    /\ loaded' = [loaded EXCEPT ![r] = @ \ {c}]
    /\ judging' = [judging EXCEPT ![r] = c]
    /\ pc' = [pc EXCEPT ![r] = "judging"]
    /\ UNCHANGED <<tables, stores, op, reply, answer, retrieval, locked, results>>

SessionKept(r) == conns[r]   \* mutant: the session of a task is not closed
SessionClosed(r) == conns[r] - 1

\* The upsert of the judgement and the commit of its session.
JudgeAnswers(r) ==
    /\ pc[r] = "judging"
    /\ cache' = cache \cup {<<judging[r], op[r].job>>}
    /\ results' = [results EXCEPT ![r] = @ \cup {judging[r]}]
    /\ judging' = [judging EXCEPT ![r] = NoCandidate]
    /\ conns' = [conns EXCEPT ![r] = SessionClosed(r)]
    /\ pc' = [pc EXCEPT ![r] = "judge"]
    /\ UNCHANGED <<candidates, jobs, embedded, matches, audited, stores, op, reply, answer,
                   retrieval, locked, loaded>>

\* gather raises the first exception at once and does not cancel the other
\* tasks: the request has failed, and they go on without its session.
TaskFails(r) ==
    /\ Answer(r, "error", {})
    /\ judging' = [judging EXCEPT ![r] = NoCandidate]
    /\ pc' = [pc EXCEPT ![r] = "judge"]
    /\ UNCHANGED <<tables, stores, op, retrieval, results>>

JudgeRaises(r) ==
    /\ "judge" \in FailAt
    /\ pc[r] = "judging"
    /\ TaskFails(r)
    /\ UNCHANGED loaded

\* A task waits for its connection until the pool's timeout.
TaskTimeout(r, c) ==
    /\ pc[r] = "judge"
    /\ c \in loaded[r]
    /\ ~FreeConnection
    /\ loaded' = [loaded EXCEPT ![r] = @ \ {c}]
    /\ TaskFails(r)

\* All tasks are done.
EndJudging(r) ==
    /\ pc[r] = "judge"
    /\ loaded[r] = {}
    /\ pc' = [pc EXCEPT ![r] = IF reply[r] = "none" THEN "persist" ELSE "done"]
    /\ UNCHANGED <<tables, stores, op, reply, answer, conns, retrieval, locked, judgement>>

----------------------------------------------------------------------------
(* The answer: results above min_score, persisted for a saved job           *)

NoForeignKeys(r, kept) == TRUE   \* mutant

\* The foreign keys of matches.
RefersToRows(r, kept) == kept = {} \/ (kept \subseteq candidates /\ op[r].job \in jobs)

JudgedRows(r, kept) ==   \* mutant: only what the judge has seen is recorded
    IF op[r].method \in {"llm", "hybrid"} THEN kept \X {op[r].job} ELSE {}
MatchRows(r, kept) == kept \X {op[r].job}

PersistMatches(r, kept) ==
    /\ pc[r] = "persist"
    /\ op[r].kind = "get"
    /\ kept \subseteq results[r]
    /\ RefersToRows(r, kept)
    /\ matches' = matches \cup MatchRows(r, kept)
    /\ embedded' = IF locked[r] THEN embedded \cup {op[r].job} ELSE embedded
    /\ Answer(r, "ok", kept)
    /\ pc' = [pc EXCEPT ![r] = "done"]
    /\ UNCHANGED <<candidates, jobs, cache, audited, stores, op, retrieval, judgement>>

\* A candidate or the job is gone: the INSERT breaks a foreign key.
PersistFails(r, kept) ==
    /\ pc[r] = "persist"
    /\ op[r].kind = "get"
    /\ kept \subseteq results[r]
    /\ ~RefersToRows(r, kept)
    /\ Fail(r)

AnswerPost(r, kept) ==
    /\ pc[r] = "persist"
    /\ op[r].kind = "post"
    /\ kept \subseteq results[r]
    /\ Answer(r, "ok", kept)
    /\ pc' = [pc EXCEPT ![r] = "done"]
    /\ UNCHANGED <<tables, stores, op, retrieval, judgement>>

----------------------------------------------------------------------------
(* delete_candidate and delete_job                                          *)

BeginDelete(r) ==
    /\ pc[r] = "begin"
    /\ op[r].kind \in {"delete_candidate", "delete_job"}
    /\ Connected(r)
    /\ Found(r)
    /\ Connect(r)
    /\ pc' = [pc EXCEPT ![r] = IF op[r].kind = "delete_job" THEN "drop_job" ELSE "drop_point"]
    /\ UNCHANGED <<tables, stores, op, reply, answer, retrieval, locked, judgement>>

\* qdrant_store.delete_resume, best effort: an error is logged.
DeletePoint(r) ==
    /\ pc[r] = "drop_point"
    /\ points' = points \ {op[r].candidate}
    /\ pc' = [pc EXCEPT ![r] = "drop_row"]
    /\ UNCHANGED <<tables, files, used, ingesting, op, reply, answer, conns, retrieval,
                   locked, judgement>>

DeletePointFails(r) ==
    /\ "qdrant" \in FailAt
    /\ pc[r] = "drop_point"
    /\ pc' = [pc EXCEPT ![r] = "drop_row"]
    /\ UNCHANGED <<tables, stores, op, reply, answer, conns, retrieval, locked, judgement>>

\* matches.candidate_id and matches.job_id are ON DELETE CASCADE.
MatchesOfCandidate(c) == {m \in matches : m[1] = c}
MatchesOfJob(j) == {m \in matches : m[2] = j}

\* DELETE, audit row and commit; a row that another request has deleted since
\* session.get is no error.  match_cache is left alone.
CommitDelete(r) ==
    LET c == op[r].candidate
    IN  /\ pc[r] = "drop_row"
        /\ candidates' = candidates \ {c}
        /\ matches' = matches \ MatchesOfCandidate(c)
        /\ audited' = audited \cup {c}
        /\ pc' = [pc EXCEPT ![r] = "drop_file"]
        /\ UNCHANGED <<jobs, embedded, cache, stores, op, reply, answer, conns, retrieval,
                       locked, judgement>>

\* Path(file_path).unlink after the commit, best effort.
UnlinkFile(r) ==
    /\ pc[r] = "drop_file"
    /\ \/ files' = files \ {op[r].candidate}
       \/ "unlink" \in FailAt /\ UNCHANGED files
    /\ Answer(r, "ok", {})
    /\ pc' = [pc EXCEPT ![r] = "done"]
    /\ UNCHANGED <<tables, points, used, ingesting, op, retrieval, judgement>>

\* The DELETE waits for the transactions that have updated the job's row.
CommitDeleteJob(r) ==
    LET j == op[r].job
    IN  /\ pc[r] = "drop_job"
        /\ \A q \in Requests : locked[q] => op[q].job # j
        /\ jobs' = jobs \ {j}
        /\ embedded' = embedded \ {j}
        /\ matches' = matches \ MatchesOfJob(j)
        /\ Answer(r, "ok", {})
        /\ pc' = [pc EXCEPT ![r] = "done"]
        /\ UNCHANGED <<candidates, cache, audited, stores, op, retrieval, judgement>>

----------------------------------------------------------------------------
\* Embedder, Qdrant search or commit raises.
CallRaises(r) ==
    /\ \/ pc[r] = "retrieve" /\ denseLeg[r] \in FailAt
       \/ pc[r] \in {"persist", "drop_row", "drop_job"} /\ "commit" \in FailAt
    /\ Fail(r)

Retrieve(r) ==
    \/ BeginGet(r) \/ BeginPost(r)
    \/ EmbedQuery(r) \/ UpdateEmbedding(r) \/ SessionBusy(r) \/ SearchPoints(r)
    \/ SelectCorpus(r) \/ TakeHits(r) \/ FuseHits(r)

Judge(r) ==
    \/ LoadCandidates(r)
    \/ \E c \in Candidates : CacheHit(r, c) \/ CacheMiss(r, c)
    \/ JudgeAnswers(r) \/ EndJudging(r)

Reply(r) ==
    \E kept \in SUBSET Candidates :
        PersistMatches(r, kept) \/ PersistFails(r, kept) \/ AnswerPost(r, kept)

Delete(r) ==
    \/ BeginDelete(r) \/ DeletePoint(r) \/ CommitDelete(r) \/ UnlinkFile(r)
    \/ CommitDeleteJob(r)

SessionTimeoutOnly(r) == SessionTimeout(r)   \* mutant
Timeout(r) == SessionTimeout(r) \/ \E c \in Candidates : TaskTimeout(r, c)

\* What a request does when no call raises.
Step(r) == NotFound(r) \/ Retrieve(r) \/ Judge(r) \/ Reply(r) \/ Delete(r)

Next ==
    \/ \E c \in Candidates : IndexResume(c) \/ CommitResume(c) \/ RollbackResume(c)
    \/ \E r \in Requests :
         Step(r) \/ Timeout(r) \/ CallRaises(r) \/ JudgeRaises(r) \/ DeletePointFails(r)

\* A request keeps running (Postgres serves waiters in order, and a pool
\* connection is waited for until the timeout).
Fairness == \A r \in Requests : WF_vars(Step(r) \/ Timeout(r))

Spec == Init /\ [][Next]_vars /\ Fairness

=============================================================================
