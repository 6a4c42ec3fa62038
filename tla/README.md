# TLA+ models of the recruiting agent

The agent reads resumes from a mailbox, stores each one as a candidate (Postgres
row, Qdrant point, file on disk) and recommends candidates for a job. These
modules model that program from its source, check it with TLC on small
instances, and prove the most important results with TLAPS for every instance.

- [Inventory](#inventory)
- [Modules](#modules)
- [The model of ingestion and the code](#the-model-of-ingestion-and-the-code)
- [The model of matching and the code](#the-model-of-matching-and-the-code)
- [The other models and the code](#the-other-models-and-the-code)
- [Runs](#runs)
- [Proofs](#proofs)
- [Not modelled](#not-modelled)
- [Plan](#plan)

Paths are relative to the Python package (`src/`) of the repository.

## Inventory

| Component | State | Operations | Interacts with |
|---|---|---|---|
| **Ingestion pipeline** `ingestion/pipeline.py`, `ingestion/base.py` | the local variables of each running `poll_and_process`; one open transaction per mail | `poll_and_process`, `process_email`, `record_quarantine`, `upsert_processed`, `record_failure` | mail source, disk, parser, Postgres, embedder, Qdrant |
| **Mail sources** `ingestion/imap_source.py`, `folder_source.py` | unseen mails, files of `inbox_dir` (outside the program) | `poll_once`: list, never consume | ingestion |
| **Database** `db.py` | `candidates`, `jobs`, `matches`, `processed_emails`, `quarantine`, `dead_letter_emails`, `audit_log`, `match_cache`; connection pool | sessions; READ COMMITTED; unique keys, foreign keys with CASCADE | everything |
| **Vector store** `matching/qdrant_store.py` | one point per candidate id | upsert, search, delete | ingestion, deletion, dense retrieval |
| **Resume parsing** `parsing/` | none (singletons of clients) | `parse_resume`: extract, length, language, injection, LLM extraction | ingestion |
| **Tick, sync-mail, lifespan** `workers/ingestion_tick.py`, `api/sync_mail.py`, `main.py` | the scheduler's job, at most one running tick | start a poll; stop the process | ingestion |
| **Candidates API** `api/candidates.py` | none of its own | list, delete (Qdrant, quarantine, row, audit, file), download | Postgres, Qdrant, disk |
| **Recommendations** `api/recommendations.py`, `matching/pipeline.py`, `dense.py`, `tfidf_retriever.py`, `embedding.py` | `jobs.embedding_cached`, `matches` | retrieve, fuse, judge in sessions of their own, filter, sort, persist | Postgres pool, Qdrant, judge |
| **Judge and cache** `matching/llm_judge.py` | `match_cache` | look up, judge, upsert with a new expiry | Postgres, OpenAI |
| **Fusion, filter** `matching/rrf.py`, `anti_hallucination.py` | none | pure functions | recommendations |
| **Jobs** `api/jobs.py`, `workers/job_seeder.py` | `jobs` | create, delete with CASCADE, seed at start-up | recommendations |
| **Evaluation** `eval/` | indexes and results of one run; the report's files | resolve labels, run every method on every job, metrics, percentile, write | jobs, candidates, recommendations |
| **Streamlit UI** `ui/streamlit_app.py` | widgets and markers of each session; a cache all sessions share | rerun, upload, save, delete | HTTP API |
| **PII masking** `utils/pii.py` | none | pure functions | ingestion, parsing |
| **Health, errors, schemas, configuration, retention stub** | none of their own | | HTTP |

What is hard here:

- *Concurrency.* Everything runs in one asyncio process and interleaves at every
  `await`. The scheduler runs one tick at a time, but `POST /sync-mail` calls
  the same function beside it, and the check whether a mail is settled locks
  nothing. Transactions of two polls meet on unique keys and can wait for each
  other in a cycle.
- *Partial failure.* A candidate is a file, a row and a point; only the row is
  transactional. Each of them can fail after the others have happened.
- *Crash and retry.* A mail is retried by being listed again; the journal
  decides when to stop. Recording a failure can itself fail, and a commit can
  succeed and be reported as failed.
- *Stale reads.* Judging takes minutes between the retrieval of candidates and
  the rows that refer to them; caches have keys that do not hold everything
  their value depends on; the page acts on a list that is up to 30 seconds old.
- *Retries.* The extractor and the judge call a provider again after errors, while
  the process may restart with other settings.
- *Names for rows.* The seeder, the evaluation and the page find rows by title or
  file name, which are not unique, while ids come from a sequence.

What makes each part correct, and the lines where it could go wrong, is listed
under `hazards` in `PROJECT.json`, with the properties that cover each.

## Modules

| Module | What it is |
|---|---|
| `Ingestion` | the ingestion pipeline, its mail source, its tables, files and points |
| `IngestionProperties` | its type invariant, safety invariants, action and liveness properties |
| `EmailLifecycle` | abstract specification of `processed_emails`: what the journal promises |
| `MCIngestion` | inboxes and constants for TLC |
| `IngestionProofs` | theorems about `Ingestion` and their proofs |
| `Matching` | the endpoints that recommend and delete, over tables, points, files and the connection pool |
| `MatchingProperties` | its type invariant, safety and liveness properties |
| `MCMatching` | operations and symmetry for TLC |
| `MatchingProofs` | theorems about `Matching` and their proofs |
| `Deletion` | composition: deletion and download of candidates over the state of `Ingestion`; `MCDeletion`, `DeletionProofs` |
| `ParseContract` | abstract specification of `parse_resume`: one verdict per file, one its content deserves |
| `Parsing` | `parse_resume` step by step; refines `ParseContract` |
| `Judging` | composition: judge tasks and `match_cache` over the resumes of `Parsing`; `MCScreening`, `ScreeningProofs` |
| `Jobs` | the jobs table, its endpoints, the seeder and the start of the process; `JobsProofs` |
| `Ranking` | `rrf_merge`, the metrics and the percentile as operators |
| `RankingProperties` | what they promise, over every bounded input |
| `RankingProofs` | theorems about `Ranking`, for inputs of any length, and their proofs |
| `Evaluation` | composition: the evaluation over `Jobs` and `Ranking`; `MCCatalog`, `EvaluationProofs` |
| `Dashboard` | composition: the page's sessions over `Jobs`; `MCDashboard`, `DashboardProofs` |

`Matching` sees ingestion only through what it writes: a file and a point, then a
committed or rolled-back row (`IndexResume`, `CommitResume`, `RollbackResume`).
That a committed row always has its point when it appears is `CandidatesIndexed`,
proved of `Ingestion`.

## The model of ingestion and the code

A *poller* is one call of `poll_and_process`: a tick, or one `POST /sync-mail`.
`Ticks` are the pollers the scheduler starts again and again; the others may run
or not. Each poller is a little program with a program counter:

| `pc` | next statement | actions |
|---|---|---|
| `idle` | `source.poll_once()` | `StartPoll` |
| `loop` | `is_terminal(...)` of the next mail, or the end of the loop | `SkipEmail`, `TakeEmail`, `CheckRaises`, `EndPoll` |
| `attachment` | the checks on attachment `att`, or the end of the attachments | `RejectAttachment`, `SaveAttachment`, `MarkProcessed` |
| `parse` | `parse_resume` | `ParseSucceeds`, `ParseFails` |
| `quarantine` | `record_quarantine` of a parse failure | `QuarantineAttachment` |
| `insert` | `INSERT INTO candidates ... ON CONFLICT DO NOTHING RETURNING id` | `InsertCandidate`, `SkipDuplicate` |
| `embed` | `embed_passage`, `upsert_resume` | `UpsertResume` |
| `commit` | `session.commit()` | `Commit`, `CommitRaises` |
| `failure` | `record_failure` in a new session | `RecordFailure`, `RecordRaises` |

At every `await` the poller may also `Raise` and roll back; Postgres may abort it
(`DeadlockAbort`); the process may `Crash` and take all pollers with it.

Choices of abstraction:

- *Transactions.* What an open transaction has written is in `txCandidates`,
  `txRows` and `txStatus`. `Commit` applies it in one step; a rollback or a crash
  forgets it. Ids come from a sequence and are not given back. A statement on a
  key that another open transaction has written is disabled (`WaitsFor`) until
  that transaction ends, as `INSERT ... ON CONFLICT` does; a cycle of waits is
  broken by aborting one of its members. `is_terminal` reads committed rows and
  waits for nothing.
- *record_failure* is one step: its first statement takes the lock of the row,
  and nothing else can be seen of it until its commit. That step has to wait like
  every other statement on the row.
- *Files and points* are written at once and stay. `write_bytes` truncates before
  it writes, so an error or a crash at that statement may leave a file cut short
  (`NoFile`).
- *Attachments* have a name, one of four kinds (foreign extension, too large,
  unreadable, resume) and a text, identified with its `content_hash`. A readable
  resume may still fail to parse, because the LLM extractor may fail.
- *Directories.* `SafeId` gives the directory of a message; it need not be
  injective, since `_safe_id` is not. The runs take it to be injective.
- *The journal* keeps `absent` for a mail that has no row. `upsert_processed`
  leaves `attempts` as it is; a row it inserts has 0 attempts, as an absent one.
- The order of the mails in one poll is left open; the code takes the source's
  order, one of those the model allows.
- Bounds: `MaxOutages` limits failures of the infrastructure that `attempts` does
  not bound (crashes, failed checks, failed `record_failure`, lost
  acknowledgements). Errors at the awaits (`RaiseAt`) need no bound: each costs
  an attempt. `nextId` is bounded through them.

`mailbox` never shrinks: IMAP is read with `mark_seen=False` and only unseen
mails are listed, so a mail that a person opens before it is settled is no longer
listed. The liveness below is about mails that stay listed.

## The model of matching and the code

A request is one call of an endpoint: `GET` or `POST /recommendations`, or the
deletion of a candidate or of a job. `op` says which; it is chosen in the
initial state, so a run covers all combinations of its operations.

| `pc` | next | actions |
|---|---|---|
| `begin` | `session.get` of the row, or nothing for `POST` | `BeginGet`, `BeginPost`, `BeginDelete`, `NotFound` |
| `retrieve` | the retrievers of the method: `denseLeg` (embed, update, search) and `sqlLeg` (select), together for `hybrid` | `EmbedQuery`, `UpdateEmbedding`, `SessionBusy`, `SearchPoints`, `SelectCorpus`, `TakeHits`, `FuseHits` |
| `load` | `SELECT ... WHERE id IN` the hits | `LoadCandidates` |
| `judge` | the next task at the semaphore | `CacheHit`, `CacheMiss`, `TaskTimeout`, `EndJudging` |
| `judging` | the judge's answer, the upsert of the cache, the commit of the task's session | `JudgeAnswers`, `JudgeRaises` |
| `persist` | filter, matches, commit, response | `PersistMatches`, `PersistFails`, `AnswerPost` |
| `drop_point`, `drop_row`, `drop_file` | the three stages of `delete_candidate` | `DeletePoint`, `DeletePointFails`, `CommitDelete`, `UnlinkFile` |
| `drop_job` | `delete_job` | `CommitDeleteJob` |

Choices of abstraction:

- *Connections.* `conns` counts those a request holds: one from its first query to
  its end, a second one while it judges. A request that finds the pool empty waits
  or times out (`SessionTimeout`, `TaskTimeout`).
- *gather* raises the first failure and leaves the other tasks running: after
  `TaskFails` the request has its error answer and its session is closed, while the
  tasks that are left go on judging, caching and taking connections.
- *Locks.* `UpdateEmbedding` locks the job's row until the request commits, minutes
  later, so it is modelled (`locked`). A commit and the statements flushed with it
  are one step: between them a transaction takes no lock that another holds while
  it waits.
- `hybrid` runs both retrievers on one `AsyncSession`; an `UPDATE` that meets the
  `SELECT` of the other fails (`SessionBusy`).
- *Scores* are left out: which results are above `min_score` and within `top_k` is
  any subset. Qdrant returns every point.
- *The cache* holds pairs of a candidate and a job; an entry may count as expired
  whenever it is looked up, and nothing removes it. `POST` texts share the entry
  `NoJob`.
- `DELETE` of quarantine rows is in `Deletion`.

## The other models and the code

**`Deletion`** adds to `Ingestion` the requests of `api/candidates.py`. A request
loads its row without a lock and then takes one step per call: `DeletePoint`
(Qdrant, errors logged), `DeleteReviews` (`DELETE FROM quarantine`, which waits for
another request that has deleted the same rows: `Locked`), `CommitDelete` or
`CommitFails`, `UnlinkFile`; a download writes its audit entry (`AuditDownload`)
and opens the file afterwards (`ServeFile`), when it may be gone. Requests die with
the process (`CrashAll`). A 404 changes nothing and is left out. `audit` is a set:
a second entry for the same row, which two overlapping deletions write, is not
counted.

**`Parsing`** follows a file through `parse_resume`: `ExtractText` cuts it at
`MAX_TEXT_CHARS`; `RefuseShort`, `DetectLanguage` (English when langdetect gives
none), `DetectInjection` with its three layers, then the mock, or an LLM that is
called up to `ExtractAttempts` times. Texts are a length and marks at positions:
what a regular expression matches is the mark's layer, and where it ends decides
whether the cut and the scan limit reach it. `Record` stands for the mail's commit;
before it a restart parses the file again (`RestartParsing`), perhaps under other
settings. The real limits (30000, 200, 1500, 8000 characters) are used as they are.

**`Judging`** has one action per stage of `judge_with_cache`: lookup, `CacheHit` or
`CacheMiss`, mock or real judge with retries, `WriteCache` (upsert and commit),
and `Verify` on the way out, for hits too. `Key` has what `_cache_key` hashes; a
hash is taken to be injective. Times are hours; the clock ticks at any moment. A
task here is alone in its request: `Matching` has the queue, the sessions and the
pool.

**`Jobs`** has one action per statement of the seeder (`SkipBroken`,
`SkipPresent`, `InsertSeed`, `CommitSeed`, `SeedingFails`), of `create_job`
(`InsertJob` takes an id from the sequence, `CommitCreate`, then `refresh`, which
raises if the row has gone: `Vanished`) and of `delete_job`. The API serves only
after seeding. A row's text is known by the seed file it comes from. `list_jobs`
is `Fetch` of `Dashboard`; its limit of 200 is out of reach of the bounds.

**`Evaluation`** reads candidates and jobs in three `SELECT`s of one READ COMMITTED
session, so rows come and go between them. A dict built from rows keeps any one of
the rows of a key (`IndexOf`), because the order of the rows is not given. The
names of files in labels are unique per file. Results of `find_candidates` do not
matter to what the report covers.

**`Ranking`** writes the functions as Python computes them: scores accumulated
ranking by ranking, a stable sort over the order of insertion, `round` to even.
Fractions are integers over a common denominator, labels are halves, and discounts
have four decimal digits, which is enough to tell positions apart. `sorted` is
`Sorted`: the i-th value is the one that i - 1 others precede.

**`Dashboard`** runs the script of `streamlit_app.py` from top to bottom for each
session: the search tab's `fetch_jobs`, the upload and its marker, the form, the
list tab's `fetch_jobs`, its select box and the delete button. What Streamlit does
around it is external: a click starts a run and interrupts the one before, unless
that is inside a request; a select box keeps its value while its options stay the
same and falls back to the first one otherwise; a button is pressed during one run
only; `cache_data` stores the answer of a call even if `clear` came in between.
Widgets of text are left out, and `st.rerun` drops the click.

## Runs

| Run | Instance | Shows |
|---|---|---|
| `one_poller` | ticks only; two mails, one with a duplicate text, a rejected and an unreadable attachment; errors at every await; one crash or failed `record_failure` | `TypeOK`, `NoResumeLost`, `NothingStranded`, `ReviewedOnce`, `ImplementsLifecycle`, `EventuallySettled` hold |
| `two_pollers` | two overlapping polls of one mail with two texts; errors at every await; one outage of any of the four kinds; pollers symmetric | `NoResumeLost`, `NothingStranded`, `UniqueContent`, `CandidatesIndexed`, `AttemptsBounded` hold |
| `settle` | a tick and one `sync-mail`; failing commits; one crash or failed `record_failure` | `EventuallySettled` holds, lock cycles included |
| `rejected_first` | one poller; the first attachment has a foreign extension | `EveryAttachmentHandled` is violated |
| `meeting` | two requests of any kind, two candidates being ingested, one job; every call may raise; a pool of three | `TypeOK`, `MatchesRefer`, `AnswersRecorded`, `GhostsFiltered` hold |
| `waiting` | three requests (tfidf, llm, a `POST`, deletions of the job), one candidate, a pool of three; the judge may raise | `EventuallyAnswered` holds |
| `forgotten` | a deletion and a recommendation by llm; nothing fails | `Forgotten` is violated |
| `deletion` | one poller, a mail with a resume and an unreadable attachment, a second one with the same text; two requests of any kind, repeated without bound, all their calls may fail; failing commits of the poll; one crash | `RequestsTypeOK`, `DeletedStaysDeleted`, `LostOnlyByDeletion`, `FilesIntact`, `DownloadsAudited`, `ReviewsGoWithCandidate` hold |
| `screening` | two files, at every boundary of the rules or one of them a candidate already; two judge tasks, two jobs with one text; mock settings, real ones, and real ones without a key; two attempts; a time to live of one hour and a clock of one; one restart | `ParsingTypeOK`, `OnlyScreenedSent`, `JudgingTypeOK`, `AnswersTheQuestion`, `InventionsFlagged`, `HitsAreFresh`, `KeepsContract`, `TasksEnd` hold |
| `catalog` | three seed files, two with one title, one of which may be broken; two starts; one client; two candidates of one name; two methods; four documents to rank, percentiles of up to 60 samples | `JobsTypeOK`, `SeedsInOrder`, `LabelsSound`, `ReportComplete`, `FusionSound`, `MetricsSound`, `PercentileNear` hold |
| `dashboard` | two sessions, one of two clicks on an open page and one of a single click; two ids, one document whose parsing may fail, a crash and restart of the server | `ToldTrue`, `RunsEnd` hold |
| `wrong_row` | as `dashboard` | `DeletesTheShown` is violated |

Why the bounds are enough. In ingestion, two texts and two attachments give a
duplicate and transactions that lock two keys in both orders; two mails a
duplicate across mails; two pollers every race on a row; `MaxAttempts = 2` a
first, a last and, with a second poller, an attempt beyond the last. In matching,
two requests are enough for a deletion to fall between the retrieval and the commit
of a recommendation, and two candidates for one of them to be gone while the other
is judged; three requests that hold one connection each exhaust a pool of three, as
fifteen do the default one. In `deletion`, two requests are two deletions of one
candidate, a deletion and a download, or deletions of two candidates of one text,
and one attempt takes a mail to `dead_letter`. In `screening`, two tasks share a
key, one of them after it has expired, and the restart falls everywhere. In
`catalog`, a title used twice, deleted jobs and a second start make every
collision of names. In `dashboard`, two ids are a vacancy and the one that takes its
place; two sessions are enough for each to change the list and the cache of the
other.

`CHECK_DEADLOCK FALSE` is set where a run may really be over: requests of
`meeting`, `waiting` and `forgotten` end, tasks of `screening` end and its clock
and restarts are bounded, clicks of `dashboard` and `wrong_row` are bounded.

The properties of `IngestionProperties`:

- `NoResumeLost`: a final status is a promise that nothing of the mail needs
  another look, because `is_terminal` never gives it one. `ingested` means every
  text is in `candidates`; `quarantined` that every attachment up to the first
  rejected one is in `candidates` or in `quarantine`. It holds however polls
  overlap, although the poller that set the status may not be the one that stored
  the text.
- `NothingStranded`: a status that sends a mail to a person comes with the row
  the person looks at, and no mail is left in `failed` once its attempts are used
  up, whichever poller used the last one. It needs the comparison in
  `record_failure` to be `>=`: with `=` a second poller steps over it.
- `UniqueContent`: one row per text, uncommitted rows included.
- `CandidatesIndexed`: every candidate others can see has its point, so skipping
  the index for a duplicate is right. Deletions are not part of this module.
- `FilesIntact`: rows point to the file they were made from.
- `ReviewedOnce`, `ImplementsLifecycle`: what the journal is for. They hold for
  polls that do not overlap and for checks that do not fail.
- `AttemptsBounded`: how far overlapping pollers can exceed `MAX_ATTEMPTS`.
- `EventuallySettled`: a mail that is listed ends in a final status and stays
  there.

The properties of `MatchingProperties`:

- `MatchesRefer`: the decision history refers to rows, although candidates are
  found minutes before their matches are inserted.
- `AnswersRecorded`: what a `GET` has shown is in the history until its candidate
  or job is deleted.
- `GhostsFiltered`: a point without a row, left by a rolled-back ingestion or a
  failed deletion, drops out before the judge; if it gets as far as a dense `GET`,
  the foreign key fails that answer. (`POST` with `dense` answers with it.)
- `EventuallyAnswered`: requests that hold a connection and wait for another, or
  for the lock of a job, are all answered and return what they hold. It needs the
  pool's timeout: without it the instance locks up.
- `Forgotten`: what DATA_POLICY promises of a deletion.

The properties of the other modules:

- `DeletedStaysDeleted`: a mail goes on being listed after a candidate of it was
  deleted, and polled when something else of it failed; the attachment never
  becomes a candidate again.
- `LostOnlyByDeletion`: `NoResumeLost` when candidates are deleted. A duplicate that
  was skipped for the sake of a row is lost only if somebody deleted that text.
- `ReviewsGoWithCandidate`: review rows disappear with a candidate of their mail
  and in no other step, whatever locks and rollbacks there are.
- `DownloadsAudited`: nothing is sent without an entry, and it is the right resume.
- `KeepsContract`: `Parsing` implements `ParseContract`, under the mapping that shows
  a verdict once it is recorded. The verdicts that are allowed come from the
  file alone.
- `OnlyScreenedSent`: whatever reaches the provider has passed the filter, in the
  judge's prompt too, although that is cut at another limit.
- `AnswersTheQuestion`, `HitsAreFresh`, `InventionsFlagged`: what the cache must not do.
- `TasksEnd`: retries end, also without a key and after refusals.
- `SeedsInOrder`: the reproducible ids that `job_seeder.py:82` wants, through crashes
  and failures halfway. It needs the seeder to stop at the first failed insert
  instead of going on.
- `LabelsSound`, `ReportComplete`: a label belongs to rows with the names of its entry,
  and a report has every pair once, except jobs deleted meanwhile.
- `FusionSound`: `rrf_merge` ranks everything once and cuts only its tail; what both
  rankings put ahead of something stays ahead, and documents that changed places
  stand as in the first ranking.
- `MetricsSound`, `PercentileNear`: bounds, agreement between the metrics, and the
  distance of the index from the fraction it stands for.
- `ToldTrue`, `RunsEnd`, `DeletesTheShown`: what a recruiter relies on.

What the three violations say of the code:

- `rejected_first`: `process_email` returns at the first attachment with a foreign
  extension or too many bytes; the module's docstring says that valid ones become
  candidates.
- `forgotten`: `DATA_POLICY.md:62` promises that a deletion removes everything in
  the database; `match_cache` keeps the judgements, and one that is in flight is
  written after the deletion was confirmed.
- `wrong_row`: the run that handles the click on "delete" reads the list again. If it
  has changed, the select box falls back to its first option while the confirmation
  and the click stay, and another vacancy is deleted than the page had shown.

Outcomes of the code that no property forbids, seen while modelling:

- Two overlapping polls of one mail pass `is_terminal` together and each puts its
  attachment in quarantine (`ReviewedOnce` fails with two pollers), although
  `api/sync_mail.py:5` and `db.py:95` call that race harmless. In the same way a
  poll that overlaps can bring back a candidate that was deleted.
- `is_terminal` is inside the `try`: when its query fails the mail is recorded as
  failed, whatever its status was.
- Two attachments of one mail with the same name share a path; the second
  overwrites the first one's file. The runs have inboxes without that.
- The cache key has no `required_skills`: jobs with the same text share answers.
- A 401 of the provider is retried like any other `APIError`
  (`extractor.py:181`, `llm_judge.py:132`).
- After a save the marker of the parsed document is dropped while the uploader keeps
  the file: the next run sends it to the LLM again and fills the cleared form. The
  search tab's box shows one of two vacancies with the same title and language.
- The header of a report counts jobs that were deleted before they were evaluated.

*Fairness.* Weak fairness of `StartPoll` for ticks: the scheduler's interval job
recurs, and a tick catches everything that a poll raises. Strong fairness of
`Step` for a started poll: every awaited call returns or raises, and a row lock is
granted in order of arrival, so a waiting statement is not passed over for ever.
Weak fairness of `DeadlockAbort`: Postgres looks for a cycle after
`deadlock_timeout`. There is no fairness for failures, for deliveries or for
`POST /sync-mail`. In `Matching`, weak fairness of each request's steps and
timeouts: the event loop runs what is ready, and a wait for a connection ends with
one or with the timeout. Awaited calls do return only if parsing ends; extraction has no
timeout (a hazard in `PROJECT.json`). In `Judging`, weak fairness of all steps of
parsing and judging together: the event loop does not stop while something is
ready, and the provider's client has a timeout; restarts and the clock are not
fair. In `Dashboard`, weak fairness of each session's script and of the handler it
waits for; clicks, failures, crashes and starts are not fair, so a page must come
to rest without a server too.

## Proofs

Eight modules hold theorems. Each theorem assumes only the named `ASSUME`s of the
modules it is about (types of the constants, finitely many pollers, clients or
requests), which TLC evaluates on every run, and the hypotheses in its own
statement. So it holds for every inbox, number of pollers, requests, sessions and
connections, every seed directory and golden file, and every choice of failures;
the runs show the same on small instances.

| Module | Theorem | Says |
|---|---|---|
| `IngestionProofs` | `TypeCorrect` | `Spec => []TypeOK` |
| | `NeverLost` | `Spec => []NoResumeLost` |
| | `ContentUnique` | `Spec => []UniqueContent` |
| | `AlwaysIndexed` | `Spec => []CandidatesIndexed` |
| | `OnePollerImplements` | under `NoOverlap`, `Spec => ImplementsLifecycle` |
| | `NeverStranded` | `Spec => []NothingStranded` |
| | `BoundedAttempts` | `Spec => []AttemptsBounded` |
| | `OnePollerReviewsOnce` | under `NoOverlap`, `Spec => []ReviewedOnce` |
| | `FilesOfRows` | under `NoOverlap` and `DistinctPaths`, `Spec => []FilesIntact` |
| `DeletionProofs` | `RequestsTyped` | `DeletionSpec => []RequestsTypeOK` |
| | `EveryDownloadAudited` | under `PathsTell`, `DeletionSpec => []DownloadsAudited` |
| | `LossesAreDeletions` | `DeletionSpec => []LostOnlyByDeletion` |
| | `DeletedForGood` | under `NoOverlap`, `DeletionSpec => []DeletedStaysDeleted` |
| | `ReviewsOnlyGoWithCandidate` | under `NoOverlap`, `DeletionSpec => ReviewsGoWithCandidate` |
| | `FilesStayIntact` | under `NoOverlap` and `DistinctPaths`, `DeletionSpec => []FilesIntact` |
| `MatchingProofs` | `MatchingTyped` | `Spec => []TypeOK`: types, and the connection pool is never overdrawn |
| | `HistoryRefers` | `Spec => []MatchesRefer` |
| | `NoGhosts` | `Spec => []GhostsFiltered` |
| | `ShownIsRecorded` | `Spec => []AnswersRecorded` |
| `ScreeningProofs` | `ParsingTyped`, `JudgingTyped` | `Spec => []ParsingTypeOK`, `Spec => []JudgingTypeOK` |
| | `VerdictsKeepContract` | the safety of `KeepsContract`: `Parsing` under the actions of `Judging` implements `ParseContract` |
| | `ProviderGetsScreened` | `Spec => []OnlyScreenedSent` |
| | `AnswersAreApt` | `Spec => []AnswersTheQuestion` |
| | `InventionsAreFlagged` | `Spec => []InventionsFlagged` |
| | `HitsStayFresh` | `Spec => HitsAreFresh` |
| `JobsProofs` | `CatalogIds` | `JobsSpec => []JobsTypeOK` |
| | `SeedsKeepOrder` | `JobsSpec => []SeedsInOrder` |
| `DashboardProofs` | `DashboardUsesJobs` | `Spec => JobsSpec`: the page does to jobs what `Jobs` allows |
| | `PagesTellTheTruth` | `Spec => []ToldTrue` |
| `EvaluationProofs` | `EvaluationUsesJobs` | `Spec => JobsSpec` |
| | `LabelsAreSound` | `Spec => []LabelsSound` |
| | `ReportsAreComplete` | `Spec => []ReportComplete` |
| `RankingProofs` | `FusionsSound` | `FusionSound` for every two rankings that show nothing twice, and every cut |
| | `MetricsAgree` | `MetricsSound` for every such ranking, finite labelling and `k` up to 5 |
| | `HitsAgree` | its part without gains for every `k` |
| | `PercentilesNear` | `PercentileNear` for every number of samples |

`DeletionSpec` is the specification of `Deletion` and what the deletion run checks.
`JobsSpec` is `JobsInit /\ [][JobsNext]_jobsVars`, the part about jobs of the catalog
run, to which the run adds `Evaluation` and the pure calls of `MCCatalog`.

### The hypotheses

- `NoOverlap`: one poller, and neither `is_terminal` nor an applied commit reports an
  error. The tick has `max_instances=1`, but `/sync-mail` may overlap it, and nothing
  in the code prevents that. What needs the hypothesis is false without it: TLC finds
  a counterexample to each of the invariants when two pollers share one mail. Two
  that passed `is_terminal` together both write review rows (`ReviewedOnce`). The
  later one makes a new row of an attachment whose candidate was deleted in between
  (`DeletedStaysDeleted`), dies while it saves again the file of a row the other
  committed (`FilesIntact`), or adds reviews that a second, late request for the same
  candidate takes away (`ReviewsGoWithCandidate`). What is proved without it (`NeverLost`, `ContentUnique`,
  `AlwaysIndexed`, `NeverStranded`, `LossesAreDeletions`, `EveryDownloadAudited`)
  survives any overlap.
- `DistinctPaths`: no two attachments are saved under one path. `_save_attachment`
  does not see to it: the second of two equal names in one mail overwrites the first.
- `PathsTell` is weaker: attachments that share a path have the same content.

### The inductive invariants

The properties are seldom inductive by themselves, so each proof strengthens its own.

Ingestion and deletion:

- `Control` ties a poller's program counter to its locals and its transaction: it
  has a mail while it is inside `process_email`, an attachment that exists and
  passed the checks while it parses, an id while it embeds, a status to write
  while it commits, nothing uncommitted outside. `TypeOK /\ Control` is
  inductive.
- `ResumeInv` adds `Progress`: every attachment a poller has passed is stored
  (committed, or in its own transaction) or among the rows it will quarantine.
  A duplicate found by `SkipDuplicate` is stored by somebody else and stays,
  because candidates are never deleted here; so a commit finds every attachment
  accounted for.
- For `UniqueContent`, that a row enters only when its poller is `Unblocked`, so no
  other open transaction holds the text, and not `Duplicate`.
- `IndexInv` adds that the rows of an open transaction have their points, except
  the one the poller is about to embed.
- `LifecycleInv` adds that what a poller works on is not settled and that an open
  mail has attempts left. This is where overlap breaks the refinement: the mail
  may be settled by another poller after the check.
- `StrandInv` adds to `TypeOK` and `Control` only `RowsOfMail`: what an open
  transaction puts in quarantine are attachments of its mail.
- `AttemptInv` bounds, for each mail, its attempts plus the pollers at work on it
  (`Budget`), so that every attempt above the limit is charged to a poller that read
  the counter before, or to an outage.
- `OnceInv` adds to `LifecycleInv` that an open mail has no review rows and no dead letter;
  `OneFileInv` adds that the rows of a transaction belong to its mail (`TxOfMail`),
  that stored rows belong to settled ones (`SettledRows`), and that what an open
  transaction points to is on disk.
- With deletions, `Progress` no longer holds as it stands, since the row a duplicate
  was skipped for may go. `LossInv` weakens "stored" to "stored or deleted under the
  eyes of the audit log" (`Remembered`). All rest on `RequestInv`, which ties a
  request's step to its target and gives rows locked by one request to no other.
  `AuditInv` adds that a file contains what was saved there and that what is about to
  be served is audited; `OneDeletionInv`, to `OnceInv`, that the mail of a deleted
  candidate is settled, so no poller is on its way to insert it again.

Matching: `MatchesRefer` is inductive (`TableSteps` singles out the steps that touch
the tables). `GhostInv` says that the candidates still to be judged have had a row,
and a candidate only leaves its table into the audit log (`KnownGrows`). `TypeInv`
counts: the set of requests that hold a connection is finite and no larger than the
pool, and each program counter says whether its request is in it. `RecordInv` joins
them with `IdInv`: the id of a row that was ever known is used and not being
ingested, so it names no second candidate, and a request that drops rows found them.

Parsing and judging: `ParseInv` ties the step of a file to its text, which `Cut` and
`DetectInjection` have seen whole, and to its verdict. `JudgeInv` adds that a request
that runs asks about an accepted resume, has an attempt left before each call, and
holds an answer to its own question; and `CacheInv`, that a row of `match_cache` lies
under the key of what it answers. Settings change only in a restart, which drops
every request, so a held answer is by the model in use; a row of the cache under an
older model has another key.

Jobs: `CatalogInv` gives each uncommitted id one holder, the seeder or one request,
and says that a row leaves the table only into the audit log. `SeedsInv` adds that
the files before the one the seeder is at are covered by a row or were unreadable,
while nothing was deleted. `ToldInv` says that a row that a page tells of was
committed, and was gone when it was called deleted. `LabelsInv` rests on the same: a
job or candidate once found under a name never gets another, whether it stays or
goes, because ids are not used again.

Evaluation: `ReportInv` says that what was evaluated is the beginning of `Plan`, all
of it before anything is written, and that a labelled job is in the plan or was
deleted. The plan is one row of methods per job, so that its p-th pair is the job at
`(p - 1) \div k` and the method at `(p - 1) % k` of the lists it is made from
(`PlanComplete`); it has every pair once because both lists do.

Ranking: these are facts about operators, without states.

- `SortedList`: `Sorted` of a finite set in a strict order is a list of all its
  members, once each, in that order. The number of predecessors is different for any
  two members (`PlaceGrows`), so every place is taken (`PlaceTaken`).
- `rrf_merge` is called with two rankings, so a score is the sum of two contributions
  (`ScoreOfTwo`), and a contribution falls with the rank (`Contributions`). What both
  put ahead has at least the score of the other and, when the scores are equal, was
  inserted before it (`AgreementKept`); two that changed places have the same two
  contributions, and order of insertion decides.
- No ranking gains more than the ideal order (`MetricsAgree`). `Dcg` weighs up to five
  labels with falling discounts (`DcgWeighs`), so the list whose first j labels add up
  to at least as much, for every j, gains at least as much, and strictly more unless
  the lists are the same (`SumsDecide`, summation by parts). Such a sum counts, for
  each level, the labels of that level or above (`SumByLevel`), and the ideal order has
  the most of them among its first j (`IdealAhead`).

The proofs led to four corrections of the models. Two actions (`StartRetrieval`, and
the verdicts in `ParseContract`'s mapping) used `CASE` with overlapping guards; TLC takes
the first, but the expression denotes either, and they are nested conditions now.
The candidates that `Judging` starts with are assumed (`EarlyAssumption`) to have
been accepted as `parse_resume` accepts. And `RankIn` chose a position of a document;
in the joined rankings it may have two, of which the dict of `rrf.py:37` keeps the first.
`Sorted` took the place of `SetToSortSeq`, whose `SortSeq` is defined by TLC and by
no module the provers read.

### What is only model-checked

- Liveness, which is beyond the prover: `EventuallySettled`, `EventuallyAnswered`,
  `TasksEnd`, `RunsEnd`, and the fairness in `KeepsContract`.
- Nothing else: each invariant and each safety property of a passing run has its theorem.
  Two of them have the shape of the calls in their hypotheses. `FusionsSound` is about two
  rankings, which is how `pipeline.py:163` calls `rrf_merge`. `MetricsAgree` is about `k`
  up to 5, as far as the discounts go and where the code takes nDCG; beyond that the
  sum would need an induction over the ranking.

## Not modelled

- `utils/pii.py`: regular expressions over log and error texts, without state.
- `api/quarantine.py`, `api/health.py`, `api/errors.py`, the lists of candidates:
  they read and format.
- `workers/retention_cleanup.py`: a stub.
- Migrations and scripts: DDL that `db.py` mirrors, and the generator of a notebook.
- The candidates' tab of the page, which has the shape of the list tab, and the
  display of results, quarantine and health; the form's wording.
- The means of the evaluation per method and language, and the layout of its report.
- The LLM parser of job documents, which has the shape of the extractor: a call that
  answers or fails.
- Inside libraries: OpenAI, the embedding models, langdetect, the PDF and DOCX
  readers, TF-IDF and fuzzy similarity are choices of an outcome.

`PROJECT.json` lists every component with its status.

## Plan

Done: the modules above, and the proof of every safety property that a passing run
checks. Left: the candidates' tab over `Deletion`, and the LLM parser of job documents
over `Jobs`.
