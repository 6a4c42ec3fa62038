------------------------------ MODULE Judging ------------------------------
(***************************************************************************)
(* src/matching: judge_with_cache, the LLM judge, and the check of its      *)
(* matched_skills against the resume, for the candidates that Parsing has   *)
(* accepted.  A request is one judge task of a recommendation: one          *)
(* candidate and one job.  Requests run concurrently, each in a session of  *)
(* its own; match_cache outlives the process, its configuration does not.   *)
(***************************************************************************)
EXTENDS Parsing

CONSTANTS
    Requests,       \* judge tasks
    Descriptions,   \* texts of jobs
    Questions,      \* the jobs asked about
    JudgeAttempts,  \* stop_after_attempt of the judge
    TTL,            \* match_cache_ttl_hours
    MaxTime,        \* bound on the clock
    NoQuestion, NoAnswer

RAW_TEXT_LIMIT == 8000

\* What the judge's prompt says of a job.
Jobs == [description : Descriptions, required : SUBSET Skills]

Confidences == {"high", "medium", "low"}

ASSUME QuestionsAssumption == Questions \subseteq Jobs
ASSUME JudgeAttemptsAssumption == JudgeAttempts \in Nat \ {0}
ASSUME TimeAssumption == TTL \in Nat /\ MaxTime \in Nat
ASSUME NoneAssumption == NoQuestion \notin Jobs

VARIABLES
    now,      \* hours
    asked,    \* the candidate and job of each request
    pc,       \* where it is
    calls,    \* calls of the judge it has made
    answer,   \* the judge's answer it holds
    cache     \* match_cache: answers and when they expire

judging == <<asked, pc, calls, answer>>
vars == <<parseVars, now, judging, cache>>

\* _cache_key: candidate, text of the job, model version and prompt version.
KeyOfJob(c, q) ==   \* mutant
    [description |-> q.description, mocks |-> config.mocks, version |-> config.version]
Key(c, q) == [candidate |-> c, description |-> q.description,
              mocks |-> config.mocks, version |-> config.version]

Init ==
    /\ ParseInit
    /\ now = 0
    /\ asked = [r \in Requests |-> NoQuestion]
    /\ pc = [r \in Requests |-> "idle"]
    /\ calls = [r \in Requests |-> 0]
    /\ answer = [r \in Requests |-> NoAnswer]
    /\ cache = {}

Proceed(r, s) == pc' = [pc EXCEPT ![r] = s]

\* _judge_candidates has loaded the row of c, which has parsed_data and raw_text.
Ask(r, c, q) ==
    /\ pc[r] = "idle"
    /\ step[c] = "recorded"
    /\ result[c] = "accepted"
    /\ asked' = [asked EXCEPT ![r] = <<c, q>>]
    /\ Proceed(r, "lookup")
    /\ UNCHANGED <<parseVars, now, calls, answer, cache>>

Candidate(r) == asked[r][1]
Question(r) == asked[r][2]
KeyOf(r) == Key(Candidate(r), Question(r))

----------------------------------------------------------------------------
(* anti_hallucination.py                                                    *)

\* Claimed skills that the text does not bear out lower the confidence; the
\* list itself is left as it is.
Verify(c, a) ==
    IF a.matched \subseteq text[c].mentions THEN a ELSE [a EXCEPT !.confidence = "low"]

VerifiedOnMiss(r, a, hit) ==   \* mutant: what is cached has been verified before
    IF hit THEN a ELSE Verify(Candidate(r), a)
Verified(r, a, hit) == Verify(Candidate(r), a)

Give(r, a, hit) ==
    /\ answer' = [answer EXCEPT ![r] = Verified(r, a, hit)]
    /\ Proceed(r, "done")

\* The request's locals are gone with it.
Leave(r, s) ==
    /\ Proceed(r, s)
    /\ asked' = [asked EXCEPT ![r] = NoQuestion]
    /\ calls' = [calls EXCEPT ![r] = 0]
    /\ answer' = [answer EXCEPT ![r] = NoAnswer]

\* find_candidates takes the result.
TakeResult(r) ==
    /\ pc[r] = "done"
    /\ Leave(r, "taken")
    /\ UNCHANGED <<parseVars, now, cache>>

----------------------------------------------------------------------------
(* judge_with_cache                                                         *)

FreshAtExpiry(e) == e.expires >= now   \* mutant
Fresh(e) == e.expires > now

Hits(r) == {e \in cache : e.key = KeyOf(r) /\ Fresh(e)}

CacheHit(r) ==
    /\ pc[r] = "lookup"
    /\ \E e \in Hits(r) : Give(r, e.answer, TRUE)
    /\ UNCHANGED <<parseVars, now, asked, calls, cache>>

\* No row, or an expired one.  Nothing keeps other requests from missing the
\* same key meanwhile.
CacheMiss(r) ==
    /\ pc[r] = "lookup"
    /\ Hits(r) = {}
    /\ Proceed(r, "judge")
    /\ UNCHANGED <<parseVars, now, asked, calls, answer, cache>>

\* The task raises, and the recommendation with it.
AbandonNever(r) == UNCHANGED judging   \* mutant: the exception is swallowed
Abandon(r) == Leave(r, "failed")

JudgeUnavailable(r) ==
    /\ pc[r] = "judge"
    /\ ~config.mocks /\ ~config.key
    /\ Abandon(r)
    /\ UNCHANGED <<parseVars, now, cache>>

Judgement(r, matched, confidence) ==
    [candidate |-> Candidate(r), question |-> Question(r), config |-> config,
     matched |-> matched, confidence |-> confidence, at |-> now]

Conclude(r, matched, confidence) ==
    /\ answer' = [answer EXCEPT ![r] = Judgement(r, matched, confidence)]
    /\ Proceed(r, "write")

\* _mock_judge: what the job requires and the resume has.
MockJudge(r) ==
    /\ pc[r] = "judge"
    /\ config.mocks
    /\ Conclude(r, Question(r).required \cap resume[Candidate(r)], "medium")
    /\ UNCHANGED <<parseVars, now, asked, calls, cache>>

\* What the prompt holds of the text.
Prompt(r) == Cut(text[Candidate(r)], RAW_TEXT_LIMIT)

CallJudge(r) ==
    /\ pc[r] = "judge"
    /\ ~config.mocks /\ config.key
    /\ calls' = [calls EXCEPT ![r] = @ + 1]
    /\ Proceed(r, "reply")
    /\ UNCHANGED <<parseVars, now, asked, answer, cache>>

\* Whatever the model claims; candidate_id is overwritten.
JudgeAnswers(r, matched) ==
    /\ pc[r] = "reply"
    /\ Conclude(r, matched, "high")
    /\ UNCHANGED <<parseVars, now, asked, calls, cache>>

\* Retried on every APIError, up to the limit.
JudgeFails(r) ==
    /\ pc[r] = "reply"
    /\ IF MayRetry(calls[r], JudgeAttempts)
       THEN Proceed(r, "judge") /\ UNCHANGED <<asked, calls, answer>>
       ELSE Abandon(r)
    /\ UNCHANGED <<parseVars, now, cache>>

\* Refusal, or an answer that is no MatchResult.
JudgeRefuses(r) ==
    /\ pc[r] = "reply"
    /\ Abandon(r)
    /\ UNCHANGED <<parseVars, now, cache>>

AllRows(k) == cache   \* mutant: a plain INSERT
Others(k) == {e \in cache : e.key # k}

\* INSERT ... ON CONFLICT DO UPDATE and the commit: the last one wins.
WriteCache(r) ==
    /\ pc[r] = "write"
    /\ cache' = Others(KeyOf(r)) \cup
                  {[key |-> KeyOf(r), answer |-> answer[r], expires |-> answer[r].at + TTL]}
    /\ Give(r, answer[r], FALSE)
    /\ UNCHANGED <<parseVars, now, asked, calls>>

----------------------------------------------------------------------------
Judge(r) ==
    \/ CacheHit(r) \/ CacheMiss(r)
    \/ MockJudge(r) \/ JudgeUnavailable(r) \/ CallJudge(r)
    \/ \E matched \in SUBSET Skills : JudgeAnswers(r, matched)
    \/ JudgeFails(r) \/ JudgeRefuses(r)
    \/ WriteCache(r) \/ TakeResult(r)

Tick ==
    /\ now < MaxTime
    /\ now' = now + 1
    /\ UNCHANGED <<parseVars, judging, cache>>

\* The requests of the old process are gone.
Restart ==
    LET open == {r \in Requests : pc[r] \notin {"idle", "taken", "failed"}}
    IN  /\ RestartParsing
        /\ pc' = [r \in Requests |-> IF r \in open THEN "failed" ELSE pc[r]]
        /\ asked' = [r \in Requests |-> NoQuestion]
        /\ calls' = [r \in Requests |-> 0]
        /\ answer' = [r \in Requests |-> NoAnswer]
        /\ UNCHANGED <<now, cache>>

ParseStep(d) == Parse(d) /\ UNCHANGED <<now, judging, cache>>

Next ==
    \/ \E d \in Documents : ParseStep(d)
    \/ \E r \in Requests : Judge(r) \/ \E d \in Documents, q \in Questions : Ask(r, d, q)
    \/ Tick
    \/ Restart

\* The process does not stop while something is left to do: text extraction ends
\* (it has no timeout), every call of the provider ends in an answer or an error
\* (the client has one), and the event loop runs what is ready.
Fairness == WF_vars((\E d \in Documents : ParseStep(d)) \/ (\E r \in Requests : Judge(r)))

Spec == Init /\ [][Next]_vars /\ Fairness

----------------------------------------------------------------------------
(* Properties                                                               *)

\* The types of the judge's variables; match_cache has one row per key
\* (db.py:151-161, llm_judge.py:165-239).
JudgingTypeOK ==
    /\ pc \in [Requests -> {"idle", "lookup", "judge", "reply", "write", "done",
                       "taken", "failed"}]
    /\ calls \in [Requests -> 0..JudgeAttempts]
    /\ \A r \in Requests : pc[r] \notin {"idle", "taken", "failed"}
                              => asked[r] \in Documents \X Questions
    /\ \A e, f \in cache : e.key = f.key => e = f
    /\ now \in 0..MaxTime

\* A result, cached or not, is a judgement of the candidate that was asked about,
\* against the text of the job, by the model and with the prompt in use.  The
\* required skills are not part of the key (llm_judge.py:165-174, 203-216).
AnswersTheQuestion ==
    \A r \in Requests : pc[r] = "done" =>
        /\ answer[r].candidate = Candidate(r)
        /\ answer[r].question.description = Question(r).description
        /\ answer[r].config.mocks = config.mocks
        /\ answer[r].config.version = config.version

\* A judgement is given again only within its time to live, to the hour
\* (llm_judge.py:211-216, 220).
HitsAreFresh ==
    [][\A r \in Requests : pc[r] = "lookup" /\ pc'[r] = "done"
           => now < answer'[r].at + TTL]_vars

\* A result that claims a skill the text does not bear out never reaches a
\* recruiter with more than low confidence, not from the cache either
\* (anti_hallucination.py:43-73, matching/pipeline.py:112-117).
InventionsFlagged ==
    \A r \in Requests : pc[r] = "done" =>
        \/ answer[r].matched \subseteq text[Candidate(r)].mentions
        \/ answer[r].confidence = "low"

\* What reaches the provider, from the extractor or from the judge, is a screened
\* text (parsing/pipeline.py:59-97, matching/prompts.py:82).
OnlyScreenedSent ==
    /\ \A d \in Documents : step[d] = "reply" => Screened(text[d])
    /\ \A r \in Requests : pc[r] = "reply" => Screened(Prompt(r))

\* Every task ends, however often the provider fails: there are always moments
\* again at which none is running (llm_judge.py:129-153).
TasksEnd == []<>(\A r \in Requests : pc[r] \in {"idle", "taken", "failed"})

============================================================================
