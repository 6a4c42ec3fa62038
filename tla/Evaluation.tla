----------------------------- MODULE Evaluation -----------------------------
(***************************************************************************)
(* The golden evaluation: src/eval/golden.py resolves labelled pairs of     *)
(* file names to ids, src/eval/runner.py runs every method on every job and *)
(* writes a report.  It is a process of its own beside the API, so jobs and *)
(* candidates come and go between its reads.                                *)
(***************************************************************************)
EXTENDS Jobs, Ranking

CONSTANTS
    Names,          \* base names of resumes
    MaxCandidate,   \* bound: candidate ids
    Golden,         \* labels.json: records of resume, file and label
    Methods         \* the methods asked for, in order

NoFile == 0         \* a job file that does not exist

ASSUME EvaluationAssumption ==
    /\ Golden \in Seq([resume : Names, file : Seeds \cup {NoFile}, label : 0..2])
    /\ MaxCandidate \in Nat
    /\ Methods \in Seq({"dense", "tfidf", "llm", "hybrid"}) /\ IsInjective(Methods)

Entries == DOMAIN Golden
CandidateRows == [id : 1..MaxCandidate, name : Names]

VARIABLES
    candidates,   \* committed rows; the name is that of file_path
    lastCandidate,
    runner        \* the evaluation

externals == <<candidates, lastCandidate>>
vars == <<jobsVars, externals, runner>>

\* resumes, titles: the two indexes; labelled: entry -> the pair it labels;
\* relevance: (job, candidate) -> label; unread: job files that do not load;
\* attached: jobs read for the labels; done: what has been evaluated, in order.
NewRunner ==
    [pc |-> "candidates", resumes |-> <<>>, titles |-> <<>>, unread |-> {},
     labelled |-> <<>>, attached |-> {}, done |-> <<>>, report |-> {}]

Init ==
    /\ JobsInit
    /\ candidates = {} /\ lastCandidate = 0
    /\ runner = NewRunner

----------------------------------------------------------------------------
(* What others do to the candidates table: ingestion and DELETE             *)

Arrive ==
    /\ lastCandidate < MaxCandidate
    /\ lastCandidate' = lastCandidate + 1
    /\ \E n \in Names :
           candidates' = candidates \cup {[id |-> lastCandidate + 1, name |-> n]}
    /\ UNCHANGED <<jobsVars, runner>>

Leave ==
    /\ \E c \in candidates : candidates' = candidates \ {c}
    /\ UNCHANGED <<jobsVars, lastCandidate, runner>>

----------------------------------------------------------------------------
(* golden.resolve                                                           *)

\* A dict built from an unordered SELECT of keys and ids: each key keeps the last of
\* its rows, which may be any of them.
IndexOf(rows) ==
    {index \in [{r[1] : r \in rows} -> {r[2] : r \in rows}] :
        \A k \in DOMAIN index : <<k, index[k]>> \in rows}

\* main_async: labels.json is read; one that is malformed ends the run before this.
IndexCandidates ==
    /\ runner.pc = "candidates"
    /\ \E index \in IndexOf({<<c.name, c.id>> : c \in candidates}) :
           runner' = [runner EXCEPT !.pc = "jobs", !.resumes = index]
    /\ UNCHANGED <<jobsVars, externals>>

IndexJobs ==
    /\ runner.pc = "jobs"
    /\ \E index \in IndexOf({<<r.title, r.id>> : r \in jobs}),
          unread \in SUBSET MayBreak :
           runner' = [runner EXCEPT !.pc = "resolve", !.titles = index, !.unread = unread]
    /\ UNCHANGED <<jobsVars, externals>>

JobFound(e) ==
    /\ Golden[e].file \in Seeds \ runner.unread
    /\ SeedTitle[Golden[e].file] \in DOMAIN runner.titles
CandidateFound(e) == Golden[e].resume \in DOMAIN runner.resumes

PairOf(e) == [job |-> runner.titles[SeedTitle[Golden[e].file]],
              candidate |-> runner.resumes[Golden[e].resume]]

\* Every entry is labelled or skipped; the indexes are not used again.
Resolve ==
    /\ runner.pc = "resolve"
    /\ runner' = [runner EXCEPT
           !.pc = "attach", !.resumes = <<>>, !.titles = <<>>, !.unread = {},
           !.labelled = [e \in {e \in Entries : CandidateFound(e) /\ JobFound(e)} |-> PairOf(e)]]
    /\ UNCHANGED <<jobsVars, externals>>

LabelledJobs == {runner.labelled[e].job : e \in DOMAIN runner.labelled}
Skipped == Entries \ DOMAIN runner.labelled

\* A later entry for the same pair replaces the label of an earlier one.
OverwritesNext(e, f) == f = e + 1 /\ runner.labelled[f] = runner.labelled[e]   \* mutant
Overwrites(e, f) == e < f /\ runner.labelled[f] = runner.labelled[e]
Relevance(j) ==
    {[candidate |-> runner.labelled[e].candidate, label |-> Golden[e].label] :
        e \in {e \in DOMAIN runner.labelled :
                  /\ runner.labelled[e].job = j
                  /\ ~\E f \in DOMAIN runner.labelled : Overwrites(e, f)}}

\* _attach_pydantic_jobs: one more SELECT; a job that is gone is not attached.
Attach ==
    /\ runner.pc = "attach"
    /\ runner' = [runner EXCEPT
           !.pc = "evaluate", !.attached = {r \in jobs : r.id \in LabelledJobs}]
    /\ UNCHANGED <<jobsVars, externals>>

----------------------------------------------------------------------------
(* run_eval and the report                                                  *)

InOrder(ids) == Sorted(ids, <)

\* The pairs to evaluate: jobs by id, under each job the methods.
EvaluatedJobs == InOrder(IdsOf(runner.attached))
Plan ==
    FlattenSeq([i \in DOMAIN EvaluatedJobs |->
                   [m \in DOMAIN Methods |-> [job |-> EvaluatedJobs[i], method |-> Methods[m]]]])

NextPair == Plan[Len(runner.done) + 1]

\* find_candidates with the job as it was attached, whatever the table says by
\* now; its answer is of no consequence here.
EvalOne ==
    /\ runner.pc = "evaluate" /\ Len(runner.done) < Len(Plan)
    /\ runner' = [runner EXCEPT !.done = Append(@, NextPair)]
    /\ UNCHANGED <<jobsVars, externals>>

AnyTime == runner.pc = "evaluate"   \* mutant
AllDone == runner.pc = "evaluate" /\ Len(runner.done) = Len(Plan)

WriteMarkdown ==
    /\ AllDone
    /\ runner' = [runner EXCEPT !.pc = "json", !.report = {"md"}]
    /\ UNCHANGED <<jobsVars, externals>>

WriteJson ==
    /\ runner.pc = "json"
    /\ runner' = [runner EXCEPT !.pc = "written", !.report = {"md", "json"}]
    /\ UNCHANGED <<jobsVars, externals>>

\* Any exception ends main with 1: nothing of what was evaluated is written.
EvalFails ==
    /\ runner.pc \notin {"written", "failed"}
    /\ runner' = [NewRunner EXCEPT !.pc = "failed"]
    /\ UNCHANGED <<jobsVars, externals>>

Evaluate ==
    \/ IndexCandidates \/ IndexJobs \/ Resolve \/ Attach
    \/ EvalOne \/ WriteMarkdown \/ WriteJson \/ EvalFails

Others ==
    \/ Arrive \/ Leave
    \/ (JobsNext /\ UNCHANGED <<externals, runner>>)

Next == Evaluate \/ Others

Spec == Init /\ [][Next]_vars

----------------------------------------------------------------------------

\* golden.py:107-149: a label goes to rows that carry the names of its entry,
\* entries that name different things never share a pair, and a pair has one
\* label, that of the last entry for it.
LabelsSound ==
    /\ \A e \in DOMAIN runner.labelled :
        /\ \A r \in jobs \cup runner.attached :
              r.id = runner.labelled[e].job => r.title = SeedTitle[Golden[e].file]
        /\ \A c \in candidates :
              c.id = runner.labelled[e].candidate => c.name = Golden[e].resume
        /\ \A f \in DOMAIN runner.labelled :
              runner.labelled[e] = runner.labelled[f] =>
                  /\ Golden[e].resume = Golden[f].resume
                  /\ SeedTitle[Golden[e].file] = SeedTitle[Golden[f].file]
    /\ \A j \in LabelledJobs : \A a, b \in Relevance(j) :
          a.candidate = b.candidate => a = b
    /\ runner.pc \in {"attach", "evaluate", "json", "written"} =>
          \A e \in Entries : e \in Skipped \/ \E x \in Relevance(runner.labelled[e].job) :
                                            x.candidate = runner.labelled[e].candidate

TimesDone(j, m) ==
    Cardinality({i \in DOMAIN runner.done : runner.done[i] = [job |-> j, method |-> m]})

\* runner.py:119-148, 336-369: a report covers every labelled job with every method,
\* once, except the jobs that were deleted while the labels were resolved (its
\* header counts them nevertheless); the JSON is never there without the markdown.
ReportComplete ==
    /\ runner.report # {} =>
          \A j \in LabelledJobs, m \in ToSet(Methods) :
              TimesDone(j, m) = 1 \/ (TimesDone(j, m) = 0 /\ j \in deleted)
    /\ "json" \in runner.report => "md" \in runner.report
    /\ \A p, q \in DOMAIN runner.done : p < q => runner.done[p].job <= runner.done[q].job

============================================================================
