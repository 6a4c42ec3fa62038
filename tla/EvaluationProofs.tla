-------------------------- MODULE EvaluationProofs --------------------------
(***************************************************************************)
(* Proofs about Evaluation, for every golden file and every list of         *)
(* methods, whatever happens to the tables while it runs.                   *)
(***************************************************************************)
EXTENDS Evaluation, RankingProofs, JobsProofs

----------------------------------------------------------------------------
(* The labels.                                                              *)

\* The job x has, or had when it was deleted, a title; the candidate x has, or had,
\* a name.
JobTitled(x, t) == x \in deleted \/ \E r \in jobs : r.id = x /\ r.title = t
CandidateNamed(x, n) == x \in 1..lastCandidate /\ \A c \in candidates : c.id = x => c.name = n

CandidatesInv ==
    /\ lastCandidate \in Nat
    /\ \A c \in candidates : c.id \in 1..lastCandidate
    /\ \A c, d \in candidates : c.id = d.id => c = d

RunnerShape ==
    runner = [pc |-> runner.pc, resumes |-> runner.resumes, titles |-> runner.titles,
              unread |-> runner.unread, labelled |-> runner.labelled,
              attached |-> runner.attached, done |-> runner.done, report |-> runner.report]

\* The indexes lead to rows of the name looked up, and different names to different rows.
IndexesInv ==
    /\ \A n \in DOMAIN runner.resumes : CandidateNamed(runner.resumes[n], n)
    /\ \A n, m \in DOMAIN runner.resumes : runner.resumes[n] = runner.resumes[m] => n = m
    /\ \A t \in DOMAIN runner.titles : JobTitled(runner.titles[t], t)
    /\ \A t, u \in DOMAIN runner.titles : runner.titles[t] = runner.titles[u] => t = u

Labels == DOMAIN runner.labelled
TitleOf(e) == SeedTitle[Golden[e].file]

\* Every label is that of an entry, on a pair with its names.
PairsInv ==
    /\ Labels \subseteq Entries
    /\ \A e \in Labels :
         /\ runner.labelled[e] \in [job : Int, candidate : Int]
         /\ JobTitled(runner.labelled[e].job, TitleOf(e))
         /\ CandidateNamed(runner.labelled[e].candidate, Golden[e].resume)
         /\ \A f \in Labels : runner.labelled[e] = runner.labelled[f] =>
              Golden[e].resume = Golden[f].resume /\ TitleOf(e) = TitleOf(f)

\* The jobs that were read for the labels have the titles of the labels.
AttachedInv ==
    /\ runner.pc \in {"candidates", "jobs", "resolve"} => runner.attached = {}
    /\ \A r \in runner.attached, e \in Labels :
         r.id = runner.labelled[e].job => r.title = TitleOf(e)

LabelsInv ==
    CatalogInv /\ CandidatesInv /\ RunnerShape /\ IndexesInv /\ PairsInv /\ AttachedInv

\* What happens to the tables leaves every job its title and every candidate its name
\* (db.py:30-73).
LEMMA NamesLast ==
  ASSUME CandidatesInv, Evaluate \/ Others \/ UNCHANGED vars
  PROVE  /\ CandidatesInv' /\ [JobsNext]_jobsVars
         /\ \A x, t : JobTitled(x, t) => JobTitled(x, t)'
         /\ \A x, n : CandidateNamed(x, n) => CandidateNamed(x, n)'
  <1>1. [JobsNext]_jobsVars
    BY DEF Evaluate, IndexCandidates, IndexJobs, Resolve, Attach, EvalOne, WriteMarkdown,
       WriteJson, EvalFails, Others, Arrive, Leave, vars
  <1>2. \A x, t : JobTitled(x, t) => JobTitled(x, t)'
    <2>1. deleted \subseteq deleted' /\ \A r \in jobs : r \in jobs' \/ r.id \in deleted'
      BY <1>1, JobsLeaveAudited
    <2>2. QED
      BY <2>1 DEF JobTitled
  <1>3. CASE Arrive
    <2>1. PICK n \in Names : /\ candidates' = candidates \cup {[id |-> lastCandidate + 1, name |-> n]}
                             /\ lastCandidate' = lastCandidate + 1
      BY <1>3 DEF Arrive
    <2>2. lastCandidate \in Nat
      BY DEF CandidatesInv
    <2>3. QED
      BY <1>1, <1>2, <2>1, <2>2 DEF CandidatesInv, CandidateNamed
  <1>4. CASE Leave
    BY <1>1, <1>2, <1>4 DEF Leave, CandidatesInv, CandidateNamed
  <1>5. CASE UNCHANGED externals
    BY <1>1, <1>2, <1>5 DEF externals, CandidatesInv, CandidateNamed
  <1>6. QED
    BY <1>3, <1>4, <1>5 DEF Evaluate, IndexCandidates, IndexJobs, Resolve, Attach, EvalOne,
       WriteMarkdown, WriteJson, EvalFails, Others, vars

\* The ids of jobs are numbers (db.py:62-73).
LEMMA JobIdsNumbers ==
  ASSUME CatalogInv, NEW x, NEW t, JobTitled(x, t)
  PROVE  x \in Int
  <1>1. lastId \in Int /\ MaxId \in Int
    BY JobsAssumption DEF CatalogInv, TableInv
  <1>2. CASE x \in deleted
    BY <1>1, <1>2 DEF CatalogInv, TableInv
  <1>3. ASSUME NEW r \in jobs, r.id = x
        PROVE  x \in Int
    BY <1>1, <1>3 DEF CatalogInv, TableInv, Rows, Ids
  <1>4. QED
    BY <1>2, <1>3 DEF JobTitled

\* Two rows of the jobs table never share an id, a deleted one never comes back, so a
\* row keeps the title that the id was found under (golden.py:123-149).
LEMMA TitleKept ==
  ASSUME CatalogInv, NEW x, NEW t, JobTitled(x, t), NEW r \in jobs, r.id = x
  PROVE  r.title = t
  BY DEF CatalogInv, TableInv, JobTitled

\* A step of the tables keeps what the labels say (db.py:30-73).
LEMMA TablesKeepLabels ==
  ASSUME LabelsInv, Evaluate \/ Others \/ UNCHANGED vars, UNCHANGED runner
  PROVE  LabelsInv'
  <1>1. /\ CandidatesInv' /\ [JobsNext]_jobsVars
        /\ \A x, t : JobTitled(x, t) => JobTitled(x, t)'
        /\ \A x, n : CandidateNamed(x, n) => CandidateNamed(x, n)'
    BY NamesLast DEF LabelsInv
  <1>2. CatalogInv'
    BY <1>1, CatalogStep DEF LabelsInv
  <1>3. RunnerShape' /\ AttachedInv'
    BY DEF LabelsInv, RunnerShape, AttachedInv, Labels
  <1>4. IndexesInv'
    BY <1>1 DEF LabelsInv, IndexesInv
  <1>5. PairsInv'
    BY <1>1 DEF LabelsInv, PairsInv, Labels
  <1>6. QED
    BY <1>1, <1>2, <1>3, <1>4, <1>5 DEF LabelsInv

\* An index made of the rows of a table gives every key the id of a row with that key
\* (golden.py:42-68).
LEMMA IndexFits ==
  ASSUME NEW rows, NEW index \in IndexOf(rows), NEW k \in DOMAIN index
  PROVE  <<k, index[k]>> \in rows
  BY DEF IndexOf

\* resolve: the indexes, and the labels made of them, fit the tables
\* (golden.py:42-149).
LEMMA ResolveKeepsLabels ==
  ASSUME LabelsInv, IndexCandidates \/ IndexJobs \/ Resolve
  PROVE  LabelsInv'
  <1>0. UNCHANGED <<jobsVars, externals>> /\ UNCHANGED jobs /\ UNCHANGED deleted
        /\ UNCHANGED candidates /\ UNCHANGED lastCandidate
    BY DEF IndexCandidates, IndexJobs, Resolve, jobsVars, table, externals
  <1>1. CatalogInv' /\ CandidatesInv'
    BY <1>0, CatalogStep DEF LabelsInv, CandidatesInv
  <1>2. /\ \A x, t : JobTitled(x, t)' <=> JobTitled(x, t)
        /\ \A x, n : CandidateNamed(x, n)' <=> CandidateNamed(x, n)
    BY <1>0 DEF JobTitled, CandidateNamed
  <1>3. CASE IndexCandidates
    <2>1. PICK index \in IndexOf({<<c.name, c.id>> : c \in candidates}) :
            runner' = [runner EXCEPT !.pc = "jobs", !.resumes = index]
      BY <1>3 DEF IndexCandidates
    <2>2. /\ RunnerShape' /\ runner'.resumes = index /\ runner'.titles = runner.titles
          /\ runner'.labelled = runner.labelled /\ runner'.attached = runner.attached
          /\ runner'.pc = "jobs" /\ runner.pc = "candidates"
      BY <1>3, <2>1 DEF LabelsInv, RunnerShape, IndexCandidates
    <2>3. ASSUME NEW n \in DOMAIN index
          PROVE  \E c \in candidates : c.name = n /\ c.id = index[n]
      <3>1. <<n, index[n]>> \in {<<c.name, c.id>> : c \in candidates}
        BY <2>1, IndexFits
      <3>2. PICK c \in candidates : <<n, index[n]>> = <<c.name, c.id>>
        BY <3>1
      <3>3. QED
        BY <3>2
    <2>4. /\ \A n \in DOMAIN index : CandidateNamed(index[n], n)
          /\ \A n, m \in DOMAIN index : index[n] = index[m] => n = m
      BY <2>3 DEF LabelsInv, CandidatesInv, CandidateNamed
    <2>5. IndexesInv'
      BY <1>2, <2>2, <2>4 DEF LabelsInv, IndexesInv
    <2>6. PairsInv' /\ AttachedInv'
      BY <1>2, <2>2 DEF LabelsInv, PairsInv, AttachedInv, Labels
    <2>7. QED
      BY <1>1, <2>2, <2>5, <2>6 DEF LabelsInv
  <1>4. CASE IndexJobs
    <2>1. PICK index \in IndexOf({<<r.title, r.id>> : r \in jobs}), unread \in SUBSET MayBreak :
            runner' = [runner EXCEPT !.pc = "resolve", !.titles = index, !.unread = unread]
      BY <1>4 DEF IndexJobs
    <2>2. /\ RunnerShape' /\ runner'.resumes = runner.resumes /\ runner'.titles = index
          /\ runner'.labelled = runner.labelled /\ runner'.attached = runner.attached
          /\ runner'.pc = "resolve" /\ runner.pc = "jobs"
      BY <1>4, <2>1 DEF LabelsInv, RunnerShape, IndexJobs
    <2>3. ASSUME NEW t \in DOMAIN index
          PROVE  \E r \in jobs : r.title = t /\ r.id = index[t]
      <3>1. <<t, index[t]>> \in {<<r.title, r.id>> : r \in jobs}
        BY <2>1, IndexFits
      <3>2. PICK r \in jobs : <<t, index[t]>> = <<r.title, r.id>>
        BY <3>1
      <3>3. QED
        BY <3>2
    <2>4. /\ \A t \in DOMAIN index : JobTitled(index[t], t)
          /\ \A t, u \in DOMAIN index : index[t] = index[u] => t = u
      BY <2>3 DEF LabelsInv, CatalogInv, TableInv, JobTitled
    <2>5. IndexesInv'
      BY <1>2, <2>2, <2>4 DEF LabelsInv, IndexesInv
    <2>6. PairsInv' /\ AttachedInv'
      BY <1>2, <2>2 DEF LabelsInv, PairsInv, AttachedInv, Labels
    <2>7. QED
      BY <1>1, <2>2, <2>5, <2>6 DEF LabelsInv
  <1>5. CASE Resolve
    <2> DEFINE found == {e \in Entries : CandidateFound(e) /\ JobFound(e)}
    <2>0. PICK labelled :
            /\ runner' = [runner EXCEPT !.pc = "attach", !.resumes = <<>>, !.titles = <<>>,
                                        !.unread = {}, !.labelled = labelled]
            /\ labelled = [e \in found |-> PairOf(e)] /\ runner.pc = "resolve"
      BY <1>5 DEF Resolve
    <2>1. /\ RunnerShape' /\ DOMAIN runner'.resumes = {} /\ DOMAIN runner'.titles = {}
          /\ runner'.labelled = labelled /\ runner'.attached = runner.attached
          /\ runner'.pc = "attach" /\ runner.pc = "resolve"
      <3> HIDE DEF found
      <3>1. /\ RunnerShape' /\ runner'.resumes = <<>> /\ runner'.titles = <<>>
            /\ runner'.labelled = labelled /\ runner'.attached = runner.attached
            /\ runner'.pc = "attach"
        BY <2>0 DEF LabelsInv, RunnerShape
      <3>2. DOMAIN <<>> = {}
        OBVIOUS
      <3>3. QED
        BY <2>0, <3>1, <3>2
    <2> HIDE DEF found
    <2>2. DOMAIN runner'.labelled = found /\ \A e \in found : runner'.labelled[e] = PairOf(e)
      BY <2>0, <2>1
    <2>3. ASSUME NEW e \in found
          PROVE  /\ e \in Entries
                 /\ TitleOf(e) \in DOMAIN runner.titles
                 /\ Golden[e].resume \in DOMAIN runner.resumes
                 /\ PairOf(e) = [job |-> runner.titles[TitleOf(e)],
                                 candidate |-> runner.resumes[Golden[e].resume]]
      BY DEF found, CandidateFound, JobFound, PairOf, TitleOf
    <2>4. ASSUME NEW e \in found
          PROVE  /\ PairOf(e) \in [job : Int, candidate : Int]
                 /\ JobTitled(PairOf(e).job, TitleOf(e))
                 /\ CandidateNamed(PairOf(e).candidate, Golden[e].resume)
      <3>1. /\ JobTitled(runner.titles[TitleOf(e)], TitleOf(e))
            /\ CandidateNamed(runner.resumes[Golden[e].resume], Golden[e].resume)
        BY <2>3 DEF LabelsInv, IndexesInv
      <3>2. /\ runner.titles[TitleOf(e)] \in Int
            /\ runner.resumes[Golden[e].resume] \in Int
        BY <3>1, JobIdsNumbers DEF LabelsInv, CandidatesInv, CandidateNamed
      <3>3. QED
        BY <2>3, <3>1, <3>2
    <2>5. ASSUME NEW e \in found, NEW f \in found, PairOf(e) = PairOf(f)
          PROVE  Golden[e].resume = Golden[f].resume /\ TitleOf(e) = TitleOf(f)
      <3>1. /\ runner.titles[TitleOf(e)] = runner.titles[TitleOf(f)]
            /\ runner.resumes[Golden[e].resume] = runner.resumes[Golden[f].resume]
        BY <2>3, <2>5
      <3>2. QED
        BY <2>3, <3>1 DEF LabelsInv, IndexesInv
    <2>6. PairsInv'
      BY <1>2, <2>2, <2>3, <2>4, <2>5 DEF PairsInv, Labels, TitleOf
    <2>7. IndexesInv' /\ AttachedInv'
      BY <2>1 DEF LabelsInv, IndexesInv, AttachedInv
    <2>8. QED
      BY <1>1, <2>1, <2>6, <2>7 DEF LabelsInv
  <1>6. QED
    BY <1>3, <1>4, <1>5

\* The evaluation itself, its report and its failures do not touch the labels
\* (runner.py:119-148, 336-438).
LEMMA EvaluationKeepsLabels ==
  ASSUME LabelsInv, Attach \/ EvalOne \/ WriteMarkdown \/ WriteJson \/ EvalFails
  PROVE  LabelsInv'
  <1>0. UNCHANGED <<jobsVars, externals>> /\ UNCHANGED jobs /\ UNCHANGED deleted
        /\ UNCHANGED candidates /\ UNCHANGED lastCandidate
    BY DEF Attach, EvalOne, WriteMarkdown, WriteJson, EvalFails, jobsVars, table, externals
  <1>1. CatalogInv' /\ CandidatesInv'
    BY <1>0, CatalogStep DEF LabelsInv, CandidatesInv
  <1>2. /\ \A x, t : JobTitled(x, t)' <=> JobTitled(x, t)
        /\ \A x, n : CandidateNamed(x, n)' <=> CandidateNamed(x, n)
    BY <1>0 DEF JobTitled, CandidateNamed
  <1>3. ASSUME NEW s \in {"evaluate", "json", "written"},
               RunnerShape', runner'.pc = s,
               runner'.resumes = runner.resumes, runner'.titles = runner.titles,
               runner'.labelled = runner.labelled,
               \A r \in runner'.attached : r \in runner.attached \/ r \in jobs
        PROVE  LabelsInv'
    <2>1. IndexesInv' /\ PairsInv'
      BY <1>2, <1>3 DEF LabelsInv, IndexesInv, PairsInv, Labels
    <2>2. \A r \in jobs, e \in Labels : r.id = runner.labelled[e].job => r.title = TitleOf(e)
      BY TitleKept DEF LabelsInv, PairsInv
    <2>3. AttachedInv'
      BY <1>3, <2>2 DEF LabelsInv, AttachedInv, Labels
    <2>4. QED
      BY <1>1, <1>3, <2>1, <2>3 DEF LabelsInv
  <1>4. CASE Attach
    <2>1. runner' = [runner EXCEPT !.pc = "evaluate",
                                   !.attached = {r \in jobs : r.id \in LabelledJobs}]
      BY <1>4 DEF Attach
    <2>2. PICK read \in SUBSET jobs : runner' = [runner EXCEPT !.pc = "evaluate", !.attached = read]
      BY <2>1
    <2>3. QED
      BY <1>3, <2>2 DEF LabelsInv, RunnerShape
  <1>5. CASE EvalOne
    <2>1. PICK more : runner' = [runner EXCEPT !.done = more]
      BY <1>5 DEF EvalOne
    <2>2. runner.pc = "evaluate"
      BY <1>5 DEF EvalOne
    <2>3. QED
      BY <1>3, <2>1, <2>2 DEF LabelsInv, RunnerShape
  <1>6. CASE WriteMarkdown
    BY <1>3, <1>6 DEF WriteMarkdown, LabelsInv, RunnerShape
  <1>7. CASE WriteJson
    BY <1>3, <1>7 DEF WriteJson, LabelsInv, RunnerShape
  <1>8. CASE EvalFails
    <2>1. runner' = [NewRunner EXCEPT !.pc = "failed"]
      BY <1>8 DEF EvalFails
    <2>2. /\ RunnerShape' /\ runner'.resumes = <<>> /\ runner'.titles = <<>>
          /\ runner'.labelled = <<>> /\ runner'.attached = {}
      BY <2>1 DEF NewRunner, RunnerShape
    <2>3. DOMAIN <<>> = {}
      OBVIOUS
    <2>4. IndexesInv' /\ PairsInv' /\ AttachedInv'
      BY <2>2, <2>3 DEF IndexesInv, PairsInv, AttachedInv, Labels
    <2>5. QED
      BY <1>1, <2>2, <2>4 DEF LabelsInv
  <1>9. QED
    BY <1>4, <1>5, <1>6, <1>7, <1>8

LEMMA LabelsStep == LabelsInv /\ [Next]_vars => LabelsInv'
  <1> SUFFICES ASSUME LabelsInv, [Next]_vars
               PROVE  LabelsInv'
    OBVIOUS
  <1>1. CASE Others
    <2>1. UNCHANGED runner
      BY <1>1 DEF Others, Arrive, Leave
    <2>2. QED
      BY <1>1, <2>1, TablesKeepLabels
  <1>2. CASE UNCHANGED vars
    BY <1>2, TablesKeepLabels DEF vars
  <1>3. CASE Evaluate
    BY <1>3, ResolveKeepsLabels, EvaluationKeepsLabels DEF Evaluate
  <1>4. QED
    BY <1>1, <1>2, <1>3 DEF Next

LEMMA LabelsStart == Init => LabelsInv
  <1> SUFFICES ASSUME Init
               PROVE  LabelsInv
    OBVIOUS
  <1>1. CatalogInv /\ CandidatesInv
    BY CatalogInit DEF Init, CandidatesInv
  <1>2. /\ RunnerShape /\ runner.resumes = <<>> /\ runner.titles = <<>>
        /\ runner.labelled = <<>> /\ runner.attached = {}
    BY DEF Init, NewRunner, RunnerShape
  <1>3. DOMAIN <<>> = {}
    OBVIOUS
  <1>4. QED
    BY <1>1, <1>2, <1>3 DEF LabelsInv, IndexesInv, PairsInv, AttachedInv, Labels

\* _relevance: a pair that is labelled has the label of its last entry and no other
\* (golden.py:107-122).
LEMMA OneLabel ==
  ASSUME PairsInv
  PROVE  /\ \A j \in LabelledJobs : \A a, b \in Relevance(j) : a.candidate = b.candidate => a = b
         /\ \A e \in Labels : \E x \in Relevance(runner.labelled[e].job) :
              x.candidate = runner.labelled[e].candidate
  <1>1. Len(Golden) \in Nat /\ Entries = 1..Len(Golden) /\ Labels \subseteq 1..Len(Golden)
    BY EvaluationAssumption DEF Entries, PairsInv
  <1>2. ASSUME NEW j, NEW a \in Relevance(j), NEW b \in Relevance(j), a.candidate = b.candidate
        PROVE  a = b
    <2>1. PICK e \in Labels : /\ runner.labelled[e].job = j
                              /\ ~\E f \in Labels : Overwrites(e, f)
                              /\ a = [candidate |-> runner.labelled[e].candidate,
                                      label |-> Golden[e].label]
      BY DEF Relevance, Labels
    <2>2. PICK f \in Labels : /\ runner.labelled[f].job = j
                              /\ ~\E g \in Labels : Overwrites(f, g)
                              /\ b = [candidate |-> runner.labelled[f].candidate,
                                      label |-> Golden[f].label]
      BY DEF Relevance, Labels
    <2>3. runner.labelled[e] = runner.labelled[f]
      BY <1>2, <2>1, <2>2 DEF PairsInv
    <2>4. ~(e < f) /\ ~(f < e)
      BY <2>1, <2>2, <2>3 DEF Overwrites
    <2>5. e \in Int /\ f \in Int
      BY <1>1
    <2>6. QED
      BY <2>1, <2>2, <2>4, <2>5
  <1>3. ASSUME NEW e \in Labels
        PROVE  \E x \in Relevance(runner.labelled[e].job) :
                 x.candidate = runner.labelled[e].candidate
    <2> DEFINE same == {f \in Labels : runner.labelled[f] = runner.labelled[e]}
    <2>1. same \in SUBSET (1..Len(Golden)) /\ same # {}
      BY <1>1
    <2>2. PICK f \in same : \A g \in same : g <= f
      BY <1>1, <2>1, LastPosition
    <2>3. ~\E g \in Labels : Overwrites(f, g)
      BY <1>1, <2>2 DEF Overwrites
    <2>4. [candidate |-> runner.labelled[f].candidate, label |-> Golden[f].label]
            \in Relevance(runner.labelled[e].job)
      BY <2>2, <2>3 DEF Relevance, Labels
    <2>5. runner.labelled[f].candidate = runner.labelled[e].candidate
      BY <2>2
    <2>6. QED
      BY <2>4, <2>5
  <1>4. QED
    BY <1>2, <1>3

\* However jobs and candidates come and go while the labels are resolved, and whichever
\* of several rows of one name the indexes keep: a label goes to rows with the names of
\* its entry, entries that name different things never share a pair, and a pair has one
\* label (golden.py:42-149).
THEOREM LabelsAreSound == Spec => []LabelsSound
  <1>1. LabelsInv => LabelsSound
    <2> SUFFICES ASSUME LabelsInv
                 PROVE  LabelsSound
      OBVIOUS
    <2>1. ASSUME NEW e \in DOMAIN runner.labelled
          PROVE  /\ \A r \in jobs \cup runner.attached :
                      r.id = runner.labelled[e].job => r.title = SeedTitle[Golden[e].file]
                 /\ \A c \in candidates :
                      c.id = runner.labelled[e].candidate => c.name = Golden[e].resume
                 /\ \A f \in DOMAIN runner.labelled :
                      runner.labelled[e] = runner.labelled[f] =>
                        /\ Golden[e].resume = Golden[f].resume
                        /\ SeedTitle[Golden[e].file] = SeedTitle[Golden[f].file]
      <3>1. /\ JobTitled(runner.labelled[e].job, TitleOf(e))
            /\ CandidateNamed(runner.labelled[e].candidate, Golden[e].resume)
            /\ \A f \in Labels : runner.labelled[e] = runner.labelled[f] =>
                 Golden[e].resume = Golden[f].resume /\ TitleOf(e) = TitleOf(f)
        BY DEF LabelsInv, PairsInv, Labels
      <3>2. \A r \in jobs : r.id = runner.labelled[e].job => r.title = TitleOf(e)
        BY <3>1, TitleKept DEF LabelsInv
      <3>3. QED
        BY <3>1, <3>2 DEF LabelsInv, AttachedInv, CandidateNamed, Labels, TitleOf
    <2>2. /\ \A j \in LabelledJobs : \A a, b \in Relevance(j) : a.candidate = b.candidate => a = b
          /\ \A e \in Entries : e \in Skipped \/ \E x \in Relevance(runner.labelled[e].job) :
                                  x.candidate = runner.labelled[e].candidate
      BY OneLabel DEF LabelsInv, Skipped, Labels
    <2>3. QED
      BY <2>1, <2>2 DEF LabelsSound
  <1>2. QED
    BY <1>1, LabelsStart, LabelsStep, PTL DEF Spec

\* What the evaluation sees of the jobs table is what Jobs allows, so everything proved
\* of Jobs holds beside a run of it (golden.py:42-68, runner.py:336-369).
THEOREM EvaluationUsesJobs == Spec => JobsSpec
  <1>1. Init => JobsInit
    BY DEF Init
  <1>2. LabelsInv /\ [Next]_vars => [JobsNext]_jobsVars
    BY NamesLast DEF LabelsInv, Next
  <1>3. QED
    BY <1>1, <1>2, LabelsStart, LabelsStep, PTL DEF Spec, JobsSpec

----------------------------------------------------------------------------
(* The plan of an evaluation.                                               *)

\* sorted() of ids (runner.py:125).
LEMMA IdsSorted ==
  ASSUME NEW ids \in SUBSET Int, IsFiniteSet(ids)
  PROVE  /\ InOrder(ids) \in Seq(ids) /\ DOMAIN InOrder(ids) = 1..Len(InOrder(ids))
         /\ IsInjective(InOrder(ids)) /\ ToSet(InOrder(ids)) = ids
         /\ \A i, j \in DOMAIN InOrder(ids) : i < j => InOrder(ids)[i] < InOrder(ids)[j]
  <1> DEFINE R == {p \in ids \X ids : p[1] < p[2]}
  <1>1. PICK s : s = InOrder(ids)
    OBVIOUS
  <1>2. \A x, y \in ids : <<x, y>> \in R <=> x < y
    OBVIOUS
  <1>3. StrictOrder(R, ids)
    BY <1>2 DEF StrictOrder
  <1>4. \A x \in ids : Place(R, ids, x) = Cardinality({y \in ids : y < x})
    <2>1. \A x \in ids : {y \in ids : <<y, x>> \in R} = {y \in ids : y < x}
      BY <1>2
    <2> HIDE DEF R
    <2>2. QED
      BY <2>1 DEF Place
  <1> HIDE DEF R
  <1>5. s = [i \in 1..Cardinality(ids) |->
               CHOOSE x \in ids : Cardinality({y \in ids : y < x}) = i - 1]
    BY <1>1 DEF InOrder, Sorted
  <1>6. ASSUME NEW i \in 1..Cardinality(ids)
        PROVE  s[i] \in ids /\ Place(R, ids, s[i]) = i - 1
    <2>1. \E x \in ids : Cardinality({y \in ids : y < x}) = i - 1
      <3>1. PICK x \in ids : Place(R, ids, x) = i - 1
        BY <1>3, PlaceTaken
      <3>2. QED
        BY <1>4, <3>1
    <2>2. s[i] = CHOOSE x \in ids : Cardinality({y \in ids : y < x}) = i - 1
      BY <1>5
    <2>3. s[i] \in ids /\ Cardinality({y \in ids : y < s[i]}) = i - 1
      BY <2>1, <2>2, Zenon
    <2>4. QED
      BY <1>4, <2>3
  <1>7. s \in [1..Cardinality(ids) -> ids]
    BY <1>5, <1>6, Zenon
  <1>8. /\ s \in Seq(ids) /\ Len(s) = Cardinality(ids) /\ DOMAIN s = 1..Cardinality(ids)
        /\ IsInjective(s) /\ ToSet(s) = ids
        /\ \A i, j \in DOMAIN s : <<s[i], s[j]>> \in R <=> i < j
    <2>1. \A i \in 1..Cardinality(ids) : Place(R, ids, s[i]) = i - 1
      BY <1>6
    <2>2. QED
      BY <1>3, <1>7, <2>1, SortedList
  <1>9. ASSUME NEW i \in DOMAIN s, NEW j \in DOMAIN s, i < j
        PROVE  s[i] < s[j]
    BY <1>2, <1>6, <1>8, <1>9
  <1>10. QED
    BY <1>1, <1>8, <1>9

\* f consists of the first i lists, each of k elements.
Blocks(S, k, seqs, i, f) ==
    /\ f \in Seq(S) /\ Len(f) = i * k
    /\ \A j \in 1..i, m \in 1..k :
         (j - 1) * k + m \in 1..(i * k) /\ f[(j - 1) * k + m] = seqs[j][m]
    /\ \A p \in 1..(i * k) : \E j \in 1..i, m \in 1..k : p = (j - 1) * k + m

LEMMA OneMoreBlock ==
  ASSUME NEW S, NEW k \in Nat, NEW seqs, NEW i \in Nat, NEW f, Blocks(S, k, seqs, i, f),
         seqs[i + 1] \in Seq(S), Len(seqs[i + 1]) = k
  PROVE  Blocks(S, k, seqs, i + 1, f \o seqs[i + 1])
  <1>1. PICK a \in Nat : a = i * k
    OBVIOUS
  <1>2. (i + 1) * k = a + k /\ ((i + 1) - 1) * k = a
    BY <1>1
  <1>3. PICK g : g = f \o seqs[i + 1]
    OBVIOUS
  <1>4. f \in Seq(S) /\ Len(f) = a
    BY <1>1 DEF Blocks
  <1>5. /\ g \in Seq(S) /\ Len(g) = a + k
        /\ \A p \in 1..(a + k) : g[p] = IF p <= a THEN f[p] ELSE seqs[i + 1][p - a]
    BY <1>3, <1>4, ConcatProperties
  <1>6. ASSUME NEW j \in 1..(i + 1), NEW m \in 1..k
        PROVE  (j - 1) * k + m \in 1..(a + k) /\ g[(j - 1) * k + m] = seqs[j][m]
    <2>1. CASE j \in 1..i
      <3>1. (j - 1) * k + m \in 1..a /\ f[(j - 1) * k + m] = seqs[j][m]
        BY <1>1, <2>1 DEF Blocks
      <3>2. PICK p \in 1..a : p = (j - 1) * k + m
        BY <3>1
      <3>3. p \in 1..(a + k) /\ g[p] = f[p]
        BY <1>5, <3>2
      <3>4. QED
        BY <3>1, <3>2, <3>3
    <2>2. CASE j = i + 1
      <3>1. (j - 1) * k = a
        BY <1>2, <2>2
      <3>2. a + m \in 1..(a + k) /\ ~(a + m <= a) /\ (a + m) - a = m
        OBVIOUS
      <3>3. g[a + m] = seqs[i + 1][m]
        BY <1>5, <3>2
      <3>4. QED
        BY <2>2, <3>1, <3>2, <3>3
    <2>3. QED
      BY <2>1, <2>2
  <1>7. ASSUME NEW p \in 1..(a + k)
        PROVE  \E j \in 1..(i + 1), m \in 1..k : p = (j - 1) * k + m
    <2>1. CASE p <= a
      <3>1. p \in 1..(i * k)
        BY <1>1, <2>1
      <3>2. PICK j \in 1..i, m \in 1..k : p = (j - 1) * k + m
        BY <3>1 DEF Blocks
      <3>3. j \in 1..(i + 1)
        OBVIOUS
      <3>4. QED
        BY <3>2, <3>3
    <2>2. CASE p > a
      <3>1. p - a \in 1..k /\ i + 1 \in 1..(i + 1) /\ p = a + (p - a)
        BY <2>2
      <3>2. p = ((i + 1) - 1) * k + (p - a)
        BY <1>2, <3>1
      <3>3. QED
        BY <3>1, <3>2
    <2>3. QED
      BY <2>1, <2>2
  <1>8. Blocks(S, k, seqs, i + 1, g)
    <2>1. 1..((i + 1) * k) = 1..(a + k)
      BY <1>2
    <2>2. g \in Seq(S) /\ Len(g) = (i + 1) * k
      BY <1>2, <1>5
    <2>3. \A j \in 1..(i + 1), m \in 1..k :
            (j - 1) * k + m \in 1..((i + 1) * k) /\ g[(j - 1) * k + m] = seqs[j][m]
      BY <1>6, <2>1
    <2>4. ASSUME NEW p \in 1..((i + 1) * k)
          PROVE  \E j \in 1..(i + 1), m \in 1..k : p = (j - 1) * k + m
      <3>1. p \in 1..(a + k)
        BY <2>1
      <3>2. QED
        BY <1>7, <3>1, Zenon
    <2>5. QED
      BY <2>2, <2>3, <2>4, Zenon DEF Blocks
  <1>9. QED
    BY <1>3, <1>8

\* Lists of one length, joined.
LEMMA FlattenBlocks ==
  ASSUME NEW S, NEW k \in Nat, NEW n \in Nat, NEW seqs \in [1..n -> Seq(S)],
         \A i \in 1..n : Len(seqs[i]) = k
  PROVE  Blocks(S, k, seqs, n, FlattenSeq(seqs))
  <1>1. Len(seqs) = n
    OBVIOUS
  <1>2. Blocks(S, k, seqs, 0, <<>>)
    <2>1. <<>> \in Seq(S) /\ Len(<<>>) = 0
      OBVIOUS
    <2>2. 0 * k = 0 /\ 1..0 = {}
      OBVIOUS
    <2>3. QED
      BY <2>1, <2>2 DEF Blocks
  <1>3. CASE n = 0
    <2>1. FlattenSeq(seqs) = seqs
      BY <1>1, <1>3, Zenon DEF FlattenSeq
    <2>2. seqs = <<>>
      BY <1>3
    <2>3. QED
      BY <1>2, <1>3, <2>1, <2>2
  <1>4. CASE n # 0
    <2>1. PICK g : Steps(seqs, n, g) /\ FlattenSeq(seqs) = g[n]
      BY <1>1, <1>4, FlattenJoins
    <2>2. \A i \in 1..n : g[i] = IF i = 1 THEN seqs[i] ELSE g[i - 1] \o seqs[i]
      BY <2>1 DEF Steps
    <2> DEFINE T == {i \in 1..n : ~Blocks(S, k, seqs, i, g[i])}
    <2>3. CASE T = {}
      <3>1. n \in 1..n
        BY <1>4
      <3>2. QED
        BY <2>1, <2>3, <3>1
    <2>4. CASE T # {}
      <3>1. PICK i \in T : \A j \in T : i <= j
        <4>1. T \in SUBSET Nat /\ T # {}
          BY <2>4
        <4> HIDE DEF T
        <4>2. QED
          BY <4>1, FirstPosition
      <3>2. i \in 1..n /\ seqs[i] \in Seq(S) /\ Len(seqs[i]) = k
        OBVIOUS
      <3>3. CASE i = 1
        <4>1. g[1] = <<>> \o seqs[1]
          BY <2>2, <3>2, <3>3, ConcatEmptySeq
        <4>2. Blocks(S, k, seqs, 0 + 1, <<>> \o seqs[0 + 1])
          <5>1. seqs[0 + 1] \in Seq(S) /\ Len(seqs[0 + 1]) = k
            BY <3>2, <3>3
          <5>2. 0 \in Nat
            OBVIOUS
          <5>3. QED
            BY <1>2, <5>1, <5>2, OneMoreBlock
        <4>3. 0 + 1 = 1
          OBVIOUS
        <4>4. QED
          BY <3>1, <3>3, <4>1, <4>2, <4>3
      <3>4. CASE i # 1
        <4>1. i - 1 \in 1..n /\ i - 1 \in Nat /\ (i - 1) + 1 = i /\ i - 1 \notin T
          BY <3>1, <3>2, <3>4
        <4>2. Blocks(S, k, seqs, i - 1, g[i - 1])
          BY <4>1
        <4>3. Blocks(S, k, seqs, (i - 1) + 1, g[i - 1] \o seqs[(i - 1) + 1])
          BY <3>2, <4>1, <4>2, OneMoreBlock
        <4>4. g[i] = g[i - 1] \o seqs[i]
          BY <2>2, <3>2, <3>4
        <4>5. QED
          BY <3>1, <4>1, <4>3, <4>4
      <3>5. QED
        BY <3>3, <3>4
    <2>5. QED
      BY <2>3, <2>4
  <1>5. QED
    BY <1>3, <1>4

\* An earlier block ends before a later one begins.
LEMMA BlocksInOrder ==
  ASSUME NEW k \in Nat, NEW i \in Nat, NEW j \in Nat, i < j, NEW m \in 1..k, NEW l \in 1..k
  PROVE  (i - 1) * k + m < (j - 1) * k + l
  <1>1. PICK d \in Nat : j = i + 1 + d
    <2>1. j - i - 1 \in Nat /\ j = i + 1 + (j - i - 1)
      OBVIOUS
    <2>2. QED
      BY <2>1
  <1>2. PICK a \in Int, b \in Nat : a = (i - 1) * k /\ b = d * k
    OBVIOUS
  <1>3. (j - 1) * k = a + k + b
    BY <1>1, <1>2
  <1>4. QED
    BY <1>2, <1>3

AttachedIds == IdsOf(runner.attached)
Pairs == [job : AttachedIds, method : ToSet(Methods)]

\* The plan has every pair of an attached job and a method, once, jobs in the order of
\* their ids (runner.py:119-148).
LEMMA PlanComplete ==
  ASSUME AttachedIds \in SUBSET Int, IsFiniteSet(AttachedIds)
  PROVE  /\ Plan \in Seq(Pairs)
         /\ \A x \in Pairs : \E p \in DOMAIN Plan : Plan[p] = x
         /\ \A p, q \in DOMAIN Plan : p < q =>
              Plan[p] # Plan[q] /\ Plan[p].job <= Plan[q].job
  <1> DEFINE row(j) == [m \in DOMAIN Methods |-> [job |-> j, method |-> Methods[m]]]
             rows == [i \in DOMAIN EvaluatedJobs |-> row(EvaluatedJobs[i])]
  <1>0. Methods \in Seq({"dense", "tfidf", "llm", "hybrid"}) /\ IsInjective(Methods)
    BY EvaluationAssumption
  <1>1. PICK js : js = EvaluatedJobs
    OBVIOUS
  <1>2. /\ js \in Seq(AttachedIds) /\ DOMAIN js = 1..Len(js)
        /\ IsInjective(js) /\ ToSet(js) = AttachedIds
        /\ \A i, j \in DOMAIN js : i < j => js[i] < js[j]
    BY <1>1, IdsSorted DEF EvaluatedJobs, AttachedIds
  <1>3. PICK n \in Nat, k \in Nat : n = Len(js) /\ k = Len(Methods)
    <2>1. Len(js) \in Nat /\ Len(Methods) \in Nat
      BY <1>0, <1>2, LenProperties
    <2>2. QED
      BY <2>1
  <1>4. /\ \A i \in 1..n : js[i] \in AttachedIds
        /\ DOMAIN Methods = 1..k /\ \A m \in 1..k : Methods[m] \in ToSet(Methods)
        /\ \A m, l \in 1..k : Methods[m] = Methods[l] => m = l
    <2>1. DOMAIN Methods = 1..k
      BY <1>0, <1>3
    <2>2. \A i \in 1..n : js[i] \in AttachedIds
      BY <1>2, <1>3
    <2>3. QED
      BY <1>0, <2>1, <2>2 DEF ToSet, IsInjective
  <1>5. rows \in [1..n -> Seq(Pairs)] /\ \A i \in 1..n : rows[i] = row(js[i]) /\ Len(rows[i]) = k
    <2>1. ASSUME NEW j \in AttachedIds
          PROVE  row(j) \in Seq(Pairs) /\ Len(row(j)) = k
      <3>1. row(j) \in [1..k -> Pairs]
        BY <1>4 DEF Pairs
      <3> HIDE DEF row
      <3>2. QED
        BY <3>1
    <2> HIDE DEF row
    <2>2. DOMAIN js = 1..n
      BY <1>2, <1>3
    <2>3. rows = [i \in 1..n |-> row(js[i])]
      BY <1>1, <2>2, Zenon
    <2>4. \A i \in 1..n : row(js[i]) \in Seq(Pairs) /\ Len(row(js[i])) = k
      BY <1>4, <2>1
    <2>5. QED
      BY <2>3, <2>4
  <1>6. PICK f : f = Plan
    OBVIOUS
  <1>7. f = FlattenSeq(rows)
    BY <1>6, Zenon DEF Plan
  <1> HIDE DEF rows
  <1>8. Blocks(Pairs, k, rows, n, f)
    BY <1>5, <1>7, FlattenBlocks
  <1>9. f \in Seq(Pairs) /\ DOMAIN f = 1..(n * k)
    BY <1>8 DEF Blocks
  <1>10. ASSUME NEW i \in 1..n, NEW m \in 1..k
         PROVE  /\ (i - 1) * k + m \in DOMAIN f
                /\ f[(i - 1) * k + m] = [job |-> js[i], method |-> Methods[m]]
    <2>1. rows[i][m] = [job |-> js[i], method |-> Methods[m]]
      BY <1>4, <1>5
    <2>2. (i - 1) * k + m \in 1..(n * k) /\ f[(i - 1) * k + m] = rows[i][m]
      BY <1>8 DEF Blocks
    <2>3. QED
      BY <1>9, <2>1, <2>2
  <1>11. ASSUME NEW x \in Pairs
         PROVE  \E p \in DOMAIN f : f[p] = x
    <2>1. PICK i \in 1..n : js[i] = x.job
      BY <1>2, <1>3 DEF Pairs, ToSet
    <2>2. PICK m \in 1..k : Methods[m] = x.method
      BY <1>4 DEF Pairs, ToSet
    <2>3. x = [job |-> js[i], method |-> Methods[m]]
      BY <2>1, <2>2 DEF Pairs
    <2>4. QED
      BY <1>10, <2>3
  <1>12. ASSUME NEW p \in DOMAIN f, NEW q \in DOMAIN f, p < q
         PROVE  f[p] # f[q] /\ f[p].job <= f[q].job
    <2>1. PICK i \in 1..n, m \in 1..k : p = (i - 1) * k + m
      BY <1>8, <1>9 DEF Blocks
    <2>2. PICK j \in 1..n, l \in 1..k : q = (j - 1) * k + l
      BY <1>8, <1>9 DEF Blocks
    <2>3. i <= j
      <3>1. ~(j < i)
        <4>1. j < i => q < p
          BY <2>1, <2>2, BlocksInOrder
        <4>2. p \in Int /\ q \in Int
          BY <1>9
        <4>3. QED
          BY <1>12, <4>1, <4>2
      <3>2. QED
        BY <3>1
    <2>4. i = j => m # l
      BY <1>12, <2>1, <2>2
    <2>5. js[i] <= js[j] /\ (js[i] = js[j] => i = j) /\ js[i] \in Int /\ js[j] \in Int
      <3>1. DOMAIN js = 1..n
        BY <1>2, <1>3
      <3>2. js[i] \in Int /\ js[j] \in Int
        BY <1>4
      <3>3. QED
        BY <1>2, <2>3, <3>1, <3>2
    <2>6. /\ f[p] = [job |-> js[i], method |-> Methods[m]]
          /\ f[q] = [job |-> js[j], method |-> Methods[l]]
      BY <1>10, <2>1, <2>2
    <2>7. QED
      BY <1>4, <2>4, <2>5, <2>6
  <1>13. QED
    BY <1>6, <1>9, <1>11, <1>12

----------------------------------------------------------------------------
(* The report.                                                              *)

\* What was evaluated is the beginning of the plan, all of it before anything is
\* written, and a labelled job is in the plan unless it was deleted before the last
\* SELECT.
ReportInv ==
    /\ runner.attached \subseteq Rows
    /\ runner.done \in Seq(Pairs) /\ Len(runner.done) <= Len(Plan)
    /\ \A i \in DOMAIN runner.done : runner.done[i] = Plan[i]
    /\ runner.pc \notin {"evaluate", "json", "written"} => runner.done = <<>>
    /\ runner.pc \notin {"json", "written"} => runner.report = {}
    /\ runner.pc = "json" => runner.report = {"md"}
    /\ runner.pc = "written" => runner.report = {"md", "json"}
    /\ runner.pc \in {"json", "written"} => Len(runner.done) = Len(Plan)
    /\ runner.pc \in {"evaluate", "json", "written"} =>
         \A j \in LabelledJobs : j \in AttachedIds \/ j \in deleted

\* The ids of rows can be sorted, and so the plan can be made (runner.py:125).
LEMMA AttachedPlan ==
  ASSUME runner.attached \subseteq Rows
  PROVE  /\ Plan \in Seq(Pairs) /\ Len(Plan) \in Nat /\ DOMAIN Plan = 1..Len(Plan)
         /\ \A x \in Pairs : \E p \in DOMAIN Plan : Plan[p] = x
         /\ \A p, q \in DOMAIN Plan : p < q =>
              Plan[p] # Plan[q] /\ Plan[p].job <= Plan[q].job
  <1>1. MaxId \in Nat
    BY JobsAssumption
  <1>2. AttachedIds \in SUBSET (1..MaxId)
    BY DEF AttachedIds, IdsOf, Rows, Ids
  <1>3. AttachedIds \in SUBSET Int /\ IsFiniteSet(AttachedIds)
    <2>1. IsFiniteSet(1..MaxId)
      BY <1>1, FS_Interval
    <2>2. IsFiniteSet(AttachedIds)
      BY <1>2, <2>1, FS_Subset
    <2>3. QED
      BY <1>2, <2>2
  <1>4. PICK f : f = Plan
    OBVIOUS
  <1>5. f \in Seq(Pairs) => Len(f) \in Nat /\ DOMAIN f = 1..Len(f)
    OBVIOUS
  <1>6. QED
    BY <1>3, <1>4, <1>5, PlanComplete

\* A step that leaves the runner alone keeps ReportInv: a deleted job stays deleted
\* (db.py:62-73).
LEMMA TablesKeepReport ==
  ASSUME LabelsInv, ReportInv, Evaluate \/ Others \/ UNCHANGED vars, UNCHANGED runner
  PROVE  ReportInv'
  <1>1. [JobsNext]_jobsVars
    BY NamesLast DEF LabelsInv
  <1>2. deleted \subseteq deleted'
    BY <1>1, JobsLeaveAudited DEF LabelsInv
  <1>3. Plan' = Plan /\ Pairs' = Pairs /\ AttachedIds' = AttachedIds /\ LabelledJobs' = LabelledJobs
    BY DEF Plan, Pairs, AttachedIds, EvaluatedJobs, LabelledJobs
  <1>4. QED
    BY <1>2, <1>3 DEF ReportInv

\* resolve and the last SELECT find every labelled job or its entry in audit_log
\* (golden.py:107-149, runner.py:336-369).
LEMMA AttachKeepsReport ==
  ASSUME LabelsInv, ReportInv, Attach
  PROVE  ReportInv'
  <1>1. PICK read \in SUBSET jobs : /\ runner' = [runner EXCEPT !.pc = "evaluate", !.attached = read]
                                    /\ read = {r \in jobs : r.id \in LabelledJobs}
    BY DEF Attach
  <1>2. /\ runner'.pc = "evaluate" /\ runner'.attached = read /\ runner'.labelled = runner.labelled
        /\ runner'.done = runner.done /\ runner'.report = runner.report
    BY <1>1 DEF LabelsInv, RunnerShape
  <1>3. runner.done = <<>> /\ runner.report = {} /\ UNCHANGED deleted
    BY DEF Attach, ReportInv, jobsVars, table
  <1>4. runner'.attached \subseteq Rows
    BY <1>2 DEF LabelsInv, CatalogInv, TableInv
  <1>5. Len(Plan') \in Nat
    <2>1. (runner.attached \subseteq Rows => Len(Plan) \in Nat)'
      BY AttachedPlan
    <2>2. QED
      BY <1>4, <2>1
  <1>6. ASSUME NEW j \in LabelledJobs'
        PROVE  j \in AttachedIds' \/ j \in deleted'
    <2>1. LabelledJobs' = LabelledJobs
      BY <1>2 DEF LabelledJobs
    <2>2. PICK e \in Labels : j = runner.labelled[e].job
      BY <2>1 DEF LabelledJobs, Labels
    <2>3. JobTitled(j, TitleOf(e))
      BY <2>2 DEF LabelsInv, PairsInv
    <2>4. ASSUME NEW r \in jobs, r.id = j
          PROVE  j \in AttachedIds'
      <3>1. r \in runner'.attached
        BY <1>1, <1>2, <2>1, <2>4
      <3>2. QED
        BY <2>4, <3>1 DEF AttachedIds, IdsOf
    <2>5. QED
      BY <1>3, <2>3, <2>4 DEF JobTitled
  <1>7. /\ runner'.done \in Seq(Pairs') /\ Len(runner'.done) = 0 /\ DOMAIN runner'.done = {}
    BY <1>2, <1>3
  <1>8. QED
    BY <1>2, <1>3, <1>4, <1>5, <1>6, <1>7 DEF ReportInv

\* The loop of run_eval and the two files keep to the plan (runner.py:119-148,
\* 336-369).
LEMMA EvaluationKeepsReport ==
  ASSUME LabelsInv, ReportInv, EvalOne \/ WriteMarkdown \/ WriteJson
  PROVE  ReportInv'
  <1>0. UNCHANGED deleted
    BY DEF EvalOne, WriteMarkdown, WriteJson, jobsVars, table
  <1>1. runner'.attached = runner.attached /\ runner'.labelled = runner.labelled
    BY DEF EvalOne, WriteMarkdown, WriteJson, LabelsInv, RunnerShape
  <1>2. Plan' = Plan /\ Pairs' = Pairs /\ AttachedIds' = AttachedIds /\ LabelledJobs' = LabelledJobs
    BY <1>1 DEF Plan, Pairs, AttachedIds, EvaluatedJobs, LabelledJobs
  <1>3. CASE EvalOne
    <2>1. /\ runner'.pc = "evaluate" /\ runner.pc = "evaluate" /\ runner'.report = runner.report
          /\ runner'.done = Append(runner.done, NextPair) /\ Len(runner.done) < Len(Plan)
      BY <1>3 DEF EvalOne, LabelsInv, RunnerShape
    <2>2. Plan \in Seq(Pairs) /\ Len(Plan) \in Nat /\ DOMAIN Plan = 1..Len(Plan)
      BY AttachedPlan DEF ReportInv
    <2>3. PICK d \in Seq(Pairs) : d = runner.done
      BY DEF ReportInv
    <2>4. PICK n \in Nat : n = Len(d) /\ n + 1 \in 1..Len(Plan)
      BY <2>1, <2>2, <2>3
    <2>5. PICK f \in Seq(Pairs) : f = Plan
      BY <2>2
    <2>6. f[n + 1] \in Pairs /\ NextPair = f[n + 1]
      BY <2>2, <2>3, <2>4, <2>5 DEF NextPair
    <2>7. PICK g : g = Append(d, f[n + 1])
      OBVIOUS
    <2>8. /\ g \in Seq(Pairs) /\ Len(g) = n + 1 /\ DOMAIN g = 1..(n + 1)
          /\ g[n + 1] = f[n + 1] /\ \A i \in 1..n : g[i] = d[i]
      BY <2>4, <2>6, <2>7
    <2>9. \A i \in 1..n : d[i] = f[i]
      BY <2>3, <2>4, <2>5 DEF ReportInv
    <2>10. \A i \in DOMAIN g : g[i] = f[i]
      BY <2>8, <2>9
    <2>11. runner'.done = g
      BY <2>1, <2>3, <2>6, <2>7
    <2>12. Len(g) <= Len(f)
      BY <2>4, <2>5, <2>8
    <2>13. QED
      BY <1>0, <1>1, <1>2, <2>1, <2>5, <2>8, <2>10, <2>11, <2>12 DEF ReportInv
  <1>4. CASE WriteMarkdown
    <2>1. /\ runner'.pc = "json" /\ runner.pc = "evaluate" /\ runner'.report = {"md"}
          /\ runner'.done = runner.done /\ Len(runner.done) = Len(Plan)
      BY <1>4 DEF WriteMarkdown, AllDone, LabelsInv, RunnerShape
    <2>2. QED
      BY <1>0, <1>1, <1>2, <2>1 DEF ReportInv
  <1>5. CASE WriteJson
    <2>1. /\ runner'.pc = "written" /\ runner.pc = "json" /\ runner'.report = {"md", "json"}
          /\ runner'.done = runner.done
      BY <1>5 DEF WriteJson, LabelsInv, RunnerShape
    <2>2. QED
      BY <1>0, <1>1, <1>2, <2>1 DEF ReportInv
  <1>6. QED
    BY <1>3, <1>4, <1>5

\* Before the evaluation, and after its failure, nothing is done or written
\* (runner.py:336-438).
NothingYet ==
    /\ runner.attached \subseteq Rows /\ runner.done = <<>> /\ runner.report = {}
    /\ runner.pc \notin {"evaluate", "json", "written"}

LEMMA NothingReported == NothingYet => ReportInv
  <1> SUFFICES ASSUME NothingYet
               PROVE  ReportInv
    OBVIOUS
  <1> USE DEF NothingYet
  <1>1. Len(Plan) \in Nat
    BY AttachedPlan
  <1>2. runner.done \in Seq(Pairs) /\ Len(runner.done) = 0 /\ DOMAIN runner.done = {}
    OBVIOUS
  <1>3. QED
    BY <1>1, <1>2 DEF ReportInv

LEMMA ReportStep == LabelsInv /\ ReportInv /\ [Next]_vars => ReportInv'
  <1> SUFFICES ASSUME LabelsInv, ReportInv, [Next]_vars
               PROVE  ReportInv'
    OBVIOUS
  <1>1. CASE Others \/ UNCHANGED vars
    <2>1. UNCHANGED runner
      BY <1>1 DEF Others, Arrive, Leave, vars
    <2>2. QED
      BY <1>1, <2>1, TablesKeepReport
  <1>2. CASE IndexCandidates \/ IndexJobs \/ Resolve \/ EvalFails
    <2>1. /\ runner'.pc \notin {"evaluate", "json", "written"}
          /\ runner'.done = <<>> /\ runner'.report = {} /\ runner'.attached \subseteq Rows
      <3>1. CASE EvalFails
        BY <3>1 DEF EvalFails, NewRunner
      <3>2. CASE IndexCandidates
        <4>1. PICK index : runner' = [runner EXCEPT !.pc = "jobs", !.resumes = index]
          BY <3>2 DEF IndexCandidates
        <4>2. runner.pc = "candidates"
          BY <3>2 DEF IndexCandidates
        <4>3. QED
          BY <4>1, <4>2 DEF LabelsInv, RunnerShape, ReportInv
      <3>3. CASE IndexJobs
        <4>1. PICK index, unread :
                runner' = [runner EXCEPT !.pc = "resolve", !.titles = index, !.unread = unread]
          BY <3>3 DEF IndexJobs
        <4>2. runner.pc = "jobs"
          BY <3>3 DEF IndexJobs
        <4>3. QED
          BY <4>1, <4>2 DEF LabelsInv, RunnerShape, ReportInv
      <3>4. CASE Resolve
        <4>1. PICK labelled :
                runner' = [runner EXCEPT !.pc = "attach", !.resumes = <<>>, !.titles = <<>>,
                                         !.unread = {}, !.labelled = labelled]
          BY <3>4 DEF Resolve
        <4>2. runner.pc = "resolve"
          BY <3>4 DEF Resolve
        <4>3. QED
          BY <4>1, <4>2 DEF LabelsInv, RunnerShape, ReportInv
      <3>5. QED
        BY <1>2, <3>1, <3>2, <3>3, <3>4
    <2>2. NothingYet'
      BY <2>1 DEF NothingYet
    <2>3. QED
      BY <2>2, NothingReported, PTL
  <1>3. CASE Attach
    BY <1>3, AttachKeepsReport
  <1>4. CASE EvalOne \/ WriteMarkdown \/ WriteJson
    BY <1>4, EvaluationKeepsReport
  <1>5. QED
    BY <1>1, <1>2, <1>3, <1>4 DEF Next, Evaluate

LEMMA ReportFacts == ReportInv => ReportComplete
  <1> SUFFICES ASSUME ReportInv
               PROVE  ReportComplete
    OBVIOUS
  <1> DEFINE done == runner.done
  <1>1. /\ Plan \in Seq(Pairs) /\ Len(Plan) \in Nat /\ DOMAIN Plan = 1..Len(Plan)
        /\ \A x \in Pairs : \E p \in DOMAIN Plan : Plan[p] = x
        /\ \A p, q \in DOMAIN Plan : p < q =>
             Plan[p] # Plan[q] /\ Plan[p].job <= Plan[q].job
    BY AttachedPlan DEF ReportInv
  <1>2. /\ done \in Seq(Pairs) /\ DOMAIN done = 1..Len(done) /\ Len(done) \in Nat
        /\ DOMAIN done \subseteq DOMAIN Plan /\ \A i \in DOMAIN done : done[i] = Plan[i]
    <2>1. PICK d \in Seq(Pairs) : d = done /\ Len(d) <= Len(Plan)
      BY DEF ReportInv
    <2>2. DOMAIN d = 1..Len(d) /\ Len(d) \in Nat
      OBVIOUS
    <2>3. QED
      BY <1>1, <2>1, <2>2 DEF ReportInv
  <1> HIDE DEF done
  <1>3. ASSUME NEW p \in DOMAIN done, NEW q \in DOMAIN done, p < q
        PROVE  done[p].job <= done[q].job
    BY <1>1, <1>2, <1>3
  <1>4. ASSUME runner.report # {}, NEW j \in LabelledJobs, NEW m \in ToSet(Methods)
        PROVE  TimesDone(j, m) = 1 \/ (TimesDone(j, m) = 0 /\ j \in deleted)
    <2> DEFINE at == {i \in DOMAIN done : done[i] = [job |-> j, method |-> m]}
    <2>1. DOMAIN done = DOMAIN Plan /\ (j \in AttachedIds \/ j \in deleted)
      <3>1. runner.pc \in {"json", "written"}
        BY <1>4 DEF ReportInv
      <3>2. QED
        BY <1>1, <1>2, <3>1 DEF ReportInv, done
    <2>2. TimesDone(j, m) = Cardinality(at)
      BY DEF TimesDone, done
    <2>3. CASE j \in AttachedIds
      <3>1. [job |-> j, method |-> m] \in Pairs
        BY <2>3 DEF Pairs
      <3>2. PICK p \in DOMAIN Plan : Plan[p] = [job |-> j, method |-> m]
        BY <1>1, <3>1
      <3>3. ASSUME NEW q \in at
            PROVE  q = p
        <4>1. q \in DOMAIN Plan /\ Plan[q] = Plan[p] /\ q \in Int /\ p \in Int
          BY <1>1, <1>2, <2>1, <3>2
        <4>2. ~(p < q) /\ ~(q < p)
          BY <1>1, <4>1
        <4>3. QED
          BY <4>1, <4>2
      <3>4. at = {p}
        BY <1>2, <2>1, <3>2, <3>3
      <3>5. QED
        BY <2>2, <3>4, FS_Singleton
    <2>4. CASE j \notin AttachedIds
      <3>1. at = {}
        <4>1. \A i \in DOMAIN done : done[i] \in Pairs
          BY <1>2
        <4>2. QED
          BY <2>4, <4>1 DEF Pairs
      <3>2. QED
        BY <2>1, <2>2, <2>4, <3>1, FS_EmptySet
    <2>5. QED
      BY <2>3, <2>4
  <1>5. "json" \in runner.report => "md" \in runner.report
    BY DEF ReportInv
  <1>6. QED
    BY <1>3, <1>4, <1>5 DEF ReportComplete, done

\* Whatever jobs are deleted or created during a run: its report has every labelled job
\* with every method, once and in the order of the jobs, but for jobs that audit_log
\* says were deleted, and there is no JSON without the markdown (runner.py:119-148,
\* 336-369).
THEOREM ReportsAreComplete == Spec => []ReportComplete
  <1>1. Init => ReportInv
    BY NothingReported DEF Init, NewRunner, NothingYet
  <1>2. QED
    BY <1>1, ReportFacts, ReportStep, LabelsStart, LabelsStep, PTL DEF Spec

=============================================================================
