-------------------------- MODULE DashboardProofs --------------------------
(***************************************************************************)
(* Proofs about Dashboard, for every number of sessions, clicks, starts and *)
(* crashes: what it does to the jobs is what Jobs allows, and what a page   *)
(* tells is true.                                                           *)
(***************************************************************************)
EXTENDS Dashboard, JobsProofs

----------------------------------------------------------------------------
(* The pages.                                                               *)

\* The fields that the proofs look at.
HasFields(p) == {"pc", "click", "row", "told"} \subseteq DOMAIN p

\* A click on the button of the form carries what the form holds.
ClickTyped(click) ==
    click.on = "save" => click.title \in Titles /\ click.language \in Languages

PageTyped ==
    /\ DOMAIN page = Clients
    /\ \A s \in Clients : HasFields(page[s]) /\ ClickTyped(page[s].click)

\* What a page tells stays, or goes with the run that has told it.
Goes(p, q) ==
    /\ HasFields(q) /\ ClickTyped(q.click)
    /\ q.row = {} \/ (q.row = p.row /\ q.told = p.told)

\* A step of the page of s alone.
PageStep(s) ==
    /\ Goes(page[s], page'[s])
    /\ DOMAIN page' = Clients
    /\ \A t \in Clients \ {s} : page'[t] = page[t]

\* A click starts a run, and the messages of the last one go
\* (streamlit_app.py:480-500, 600-692).
LEMMA ClickSteps ==
  ASSUME PageTyped, NEW s \in Clients, Click(s)
  PROVE  PageStep(s) /\ UNCHANGED jobsVars
  <1>1. ASSUME NEW p, HasFields(p), NEW click, ClickTyped(click), Run(s, p, click)
        PROVE  PageStep(s) /\ UNCHANGED jobsVars
    BY <1>1 DEF Run, Set, PageStep, Goes, HasFields, PageTyped
  <1>2. QED
    BY <1>1 DEF Click, Select, TickConfirm, Upload, ClickDelete, ClickSave, PageTyped,
       HasFields, ClickTyped, Browse

\* Of the steps of the script, Saved and Deleted tell something new
\* (streamlit_app.py:480-692).
LEMMA ScriptSteps ==
  ASSUME PageTyped, CatalogInv, NEW s \in Clients, Script(s)
  PROVE  /\ [JobsNext]_jobsVars
         /\ DOMAIN page' = Clients /\ \A t \in Clients \ {s} : page'[t] = page[t]
         /\ HasFields(page'[s]) /\ ClickTyped(page'[s].click)
         /\ \/ PageStep(s)
            \/ Created(s) /\ page'[s].told = "saved" /\ page'[s].row = rpc[s].row
            \/ CommitDelete(s) /\ page'[s].told = "deleted" /\ page'[s].row = rpc[s].row
  <1> USE DEF PageTyped, HasFields, ClickTyped, PageStep, Goes, Set
  <1>1. CASE FetchCached(s) \/ Store(s) \/ FetchFails(s)
    <2>1. PICK rows : page' = [page EXCEPT ![s] = WithRows(page[s], rows)]
      BY <1>1 DEF FetchCached, Store, FetchFails
    <2>2. UNCHANGED jobsVars
      BY <1>1 DEF FetchCached, Store, FetchFails
    <2>3. LET p == page[s]
              q == WithRows(p, rows)
          IN  HasFields(q) /\ q.click = p.click /\ q.row = p.row /\ q.told = p.told
      BY DEF WithRows, Draw
    <2>4. QED
      BY <2>1, <2>2, <2>3
  <1>2. CASE Fetch(s) \/ ParseFails(s) \/ NotSubmitted(s) \/ PostFails(s) \/ AfterSave(s)
    BY <1>2 DEF Fetch, ParseFails, NotSubmitted, PostFails, AfterSave
  <1>3. CASE ParseDocument(s) \/ AfterDelete(s) \/ Rest(s) \/ Unanswered(s)
    <2>1. CASE ParseDocument(s) \/ AfterDelete(s)
      <3>1. PICK p : page' = [page EXCEPT ![s] = Restart(p)] /\ p \in {page[s], Marked(page[s])}
        BY <2>1 DEF ParseDocument, AfterDelete
      <3>2. HasFields(p) /\ p.row = page[s].row /\ p.told = page[s].told
        BY <3>1 DEF Marked
      <3>3. LET q == Restart(p)
            IN  HasFields(q) /\ q.click = NoClick /\ q.row = p.row /\ q.told = p.told
        BY <3>2 DEF Restart
      <3>4. UNCHANGED jobsVars
        BY <2>1 DEF ParseDocument, AfterDelete
      <3>5. QED
        BY <3>1, <3>2, <3>3, <3>4 DEF NoClick
    <2>2. CASE Rest(s)
      BY <2>2 DEF Rest, NoClick
    <2>3. CASE Unanswered(s)
      <3>1. PICK step : page' = [page EXCEPT ![s] = [page[s] EXCEPT !.pc = step,
                                                                   !.click = NoClick]]
        BY <2>3 DEF Unanswered
      <3>2. UNCHANGED jobsVars
        BY <2>3 DEF Unanswered
      <3>3. QED
        BY <3>1, <3>2 DEF NoClick
    <2>4. QED
      BY <1>3, <2>1, <2>2, <2>3
  <1>4. CASE Post(s)
    <2>1. /\ page' = [page EXCEPT ![s] = [page[s] EXCEPT !.pc = "saving"]]
          /\ page[s].click.on = "save"
          /\ InsertJob(s, [title |-> page[s].click.title, language |-> page[s].click.language])
      BY <1>4 DEF Post, Submits
    <2>2. [title |-> page[s].click.title, language |-> page[s].click.language] \in Bodies
      BY <2>1 DEF Bodies
    <2>3. JobsNext
      BY <2>1, <2>2 DEF JobsNext, CreateJob
    <2>4. QED
      BY <2>1, <2>3
  <1>5. CASE Delete(s)
    <2>1. /\ page' = [page EXCEPT ![s] = [page[s] EXCEPT !.pc = "deleting"]]
          /\ FindJob(s, page[s].selected)
      BY <1>5 DEF Delete
    <2>2. page[s].selected \in Ids
      BY <2>1 DEF FindJob, RowsOf, CatalogInv, TableInv, Rows
    <2>3. JobsNext
      BY <2>1, <2>2 DEF JobsNext, DeleteJob
    <2>4. QED
      BY <2>1, <2>3
  <1>6. CASE DeleteRefused(s)
    BY <1>6 DEF DeleteRefused, NoSuchJob, NoClick
  <1>7. CASE Saved(s)
    <2>1. page' = [page EXCEPT ![s] = [page[s] EXCEPT !.pc = "saved", !.told = "saved",
                                                      !.row = rpc[s].row]]
          /\ Created(s)
      BY <1>7 DEF Saved
    <2>2. QED
      BY <2>1 DEF JobsNext, CreateJob
  <1>8. CASE Deleted(s)
    <2>1. page' = [page EXCEPT ![s] = [page[s] EXCEPT !.pc = "removed", !.told = "deleted",
                                                      !.row = rpc[s].row]]
          /\ CommitDelete(s)
      BY <1>8 DEF Deleted
    <2>2. QED
      BY <2>1 DEF JobsNext, DeleteJob
  <1>9. QED
    BY <1>1, <1>2, <1>3, <1>4, <1>5, <1>6, <1>7, <1>8 DEF Script

\* Whatever the pages do, they do it to the jobs through the API: each step is one of
\* Jobs or none (streamlit_app.py:44-48, 124-127, 601-604, jobs.py:53-258).
LEMMA StepOfJobs ==
  ASSUME PageTyped, CatalogInv, [Next]_vars
  PROVE  PageTyped' /\ [JobsNext]_jobsVars
  <1>1. ASSUME NEW s \in Clients, Click(s)
        PROVE  PageTyped' /\ [JobsNext]_jobsVars
    BY <1>1, ClickSteps DEF PageStep, Goes, PageTyped
  <1>2. ASSUME NEW s \in Clients, Script(s)
        PROVE  PageTyped' /\ [JobsNext]_jobsVars
    BY <1>2, ScriptSteps DEF PageTyped
  <1>3. ASSUME UNCHANGED page, [JobsNext]_jobsVars
        PROVE  PageTyped' /\ [JobsNext]_jobsVars
    BY <1>3 DEF PageTyped
  <1>4. ASSUME NEW s \in Clients, Handler(s)
        PROVE  PageTyped' /\ [JobsNext]_jobsVars
    BY <1>3, <1>4 DEF Handler, JobsNext, CreateJob, DeleteJob, pageVars
  <1>5. CASE Expire \/ (Lifespan /\ UNCHANGED pageVars) \/ UNCHANGED vars
    BY <1>3, <1>5 DEF Expire, JobsNext, pageVars, vars
  <1>6. QED
    BY <1>1, <1>2, <1>4, <1>5 DEF Next

\* At the start every page is new.
LEMMA PageInit == Init => PageTyped
  BY DEF Init, NewPage, NoClick, PageTyped, HasFields, ClickTyped

\* Sessions, with what they have cached and confirmed, ask nothing of the jobs that
\* Jobs does not allow; so its theorems hold behind the dashboard
\* (streamlit_app.py:44-48, 124-127, 601-604).
THEOREM DashboardUsesJobs == Spec => JobsSpec
  <1>1. Init => JobsInit
    BY DEF Init
  <1>2. PageTyped /\ CatalogInv /\ [Next]_vars => PageTyped' /\ CatalogInv'
    BY StepOfJobs, CatalogStep
  <1>3. PageTyped /\ CatalogInv /\ [Next]_vars => [JobsNext]_jobsVars
    BY StepOfJobs
  <1>4. QED
    BY <1>1, <1>2, <1>3, PageInit, CatalogInit, PTL DEF Spec, JobsSpec

----------------------------------------------------------------------------
(* What a page tells.                                                       *)

ToldInv == PageTyped /\ CatalogInv /\ ToldTrue

\* What a page tells is true when it says so, and remains true while others create
\* and delete jobs (streamlit_app.py:605-610, 687-692).
LEMMA ToldStep ==
  ASSUME ToldInv, [Next]_vars
  PROVE  ToldTrue'
  <1>1. PageTyped' /\ CatalogInv' /\ [JobsNext]_jobsVars
    BY StepOfJobs, CatalogStep DEF ToldInv
  <1>2. /\ deleted \subseteq deleted'
        /\ \A r \in jobs : r \in jobs' \/ r.id \in deleted'
        /\ \A r \in jobs' : r.id \notin deleted'
    BY <1>1, JobsLeaveAudited DEF ToldInv, CatalogInv, TableInv
  <1>3. ASSUME NEW t \in Clients,
               page'[t].row = {} \/ (page'[t].row = page[t].row /\ page'[t].told = page[t].told)
        PROVE  \A r \in page'[t].row :
                 /\ page'[t].told = "saved" => r \in jobs' \/ r.id \in deleted'
                 /\ page'[t].told = "deleted" => r \notin jobs' /\ r.id \in deleted'
    BY <1>2, <1>3 DEF ToldInv, ToldTrue
  <1>4. ASSUME NEW s \in Clients, Script(s)
        PROVE  ToldTrue'
    <2>1. \A t \in Clients \ {s} : page'[t] = page[t]
      BY <1>4, ScriptSteps DEF ToldInv
    <2>2. \A r \in page'[s].row :
            /\ page'[s].told = "saved" => r \in jobs' \/ r.id \in deleted'
            /\ page'[s].told = "deleted" => r \notin jobs' /\ r.id \in deleted'
      <3>1. CASE PageStep(s)
        BY <1>3, <3>1 DEF PageStep, Goes
      <3>2. CASE Created(s) /\ page'[s].told = "saved" /\ page'[s].row = rpc[s].row
        BY <1>2, <3>2 DEF Created
      <3>3. CASE CommitDelete(s) /\ page'[s].told = "deleted" /\ page'[s].row = rpc[s].row
        <4>1. \A r \in rpc[s].row : r.id \in deleted'
          BY <3>3 DEF CommitDelete, Audited, IdsOf
        <4>2. QED
          BY <1>2, <3>3, <4>1
      <3>4. QED
        BY <1>4, <3>1, <3>2, <3>3, ScriptSteps DEF ToldInv
    <2>3. QED
      BY <1>3, <2>1, <2>2 DEF ToldTrue
  <1>5. ASSUME NEW s \in Clients, Click(s)
        PROVE  ToldTrue'
    <2>1. PageStep(s)
      BY <1>5, ClickSteps DEF ToldInv
    <2>2. QED
      BY <1>3, <2>1 DEF PageStep, Goes, ToldTrue
  <1>6. ASSUME UNCHANGED page
        PROVE  ToldTrue'
    BY <1>3, <1>6 DEF ToldTrue
  <1>7. QED
    BY <1>4, <1>5, <1>6 DEF Next, Handler, Expire, pageVars, vars

\* What a page says of a job is true, with any number of sessions at work and the
\* server starting and crashing: a job called saved is in the table or was deleted
\* under the audit's eyes, one called deleted is gone and audited
\* (streamlit_app.py:605-610, 687-692, jobs.py:200-258).
THEOREM PagesTellTheTruth == Spec => []ToldTrue
  <1>1. Init => ToldInv
    <2>1. Init => ToldTrue
      BY DEF Init, NewPage, ToldTrue
    <2>2. Init => JobsInit
      BY DEF Init
    <2>3. QED
      BY <2>1, <2>2, PageInit, CatalogInit DEF ToldInv
  <1>2. ToldInv /\ [Next]_vars => ToldInv'
    BY ToldStep, StepOfJobs, CatalogStep DEF ToldInv
  <1>3. ToldInv => ToldTrue
    BY DEF ToldInv
  <1>4. QED
    BY <1>1, <1>2, <1>3, PTL DEF Spec

=============================================================================
