----------------------------- MODULE Dashboard ------------------------------
(***************************************************************************)
(* The recruiter's page, src/ui/streamlit_app.py, over the API of Jobs: the *)
(* search, add and list tabs of vacancies.  Streamlit runs the script from  *)
(* the top after every click, interrupts a run for the next click, and      *)
(* gives a select box whose options have changed its first option.  All     *)
(* sessions share the cache of fetch_jobs.                                  *)
(***************************************************************************)
EXTENDS Jobs

CONSTANTS
    Documents,    \* .docx files, by name and size
    NoDocument,
    NoCache,
    FailAt,       \* calls that may fail although the server is up
    MaxClicks     \* bound: clicks of a session

ASSUME DashboardAssumption ==
    /\ NoDocument \notin Documents /\ MaxClicks \in [Clients -> Nat]
    /\ FailAt \subseteq {"fetch", "parse", "post"}

MayFail(call) == api # "serving" \/ call \in FailAt

NoClick == [on |-> "nothing"]

VARIABLES
    cache,    \* what fetch_jobs has stored (st.cache_data, ttl=30)
    page,     \* the script of each session and its widgets
    clicks    \* how often each session has clicked

pageVars == <<cache, page, clicks>>
vars == <<jobsVars, pageVars>>

\* pc: where the run is; fetched: rows read, not yet stored; listed: the rows behind
\* the box of the list tab; parsed: the marker of the document in the form; row:
\* what the message told is about; aimed: history, what was chosen when the button was
\* clicked.
NewPage ==
    [pc |-> "idle", click |-> NoClick, fetched |-> {}, listed |-> {},
     selected |-> NoId, confirm |-> FALSE, document |-> NoDocument, parsed |-> NoDocument,
     told |-> "nothing", row |-> {}, aimed |-> NoId]

Init ==
    /\ JobsInit
    /\ cache = NoCache
    /\ page = [s \in Clients |-> NewPage]
    /\ clicks = [s \in Clients |-> 0]

Waiting(s) == page[s].pc \in {"saving", "deleting"}
Is(s, step) == page[s].pc = step
Set(s, p) == page' = [page EXCEPT ![s] = p]

----------------------------------------------------------------------------
(* The recruiter                                                            *)

\* A run starts; one that is not inside a request is interrupted for it, and
\* its messages go.
Run(s, p, click) ==
    /\ ~Waiting(s) /\ clicks[s] < MaxClicks[s]
    /\ clicks' = [clicks EXCEPT ![s] = @ + 1]
    /\ Set(s, [p EXCEPT !.pc = "search", !.click = click, !.told = "nothing", !.row = {},
                        !.aimed = IF click.on = "delete" THEN p.selected ELSE NoId])
    /\ UNCHANGED <<jobsVars, cache>>

Browse == [on |-> "browse"]

Select(s) ==
    \E r \in page[s].listed : Run(s, [page[s] EXCEPT !.selected = r.id], Browse)

\* The box stays ticked until it is clicked again or is not drawn.
TickConfirm(s) ==
    page[s].listed # {} /\ Run(s, [page[s] EXCEPT !.confirm = ~@], Browse)

Upload(s) ==
    \E d \in Documents \cup {NoDocument} :
        d # page[s].document /\ Run(s, [page[s] EXCEPT !.document = d], Browse)

ClickDelete(s) == page[s].listed # {} /\ page[s].confirm /\ Run(s, page[s], [on |-> "delete"])

ClickSave(s) ==
    \E click \in [on : {"save"}, title : Titles, language : Languages] : Run(s, page[s], click)

Click(s) == Select(s) \/ TickConfirm(s) \/ Upload(s) \/ ClickDelete(s) \/ ClickSave(s)

----------------------------------------------------------------------------
(* fetch_jobs                                                               *)

Newest(rows) == CHOOSE r \in rows : \A q \in rows : r.id >= q.id

\* The box keeps its choice as long as its options stay the same.
Draw(p, rows) ==
    IF rows = {} THEN [p EXCEPT !.listed = {}, !.selected = NoId, !.confirm = FALSE]
    ELSE IF rows = p.listed THEN p
    ELSE [p EXCEPT !.listed = rows, !.selected = Newest(rows).id]

\* What the run does with the rows it has got.
WithRows(p, rows) ==
    IF p.pc \in {"search", "search_store"}
    THEN [p EXCEPT !.pc = "form", !.fetched = {}]
    ELSE [Draw(p, rows) EXCEPT !.pc = "act", !.fetched = {}]

Fetches(s) == page[s].pc \in {"search", "list"}
StoreOf(step) == IF step = "search" THEN "search_store" ELSE "list_store"

FetchCached(s) ==
    /\ Fetches(s) /\ cache # NoCache
    /\ Set(s, WithRows(page[s], cache))
    /\ UNCHANGED <<jobsVars, cache, clicks>>

\* GET /jobs: list_jobs.
Fetch(s) ==
    /\ Fetches(s) /\ cache = NoCache /\ api = "serving"
    /\ Set(s, [page[s] EXCEPT !.pc = StoreOf(@), !.fetched = jobs])
    /\ UNCHANGED <<jobsVars, cache, clicks>>

\* The answer goes to the cache, even when the cache was cleared meanwhile.
Store(s) ==
    /\ page[s].pc \in {"search_store", "list_store"}
    /\ cache' = page[s].fetched
    /\ Set(s, WithRows(page[s], page[s].fetched))
    /\ UNCHANGED <<jobsVars, clicks>>

\* An error is shown in place of the list.
FetchFails(s) ==
    /\ Fetches(s) /\ cache = NoCache /\ MayFail("fetch")
    /\ Set(s, WithRows(page[s], {}))
    /\ UNCHANGED <<jobsVars, cache, clicks>>

\* 30 seconds are over.
Expire ==
    /\ cache # NoCache /\ cache' = NoCache
    /\ UNCHANGED <<jobsVars, page, clicks>>

----------------------------------------------------------------------------
(* The add tab                                                              *)

NewDocument(s) == Is(s, "form") /\ page[s].document \notin {NoDocument, page[s].parsed}

Restart(p) == [p EXCEPT !.pc = "search", !.click = NoClick]   \* st.rerun
Unmarked(p) == p   \* mutant
Marked(p) == [p EXCEPT !.parsed = p.document]

\* POST /jobs/parse-document answers, the form is filled, the run starts over;
\* a click on a button is forgotten in this.
ParseDocument(s) ==
    /\ NewDocument(s) /\ api = "serving"
    /\ Set(s, Restart(Marked(page[s])))
    /\ UNCHANGED <<jobsVars, cache, clicks>>

\* 415, 400, 422, or an error of the parser: a message, and the next run tries
\* again.
ParseFails(s) ==
    /\ NewDocument(s) /\ MayFail("parse")
    /\ Set(s, [page[s] EXCEPT !.pc = "submit"])
    /\ UNCHANGED <<jobsVars, cache, clicks>>

AtSubmit(s) == Is(s, "submit") \/ (Is(s, "form") /\ ~NewDocument(s))
Submits(s) == AtSubmit(s) /\ page[s].click.on = "save"

NotSubmitted(s) ==
    /\ AtSubmit(s) /\ ~Submits(s)
    /\ Set(s, [page[s] EXCEPT !.pc = "list"])
    /\ UNCHANGED <<jobsVars, cache, clicks>>

Post(s) ==
    /\ Submits(s)
    /\ InsertJob(s, [title |-> page[s].click.title, language |-> page[s].click.language])
    /\ Set(s, [page[s] EXCEPT !.pc = "saving"])
    /\ UNCHANGED <<cache, clicks>>

\* An empty title, a short description, no connection, a refusal (or no more ids
\* within the bound).
PostFails(s) ==
    /\ Submits(s) /\ (MayFail("post") \/ lastId = MaxId)
    /\ Set(s, [page[s] EXCEPT !.pc = "list"])
    /\ UNCHANGED <<jobsVars, cache, clicks>>

Saved(s) ==
    /\ Created(s)
    /\ Set(s, [page[s] EXCEPT !.pc = "saved", !.told = "saved", !.row = rpc[s].row])
    /\ UNCHANGED <<cache, clicks>>

AfterSave(s) ==
    /\ Is(s, "saved")
    /\ cache' = NoCache
    /\ Set(s, [page[s] EXCEPT !.pc = "list", !.parsed = NoDocument])
    /\ UNCHANGED <<jobsVars, clicks>>

----------------------------------------------------------------------------
(* The list tab                                                             *)

Deletes(s) == Is(s, "act") /\ page[s].click.on = "delete" /\ page[s].confirm

\* DELETE /jobs/{id} for what the box holds in this run.
Delete(s) ==
    /\ Deletes(s)
    /\ FindJob(s, page[s].selected)
    /\ Set(s, [page[s] EXCEPT !.pc = "deleting"])
    /\ UNCHANGED <<cache, clicks>>

DeleteRefused(s) ==
    /\ Deletes(s)
    /\ NoSuchJob(s, page[s].selected) \/ (api # "serving" /\ UNCHANGED jobsVars)
    /\ Set(s, [page[s] EXCEPT !.click = NoClick])
    /\ UNCHANGED <<cache, clicks>>

Deleted(s) ==
    /\ CommitDelete(s)
    /\ Set(s, [page[s] EXCEPT !.pc = "removed", !.told = "deleted", !.row = rpc[s].row])
    /\ UNCHANGED <<cache, clicks>>

AfterDelete(s) ==
    /\ Is(s, "removed")
    /\ cache' = NoCache
    /\ Set(s, Restart(page[s]))
    /\ UNCHANGED <<jobsVars, clicks>>

\* The run is over.
Rest(s) ==
    /\ Is(s, "act") /\ ~Deletes(s)
    /\ Set(s, [page[s] EXCEPT !.pc = "idle", !.click = NoClick, !.aimed = NoId,
                              !.told = "nothing", !.row = {}])
    /\ UNCHANGED <<jobsVars, cache, clicks>>

\* The request has ended with an error, or its server is gone.
Unanswered(s) ==
    /\ Waiting(s) /\ rpc[s] = Idle
    /\ Set(s, [page[s] EXCEPT !.pc = IF @ = "saving" THEN "list" ELSE "act",
                              !.click = NoClick])
    /\ UNCHANGED <<jobsVars, cache, clicks>>

----------------------------------------------------------------------------

Script(s) ==
    \/ FetchCached(s) \/ Fetch(s) \/ Store(s) \/ FetchFails(s)
    \/ ParseDocument(s) \/ ParseFails(s)
    \/ NotSubmitted(s) \/ Post(s) \/ PostFails(s) \/ Saved(s) \/ AfterSave(s)
    \/ Delete(s) \/ DeleteRefused(s) \/ Deleted(s) \/ AfterDelete(s)
    \/ Rest(s) \/ Unanswered(s)

Handler(s) ==
    /\ CommitCreate(s) \/ CreateFails(s) \/ Vanished(s) \/ DeleteFails(s)
    /\ UNCHANGED pageVars

Next ==
    \/ \E s \in Clients : Click(s) \/ Script(s) \/ Handler(s)
    \/ Expire
    \/ (Lifespan /\ UNCHANGED pageVars)

\* A script that can go on does, and the server handles what it has accepted.
Fairness == \A s \in Clients : WF_vars(Script(s)) /\ WF_vars(Handler(s))

Spec == Init /\ [][Next]_vars /\ Fairness

----------------------------------------------------------------------------

\* streamlit_app.py:605-610, 687-692, jobs.py:200-258: what a page says is true,
\* with two sessions at work and the server restarting: a job called saved is in
\* the table or was deleted under the audit's eyes, one called deleted is gone
\* and audited.
ToldTrue ==
    \A s \in Clients : \A r \in page[s].row :
        /\ page[s].told = "saved" => r \in jobs \/ r.id \in deleted
        /\ page[s].told = "deleted" => r \notin jobs /\ r.id \in deleted

\* streamlit_app.py:494, 690: a run comes to its end although it can start over on
\* its own, as long as the recruiter lets it.
RunsEnd == \A s \in Clients : page[s].pc # "idle" ~> page[s].pc = "idle"

\* streamlit_app.py:635, 651-687: the button deletes the vacancy that the page showed
\* as chosen when it was clicked.
DeletesTheShown ==
    \A s \in Clients : page[s].pc = "deleting" => page[s].selected = page[s].aimed

============================================================================
