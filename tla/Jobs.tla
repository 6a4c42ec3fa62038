-------------------------------- MODULE Jobs --------------------------------
(***************************************************************************)
(* The jobs table, those who write it - the handlers of src/api/jobs.py and *)
(* the seeder that the lifespan runs before it serves requests              *)
(* (src/workers/job_seeder.py, src/main.py) - and crashes of their process. *)
(* Ids come from a sequence that a rollback does not turn back.             *)
(***************************************************************************)
EXTENDS Integers, Sequences, FiniteSets

CONSTANTS
    Clients,       \* requests that may run at once
    Titles,
    Languages,
    NoLanguage,    \* a body without a language
    SeedTitle,     \* the title in the n-th seed file, in the order of their names
    SeedLanguage,
    MayBreak,      \* seed files that may be unreadable at a start
    MaxId,         \* bound: ids the sequence gives out
    MaxStarts      \* bound: starts of the process

Seeds == 1..Len(SeedTitle)
FromForm == 0      \* the file of a row that a recruiter wrote

ASSUME JobsAssumption ==
    /\ NoLanguage \notin Languages
    /\ SeedTitle \in Seq(Titles) /\ SeedLanguage \in Seq(Languages)
    /\ Len(SeedLanguage) = Len(SeedTitle)
    /\ MayBreak \subseteq Seeds
    /\ MaxId \in Nat \ {0} /\ MaxStarts \in Nat \ {0}

Ids == 1..MaxId
\* The file a row comes from stands for its description.
Rows == [id : Ids, title : Titles, language : Languages, file : Seeds \cup {FromForm}]
Bodies == [title : Titles, language : Languages \cup {NoLanguage}]
NoId == 0

VARIABLES
    jobs,     \* committed rows
    lastId,   \* the sequence of jobs.id
    deleted,  \* ids that audit_log says were deleted
    api,      \* "down", "seeding" or "serving"
    starts,
    seeder,   \* the file it is at, and the id of its uncommitted row
    skipped,  \* history: files that some start found unreadable
    rpc       \* the requests

table == <<jobs, lastId, deleted>>
process == <<api, starts, seeder, skipped>>
jobsVars == <<table, process, rpc>>

IdsOf(rows) == {r.id : r \in rows}

Idle == [pc |-> "idle", row |-> {}]
AtFile(n) == [file |-> n, id |-> NoId]

JobsInit ==
    /\ jobs = {} /\ lastId = 0 /\ deleted = {}
    /\ api = "down" /\ starts = 0 /\ seeder = AtFile(1) /\ skipped = {}
    /\ rpc = [c \in Clients |-> Idle]

IdOfTable(id) == id = Cardinality(jobs) + 1 /\ lastId' = id   \* mutant: no sequence
NextId(id) == id = lastId + 1 /\ lastId' = id

----------------------------------------------------------------------------
(* The start: lifespan and seed_jobs_from_directory                         *)

\* init_collection has run or has failed, which only a log line tells.
Start ==
    /\ api = "down" /\ starts < MaxStarts
    /\ starts' = starts + 1
    /\ api' = "seeding"
    /\ seeder' = AtFile(1)
    /\ UNCHANGED <<table, skipped, rpc>>

At(n) == api = "seeding" /\ seeder = AtFile(n) /\ n \in Seeds

\* _load_job_file raises: the file is passed over.
SkipBroken(n) ==
    /\ At(n) /\ n \in MayBreak
    /\ skipped' = skipped \cup {n}
    /\ seeder' = AtFile(n + 1)
    /\ UNCHANGED <<table, api, starts, rpc>>

SameText(r, n) == r.file = n   \* mutant: the text decides, not the title
SeedPresent(r, n) == r.title = SeedTitle[n]

\* Any row of that title is enough, whoever wrote it.
SkipPresent(n) ==
    /\ At(n) /\ \E r \in jobs : SeedPresent(r, n)
    /\ seeder' = AtFile(n + 1)
    /\ UNCHANGED <<table, api, starts, skipped, rpc>>

InsertSeed(n) ==
    /\ At(n) /\ ~\E r \in jobs : SeedPresent(r, n)
    /\ \E id \in Ids : NextId(id) /\ seeder' = [file |-> n, id |-> id]
    /\ UNCHANGED <<jobs, deleted, api, starts, skipped, rpc>>

SeedRow(n, id) == [id |-> id, title |-> SeedTitle[n], language |-> SeedLanguage[n], file |-> n]

CommitSeed ==
    /\ api = "seeding" /\ seeder.id # NoId
    /\ jobs' = jobs \cup {SeedRow(seeder.file, seeder.id)}
    /\ seeder' = AtFile(seeder.file + 1)
    /\ UNCHANGED <<lastId, deleted, api, starts, skipped, rpc>>

GoOn == AtFile(seeder.file + 1)   \* mutant: the next file gets its chance
GiveUp == AtFile(Len(SeedTitle) + 1)

\* The SELECT, the INSERT or the commit raises: the exception leaves the seeder,
\* and the lifespan logs it and serves what there is.
SeedingFails ==
    /\ api = "seeding" /\ seeder.file \in Seeds
    /\ seeder' = GiveUp
    /\ UNCHANGED <<table, api, starts, skipped, rpc>>

\* The scheduler starts and the API answers.
Serve ==
    /\ api = "seeding" /\ seeder = AtFile(Len(SeedTitle) + 1)
    /\ api' = "serving"
    /\ UNCHANGED <<table, starts, seeder, skipped, rpc>>

\* The process dies; the transactions it had open are rolled back.
Crash ==
    /\ api # "down" /\ starts < MaxStarts
    /\ api' = "down"
    /\ seeder' = AtFile(1)
    /\ rpc' = [c \in Clients |-> Idle]
    /\ UNCHANGED <<table, starts, skipped>>

----------------------------------------------------------------------------
(* create_job                                                               *)

\* The request is answered; which action that was says with what.
Reply(c) == rpc' = [rpc EXCEPT ![c] = Idle]
Goto(c, step) == rpc' = [rpc EXCEPT ![c].pc = step]

\* INSERT takes an id; detect_language decides when the body names no language,
\* and English when it finds none.
InsertJob(c, body) ==
    /\ api = "serving" /\ rpc[c].pc = "idle"
    /\ \E id \in Ids, l \in Languages :
        /\ body.language # NoLanguage => l = body.language
        /\ NextId(id)
        /\ rpc' = [rpc EXCEPT ![c] =
               [pc |-> "commit",
                row |-> {[id |-> id, title |-> body.title, language |-> l,
                          file |-> FromForm]}]]
    /\ UNCHANGED <<jobs, deleted, process>>

CommitCreate(c) ==
    /\ rpc[c].pc = "commit"
    /\ jobs' = jobs \cup rpc[c].row
    /\ Goto(c, "refresh")
    /\ UNCHANGED <<lastId, deleted, process>>

CreateFails(c) ==
    /\ rpc[c].pc = "commit"
    /\ Reply(c)
    /\ UNCHANGED <<table, process>>

\* session.refresh reads the row again; 201.
Created(c) ==
    /\ rpc[c].pc = "refresh" /\ rpc[c].row \subseteq jobs
    /\ Reply(c)
    /\ UNCHANGED <<table, process>>

\* The row has gone by then: refresh raises, 500.
Vanished(c) ==
    /\ rpc[c].pc = "refresh" /\ ~(rpc[c].row \subseteq jobs)
    /\ Reply(c)
    /\ UNCHANGED <<table, process>>

CreateJob(c) ==
    \/ \E body \in Bodies : InsertJob(c, body)
    \/ CommitCreate(c) \/ CreateFails(c) \/ Created(c) \/ Vanished(c)

----------------------------------------------------------------------------
(* delete_job, get_job, list_jobs                                           *)

RowsOf(id) == {r \in jobs : r.id = id}

FindJob(c, id) ==
    /\ api = "serving" /\ rpc[c].pc = "idle"
    /\ RowsOf(id) # {}
    /\ rpc' = [rpc EXCEPT ![c] = [pc |-> "delete", row |-> RowsOf(id)]]
    /\ UNCHANGED <<table, process>>

\* 404, also for a job that was shown a moment ago.
NoSuchJob(c, id) ==
    /\ api = "serving" /\ rpc[c].pc = "idle"
    /\ RowsOf(id) = {}
    /\ UNCHANGED jobsVars

Unaudited(rows) == deleted   \* mutant: the entry is not in the transaction
Audited(rows) == deleted \cup IdsOf(rows)

\* The row and its audit entry in one transaction; a second request that had
\* found the row deletes nothing and writes its entry too.
CommitDelete(c) ==
    /\ rpc[c].pc = "delete"
    /\ jobs' = jobs \ rpc[c].row
    /\ deleted' = Audited(rpc[c].row)
    /\ Reply(c)
    /\ UNCHANGED <<lastId, process>>

DeleteFails(c) ==
    /\ rpc[c].pc = "delete"
    /\ Reply(c)
    /\ UNCHANGED <<table, process>>

DeleteJob(c) ==
    \/ \E id \in Ids : FindJob(c, id) \/ NoSuchJob(c, id)
    \/ CommitDelete(c) \/ DeleteFails(c)

----------------------------------------------------------------------------

Seed ==
    \/ \E n \in Seeds : SkipBroken(n) \/ SkipPresent(n) \/ InsertSeed(n)
    \/ CommitSeed \/ SeedingFails

Lifespan == Start \/ Seed \/ Serve \/ Crash

JobsNext == Lifespan \/ \E c \in Clients : CreateJob(c) \/ DeleteJob(c)

----------------------------------------------------------------------------

\* Every variable has the type its column or its Python name gives it; an id is
\* given once, even when its row was rolled back or deleted (db.py:62-73).
JobsTypeOK ==
    /\ jobs \subseteq Rows /\ lastId \in 0..MaxId /\ deleted \subseteq 1..lastId
    /\ api \in {"down", "seeding", "serving"} /\ starts \in 0..MaxStarts
    /\ seeder \in [file : 1..(Len(SeedTitle) + 1), id : 0..lastId] /\ skipped \subseteq MayBreak
    /\ \A c \in Clients :
        /\ rpc[c].pc \in {"idle", "commit", "refresh", "delete"}
        /\ rpc[c].row \subseteq Rows
        /\ rpc[c].pc = "commit" => IdsOf(rpc[c].row) \cap (IdsOf(jobs) \cup deleted) = {}
    /\ \A r, s \in jobs : r.id = s.id => r = s
    /\ IdsOf(jobs) \subseteq 1..lastId \ deleted

\* job_seeder.py:47-54, 82-83: whatever starts, crashes and failures there were, a
\* seed file has at most one row, no older row has its title, and as long as
\* no job was deleted the rows of seed files are in the order of the files: an
\* earlier file is behind only if it was unreadable at some start.
SeedsInOrder ==
    \A r, s \in jobs : r.file \in Seeds =>
        /\ s.title = r.title => s.id >= r.id
        /\ s.file = r.file => s = r
        /\ r.file < s.file /\ r.file \notin skipped /\ deleted = {} => r.id < s.id

============================================================================
