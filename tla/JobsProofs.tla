----------------------------- MODULE JobsProofs -----------------------------
(***************************************************************************)
(* Proofs about Jobs, for every number of clients, every set of seed files  *)
(* and any number of starts and crashes.                                    *)
(***************************************************************************)
EXTENDS Jobs, TLAPS

JobsSpec == JobsInit /\ [][JobsNext]_jobsVars

----------------------------------------------------------------------------
(* Types and ids.                                                           *)

\* A row has an id that was given out, and no entry of audit_log about it.
TableInv ==
    /\ jobs \subseteq Rows /\ lastId \in 0..MaxId /\ deleted \subseteq 1..lastId
    /\ \A r \in jobs : r.id <= lastId /\ r.id \notin deleted
    /\ \A r, s \in jobs : r.id = s.id => r = s

SeederType(m) == [file : 1..(Len(SeedTitle) + 1), id : 0..m]

\* The id of the seeder's uncommitted row is above those of the table.
ProcessInv ==
    /\ api \in {"down", "seeding", "serving"} /\ starts \in 0..MaxStarts
    /\ seeder \in SeederType(lastId) /\ skipped \subseteq MayBreak
    /\ seeder.id # NoId =>
         /\ api = "seeding" /\ seeder.file \in Seeds /\ seeder.id \notin deleted
         /\ \A r \in jobs : r.id < seeder.id
    /\ api # "serving" => \A c \in Clients : rpc[c] = Idle

\* An id that is not committed belongs to one request, and a row that a request has
\* seen leaves its table only into the audit log.
RequestsInv ==
    /\ rpc \in [Clients -> [pc : {"idle", "commit", "refresh", "delete"}, row : SUBSET Rows]]
    /\ \A c \in Clients : rpc[c].pc = "commit" =>
         \A x \in rpc[c].row :
           /\ x.id <= lastId /\ x.id \notin deleted /\ x.file = FromForm
           /\ \A r \in jobs : r.id # x.id
           /\ \A y \in rpc[c].row : y = x
    /\ \A c, d \in Clients : c # d /\ rpc[c].pc = "commit" /\ rpc[d].pc = "commit" =>
         \A x \in rpc[c].row, y \in rpc[d].row : x.id # y.id
    /\ \A c \in Clients : rpc[c].pc \in {"refresh", "delete"} =>
         \A x \in rpc[c].row : x \in jobs \/ x.id \in deleted

CatalogInv == TableInv /\ ProcessInv /\ RequestsInv

\* Where the seeder may be (job_seeder.py:60-104).
LEMMA SeederTypes ==
  ASSUME NEW m \in Nat
  PROVE  /\ AtFile(1) \in SeederType(m) /\ GiveUp \in SeederType(m)
         /\ \A n \in Seeds : AtFile(n + 1) \in SeederType(m)
         /\ \A n \in Seeds, id \in 0..m : [file |-> n, id |-> id] \in SeederType(m)
  <1>1. Len(SeedTitle) \in Nat
    BY JobsAssumption
  <1>2. QED
    BY <1>1 DEF SeederType, AtFile, GiveUp, Seeds, NoId

\* Before the API serves, no request runs.
LEMMA QuietRequests ==
  ASSUME \A c \in Clients : rpc[c] = Idle, UNCHANGED rpc, RequestsInv
  PROVE  RequestsInv'
  BY DEF RequestsInv, Idle

\* The start of the process keeps CatalogInv (main.py:31-52, job_seeder.py:60-104).
LEMMA LifespanCatalog ==
  ASSUME CatalogInv, Lifespan
  PROVE  CatalogInv'
  <1> USE DEF CatalogInv
  <1>0. lastId \in Nat
    BY JobsAssumption DEF TableInv
  <1>1. CASE Start
    BY <1>0, <1>1, SeederTypes, JobsAssumption DEF Start, TableInv, ProcessInv, RequestsInv, table, AtFile, NoId
  <1>2. ASSUME NEW n \in Seeds, SkipBroken(n) \/ SkipPresent(n)
        PROVE  CatalogInv'
    <2>1. /\ seeder' = AtFile(n + 1) /\ UNCHANGED <<table, api, starts, rpc>>
          /\ skipped' \subseteq MayBreak
      BY <1>2 DEF SkipBroken, SkipPresent, ProcessInv
    <2>2. seeder' \in SeederType(lastId)
      BY <1>0, <2>1, SeederTypes
    <2>3. QED
      BY <2>1, <2>2 DEF TableInv, ProcessInv, RequestsInv, table, AtFile
  <1>3. ASSUME NEW n \in Seeds, InsertSeed(n)
        PROVE  CatalogInv'
    <2>1. PICK id \in Ids : id = lastId + 1 /\ lastId' = id /\ seeder' = [file |-> n, id |-> id]
      BY <1>3 DEF InsertSeed, NextId
    <2>2. /\ api = "seeding" /\ UNCHANGED <<jobs, deleted, api, starts, skipped, rpc>>
          /\ \A c \in Clients : rpc[c] = Idle
      BY <1>3 DEF InsertSeed, At, ProcessInv
    <2>3. id \in 0..id /\ id \in Nat
      BY DEF Ids
    <2>4. seeder' \in SeederType(lastId')
      BY <2>1, <2>3, SeederTypes
    <2>5. (\A r \in jobs : r.id < id) /\ id \notin deleted /\ lastId' \in 0..MaxId
          /\ deleted \subseteq 1..lastId'
      BY <1>0, <2>1 DEF TableInv, Rows, Ids
    <2>6. TableInv'
      BY <2>1, <2>2, <2>5 DEF TableInv, Rows, Ids
    <2>7. QED
      BY <2>1, <2>2, <2>4, <2>5, <2>6, QuietRequests DEF ProcessInv
  <1>4. CASE CommitSeed
    <2> DEFINE new == SeedRow(seeder.file, seeder.id)
    <2>1. /\ api = "seeding" /\ seeder.id # NoId /\ jobs' = jobs \cup {new}
          /\ seeder' = AtFile(seeder.file + 1)
          /\ UNCHANGED <<lastId, deleted, api, starts, skipped, rpc>>
          /\ seeder.file \in Seeds
          /\ \A c \in Clients : rpc[c] = Idle
      BY <1>4 DEF CommitSeed, ProcessInv
    <2>2. seeder.id \in 1..lastId /\ 1..lastId \subseteq Ids
      <3>1. seeder.id \in 0..lastId
        BY DEF ProcessInv, SeederType
      <3>2. lastId <= MaxId /\ MaxId \in Nat
        BY JobsAssumption DEF TableInv
      <3>3. QED
        BY <1>0, <2>1, <3>1, <3>2 DEF NoId, Ids
    <2>3. SeedTitle[seeder.file] \in Titles /\ SeedLanguage[seeder.file] \in Languages
      BY <2>1, JobsAssumption DEF Seeds
    <2>4. /\ new \in Rows /\ new.id = seeder.id
      BY <2>1, <2>2, <2>3 DEF SeedRow, Rows
    <2>5. new.id <= lastId /\ new.id \notin deleted /\ \A r \in jobs : r.id # new.id
      BY <2>1, <2>2, <2>4 DEF ProcessInv, Rows, Ids
    <2> HIDE DEF new
    <2>6. TableInv'
      BY <2>1, <2>4, <2>5 DEF TableInv
    <2>7. seeder' \in SeederType(lastId')
      BY <1>0, <2>1, SeederTypes
    <2>8. QED
      BY <2>1, <2>6, <2>7, QuietRequests DEF ProcessInv, AtFile
  <1>5. CASE SeedingFails
    BY <1>0, <1>5, SeederTypes
    DEF SeedingFails, GiveUp, AtFile, TableInv, ProcessInv, RequestsInv, table
  <1>6. CASE Serve
    BY <1>6 DEF Serve, TableInv, ProcessInv, RequestsInv, table, AtFile, NoId
  <1>7. CASE Crash
    BY <1>0, <1>7, SeederTypes
    DEF Crash, TableInv, ProcessInv, RequestsInv, table, AtFile, NoId, Idle
  <1>8. QED
    BY <1>1, <1>2, <1>3, <1>4, <1>5, <1>6, <1>7 DEF Lifespan, Seed

\* A request that is over has no row to answer for (jobs.py:53-88, 230-258).
LEMMA ReplyKept ==
  ASSUME CatalogInv, NEW c \in Clients, Reply(c), UNCHANGED <<table, process>>, api = "serving"
  PROVE  CatalogInv'
  <1>1. rpc' = [rpc EXCEPT ![c] = Idle]
    BY DEF Reply
  <1>2. TableInv'
    BY DEF CatalogInv, TableInv, table
  <1>3. ProcessInv'
    BY DEF CatalogInv, ProcessInv, table, process
  <1>4. RequestsInv'
    BY <1>1 DEF CatalogInv, RequestsInv, Idle, table
  <1>5. QED
    BY <1>2, <1>3, <1>4 DEF CatalogInv

\* create_job keeps CatalogInv: the id is new (jobs.py:53-88).
LEMMA CreateCatalog ==
  ASSUME CatalogInv, NEW c \in Clients, CreateJob(c)
  PROVE  CatalogInv'
  <1>0. lastId \in Nat /\ (rpc[c].pc # "idle" => api = "serving")
    BY JobsAssumption DEF CatalogInv, TableInv, ProcessInv, Idle
  <1>1. ASSUME NEW body \in Bodies, InsertJob(c, body)
        PROVE  CatalogInv'
    <2>1. PICK id \in Ids, l \in Languages :
            /\ id = lastId + 1 /\ lastId' = id
            /\ rpc' = [rpc EXCEPT ![c] =
                  [pc |-> "commit",
                   row |-> {[id |-> id, title |-> body.title, language |-> l,
                             file |-> FromForm]}]]
      BY <1>1 DEF InsertJob, NextId
    <2> DEFINE new == [id |-> id, title |-> body.title, language |-> l, file |-> FromForm]
    <2>2. new \in Rows /\ new.id = id /\ new.file = FromForm
      BY DEF Rows, Bodies
    <2>3. rpc' = [rpc EXCEPT ![c] = [pc |-> "commit", row |-> {new}]]
      BY <2>1
    <2>4. api = "serving" /\ UNCHANGED <<jobs, deleted, process>>
      BY <1>1 DEF InsertJob
    <2> HIDE DEF new
    <2>5. (\A r \in jobs : r.id < id) /\ id \notin deleted /\ lastId' \in 0..MaxId
          /\ deleted \subseteq 1..lastId'
      BY <1>0, <2>1 DEF CatalogInv, TableInv, Rows, Ids
    <2>6. TableInv'
      BY <1>0, <2>1, <2>4, <2>5 DEF CatalogInv, TableInv, Rows, Ids
    <2>7. ProcessInv'
      BY <1>0, <2>1, <2>4 DEF CatalogInv, ProcessInv, process, SeederType, Ids
    <2>8. \A d \in Clients : rpc[d].pc = "commit" => \A x \in rpc[d].row : x.id < id
      BY <1>0, <2>1 DEF CatalogInv, RequestsInv, Rows, Ids
    <2>9. RequestsInv'
      <3>1. /\ rpc'[c] = [pc |-> "commit", row |-> {new}]
            /\ \A d \in Clients \ {c} : rpc'[d] = rpc[d]
            /\ rpc' \in [Clients -> [pc : {"idle", "commit", "refresh", "delete"},
                                     row : SUBSET Rows]]
        BY <2>2, <2>3 DEF CatalogInv, RequestsInv
      <3>2. \A d \in Clients : rpc'[d].pc = "commit" =>
              \A x \in rpc'[d].row :
                /\ x.id <= lastId' /\ x.id \notin deleted' /\ x.file = FromForm
                /\ \A r \in jobs' : r.id # x.id
                /\ \A y \in rpc'[d].row : y = x
        <4>1. CASE rpc'[c].pc = "commit"
          BY <1>0, <2>1, <2>2, <2>4, <2>5, <3>1 DEF CatalogInv, RequestsInv, Rows, Ids
        <4>2. QED
          BY <3>1, <4>1
      <3>3. \A d, e \in Clients : d # e /\ rpc'[d].pc = "commit" /\ rpc'[e].pc = "commit" =>
              \A x \in rpc'[d].row, y \in rpc'[e].row : x.id # y.id
        BY <2>1, <2>2, <2>8, <3>1 DEF CatalogInv, RequestsInv, Rows, Ids
      <3>4. \A d \in Clients : rpc'[d].pc \in {"refresh", "delete"} =>
              \A x \in rpc'[d].row : x \in jobs' \/ x.id \in deleted'
        BY <2>4, <3>1 DEF CatalogInv, RequestsInv
      <3>5. QED
        BY <3>1, <3>2, <3>3, <3>4 DEF RequestsInv
    <2>10. QED
      BY <2>6, <2>7, <2>9 DEF CatalogInv
  <1>2. CASE CommitCreate(c)
    <2>1. /\ rpc[c].pc = "commit" /\ jobs' = jobs \cup rpc[c].row
          /\ rpc' = [rpc EXCEPT ![c].pc = "refresh"]
          /\ UNCHANGED <<lastId, deleted, process>>
      BY <1>2 DEF CommitCreate, Goto
    <2>2. TableInv'
      BY <2>1 DEF CatalogInv, TableInv, RequestsInv
    <2>3. ProcessInv'
      BY <1>0, <2>1 DEF CatalogInv, ProcessInv, process
    <2>4. /\ rpc'[c].pc = "refresh" /\ rpc'[c].row = rpc[c].row
          /\ \A d \in Clients \ {c} : rpc'[d] = rpc[d]
          /\ rpc' \in [Clients -> [pc : {"idle", "commit", "refresh", "delete"},
                                   row : SUBSET Rows]]
      BY <2>1 DEF CatalogInv, RequestsInv
    <2>5. RequestsInv'
      BY <2>1, <2>4 DEF CatalogInv, RequestsInv
    <2>6. QED
      BY <2>2, <2>3, <2>5 DEF CatalogInv
  <1>3. CASE CreateFails(c) \/ Created(c) \/ Vanished(c)
    BY <1>0, <1>3, ReplyKept DEF CreateFails, Created, Vanished
  <1>4. QED
    BY <1>1, <1>2, <1>3 DEF CreateJob

\* delete_job keeps CatalogInv: the row goes with its audit entry
\* (jobs.py:230-258).
LEMMA DeleteCatalog ==
  ASSUME CatalogInv, NEW c \in Clients, DeleteJob(c)
  PROVE  CatalogInv'
  <1>0. rpc[c].pc # "idle" => api = "serving"
    BY DEF CatalogInv, ProcessInv, Idle
  <1>1. ASSUME NEW id \in Ids, FindJob(c, id)
        PROVE  CatalogInv'
    <2>1. /\ api = "serving" /\ UNCHANGED <<table, process>>
          /\ rpc' = [rpc EXCEPT ![c] = [pc |-> "delete", row |-> RowsOf(id)]]
          /\ RowsOf(id) \subseteq jobs
      BY <1>1 DEF FindJob, RowsOf
    <2>2. TableInv' /\ ProcessInv'
      BY <2>1 DEF CatalogInv, TableInv, ProcessInv, table, process
    <2>3. /\ rpc'[c] = [pc |-> "delete", row |-> RowsOf(id)]
          /\ \A d \in Clients \ {c} : rpc'[d] = rpc[d]
          /\ rpc' \in [Clients -> [pc : {"idle", "commit", "refresh", "delete"},
                                   row : SUBSET Rows]]
      BY <2>1 DEF CatalogInv, RequestsInv, TableInv
    <2>4. RequestsInv'
      BY <2>1, <2>3 DEF CatalogInv, RequestsInv, table
    <2>5. QED
      BY <2>2, <2>4 DEF CatalogInv
  <1>2. ASSUME NEW id \in Ids, NoSuchJob(c, id)
        PROVE  CatalogInv'
    BY <1>2 DEF NoSuchJob, jobsVars, table, process, CatalogInv, TableInv, ProcessInv,
       RequestsInv
  <1>3. CASE CommitDelete(c)
    <2>1. /\ rpc[c].pc = "delete" /\ jobs' = jobs \ rpc[c].row
          /\ deleted' = deleted \cup IdsOf(rpc[c].row)
          /\ rpc' = [rpc EXCEPT ![c] = Idle]
          /\ UNCHANGED <<lastId, process>>
      BY <1>3 DEF CommitDelete, Audited, Reply
    <2>2. \A x \in rpc[c].row : x \in Rows /\ (x \in jobs \/ x.id \in deleted)
      BY <2>1 DEF CatalogInv, RequestsInv
    <2>3. \A i \in deleted' : i \in deleted \/ \E x \in jobs : x \in rpc[c].row /\ i = x.id
      BY <2>1, <2>2 DEF IdsOf
    <2>4. TableInv'
      <3>1. \A x \in jobs : x.id \in 1..lastId
        BY JobsAssumption DEF CatalogInv, TableInv, Rows, Ids
      <3>2. deleted' \subseteq 1..lastId'
        BY <2>1, <2>3, <3>1 DEF CatalogInv, TableInv
      <3>3. \A x \in jobs' : x \in jobs /\ x \notin rpc[c].row
        BY <2>1
      <3>4. \A x \in jobs' : x.id \notin deleted'
        BY <2>3, <3>3 DEF CatalogInv, TableInv
      <3>5. QED
        BY <2>1, <3>2, <3>3, <3>4 DEF CatalogInv, TableInv
    <2>5. ProcessInv'
      BY <1>0, <2>1 DEF CatalogInv, ProcessInv, process
    <2>6. /\ rpc'[c] = Idle
          /\ \A d \in Clients \ {c} : rpc'[d] = rpc[d]
          /\ rpc' \in [Clients -> [pc : {"idle", "commit", "refresh", "delete"},
                                   row : SUBSET Rows]]
      BY <2>1 DEF CatalogInv, RequestsInv, Idle
    <2>7. \A d \in Clients : rpc[d].pc = "commit" => \A x \in rpc[d].row : x.id \notin deleted'
      BY <2>3 DEF CatalogInv, RequestsInv
    <2>8. \A x \in jobs : x \in jobs' \/ x.id \in deleted'
      BY <2>1 DEF IdsOf
    <2>9. RequestsInv'
      BY <2>1, <2>6, <2>7, <2>8 DEF CatalogInv, RequestsInv, Idle
    <2>10. QED
      BY <2>4, <2>5, <2>9 DEF CatalogInv
  <1>4. CASE DeleteFails(c)
    BY <1>0, <1>4, ReplyKept DEF DeleteFails
  <1>5. QED
    BY <1>1, <1>2, <1>3, <1>4 DEF DeleteJob

\* Every step keeps CatalogInv.
LEMMA CatalogStep ==
  CatalogInv /\ [JobsNext]_jobsVars => CatalogInv'
  <1> SUFFICES ASSUME CatalogInv, [JobsNext]_jobsVars
               PROVE  CatalogInv'
    OBVIOUS
  <1>1. CASE UNCHANGED jobsVars
    BY <1>1 DEF jobsVars, table, process, CatalogInv, TableInv, ProcessInv, RequestsInv
  <1>2. QED
    BY <1>1, LifespanCatalog, CreateCatalog, DeleteCatalog DEF JobsNext

\* At the start there are no jobs, and no one has asked for one.
LEMMA CatalogInit == JobsInit => CatalogInv
  <1> SUFFICES ASSUME JobsInit
               PROVE  CatalogInv
    OBVIOUS
  <1>1. TableInv
    BY JobsAssumption DEF JobsInit, TableInv
  <1>2. ProcessInv
    <2>1. seeder \in SeederType(lastId)
      BY SeederTypes DEF JobsInit
    <2>2. QED
      BY <2>1, JobsAssumption DEF JobsInit, ProcessInv, AtFile, NoId
  <1>3. RequestsInv
    BY DEF JobsInit, RequestsInv, Idle
  <1>4. QED
    BY <1>1, <1>2, <1>3 DEF CatalogInv

\* What CatalogInv says of types and ids is JobsTypeOK.
LEMMA CatalogTyped == CatalogInv => JobsTypeOK
  <1> SUFFICES ASSUME CatalogInv
               PROVE  JobsTypeOK
    OBVIOUS
  <1>1. IdsOf(jobs) \subseteq 1..lastId \ deleted
    BY JobsAssumption DEF CatalogInv, TableInv, IdsOf, Rows, Ids
  <1>2. \A c \in Clients :
          /\ rpc[c].pc \in {"idle", "commit", "refresh", "delete"}
          /\ rpc[c].row \subseteq Rows
          /\ rpc[c].pc = "commit" => IdsOf(rpc[c].row) \cap (IdsOf(jobs) \cup deleted) = {}
    BY DEF CatalogInv, RequestsInv, IdsOf
  <1>3. QED
    BY <1>1, <1>2 DEF CatalogInv, TableInv, ProcessInv, SeederType, JobsTypeOK

\* An id of a job is given once, whatever is rolled back, deleted, or lost in a crash,
\* and every variable keeps its type (db.py:62-73).
THEOREM CatalogIds == JobsSpec => []JobsTypeOK
  BY CatalogInit, CatalogStep, CatalogTyped, PTL DEF JobsSpec

\* A job leaves its table into the audit log only (jobs.py:230-258).
LEMMA JobsLeaveAudited ==
  ASSUME [JobsNext]_jobsVars
  PROVE  deleted \subseteq deleted' /\ \A r \in jobs : r \in jobs' \/ r.id \in deleted'
  <1>1. CASE UNCHANGED jobsVars
    BY <1>1 DEF jobsVars, table
  <1>2. CASE Lifespan
    BY <1>2 DEF Lifespan, Start, Seed, SkipBroken, SkipPresent, InsertSeed, CommitSeed,
       SeedingFails, Serve, Crash, table
  <1>3. ASSUME NEW c \in Clients, CreateJob(c)
        PROVE  deleted' = deleted /\ jobs \subseteq jobs'
    BY <1>3 DEF CreateJob, InsertJob, CommitCreate, CreateFails, Created, Vanished, table
  <1>4. ASSUME NEW c \in Clients, DeleteJob(c)
        PROVE  deleted \subseteq deleted' /\ \A r \in jobs : r \in jobs' \/ r.id \in deleted'
    <2>1. CASE CommitDelete(c)
      BY <2>1 DEF CommitDelete, Audited, IdsOf
    <2>2. CASE ~CommitDelete(c)
      BY <1>4, <2>2 DEF DeleteJob, FindJob, NoSuchJob, DeleteFails, table, jobsVars
    <2>3. QED
      BY <2>1, <2>2
  <1>5. QED
    BY <1>1, <1>2, <1>3, <1>4 DEF JobsNext

----------------------------------------------------------------------------
(* The order of the seeded rows.                                            *)

\* A file that some start could not read, or whose title is in the table.
Covered(n) == n \in skipped \/ \E r \in jobs : r.title = SeedTitle[n]

\* As long as nothing was deleted, the files before a seeded row, and before the one
\* that the seeder is at, are covered; a title that it inserts is not in the table.
OrderInv ==
    /\ \A r \in jobs : r.file \in Seeds => r.title = SeedTitle[r.file]
    /\ seeder.id # NoId => \A r \in jobs : r.title # SeedTitle[seeder.file]
    /\ \A c \in Clients : rpc[c].pc = "commit" =>
         \A x \in rpc[c].row, r \in jobs : r.file \in Seeds => r.id < x.id
    /\ deleted = {} =>
         /\ \A s \in jobs, n \in Seeds : s.file \in Seeds /\ n < s.file => Covered(n)
         /\ api = "seeding" /\ seeder.file \in Seeds =>
              \A n \in Seeds : n < seeder.file => Covered(n)

SeedsInv == CatalogInv /\ OrderInv /\ SeedsInOrder

\* Numbers of files and of ids are numbers, and no file is the recruiter's.
LEMMA SeedNumbers ==
  ASSUME CatalogInv
  PROVE  /\ FromForm \notin Seeds /\ lastId \in Nat /\ seeder.file \in Nat
         /\ \A n \in Seeds : n \in Nat /\ n >= 1
         /\ \A r \in jobs : r.id \in Nat /\ r.id <= lastId /\ r.file \in Seeds \cup {FromForm}
  <1>1. Len(SeedTitle) \in Nat /\ MaxId \in Nat
    BY JobsAssumption
  <1>2. FromForm \notin Seeds /\ \A n \in Seeds : n \in Nat /\ n >= 1
    BY <1>1 DEF Seeds, FromForm
  <1>3. seeder.file \in 1..(Len(SeedTitle) + 1)
    BY DEF CatalogInv, ProcessInv, SeederType
  <1>4. \A r \in jobs : r.id \in Nat /\ r.id <= lastId /\ r.file \in Seeds \cup {FromForm}
    BY DEF CatalogInv, TableInv, Rows, Ids
  <1>5. lastId \in Nat
    BY <1>1 DEF CatalogInv, TableInv
  <1>6. QED
    BY <1>1, <1>2, <1>3, <1>4, <1>5

\* The start keeps the order: a file is inserted when no row has its title, so no
\* later file can be in the table (job_seeder.py:60-104).
LEMMA LifespanOrder ==
  ASSUME SeedsInv, Lifespan
  PROVE  OrderInv' /\ SeedsInOrder'
  <1>0. /\ FromForm \notin Seeds /\ lastId \in Nat /\ seeder.file \in Nat
        /\ \A n \in Seeds : n \in Nat /\ n >= 1
        /\ \A r \in jobs : r.id \in Nat /\ r.id <= lastId /\ r.file \in Seeds \cup {FromForm}
    BY SeedNumbers DEF SeedsInv
  <1> USE DEF SeedsInv
  <1>1. CASE Start \/ Crash
    BY <1>0, <1>1
    DEF Start, Crash, OrderInv, Covered, SeedsInOrder, table, AtFile, NoId, Idle
  <1>2. ASSUME NEW n \in Seeds, SkipBroken(n) \/ SkipPresent(n)
        PROVE  OrderInv' /\ SeedsInOrder'
    <2>1. /\ api = "seeding" /\ seeder = AtFile(n) /\ seeder' = AtFile(n + 1)
          /\ UNCHANGED <<table, api, starts, rpc>>
          /\ skipped \subseteq skipped'
          /\ n \in skipped' \/ \E r \in jobs : r.title = SeedTitle[n]
      BY <1>2 DEF SkipBroken, SkipPresent, SeedPresent, At
    <2>2. \A k \in Seeds : Covered(k) => Covered(k)'
      BY <2>1 DEF Covered, table
    <2>3. Covered(n)'
      BY <2>1 DEF Covered, table
    <2>4. \A k \in Seeds : k < n + 1 => k < n \/ k = n
      BY <1>0
    <2>5. OrderInv'
      BY <2>1, <2>2, <2>3, <2>4 DEF OrderInv, table, AtFile, NoId
    <2>6. SeedsInOrder'
      BY <2>1 DEF SeedsInOrder, table
    <2>7. QED
      BY <2>5, <2>6
  <1>3. ASSUME NEW n \in Seeds, InsertSeed(n)
        PROVE  OrderInv' /\ SeedsInOrder'
    <2>1. /\ api = "seeding" /\ seeder = AtFile(n) /\ seeder'.file = n
          /\ \A r \in jobs : r.title # SeedTitle[n]
          /\ UNCHANGED <<jobs, deleted, api, starts, skipped, rpc>>
      BY <1>3 DEF InsertSeed, At, SeedPresent
    <2>2. OrderInv'
      BY <2>1 DEF OrderInv, Covered, AtFile
    <2>3. SeedsInOrder'
      BY <2>1 DEF SeedsInOrder
    <2>4. QED
      BY <2>2, <2>3
  <1>4. CASE CommitSeed
    <2>0. PICK n, new : n = seeder.file /\ new = SeedRow(n, seeder.id)
      OBVIOUS
    <2>1. /\ api = "seeding" /\ seeder.id # NoId /\ jobs' = jobs \cup {new}
          /\ seeder' = AtFile(n + 1)
          /\ UNCHANGED <<lastId, deleted, api, starts, skipped, rpc>>
          /\ n \in Seeds /\ n \in Nat
          /\ \A r \in jobs : r.id < seeder.id
          /\ \A c \in Clients : rpc[c].pc # "commit"
      BY <1>0, <1>4, <2>0 DEF CommitSeed, CatalogInv, ProcessInv, Idle
    <2>2. new.id = seeder.id /\ new.file = n /\ new.title = SeedTitle[n]
      BY <2>0 DEF SeedRow
    <2>3. seeder.id \in Nat
      BY <1>0 DEF CatalogInv, ProcessInv, SeederType
    <2>4. \A r \in jobs : r.title # SeedTitle[n]
      BY <2>0, <2>1 DEF OrderInv
    <2>5. \A k \in Seeds : (Covered(k) => Covered(k)') /\ Covered(n)'
      BY <2>1, <2>2 DEF Covered
    <2>6. deleted = {} => \A k \in Seeds : k < n => Covered(k)
      BY <2>0, <2>1 DEF OrderInv
    <2>7. \A k \in Seeds : k < n + 1 => k < n \/ k = n
      BY <1>0, <2>1
    <2>8. OrderInv'
      <3>1. \A r \in jobs' : r.file \in Seeds => r.title = SeedTitle[r.file]
        BY <2>1, <2>2 DEF OrderInv
      <3>2. seeder'.id = NoId /\ seeder'.file = n + 1
        BY <2>1 DEF AtFile
      <3>3. deleted' = {} => \A s \in jobs', k \in Seeds :
                                s.file \in Seeds /\ k < s.file => Covered(k)'
        <4>1. ASSUME deleted = {}, NEW s \in jobs', NEW k \in Seeds, s.file \in Seeds,
                     k < s.file
              PROVE  Covered(k)
          BY <2>1, <2>2, <2>6, <4>1 DEF OrderInv
        <4>2. QED
          BY <2>1, <2>5, <4>1
      <3>4. deleted' = {} => \A k \in Seeds : k < n + 1 => Covered(k)'
        BY <2>1, <2>5, <2>6, <2>7
      <3>5. QED
        BY <2>1, <3>1, <3>2, <3>3, <3>4 DEF OrderInv
    <2>9. SeedsInOrder'
      <3>1. SUFFICES ASSUME NEW r \in jobs', NEW s \in jobs', r.file \in Seeds
                     PROVE  /\ s.title = r.title => s.id >= r.id
                            /\ s.file = r.file => s = r
                            /\ r.file < s.file /\ r.file \notin skipped' /\ deleted' = {}
                                 => r.id < s.id
        BY DEF SeedsInOrder
      <3>2. CASE r \in jobs /\ s \in jobs
        BY <2>1, <3>1, <3>2 DEF SeedsInOrder
      <3>3. CASE r = new /\ s = new
        BY <2>2, <2>3, <1>0, <3>3, <3>1
      <3>4. CASE r = new /\ s \in jobs
        <4>1. s.title # r.title
          BY <2>2, <2>4, <3>4
        <4>2. s.file # r.file
          BY <2>2, <3>1, <3>4, <4>1 DEF OrderInv
        <4>3. ASSUME r.file < s.file, r.file \notin skipped, deleted = {}
              PROVE  FALSE
          <5>1. s.file \in Seeds
            BY <1>0, <3>1, <3>4, <4>3 DEF FromForm
          <5>2. Covered(r.file)
            BY <3>1, <3>4, <4>3, <5>1 DEF OrderInv
          <5>3. QED
            BY <2>2, <2>4, <3>4, <4>3, <5>2 DEF Covered
        <4>4. QED
          BY <2>1, <4>1, <4>2, <4>3
      <3>5. CASE r \in jobs /\ s = new
        <4>1. r.id < s.id
          BY <2>1, <2>2, <3>5
        <4>2. s.file # r.file
          BY <2>2, <2>4, <3>1, <3>5 DEF OrderInv
        <4>3. QED
          BY <1>0, <2>2, <2>3, <3>5, <4>1, <4>2
      <3>6. QED
        BY <2>1, <3>2, <3>3, <3>4, <3>5
    <2>10. QED
      BY <2>8, <2>9
  <1>5. CASE SeedingFails \/ Serve
    <2>1. Len(SeedTitle) + 1 \notin Seeds
      BY JobsAssumption DEF Seeds
    <2>2. /\ UNCHANGED <<table, skipped, rpc>>
          /\ api' # "seeding" \/ seeder'.file \notin Seeds
          /\ seeder'.id = NoId \/ seeder' = seeder
      BY <1>5, <2>1 DEF SeedingFails, Serve, GiveUp, AtFile
    <2>3. OrderInv'
      BY <2>2 DEF OrderInv, Covered, table
    <2>4. SeedsInOrder'
      BY <2>2 DEF SeedsInOrder, table
    <2>5. QED
      BY <2>3, <2>4
  <1>6. QED
    BY <1>1, <1>2, <1>3, <1>4, <1>5 DEF Lifespan, Seed

\* Requests keep the order: their ids come after those of the seeded rows, and they
\* take a row from the table only with an audit entry (jobs.py:53-88, 230-258).
LEMMA RequestOrder ==
  ASSUME SeedsInv, NEW c \in Clients, CreateJob(c) \/ DeleteJob(c)
  PROVE  OrderInv' /\ SeedsInOrder'
  <1>0. /\ FromForm \notin Seeds /\ lastId \in Nat /\ seeder.file \in Nat
        /\ \A n \in Seeds : n \in Nat /\ n >= 1
        /\ \A r \in jobs : r.id \in Nat /\ r.id <= lastId /\ r.file \in Seeds \cup {FromForm}
    BY SeedNumbers DEF SeedsInv
  <1> USE DEF SeedsInv
  <1>1. ASSUME rpc[c].pc # "idle" \/ api = "serving"
        PROVE  api = "serving" /\ seeder.id = NoId
    BY <1>1 DEF CatalogInv, ProcessInv, Idle
  <1>2. ASSUME NEW body \in Bodies, InsertJob(c, body)
        PROVE  OrderInv' /\ SeedsInOrder'
    <2>1. /\ UNCHANGED <<jobs, deleted, process>>
          /\ \A x \in rpc'[c].row : x.id = lastId + 1
          /\ \A d \in Clients \ {c} : rpc'[d] = rpc[d]
      BY <1>2 DEF InsertJob, NextId, CatalogInv, RequestsInv
    <2>2. OrderInv'
      BY <1>0, <2>1 DEF OrderInv, Covered, process
    <2>3. SeedsInOrder'
      BY <2>1 DEF SeedsInOrder, process
    <2>4. QED
      BY <2>2, <2>3
  <1>3. CASE CommitCreate(c)
    <2>1. /\ rpc[c].pc = "commit" /\ jobs' = jobs \cup rpc[c].row
          /\ UNCHANGED <<lastId, deleted, process>>
          /\ \A d \in Clients : rpc'[d].pc = "commit" => d # c /\ rpc'[d] = rpc[d]
      BY <1>3 DEF CommitCreate, Goto, CatalogInv, RequestsInv
    <2>2. api = "serving" /\ seeder.id = NoId
      BY <1>1, <2>1
    <2>3. \A x \in rpc[c].row :
            /\ x.file = FromForm /\ x.id \in Nat
            /\ \A r \in jobs : r.file \in Seeds => r.id < x.id
            /\ \A y \in rpc[c].row : y = x
      BY <2>1 DEF CatalogInv, RequestsInv, OrderInv, Rows, Ids
    <2>4. \A k : Covered(k) => Covered(k)'
      BY <2>1 DEF Covered, process
    <2>5. OrderInv'
      BY <1>0, <2>1, <2>2, <2>3, <2>4 DEF OrderInv, process
    <2>6. SeedsInOrder'
      <3>1. SUFFICES ASSUME NEW r \in jobs', NEW s \in jobs', r.file \in Seeds
                     PROVE  /\ s.title = r.title => s.id >= r.id
                            /\ s.file = r.file => s = r
                            /\ r.file < s.file /\ r.file \notin skipped' /\ deleted' = {}
                                 => r.id < s.id
        BY DEF SeedsInOrder
      <3>2. r \in jobs
        BY <1>0, <2>1, <2>3, <3>1
      <3>3. CASE s \in jobs
        BY <2>1, <3>1, <3>2, <3>3 DEF SeedsInOrder, process
      <3>4. CASE s \in rpc[c].row
        <4>1. r.id < s.id /\ s.file # r.file
          BY <1>0, <2>3, <3>1, <3>2, <3>4
        <4>2. r.id \in Nat /\ s.id \in Nat
          BY <1>0, <2>3, <3>2, <3>4
        <4>3. QED
          BY <4>1, <4>2
      <3>5. QED
        BY <2>1, <3>3, <3>4
    <2>7. QED
      BY <2>5, <2>6
  <1>4. CASE CommitDelete(c)
    <2>1. /\ rpc[c].pc = "delete" /\ jobs' = jobs \ rpc[c].row
          /\ deleted' = deleted \cup IdsOf(rpc[c].row)
          /\ UNCHANGED <<lastId, process>>
          /\ \A d \in Clients : rpc'[d].pc = "commit" => rpc'[d] = rpc[d]
      BY <1>4 DEF CommitDelete, Audited, Reply, Idle, CatalogInv, RequestsInv
    <2>2. api = "serving" /\ seeder.id = NoId
      BY <1>1, <2>1
    <2>3. deleted' = {} => deleted = {} /\ rpc[c].row = {}
      BY <2>1 DEF IdsOf
    <2>4. deleted' = {} => jobs' = jobs /\ \A k : Covered(k)' <=> Covered(k)
      BY <2>1, <2>3 DEF Covered, process
    <2>5. OrderInv'
      BY <2>1, <2>2, <2>3, <2>4 DEF OrderInv, process
    <2>6. SeedsInOrder'
      BY <2>1, <2>3 DEF SeedsInOrder, process
    <2>7. QED
      BY <2>5, <2>6
  <1>5. ASSUME UNCHANGED <<table, process>>,
               \A d \in Clients : rpc'[d].pc = "commit" => rpc'[d] = rpc[d]
        PROVE  OrderInv' /\ SeedsInOrder'
    <2>1. OrderInv'
      BY <1>5 DEF OrderInv, Covered, table, process
    <2>2. SeedsInOrder'
      BY <1>5 DEF SeedsInOrder, table, process
    <2>3. QED
      BY <2>1, <2>2
  <1>6. CASE CreateFails(c) \/ Created(c) \/ Vanished(c) \/ DeleteFails(c)
    <2>1. UNCHANGED <<table, process>> /\ rpc' = [rpc EXCEPT ![c] = Idle]
      BY <1>6 DEF CreateFails, Created, Vanished, DeleteFails, Reply
    <2>2. \A d \in Clients : rpc'[d].pc = "commit" => rpc'[d] = rpc[d]
      BY <2>1 DEF CatalogInv, RequestsInv, Idle
    <2>3. QED
      BY <1>5, <2>1, <2>2
  <1>7. ASSUME NEW id \in Ids, FindJob(c, id) \/ NoSuchJob(c, id)
        PROVE  OrderInv' /\ SeedsInOrder'
    <2>1. UNCHANGED <<table, process>>
          /\ rpc' \in {rpc, [rpc EXCEPT ![c] = [pc |-> "delete", row |-> RowsOf(id)]]}
      BY <1>7 DEF FindJob, NoSuchJob, jobsVars
    <2>2. \A d \in Clients : rpc'[d].pc = "commit" => rpc'[d] = rpc[d]
      BY <2>1 DEF CatalogInv, RequestsInv
    <2>3. QED
      BY <1>5, <2>1, <2>2
  <1>8. QED
    BY <1>2, <1>3, <1>4, <1>6, <1>7 DEF CreateJob, DeleteJob

\* Whatever is started, broken off, written and deleted: a seed file has one row at
\* most, no older row has its title, and while nothing was deleted the seeded
\* rows are in the order of their files (job_seeder.py:47-54, 82-83).
THEOREM SeedsKeepOrder == JobsSpec => []SeedsInOrder
  <1>1. JobsInit => SeedsInv
    <2>1. JobsInit => OrderInv /\ SeedsInOrder
      BY DEF JobsInit, OrderInv, SeedsInOrder, AtFile, NoId, Idle
    <2>2. QED
      BY <2>1, CatalogInit DEF SeedsInv
  <1>2. SeedsInv /\ [JobsNext]_jobsVars => SeedsInv'
    <2> SUFFICES ASSUME SeedsInv, [JobsNext]_jobsVars
                 PROVE  SeedsInv'
      OBVIOUS
    <2>1. CatalogInv'
      BY CatalogStep DEF SeedsInv
    <2>2. CASE UNCHANGED jobsVars
      <3>1. OrderInv'
        BY <2>2 DEF jobsVars, table, process, SeedsInv, OrderInv, Covered
      <3>2. SeedsInOrder'
        BY <2>2 DEF jobsVars, table, process, SeedsInv, SeedsInOrder
      <3>3. QED
        BY <2>1, <3>1, <3>2 DEF SeedsInv
    <2>3. QED
      BY <2>1, <2>2, LifespanOrder, RequestOrder DEF JobsNext, SeedsInv
  <1>3. SeedsInv => SeedsInOrder
    BY DEF SeedsInv
  <1>4. QED
    BY <1>1, <1>2, <1>3, PTL DEF JobsSpec

=============================================================================
