----------------------------- MODULE Ingestion -----------------------------
(***************************************************************************)
(* src/ingestion/pipeline.py: mail source -> idempotency journal -> file on *)
(* disk -> parse -> Candidate row -> Qdrant point, one Postgres transaction *)
(* per e-mail.  A poller is one running call of poll_and_process: the       *)
(* scheduler's tick, or one POST /sync-mail.  All pollers are coroutines of *)
(* one process, so they interleave at every await and die together.         *)
(*                                                                          *)
(* Postgres runs READ COMMITTED: a transaction's writes are buffered in the *)
(* tx* variables, other sessions see them when Commit applies them, and an  *)
(* INSERT ... ON CONFLICT on a key that another open transaction has        *)
(* written waits for that transaction.  Files and Qdrant points are written *)
(* outside the transaction and survive a rollback and a crash.              *)
(***************************************************************************)
EXTENDS Naturals, Sequences, FiniteSets

CONSTANTS
    Pollers,      \* running or potential calls of poll_and_process
    Ticks,        \* the pollers the scheduler starts again and again
    Messages,     \* message_id values
    Names,        \* attachment file names
    Hashes,       \* content_hash values, one per distinct extracted text
    Inbox,        \* Inbox[m]: the attachments of message m, in order
    SafeId,       \* SafeId[m]: the directory _safe_id makes of m
    MaxAttempts,  \* MAX_ATTEMPTS
    RaiseAt,      \* awaits that may raise, out of Awaits
    OutageKinds,  \* infrastructure failures considered, out of AllOutages
    MaxOutages,   \* bound on how many of them happen in a behaviour
    NoMessage, NoFile

\* What the attachment checks and parse_resume can tell apart: an extension
\* outside ALLOWED_EXTS, more than max_attachment_mb, a file whose text is never
\* accepted (too short, injection, corrupt), and a readable resume.
Kinds == {"unsupported", "too_large", "unreadable", "resume"}

Attachments == [name : Names, kind : Kinds, hash : Hashes]

\* Where process_email and commit await.
Awaits == {"attachment", "parse", "quarantine", "insert", "embed", "commit"}

\* The process dies; is_terminal raises; record_failure raises; a commit that
\* went through is reported as failed.
AllOutages == {"crash", "check", "record", "ack"}

ASSUME TicksAssumption == Ticks \subseteq Pollers
ASSUME PollersAssumption == IsFiniteSet(Pollers)
ASSUME InboxAssumption == Inbox \in [Messages -> Seq(Attachments)]
ASSUME MaxAttemptsAssumption == MaxAttempts \in Nat \ {0}
ASSUME OutagesAssumption == OutageKinds \subseteq AllOutages /\ MaxOutages \in Nat
ASSUME RaiseAssumption == RaiseAt \subseteq Awaits
ASSUME NoneAssumption == NoMessage \notin Messages /\ NoFile \notin Hashes

NoId == 0

TerminalExceptQuarantined == {"ingested", "dead_letter"}   \* mutants
TerminalExceptDeadLetter == {"ingested", "quarantined"}
TerminalStatuses == {"ingested", "quarantined", "dead_letter"}
Statuses == TerminalStatuses \cup {"absent", "failed"}   \* "absent": no row

\* The attachments of all messages, and where _save_attachment puts them.
Slots == UNION {{m} \X DOMAIN Inbox[m] : m \in Messages}
FlatPath(m, k) == <<"", Inbox[m][k].name>>   \* mutant: no directory per mail
Path(m, k) == <<SafeId[m], Inbox[m][k].name>>
Paths == {Path(s[1], s[2]) : s \in Slots}

\* Extension and size checks that process_email makes before it saves anything.
Rejected(m, k) == Inbox[m][k].kind \in {"unsupported", "too_large"}

\* A row of candidates: its id and the attachment it was made from.
CandidateRows == [id : Nat \ {NoId}, msg : Messages, att : Nat \ {0}]
HashOf(c) == Inbox[c.msg][c.att].hash

VARIABLES
    \* Postgres, committed
    status,       \* processed_emails.status
    attempts,     \* processed_emails.attempts
    candidates,   \* rows of candidates
    quarantine,   \* number of quarantine rows per attachment
    deadLetters,  \* number of dead_letter_emails rows per message
    nextId,       \* the sequence behind candidates.id (never rolled back)
    \* outside Postgres
    files,        \* content of every path under resumes_dir; NoFile: none, or cut short
    points,       \* ids of the Qdrant points
    mailbox,      \* messages the source lists
    outages,      \* outages so far
    \* one call of poll_and_process
    pc, todo, email, att, newId,
    txCandidates, txRows, txStatus

db == <<status, attempts, candidates, quarantine, deadLetters>>
tx == <<txCandidates, txRows, txStatus>>
local == <<todo, email, att, newId>>
vars == <<db, nextId, files, points, mailbox, outages, pc, local, tx>>

Terminal(m) == status[m] \in TerminalStatuses
Current(p) == Inbox[email[p]][att[p]]
Exhausted(p) == att[p] > Len(Inbox[email[p]])

Init ==
    /\ status = [m \in Messages |-> "absent"]
    /\ attempts = [m \in Messages |-> 0]
    /\ candidates = {}
    /\ quarantine = [s \in Slots |-> 0]
    /\ deadLetters = [m \in Messages |-> 0]
    /\ nextId = 1
    /\ files = [f \in Paths |-> NoFile]
    /\ points = {}
    /\ mailbox = {}
    /\ outages = 0
    /\ pc = [p \in Pollers |-> "idle"]
    /\ todo = [p \in Pollers |-> {}]
    /\ email = [p \in Pollers |-> NoMessage]
    /\ att = [p \in Pollers |-> 1]
    /\ newId = [p \in Pollers |-> NoId]
    /\ txCandidates = [p \in Pollers |-> {}]
    /\ txRows = [p \in Pollers |-> {}]
    /\ txStatus = [p \in Pollers |-> "absent"]

----------------------------------------------------------------------------
(* Row locks: who holds the unique key a poller's next statement needs.     *)

\* q's open transaction has written the processed_emails row of m.
HoldsRow(q, m) == email[q] = m /\ txStatus[q] # "absent"

\* q's open transaction has inserted content hash h.
HoldsHash(q, h) == \E c \in txCandidates[q] : HashOf(c) = h

\* p's next statement upserts the processed_emails row of its message.
WantsRow(p) ==
    \/ pc[p] \in {"quarantine", "failure"}
    \/ /\ pc[p] = "attachment"
       /\ IF Exhausted(p) THEN txRows[p] = {} ELSE Rejected(email[p], att[p])

WaitsForRow(p, q) == p # q /\ WantsRow(p) /\ HoldsRow(q, email[p])   \* mutant

WaitsFor(p, q) ==
    /\ p # q
    /\ \/ WantsRow(p) /\ HoldsRow(q, email[p])
       \/ pc[p] = "insert" /\ HoldsHash(q, Current(p).hash)

Unblocked(p) == \A q \in Pollers : ~WaitsFor(p, q)

NeverInCycle(p) == FALSE   \* mutant

\* p is on a cycle of the waits-for graph.
InCycle(p) ==
    \E S \in SUBSET Pollers :
        /\ p \in S
        /\ \A q \in S : \E r \in S : WaitsFor(q, r)
        /\ \A q \in S : \E r \in S : WaitsFor(r, q)

----------------------------------------------------------------------------
(* poll_and_process                                                         *)

\* A new mail, or a new file in inbox_dir.
Deliver(m) ==
    /\ m \notin mailbox
    /\ mailbox' = mailbox \cup {m}
    /\ UNCHANGED <<db, nextId, files, points, outages, pc, local, tx>>

\* The source lists a mail again and again: IMAP is read with mark_seen=False
\* and FolderSource does not remove files.
MailboxMarkedSeen == {}   \* mutant
MailboxAfterFetch == mailbox

\* emails = await source.poll_once()
StartPoll(p) ==
    /\ pc[p] = "idle"
    /\ pc' = [pc EXCEPT ![p] = "loop"]
    /\ todo' = [todo EXCEPT ![p] = mailbox]
    /\ mailbox' = MailboxAfterFetch
    /\ UNCHANGED <<db, nextId, files, points, outages, email, att, newId, tx>>

EndPoll(p) ==
    /\ pc[p] = "loop"
    /\ todo[p] = {}
    /\ pc' = [pc EXCEPT ![p] = "idle"]
    /\ UNCHANGED <<db, nextId, files, points, mailbox, outages, local, tx>>

\* is_terminal says yes: counted as skipped.
SkipEmail(p, m) ==
    /\ pc[p] = "loop"
    /\ m \in todo[p]
    /\ Terminal(m)
    /\ todo' = [todo EXCEPT ![p] = @ \ {m}]
    /\ UNCHANGED <<db, nextId, files, points, mailbox, outages, pc, email, att, newId, tx>>

\* process_email starts on m.
BeginEmail(p, m) ==
    /\ pc[p] = "loop"
    /\ m \in todo[p]
    /\ todo' = [todo EXCEPT ![p] = @ \ {m}]
    /\ email' = [email EXCEPT ![p] = m]
    /\ att' = [att EXCEPT ![p] = 1]
    /\ pc' = [pc EXCEPT ![p] = "attachment"]
    /\ UNCHANGED <<db, nextId, files, points, mailbox, outages, newId, tx>>

\* is_terminal says no.  Nothing is locked, so another
\* poller can pass the same check before this one commits.
TakeEmail(p, m) ==
    /\ ~Terminal(m)
    /\ BeginEmail(p, m)

----------------------------------------------------------------------------
(* process_email, one action per await                                      *)

NextAttachment(p) ==
    /\ att' = [att EXCEPT ![p] = @ + 1]
    /\ pc' = [pc EXCEPT ![p] = "attachment"]

\* record_quarantine inside p's transaction.
Quarantine(p) ==
    /\ txRows' = [txRows EXCEPT ![p] = @ \cup {att[p]}]
    /\ txStatus' = [txStatus EXCEPT ![p] = "quarantined"]

\* Wrong extension or too large: record_quarantine and return, whatever
\* attachments are left.
RejectAttachment(p) ==
    /\ pc[p] = "attachment"
    /\ ~Exhausted(p)
    /\ Rejected(email[p], att[p])
    /\ Unblocked(p)
    /\ Quarantine(p)
    /\ pc' = [pc EXCEPT ![p] = "commit"]
    /\ UNCHANGED <<db, nextId, files, points, mailbox, outages, local, txCandidates>>

Saving(p) ==
    /\ pc[p] = "attachment"
    /\ ~Exhausted(p)
    /\ ~Rejected(email[p], att[p])

\* _save_attachment: overwrites whatever the path holds.
SaveAttachment(p) ==
    /\ Saving(p)
    /\ files' = [files EXCEPT ![Path(email[p], att[p])] = Current(p).hash]
    /\ pc' = [pc EXCEPT ![p] = "parse"]
    /\ UNCHANGED <<db, nextId, points, mailbox, outages, local, tx>>

\* parse_resume gives ParseFailure: the text is refused, or the LLM extractor
\* fails on a text that is fine.
ParseFails(p) ==
    /\ pc[p] = "parse"
    /\ pc' = [pc EXCEPT ![p] = "quarantine"]
    /\ UNCHANGED <<db, nextId, files, points, mailbox, outages, local, tx>>

ParseSucceeds(p) ==
    /\ pc[p] = "parse"
    /\ Current(p).kind = "resume"
    /\ pc' = [pc EXCEPT ![p] = "insert"]
    /\ UNCHANGED <<db, nextId, files, points, mailbox, outages, local, tx>>

\* The else branch: record_quarantine, then the next attachment.
QuarantineAttachment(p) ==
    /\ pc[p] = "quarantine"
    /\ Unblocked(p)
    /\ Quarantine(p)
    /\ NextAttachment(p)
    /\ UNCHANGED <<db, nextId, files, points, mailbox, outages, todo, email, newId,
                   txCandidates>>

\* Is the text of p's attachment a duplicate for INSERT ... ON CONFLICT
\* (content_hash) DO NOTHING, once no other transaction holds the key?
Duplicate(p) == \E c \in candidates \cup txCandidates[p] : HashOf(c) = Current(p).hash

\* RETURNING id gave a row.
InsertCandidate(p) ==
    /\ pc[p] = "insert"
    /\ Unblocked(p)
    /\ ~Duplicate(p)
    /\ txCandidates' = [txCandidates EXCEPT ![p] =
                          @ \cup {[id |-> nextId, msg |-> email[p], att |-> att[p]]}]
    /\ newId' = [newId EXCEPT ![p] = nextId]
    /\ nextId' = nextId + 1
    /\ pc' = [pc EXCEPT ![p] = "embed"]
    /\ UNCHANGED <<db, files, points, mailbox, outages, todo, email, att, txRows, txStatus>>

\* Mutant: no continue, so the code goes on with new_id None.
FallThrough(p) == pc' = [pc EXCEPT ![p] = "embed"] /\ UNCHANGED att
Continue(p) == NextAttachment(p)

\* RETURNING gave nothing: neither embedded nor indexed.
SkipDuplicate(p) ==
    /\ pc[p] = "insert"
    /\ Unblocked(p)
    /\ Duplicate(p)
    /\ Continue(p)
    /\ UNCHANGED <<db, nextId, files, points, mailbox, outages, todo, email, newId, tx>>

UpsertSwallowed(p) == points   \* mutant: an indexing error is logged and ignored
UpsertPoint(p) == points \cup {newId[p]}

\* embed_passage and upsert_resume: the point exists before the row does.
UpsertResume(p) ==
    /\ pc[p] = "embed"
    /\ points' = UpsertPoint(p)
    /\ newId' = [newId EXCEPT ![p] = NoId]
    /\ NextAttachment(p)
    /\ UNCHANGED <<db, nextId, files, mailbox, outages, todo, email, tx>>

AlwaysIngested(p) == "ingested"   \* mutant
FinalStatus(p) == IF txRows[p] = {} THEN "ingested" ELSE txStatus[p]

\* After the loop: upsert_processed("ingested") unless some attachment was
\* quarantined.
MarkProcessed(p) ==
    /\ pc[p] = "attachment"
    /\ Exhausted(p)
    /\ Unblocked(p)
    /\ txStatus' = [txStatus EXCEPT ![p] = FinalStatus(p)]
    /\ pc' = [pc EXCEPT ![p] = "commit"]
    /\ UNCHANGED <<db, nextId, files, points, mailbox, outages, local, txCandidates, txRows>>

\* session.commit(): the buffered writes take effect and the locks go.
EndTransaction(p) ==
    /\ txCandidates' = [txCandidates EXCEPT ![p] = {}]
    /\ txRows' = [txRows EXCEPT ![p] = {}]
    /\ txStatus' = [txStatus EXCEPT ![p] = "absent"]

ApplyTransaction(p) ==
    /\ pc[p] = "commit"
    /\ candidates' = candidates \cup txCandidates[p]
    /\ quarantine' = [s \in Slots |->
          IF s[1] = email[p] /\ s[2] \in txRows[p] THEN quarantine[s] + 1 ELSE quarantine[s]]
    /\ status' = [status EXCEPT ![email[p]] = txStatus[p]]
    /\ EndTransaction(p)
    /\ att' = [att EXCEPT ![p] = 1]
    /\ UNCHANGED <<attempts, deadLetters, nextId, files, points, mailbox, todo, newId>>

Commit(p) ==
    /\ ApplyTransaction(p)
    /\ email' = [email EXCEPT ![p] = NoMessage]
    /\ pc' = [pc EXCEPT ![p] = "loop"]
    /\ UNCHANGED outages

----------------------------------------------------------------------------
(* Failures                                                                 *)

\* The except branch of poll_and_process: rollback.
Rollback(p) ==
    /\ EndTransaction(p)
    /\ att' = [att EXCEPT ![p] = 1]
    /\ newId' = [newId EXCEPT ![p] = NoId]
    /\ pc' = [pc EXCEPT ![p] = "failure"]
    /\ UNCHANGED <<db, nextId, points, mailbox, outages, todo, email>>

\* write_bytes truncates its target before it fills it.
CutShort(p) ==
    IF Saving(p) THEN [files EXCEPT ![Path(email[p], att[p])] = NoFile] ELSE files

\* Disk, database, embedder or Qdrant fails at one of p's awaits.
Raise(p) ==
    /\ pc[p] \in RaiseAt
    /\ Rollback(p)
    /\ files' \in {files, CutShort(p)}

\* Postgres aborts one transaction of a waits-for cycle.
DeadlockAbort(p) ==
    /\ InCycle(p)
    /\ Rollback(p)
    /\ UNCHANGED files

LastAttemptOffByOne(m) == attempts[m] + 1 > MaxAttempts   \* mutants
LastAttemptExactly(m) == attempts[m] + 1 = MaxAttempts
LastAttempt(m) == attempts[m] + 1 >= MaxAttempts

\* record_failure in a session of its own.  The upsert locks the row until the
\* commit, so upsert, read of attempts, dead letter and commit are one step.
RecordFailure(p) ==
    LET m == email[p]
        last == LastAttempt(m)
    IN  /\ pc[p] = "failure"
        /\ Unblocked(p)
        /\ attempts' = [attempts EXCEPT ![m] = @ + 1]
        /\ status' = [status EXCEPT ![m] = IF last THEN "dead_letter" ELSE "failed"]
        /\ deadLetters' = [deadLetters EXCEPT ![m] = IF last THEN @ + 1 ELSE @]
        /\ email' = [email EXCEPT ![p] = NoMessage]
        /\ pc' = [pc EXCEPT ![p] = "loop"]
        /\ UNCHANGED <<candidates, quarantine, nextId, files, points, mailbox, outages,
                       todo, att, newId, tx>>

Outage(kind) ==
    /\ kind \in OutageKinds
    /\ outages < MaxOutages
    /\ outages' = outages + 1

\* The query of is_terminal fails: inside the try, so it counts as a failure of
\* the e-mail whatever its status is.
CheckRaises(p, m) ==
    /\ Outage("check")
    /\ pc[p] = "loop"
    /\ m \in todo[p]
    /\ todo' = [todo EXCEPT ![p] = @ \ {m}]
    /\ email' = [email EXCEPT ![p] = m]
    /\ pc' = [pc EXCEPT ![p] = "failure"]
    /\ UNCHANGED <<db, nextId, files, points, mailbox, att, newId, tx>>

\* The connection is lost after the server has committed: the poller takes the
\* except branch for a transaction that is in the database.
CommitRaises(p) ==
    /\ Outage("ack")
    /\ ApplyTransaction(p)
    /\ pc' = [pc EXCEPT ![p] = "failure"]
    /\ UNCHANGED email

\* record_failure itself fails: the exception leaves poll_and_process and the
\* rest of the poll is dropped.
RecordRaises(p) ==
    /\ Outage("record")
    /\ pc[p] = "failure"
    /\ pc' = [pc EXCEPT ![p] = "idle"]
    /\ todo' = [todo EXCEPT ![p] = {}]
    /\ email' = [email EXCEPT ![p] = NoMessage]
    /\ UNCHANGED <<db, nextId, files, points, mailbox, att, newId, tx>>

\* The process dies: every poller is gone and Postgres rolls back.
Crash ==
    /\ Outage("crash")
    /\ pc' = [p \in Pollers |-> "idle"]
    /\ todo' = [p \in Pollers |-> {}]
    /\ email' = [p \in Pollers |-> NoMessage]
    /\ att' = [p \in Pollers |-> 1]
    /\ newId' = [p \in Pollers |-> NoId]
    /\ txCandidates' = [p \in Pollers |-> {}]
    /\ txRows' = [p \in Pollers |-> {}]
    /\ txStatus' = [p \in Pollers |-> "absent"]
    /\ files' \in {files} \cup {CutShort(p) : p \in Pollers}
    /\ UNCHANGED <<db, nextId, points, mailbox>>

----------------------------------------------------------------------------
\* What a running poller does next when nothing raises.
Step(p) ==
    \/ EndPoll(p)
    \/ \E m \in Messages : SkipEmail(p, m) \/ TakeEmail(p, m)
    \/ RejectAttachment(p)
    \/ SaveAttachment(p)
    \/ ParseFails(p)
    \/ ParseSucceeds(p)
    \/ QuarantineAttachment(p)
    \/ InsertCandidate(p)
    \/ SkipDuplicate(p)
    \/ UpsertResume(p)
    \/ MarkProcessed(p)
    \/ Commit(p)
    \/ RecordFailure(p)

Next ==
    \/ \E m \in Messages : Deliver(m)
    \/ \E p \in Pollers :
         \/ StartPoll(p)
         \/ Step(p)
         \/ Raise(p)
         \/ DeadlockAbort(p)
         \/ \E m \in Messages : CheckRaises(p, m)
         \/ CommitRaises(p)
         \/ RecordRaises(p)
    \/ Crash

\* The scheduler starts its ticks again and again; a started poll keeps running
\* (Postgres grants a row lock in arrival order, so a waiter is not passed over
\* for ever); Postgres breaks a wait cycle after deadlock_timeout.
Fairness ==
    /\ \A p \in Ticks : WF_vars(StartPoll(p))
    /\ \A p \in Pollers : SF_vars(Step(p)) /\ WF_vars(DeadlockAbort(p))

Spec == Init /\ [][Next]_vars /\ Fairness

=============================================================================
