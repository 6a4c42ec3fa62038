------------------------------ MODULE Deletion ------------------------------
(***************************************************************************)
(* DELETE /candidates/{id} and GET /candidates/{id}/file                    *)
(* (src/api/candidates.py) beside the polls of Ingestion, over the same     *)
(* tables, files and Qdrant points.  A client is one running request; it    *)
(* lives in the process of the pollers and dies with it.                    *)
(***************************************************************************)
EXTENDS IngestionProperties

CONSTANTS
    Clients,       \* requests that may run at once
    RequestFailAt, \* calls of a request that may raise, out of RequestCalls
    NoCandidate

RequestCalls == {"qdrant", "commit", "unlink"}

ASSUME RequestFailAssumption == RequestFailAt \subseteq RequestCalls
ASSUME NoCandidateAssumption == NoCandidate \notin CandidateRows

AuditEntries == [action : {"delete", "download"}, row : CandidateRows]

VARIABLES
    rpc,      \* where each request is
    target,   \* the row its session.get has loaded
    doomed,   \* the quarantine rows its DELETE has hit, not yet committed
    audit,    \* audit_log
    served    \* what downloads have sent: candidate row and content

requests == <<rpc, target, doomed, audit, served>>
allVars == <<vars, requests>>

NoReviews == [s \in Slots |-> 0]

RequestsInit ==
    /\ rpc = [d \in Clients |-> "idle"]
    /\ target = [d \in Clients |-> NoCandidate]
    /\ doomed = [d \in Clients |-> NoReviews]
    /\ audit = {}
    /\ served = {}

Goto(d, step) == rpc' = [rpc EXCEPT ![d] = step]
FileOf(c) == Path(c.msg, c.att)

\* The request is over, with an answer or with an error.
Finish(d) ==
    /\ Goto(d, "idle")
    /\ target' = [target EXCEPT ![d] = NoCandidate]

----------------------------------------------------------------------------
(* delete_candidate                                                         *)

\* session.get finds the row; nothing is locked.  Without a row the answer is
\* 404 and nothing changes.
BeginDelete(d, c) ==
    /\ rpc[d] = "idle"
    /\ c \in candidates
    /\ target' = [target EXCEPT ![d] = c]
    /\ Goto(d, "point")
    /\ UNCHANGED <<vars, doomed, audit, served>>

\* qdrant_store.delete_resume; an error is logged.
DeletePoint(d) ==
    /\ rpc[d] = "point"
    /\ \/ points' = points \ {target[d].id}
       \/ "qdrant" \in RequestFailAt /\ UNCHANGED points
    /\ Goto(d, "reviews")
    /\ UNCHANGED <<db, nextId, files, mailbox, outages, pc, local, tx,
                   target, doomed, audit, served>>

ReviewsOfTable(m) == quarantine   \* mutant: no WHERE
ReviewsOf(m) == [s \in Slots |-> IF s[1] = m THEN quarantine[s] ELSE 0]

NeverLocked(d, rows) == FALSE   \* mutant
Locked(d, rows) == \E e \in Clients \ {d}, s \in Slots : rows[s] > 0 /\ doomed[e][s] > 0

\* DELETE FROM quarantine WHERE source_message_id: the rows of every attachment
\* of the mail.  A request that has deleted some of them must end first.
DeleteReviews(d) ==
    LET rows == ReviewsOf(target[d].msg)
    IN  /\ rpc[d] = "reviews"
        /\ ~Locked(d, rows)
        /\ doomed' = [doomed EXCEPT ![d] = rows]
        /\ Goto(d, "rows")
        /\ UNCHANGED <<vars, target, audit, served>>

\* DELETE of the row (no row is no error), audit entry, commit.
CommitDelete(d) ==
    /\ rpc[d] = "rows"
    /\ candidates' = candidates \ {target[d]}
    /\ quarantine' = [s \in Slots |-> quarantine[s] - doomed[d][s]]
    /\ audit' = audit \cup {[action |-> "delete", row |-> target[d]]}
    /\ doomed' = [doomed EXCEPT ![d] = NoReviews]
    /\ Goto(d, "file")
    /\ UNCHANGED <<status, attempts, deadLetters, nextId, files, points, mailbox, outages,
                   pc, local, tx, target, served>>

\* DELETE or commit raises: 500, and the transaction is rolled back.
CommitFails(d) ==
    /\ rpc[d] = "rows"
    /\ "commit" \in RequestFailAt
    /\ doomed' = [doomed EXCEPT ![d] = NoReviews]
    /\ Finish(d)
    /\ UNCHANGED <<vars, audit, served>>

WhenUncommitted == {"rows", "file"}   \* mutant: the file goes before the commit
WhenCommitted == {"file"}

\* unlink(missing_ok=True), after the commit; an error is logged.
UnlinkFile(d) ==
    /\ rpc[d] \in WhenCommitted
    /\ \/ files' = [files EXCEPT ![FileOf(target[d])] = NoFile]
       \/ "unlink" \in RequestFailAt /\ UNCHANGED files
    /\ Finish(d)
    /\ UNCHANGED <<db, nextId, points, mailbox, outages, pc, local, tx,
                   doomed, audit, served>>

----------------------------------------------------------------------------
(* download_candidate_file                                                  *)

\* The row and its file are there (otherwise 404).
BeginDownload(d, c) ==
    /\ rpc[d] = "idle"
    /\ c \in candidates
    /\ files[FileOf(c)] # NoFile
    /\ target' = [target EXCEPT ![d] = c]
    /\ Goto(d, "audit")
    /\ UNCHANGED <<vars, doomed, audit, served>>

EntryForgotten(c) == audit   \* mutant: no commit
EntryAdded(c) == audit \cup {[action |-> "download", row |-> c]}

\* session.add(AuditLog) and commit come before the response.
AuditDownload(d) ==
    /\ rpc[d] = "audit"
    /\ audit' = EntryAdded(target[d])
    /\ Goto(d, "serve")
    /\ UNCHANGED <<vars, target, doomed, served>>

AuditFails(d) ==
    /\ rpc[d] = "audit"
    /\ "commit" \in RequestFailAt
    /\ Finish(d)
    /\ UNCHANGED <<vars, doomed, audit, served>>

\* FileResponse opens the path when it is sent: by then the file may be gone.
ServeFile(d) ==
    LET content == files[FileOf(target[d])]
    IN  /\ rpc[d] = "serve"
        /\ served' = IF content = NoFile THEN served ELSE served \cup {<<target[d], content>>}
        /\ Finish(d)
        /\ UNCHANGED <<vars, doomed, audit>>

----------------------------------------------------------------------------
\* Crash of Ingestion: the requests die too, their transactions roll back.
CrashAll ==
    /\ Crash
    /\ rpc' = [d \in Clients |-> "idle"]
    /\ target' = [d \in Clients |-> NoCandidate]
    /\ doomed' = [d \in Clients |-> NoReviews]
    /\ UNCHANGED <<audit, served>>

Ingest ==
    \/ \E m \in Messages : Deliver(m)
    \/ \E p \in Pollers :
         \/ StartPoll(p)
         \/ Step(p)
         \/ Raise(p)
         \/ DeadlockAbort(p)
         \/ \E m \in Messages : CheckRaises(p, m)
         \/ CommitRaises(p)
         \/ RecordRaises(p)

DeleteCandidate(d) ==
    \/ \E c \in candidates : BeginDelete(d, c)
    \/ DeletePoint(d) \/ DeleteReviews(d) \/ CommitDelete(d) \/ CommitFails(d)
    \/ UnlinkFile(d)

DownloadFile(d) ==
    \/ \E c \in candidates : BeginDownload(d, c)
    \/ AuditDownload(d) \/ AuditFails(d) \/ ServeFile(d)

DeletionNext ==
    \/ Ingest /\ UNCHANGED requests
    \/ \E d \in Clients : DeleteCandidate(d) \/ DownloadFile(d)
    \/ CrashAll

DeletionSpec == Init /\ RequestsInit /\ [][DeletionNext]_allVars

----------------------------------------------------------------------------
(* Properties                                                               *)

Deleted == {e.row : e \in {a \in audit : a.action = "delete"}}
TextDeleted(h) == \E c \in Deleted : HashOf(c) = h

\* The requests' variables have their types (candidates.py:68-161).
RequestsTypeOK ==
    /\ rpc \in [Clients -> {"idle", "point", "reviews", "rows", "file", "audit", "serve"}]
    /\ target \in [Clients -> CandidateRows \cup {NoCandidate}]
    /\ doomed \in [Clients -> [Slots -> Nat]]
    /\ audit \subseteq AuditEntries
    /\ served \subseteq CandidateRows \X Hashes
    /\ quarantine \in [Slots -> Nat]

\* The journal outlives the candidate: an attachment whose candidate was deleted
\* is never made a candidate again, although the mailbox goes on listing its
\* mail (candidates.py:84-86, pipeline.py:308-310).
DeletedStaysDeleted ==
    \A c \in Deleted : \A d \in AllRows : <<c.msg, c.att>> # <<d.msg, d.att>>

\* NoResumeLost when candidates are deleted: a text that the journal calls done
\* is in candidates, or waits for review, or somebody deleted it, or its review
\* row went with a candidate of the same mail.  In particular a duplicate that
\* was skipped for the sake of a row is lost only if that row was deleted
\* (candidates.py:103-108, pipeline.py:246-257).
LostOnlyByDeletion ==
    \A m \in Messages : \A k \in DOMAIN Inbox[m] :
        LET text == Inbox[m][k].hash
        IN  /\ status[m] = "ingested" => Stored(m, k) \/ TextDeleted(text)
            /\ status[m] = "quarantined" /\ Reached(m, k)
                 => \/ Stored(m, k) \/ Reviewed(m, k) \/ TextDeleted(text)
                    \/ \E c \in Deleted : c.msg = m

\* A review row disappears only in the step that deletes a candidate of the same
\* mail (candidates.py:103-106).
ReviewsGoWithCandidate ==
    [][\A s \in Slots : quarantine'[s] < quarantine[s]
           => \E c \in candidates \ candidates' : c.msg = s[1]]_allVars

\* A resume leaves the house only after the audit log has an entry for it, and
\* what is sent is the resume of the candidate that was asked for
\* (candidates.py:137, 146-155).
DownloadsAudited ==
    \A s \in served : /\ [action |-> "download", row |-> s[1]] \in audit
                      /\ s[2] = HashOf(s[1])

============================================================================
