--------------------------- MODULE DeletionProofs ---------------------------
(***************************************************************************)
(* Proofs about Deletion: deletes and downloads beside the polls, for every *)
(* number of requests and every failure the modules know.                   *)
(***************************************************************************)
EXTENDS Deletion, IngestionProofs

Request(d) == DeleteCandidate(d) \/ DownloadFile(d)

\* A step belongs to the polls, to a request, or ends them all.
LEMMA DeletionSteps ==
  ASSUME [DeletionNext]_allVars
  PROVE  \/ [Next]_vars /\ UNCHANGED requests
         \/ \E d \in Clients : Request(d)
         \/ CrashAll /\ [Next]_vars
  BY DEF DeletionNext, Ingest, Next, CrashAll, Request, allVars

\* A request touches neither the pollers nor the journal, and it adds no candidate
\* (candidates.py:68-161).
LEMMA RequestFrame ==
  ASSUME NEW d \in Clients, Request(d)
  PROVE  /\ UNCHANGED <<status, attempts, deadLetters, nextId, mailbox, outages, pc, local, tx>>
         /\ UNCHANGED <<candidates, quarantine, audit>> \/ AuditDownload(d) \/ CommitDelete(d)
         /\ UNCHANGED files \/ UnlinkFile(d)
         /\ candidates' \subseteq candidates
         /\ AllRows' \subseteq AllRows
         /\ \A q \in Pollers : Unaffected(q)
  <1>1. /\ UNCHANGED <<status, attempts, deadLetters, nextId, mailbox, outages, pc, local, tx>>
        /\ UNCHANGED <<candidates, quarantine, audit>> \/ AuditDownload(d) \/ CommitDelete(d)
        /\ UNCHANGED files \/ UnlinkFile(d)
        /\ candidates' \subseteq candidates
    BY DEF Request, DeleteCandidate, DownloadFile, BeginDelete, DeletePoint, DeleteReviews,
       CommitDelete, CommitFails, UnlinkFile, BeginDownload, AuditDownload, AuditFails,
       ServeFile, vars, db
  <1>2. QED
    BY <1>1 DEF AllRows, Unaffected, tx, local

----------------------------------------------------------------------------
(* Types, and what a request holds while it runs.                           *)

\* Every row, visible or not, was made from an attachment of the inbox.
RealRows == \A c \in AllRows : Real(c)

RequestControl ==
    \A d \in Clients :
        /\ rpc[d] # "idle" => target[d] \in CandidateRows /\ Real(target[d])
        /\ rpc[d] # "rows" => doomed[d] = NoReviews
        /\ \A s \in Slots :
             /\ doomed[d][s] <= quarantine[s]
             /\ doomed[d][s] > 0 => s[1] = target[d].msg

\* The row locks of DELETE FROM quarantine: no row is hit by two requests at once.
Exclusive ==
    \A d, e \in Clients : \A s \in Slots : doomed[d][s] > 0 /\ doomed[e][s] > 0 => d = e

RequestInv ==
    /\ TypeOK /\ Control
    /\ RequestsTypeOK
    /\ RealRows
    /\ RequestControl
    /\ Exclusive

\* A path of an attachment is a path of the file system.
LEMMA PathTyped ==
  ASSUME NEW c, Real(c)
  PROVE  FileOf(c) \in Paths
  <1>1. <<c.msg, c.att>> \in Slots
    BY SlotOf DEF Real
  <1>2. QED
    BY <1>1 DEF Paths, FileOf

\* What an attachment contains is a hash.
LEMMA HashTyped ==
  ASSUME NEW c, Real(c)
  PROVE  HashOf(c) \in Hashes
  BY InboxTyped DEF Real, HashOf, Attachments

\* A request keeps what is known of the tables (candidates.py:68-161).
LEMMA RequestTables ==
  ASSUME RequestInv, NEW d \in Clients, Request(d)
  PROVE  /\ TypeOK' /\ Control' /\ RealRows'
         /\ \A s \in Slots : /\ quarantine'[s] \in Nat /\ quarantine'[s] <= quarantine[s]
                             /\ ~CommitDelete(d) => quarantine'[s] = quarantine[s]
  <1> USE DEF RequestInv
  <1>1. \A s \in Slots : /\ quarantine[s] \in Nat /\ doomed[d][s] \in Nat
                         /\ doomed[d][s] <= quarantine[s]
    BY DEF TypeOK, RequestsTypeOK, RequestControl
  <1>2. CASE CommitDelete(d)
    <2>1. /\ quarantine' = [s \in Slots |-> quarantine[s] - doomed[d][s]]
          /\ files' = files /\ points' = points
      BY <1>2 DEF CommitDelete
    <2>2. \A s \in Slots : quarantine'[s] \in Nat /\ quarantine'[s] <= quarantine[s]
      BY <1>1, <2>1
    <2>3. quarantine' \in [Slots -> Nat]
      BY <2>1, <2>2
    <2>4. TypeOK'
      BY <2>1, <2>3, RequestFrame DEF TypeOK, PcTypeOK, TxTypeOK, tx, local
    <2>5. QED
      BY <1>2, <2>2, <2>4, RequestFrame DEF Control, InProgress, RealRows, Real, tx, local
  <1>3. CASE ~CommitDelete(d)
    <2>1. UNCHANGED <<candidates, quarantine>>
      BY <1>3, RequestFrame DEF AuditDownload, vars, db
    <2>2. files' \in [Paths -> Hashes \cup {NoFile}] /\ points' \subseteq Nat \ {NoId}
      BY <1>3, PathTyped
      DEF Request, DeleteCandidate, DownloadFile, BeginDelete, DeletePoint, DeleteReviews,
         CommitFails, UnlinkFile, BeginDownload, AuditDownload, AuditFails, ServeFile, vars,
         TypeOK
    <2>3. TypeOK'
      BY <2>1, <2>2, RequestFrame DEF TypeOK, PcTypeOK, TxTypeOK, tx, local
    <2>4. QED
      BY <1>1, <2>1, <2>3, RequestFrame DEF Control, InProgress, RealRows, Real, tx, local
  <1>4. QED
    BY <1>2, <1>3

\* A poll or a crash adds real rows only (pipeline.py:231-247).
LEMMA RealRowsStep ==
  ASSUME TypeOK, Control, RealRows, [Next]_vars
  PROVE  RealRows'
  <1> USE DEF TypeOK, TxTypeOK, PcTypeOK, tx
  <1>1. ASSUME NEW p \in Pollers, InsertCandidate(p)
        PROVE  RealRows'
    <2> DEFINE row == [id |-> nextId, msg |-> email[p], att |-> att[p]]
    <2>1. /\ candidates' = candidates /\ Real(row)
          /\ txCandidates' = [txCandidates EXCEPT ![p] = @ \cup {row}]
      BY <1>1 DEF InsertCandidate, Control, InProgress, Awaits, Real, db
    <2> HIDE DEF row
    <2>2. AllRows' \subseteq AllRows \cup {row}
      BY <2>1 DEF AllRows
    <2>3. QED
      BY <2>1, <2>2 DEF RealRows, Real
  <1>2. ASSUME NEW p \in Pollers, Moves(p), ~InsertCandidate(p)
        PROVE  AllRows' \subseteq AllRows
    BY <1>2 DEF AllRows, Moves, StartPoll, Step, EndPoll, SkipEmail, TakeEmail, BeginEmail,
       RejectAttachment, SaveAttachment, ParseFails, ParseSucceeds, QuarantineAttachment,
       SkipDuplicate, UpsertResume, MarkProcessed, Commit, ApplyTransaction, EndTransaction,
       RecordFailure, Rollback, CheckRaises, CommitRaises, RecordRaises, db
  <1>3. QED
    BY <1>1, <1>2, NextMoves DEF Deliver, Crash, vars, db, AllRows, RealRows, Real

\* The other requests go on as if nothing had happened.
LEMMA OtherRequests ==
  ASSUME RequestsTypeOK, NEW d \in Clients, Request(d), NEW e \in Clients \ {d}
  PROVE  rpc'[e] = rpc[e] /\ target'[e] = target[e] /\ doomed'[e] = doomed[e]
  BY DEF RequestsTypeOK, Request, DeleteCandidate, DownloadFile, BeginDelete, DeletePoint,
     DeleteReviews, CommitDelete, CommitFails, UnlinkFile, BeginDownload, AuditDownload,
     AuditFails, ServeFile, Goto, Finish

\* Every request keeps the types of the requests' variables (candidates.py:68-161).
LEMMA RequestTyped ==
  ASSUME RequestInv, NEW d \in Clients, Request(d)
  PROVE  RequestsTypeOK'
  <1> USE DEF RequestInv, RequestsTypeOK, Goto, Finish
  <1>0. quarantine' \in [Slots -> Nat]
    BY RequestTables DEF TypeOK
  <1>1. CASE BeginDelete(d, target'[d]) \/ BeginDownload(d, target'[d])
    BY <1>0, <1>1 DEF BeginDelete, BeginDownload, TypeOK
  <1>2. CASE DeletePoint(d) \/ UnlinkFile(d)
    BY <1>0, <1>2 DEF DeletePoint, UnlinkFile
  <1>3. CASE DeleteReviews(d)
    <2>1. ReviewsOf(target[d].msg) \in [Slots -> Nat]
      BY DEF ReviewsOf
    <2>2. QED
      BY <1>0, <1>3, <2>1 DEF DeleteReviews
  <1>4. NoReviews \in [Slots -> Nat]
    BY DEF NoReviews
  <1>5. CASE CommitDelete(d) \/ CommitFails(d)
    <2>1. target[d] \in CandidateRows
      BY <1>5 DEF CommitDelete, CommitFails, RequestControl
    <2>2. [action |-> "delete", row |-> target[d]] \in AuditEntries
      BY <2>1 DEF AuditEntries
    <2>3. QED
      BY <1>0, <1>4, <1>5, <2>2 DEF CommitDelete, CommitFails
  <1>6. CASE AuditDownload(d) \/ AuditFails(d)
    <2>1. target[d] \in CandidateRows
      BY <1>6 DEF AuditDownload, AuditFails, RequestControl
    <2>2. [action |-> "download", row |-> target[d]] \in AuditEntries
      BY <2>1 DEF AuditEntries
    <2>3. QED
      BY <1>0, <1>6, <2>2 DEF AuditDownload, AuditFails, EntryAdded
  <1>7. CASE ServeFile(d)
    <2>1. target[d] \in CandidateRows /\ FileOf(target[d]) \in Paths
      BY <1>7, PathTyped DEF ServeFile, RequestControl
    <2>2. files[FileOf(target[d])] \in Hashes \cup {NoFile}
      BY <2>1 DEF TypeOK
    <2>3. served' \subseteq CandidateRows \X Hashes
      BY <1>7, <2>1, <2>2 DEF ServeFile
    <2>4. QED
      BY <1>0, <1>7, <2>3 DEF ServeFile
  <1>8. QED
    BY <1>1, <1>2, <1>3, <1>5, <1>6, <1>7
    DEF Request, DeleteCandidate, DownloadFile, BeginDelete, BeginDownload

\* Every request holds what it should: its DELETE hits rows of its candidate's mail
\* and none that another request has hit (candidates.py:103-106).
LEMMA RequestControlled ==
  ASSUME RequestInv, NEW d \in Clients, Request(d)
  PROVE  RequestControl' /\ Exclusive'
  <1> USE DEF RequestInv, RequestsTypeOK, Goto, Finish
  <1>1. \A s \in Slots : NoReviews[s] = 0
    BY DEF NoReviews
  <1>2. CASE DeleteReviews(d)
    <2> DEFINE rows == ReviewsOf(target[d].msg)
    <2>1. /\ doomed' = [doomed EXCEPT ![d] = rows] /\ rpc[d] = "reviews" /\ rpc'[d] = "rows"
          /\ UNCHANGED <<target, quarantine>>
          /\ \A e \in Clients \ {d}, s \in Slots : ~(rows[s] > 0 /\ doomed[e][s] > 0)
      BY <1>2 DEF DeleteReviews, Locked, vars, db
    <2>2. \A s \in Slots : /\ rows[s] <= quarantine[s]
                           /\ rows[s] > 0 => s[1] = target[d].msg
      BY DEF ReviewsOf
    <2> HIDE DEF rows
    <2>3. RequestControl'
      BY <1>2, <2>1, <2>2, OtherRequests DEF RequestControl, Real, Request, DeleteCandidate
    <2>4. Exclusive'
      BY <1>2, <2>1, OtherRequests DEF Exclusive, Request, DeleteCandidate
    <2>5. QED
      BY <2>3, <2>4
  <1>3. CASE CommitDelete(d)
    <2>1. /\ doomed' = [doomed EXCEPT ![d] = NoReviews] /\ rpc'[d] = "file" /\ rpc[d] = "rows"
          /\ UNCHANGED target
          /\ quarantine' = [s \in Slots |-> quarantine[s] - doomed[d][s]]
      BY <1>3 DEF CommitDelete
    <2>2. ASSUME NEW e \in Clients \ {d}, NEW s \in Slots
          PROVE  doomed[e][s] <= quarantine'[s]
      <3>1. /\ doomed[e][s] \in Nat /\ doomed[d][s] \in Nat /\ quarantine[s] \in Nat
            /\ doomed[e][s] <= quarantine[s] /\ doomed[d][s] <= quarantine[s]
            /\ doomed[e][s] = 0 \/ doomed[d][s] = 0
        BY DEF TypeOK, RequestControl, Exclusive
      <3>2. QED
        BY <2>1, <3>1
    <2>3. \A s \in Slots : 0 <= quarantine'[s]
      BY RequestTables
    <2>4. RequestControl'
      BY <1>1, <2>1, <2>2, <2>3, OtherRequests DEF RequestControl, Real
    <2>5. Exclusive'
      BY <1>1, <2>1, OtherRequests DEF Exclusive
    <2>6. QED
      BY <2>4, <2>5
  <1>4. CASE ~DeleteReviews(d) /\ ~CommitDelete(d)
    <2>1. UNCHANGED quarantine
      BY <1>4, RequestFrame DEF AuditDownload, vars, db
    <2>2. doomed' = doomed \/ doomed' = [doomed EXCEPT ![d] = NoReviews]
      BY <1>4 DEF Request, DeleteCandidate, DownloadFile, BeginDelete, DeletePoint,
         CommitFails, UnlinkFile, BeginDownload, AuditDownload, AuditFails, ServeFile
    <2>3. /\ rpc'[d] # "idle" => target'[d] \in CandidateRows /\ Real(target'[d])
          /\ rpc'[d] # "rows" => doomed'[d] = NoReviews
      <3>1. CASE \E c \in candidates : BeginDelete(d, c) \/ BeginDownload(d, c)
        <4>1. target'[d] \in candidates /\ rpc'[d] # "rows" /\ rpc[d] = "idle"
          BY <3>1 DEF BeginDelete, BeginDownload
        <4>2. doomed'[d] = doomed[d]
          BY <3>1 DEF BeginDelete, BeginDownload
        <4>3. doomed[d] = NoReviews
          BY <4>1 DEF RequestControl
        <4>4. target'[d] \in CandidateRows /\ Real(target'[d])
          BY <4>1 DEF RealRows, AllRows, TypeOK
        <4>5. QED
          BY <4>2, <4>3, <4>4
      <3>2. CASE rpc'[d] = "idle" /\ (rpc[d] # "rows" \/ CommitFails(d))
        BY <2>2, <3>2 DEF RequestControl, CommitFails
      <3>3. CASE UNCHANGED <<target, doomed>> /\ rpc[d] \notin {"idle", "rows"} /\ rpc'[d] # "rows"
        BY <3>3 DEF RequestControl
      <3>4. QED
        BY <1>4, <3>1, <3>2, <3>3
        DEF Request, DeleteCandidate, DownloadFile, BeginDelete, DeletePoint,
         CommitFails, UnlinkFile, WhenCommitted, BeginDownload, AuditDownload, AuditFails,
         ServeFile
    <2>4. ASSUME NEW s \in Slots
          PROVE  /\ doomed'[d][s] <= quarantine'[s] /\ doomed'[d][s] <= doomed[d][s]
                 /\ doomed'[d][s] > 0 => s[1] = target'[d].msg
      <3>1. CASE doomed'[d] = NoReviews
        BY <1>1, <2>1, <3>1 DEF TypeOK
      <3>2. CASE doomed'[d] # NoReviews
        <4>1. doomed'[d] = doomed[d] /\ rpc'[d] = "rows" /\ rpc[d] = "rows"
          BY <2>2, <2>3, <3>2 DEF RequestControl
        <4>2. FALSE
          BY <1>4, <4>1
          DEF Request, DeleteCandidate, DownloadFile, BeginDelete, DeletePoint,
           CommitFails, UnlinkFile, BeginDownload, AuditDownload, AuditFails, ServeFile
        <4>3. QED
          BY <4>2
      <3>3. QED
        BY <3>1, <3>2
    <2>5. RequestControl'
      <3>1. ASSUME NEW e \in Clients \ {d}
            PROVE  rpc'[e] = rpc[e] /\ target'[e] = target[e] /\ doomed'[e] = doomed[e]
        BY OtherRequests
      <3>2. QED
        BY <2>1, <2>3, <2>4, <3>1 DEF RequestControl, Real
    <2>6. Exclusive'
      <3>1. ASSUME NEW e \in Clients, NEW s \in Slots, doomed'[e][s] > 0
            PROVE  doomed[e][s] > 0
        BY <2>2, <3>1, <1>1
      <3>2. QED
        BY <3>1 DEF Exclusive
    <2>7. QED
      BY <2>5, <2>6
  <1>5. QED
    BY <1>2, <1>3, <1>4

\* Requests keep what they hold while the polls go on: the review queue only grows
\* (pipeline.py:87-104).
LEMMA PollsKeepRequests ==
  ASSUME RequestInv, [Next]_vars, UNCHANGED requests \/ CrashAll
  PROVE  RequestInv'
  <1> USE DEF RequestInv
  <1>1. TypeOK' /\ Control' /\ RealRows'
    BY NextTyped, RealRowsStep
  <1>2. \A s \in Slots : /\ quarantine[s] \in Nat /\ quarantine'[s] \in Nat
                         /\ quarantine'[s] >= quarantine[s]
    BY QuarantineGrows
  <1>3. CASE UNCHANGED requests
    <2>1. RequestsTypeOK'
      BY <1>1, <1>3 DEF RequestsTypeOK, requests, TypeOK
    <2>2. ASSUME NEW d \in Clients, NEW s \in Slots
          PROVE  doomed'[d][s] <= quarantine'[s]
      <3>1. doomed[d][s] \in Nat /\ doomed[d][s] <= quarantine[s]
        BY DEF RequestsTypeOK, RequestControl
      <3>2. QED
        BY <1>2, <1>3, <3>1 DEF requests
    <2>3. RequestControl' /\ Exclusive'
      BY <1>3, <2>2 DEF RequestControl, Exclusive, Real, requests
    <2>4. QED
      BY <1>1, <2>1, <2>3
  <1>4. CASE CrashAll
    <2>1. RequestsTypeOK'
      BY <1>1, <1>4 DEF CrashAll, RequestsTypeOK, NoReviews, TypeOK
    <2>2. RequestControl' /\ Exclusive'
      BY <1>2, <1>4 DEF CrashAll, RequestControl, Exclusive, Real, NoReviews
    <2>3. QED
      BY <1>1, <2>1, <2>2
  <1>5. QED
    BY <1>3, <1>4

\* RequestInv is inductive.
LEMMA RequestStep ==
  RequestInv /\ [DeletionNext]_allVars => RequestInv'
  <1> SUFFICES ASSUME RequestInv, [DeletionNext]_allVars
               PROVE  RequestInv'
    OBVIOUS
  <1>1. ASSUME NEW d \in Clients, Request(d)
        PROVE  RequestInv'
    BY <1>1, RequestTables, RequestTyped, RequestControlled DEF RequestInv
  <1>2. QED
    BY <1>1, DeletionSteps, PollsKeepRequests

\* RequestInv holds when no request has come.
LEMMA RequestInit == Init /\ RequestsInit => RequestInv
  <1> SUFFICES ASSUME Init, RequestsInit
               PROVE  RequestInv
    OBVIOUS
  <1>1. TypeOK /\ Control
    BY InitTyped
  <1>2. RequestsTypeOK
    BY <1>1 DEF RequestsInit, RequestsTypeOK, NoReviews, TypeOK
  <1>3. RealRows
    BY DEF Init, RealRows, AllRows
  <1>4. RequestControl /\ Exclusive
    BY DEF Init, RequestsInit, RequestControl, Exclusive, NoReviews
  <1>5. QED
    BY <1>1, <1>2, <1>3, <1>4 DEF RequestInv

\* However many deletes, downloads and polls run at once and whatever fails, the
\* requests' variables keep their types; in particular the DELETEs of two requests
\* never take one review row twice, which would leave quarantine below zero
\* (candidates.py:68-161).
THEOREM RequestsTyped == DeletionSpec => []RequestsTypeOK
  <1>1. RequestInv => RequestsTypeOK
    BY DEF RequestInv
  <1>2. QED
    BY <1>1, RequestInit, RequestStep, PTL DEF DeletionSpec

----------------------------------------------------------------------------
(* What a download sends.                                                   *)

\* Attachments that are saved to one path have the same content.
PathsTell ==
    \A s, t \in Slots :
        Path(s[1], s[2]) = Path(t[1], t[2])
            => Inbox[s[1]][s[2]].hash = Inbox[t[1]][t[2]].hash

\* A path holds nothing, or what the attachments saved there contain.
FileContents ==
    \A m \in Messages : \A k \in DOMAIN Inbox[m] : files[Path(m, k)] = NoFile \/ OnDisk(m, k)

\* A response is on its way only when its audit entry is committed.
ServedAudited ==
    \A d \in Clients :
        rpc[d] = "serve" => [action |-> "download", row |-> target[d]] \in audit

AuditInv == RequestInv /\ FileContents /\ ServedAudited /\ DownloadsAudited

\* A save writes what the attachment contains; a failed write and an unlink leave
\* nothing (pipeline.py:182-187, candidates.py:114-117).
LEMMA FileContentsStep ==
  ASSUME PathsTell, AuditInv, [DeletionNext]_allVars
  PROVE  FileContents'
  <1> USE DEF AuditInv, RequestInv
  <1> SUFFICES ASSUME NEW m \in Messages, NEW k \in DOMAIN Inbox[m]
               PROVE  files'[Path(m, k)] = NoFile \/ files'[Path(m, k)] = Inbox[m][k].hash
    BY DEF FileContents, OnDisk
  <1>1. /\ Path(m, k) \in Paths /\ files \in [Paths -> Hashes \cup {NoFile}]
        /\ files[Path(m, k)] = NoFile \/ files[Path(m, k)] = Inbox[m][k].hash
    <2>1. <<m, k>> \in Slots
      BY SlotOf
    <2>2. QED
      BY <2>1 DEF Paths, FileContents, OnDisk, TypeOK
  <1>2. ASSUME NEW p \in Pollers, SaveAttachment(p)
        PROVE  files'[Path(m, k)] = NoFile \/ files'[Path(m, k)] = Inbox[m][k].hash
    <2>1. email[p] \in Messages /\ att[p] \in DOMAIN Inbox[email[p]]
      BY <1>2, InboxTyped
      DEF SaveAttachment, Saving, Exhausted, Control, InProgress, Awaits, TypeOK, PcTypeOK
    <2>2. <<email[p], att[p]>> \in Slots /\ <<m, k>> \in Slots
      BY <2>1, SlotOf
    <2>3. Path(email[p], att[p]) = Path(m, k) => Current(p).hash = Inbox[m][k].hash
      BY <2>2 DEF PathsTell, Current
    <2>4. QED
      BY <1>1, <1>2, <2>3 DEF SaveAttachment
  <1>3. ASSUME NEW p \in Pollers,
               files' = [files EXCEPT ![Path(email[p], att[p])] = NoFile]
        PROVE  files'[Path(m, k)] = NoFile \/ files'[Path(m, k)] = Inbox[m][k].hash
    BY <1>1, <1>3
  <1>4. ASSUME NEW d \in Clients, Request(d)
        PROVE  files'[Path(m, k)] = NoFile \/ files'[Path(m, k)] = Inbox[m][k].hash
    BY <1>1, <1>4, RequestFrame DEF UnlinkFile
  <1>5. QED
    BY <1>1, <1>2, <1>3, <1>4, FileSteps, DeletionSteps

\* A download is served after its entry and serves what it was asked for
\* (candidates.py:137-155).
LEMMA AuditStep ==
  ASSUME PathsTell, AuditInv, [DeletionNext]_allVars
  PROVE  AuditInv'
  <1> USE DEF AuditInv
  <1>0. RequestInv' /\ FileContents'
    BY RequestStep, FileContentsStep
  <1>1. ASSUME NEW d \in Clients, Request(d)
        PROVE  ServedAudited' /\ DownloadsAudited'
    <2>1. audit \subseteq audit'
      BY <1>1, RequestFrame DEF AuditDownload, EntryAdded, CommitDelete
    <2>2. CASE ServeFile(d)
      <3> DEFINE c == target[d]
                 content == files[FileOf(target[d])]
      <3>1. /\ Real(c) /\ [action |-> "download", row |-> c] \in audit
            /\ audit' = audit /\ rpc' = [rpc EXCEPT ![d] = "idle"]
            /\ \A e \in Clients \ {d} : target'[e] = target[e] /\ rpc'[e] = rpc[e]
            /\ served' = IF content = NoFile THEN served ELSE served \cup {<<c, content>>}
        BY <1>1, <2>2, OtherRequests
        DEF ServeFile, Finish, Goto, RequestInv, RequestControl, ServedAudited
      <3>2. content = NoFile \/ content = HashOf(c)
        BY <3>1 DEF FileContents, OnDisk, FileOf, HashOf, Real
      <3>3. ServedAudited'
        BY <3>1 DEF ServedAudited, RequestInv, RequestsTypeOK
      <3>4. DownloadsAudited'
        <4> SUFFICES ASSUME NEW s \in served'
                     PROVE  /\ [action |-> "download", row |-> s[1]] \in audit
                            /\ s[2] = HashOf(s[1])
          BY <3>1 DEF DownloadsAudited, HashOf
        <4>1. CASE s \in served
          BY <4>1 DEF DownloadsAudited
        <4>2. CASE s \notin served
          <5>1. s = <<c, content>> /\ content # NoFile
            BY <3>1, <4>2
          <5>2. s[1] = c /\ s[2] = content
            BY <5>1
          <5>3. QED
            BY <3>1, <3>2, <5>1, <5>2
        <4>3. QED
          BY <4>1, <4>2
      <3>5. QED
        BY <3>3, <3>4
    <2>3. CASE ~ServeFile(d)
      <3>1. served' = served
        BY <1>1, <2>3
        DEF Request, DeleteCandidate, DownloadFile, BeginDelete, DeletePoint, DeleteReviews,
           CommitDelete, CommitFails, UnlinkFile, BeginDownload, AuditDownload, AuditFails
      <3>2. rpc'[d] = "serve" => AuditDownload(d)
        BY <1>1, <2>3
        DEF Request, DeleteCandidate, DownloadFile, BeginDelete, DeletePoint, DeleteReviews,
           CommitDelete, CommitFails, UnlinkFile, BeginDownload, AuditFails, Goto, Finish,
           RequestInv, RequestsTypeOK
      <3>3. AuditDownload(d) => [action |-> "download", row |-> target'[d]] \in audit'
        BY DEF AuditDownload, EntryAdded
      <3>4. ServedAudited'
        BY <1>1, <2>1, <3>2, <3>3, OtherRequests DEF ServedAudited, RequestInv
      <3>5. QED
        BY <2>1, <3>1, <3>4 DEF DownloadsAudited, HashOf
    <2>4. QED
      BY <2>2, <2>3
  <1>2. ASSUME UNCHANGED <<served, audit>>, UNCHANGED <<rpc, target>> \/ CrashAll
        PROVE  ServedAudited' /\ DownloadsAudited'
    BY <1>2 DEF ServedAudited, DownloadsAudited, HashOf, CrashAll
  <1>3. QED
    BY <1>0, <1>1, <1>2, DeletionSteps DEF requests, CrashAll

\* Provided that a path tells what it contains, no resume is sent before the audit
\* log has the entry and what is sent is the resume that was asked for, however many
\* polls, deletes and downloads overlap (candidates.py:137, 146-155).
THEOREM EveryDownloadAudited ==
  ASSUME PathsTell
  PROVE  DeletionSpec => []DownloadsAudited
  <1>1. Init /\ RequestsInit => AuditInv
    <2> SUFFICES ASSUME Init, RequestsInit
                 PROVE  FileContents /\ ServedAudited /\ DownloadsAudited
      BY RequestInit DEF AuditInv
    <2>1. ASSUME NEW m \in Messages, NEW k \in DOMAIN Inbox[m]
          PROVE  files[Path(m, k)] = NoFile
      <3>1. <<m, k>> \in Slots
        BY SlotOf
      <3>2. Path(m, k) \in Paths
        BY <3>1 DEF Paths
      <3>3. QED
        BY <3>2 DEF Init
    <2>2. QED
      BY <2>1 DEF RequestsInit, FileContents, ServedAudited, DownloadsAudited
  <1>2. AuditInv => DownloadsAudited
    BY DEF AuditInv
  <1>3. AuditInv /\ [DeletionNext]_allVars => AuditInv'
    BY AuditStep
  <1>4. QED
    BY <1>1, <1>2, <1>3, PTL DEF DeletionSpec

----------------------------------------------------------------------------
(* What is lost was deleted.  A poller that skips a duplicate relies on a    *)
(* row that a request may delete before the poller commits: such rows go on *)
(* counting as stored.                                                      *)

Remembered == candidates \cup Deleted

LossInv ==
    /\ RequestInv
    /\ \A p \in Pollers : Progress(Remembered, p)
    /\ LostOnlyByDeletion

\* Which steps add to the deleted rows (candidates.py:107-110).
LEMMA DeletedSteps ==
  ASSUME NEW d \in Clients, Request(d)
  PROVE  /\ CommitDelete(d) => Deleted' = Deleted \cup {target[d]}
         /\ ~CommitDelete(d) => Deleted' = Deleted
  <1>1. CASE CommitDelete(d)
    <2> DEFINE entry == [action |-> "delete", row |-> target[d]]
    <2>1. audit' = audit \cup {entry} /\ entry.action = "delete" /\ entry.row = target[d]
      BY <1>1 DEF CommitDelete
    <2> HIDE DEF entry
    <2>2. {a \in audit' : a.action = "delete"} = {a \in audit : a.action = "delete"} \cup {entry}
      BY <2>1
    <2>3. QED
      BY <1>1, <2>1, <2>2 DEF Deleted
  <1>2. CASE AuditDownload(d)
    <2> DEFINE entry == [action |-> "download", row |-> target[d]]
    <2>1. audit' = audit \cup {entry} /\ entry.action # "delete" /\ ~CommitDelete(d)
      BY <1>2 DEF AuditDownload, EntryAdded, CommitDelete
    <2> HIDE DEF entry
    <2>2. {a \in audit' : a.action = "delete"} = {a \in audit : a.action = "delete"}
      BY <2>1
    <2>3. QED
      BY <2>1, <2>2 DEF Deleted
  <1>3. CASE UNCHANGED audit /\ ~CommitDelete(d)
    BY <1>3 DEF Deleted
  <1>4. QED
    BY <1>1, <1>2, <1>3, RequestFrame

\* A row that goes away is deleted: it is remembered (candidates.py:103-110).
LEMMA RememberedGrows ==
  ASSUME [DeletionNext]_allVars
  PROVE  Remembered \subseteq Remembered' /\ Deleted \subseteq Deleted'
  <1>1. ASSUME NEW d \in Clients, Request(d)
        PROVE  Remembered \subseteq Remembered' /\ Deleted \subseteq Deleted'
    <2>1. CASE CommitDelete(d)
      BY <1>1, <2>1, DeletedSteps DEF CommitDelete, Remembered
    <2>2. CASE ~CommitDelete(d)
      BY <1>1, <2>2, DeletedSteps, RequestFrame DEF AuditDownload, Remembered, vars, db
    <2>3. QED
      BY <2>1, <2>2
  <1>2. ASSUME [Next]_vars, UNCHANGED audit
        PROVE  Remembered \subseteq Remembered' /\ Deleted \subseteq Deleted'
    BY <1>2, CandidatesGrow DEF Remembered, Deleted
  <1>3. QED
    BY <1>1, <1>2, DeletionSteps DEF requests, CrashAll

\* What a poller has accounted for survives polls, requests and crashes.
LEMMA ProgressDespiteDeletes ==
  ASSUME LossInv, [DeletionNext]_allVars
  PROVE  \A p \in Pollers : Progress(Remembered, p)'
  <1> SUFFICES ASSUME NEW rows, rows = Remembered, NEW more, more = Remembered'
               PROVE  \A p \in Pollers : Progress(more, p)'
    BY DEF Progress, PassedOK, EmbedOK, CommitOK, Known
  <1>1. rows \subseteq more /\ candidates \subseteq rows
    BY RememberedGrows DEF Remembered
  <1>2. \A p \in Pollers : Progress(rows, p)
    BY DEF LossInv, Progress, PassedOK, EmbedOK, CommitOK, Known
  <1>3. CASE [Next]_vars
    BY <1>1, <1>2, <1>3, ProgressStep DEF LossInv, RequestInv
  <1>4. ASSUME NEW d \in Clients, Request(d), NEW p \in Pollers
        PROVE  Progress(more, p)'
    BY <1>1, <1>2, <1>4, RequestFrame, ProgressKept
  <1>5. QED
    BY <1>3, <1>4, DeletionSteps

\* A text that was stored stays stored or is deleted; a review row stays or goes
\* with a candidate of its mail (candidates.py:103-110).
LEMMA AccountedOrDeleted ==
  ASSUME RequestInv, [DeletionNext]_allVars, NEW m \in Messages, NEW k \in DOMAIN Inbox[m]
  PROVE  /\ Stored(m, k) => Stored(m, k)' \/ TextDeleted(Inbox[m][k].hash)'
         /\ Reviewed(m, k) => Reviewed(m, k)' \/ \E c \in Deleted' : c.msg = m
         /\ TextDeleted(Inbox[m][k].hash) => TextDeleted(Inbox[m][k].hash)'
         /\ (\E c \in Deleted : c.msg = m) => \E c \in Deleted' : c.msg = m
  <1> USE DEF RequestInv
  <1>1. Stored(m, k) => Stored(m, k)' \/ TextDeleted(Inbox[m][k].hash)'
    BY RememberedGrows DEF Stored, TextDeleted, Remembered, HashOf
  <1>2. Reviewed(m, k) => Reviewed(m, k)' \/ \E c \in Deleted' : c.msg = m
    <2>1. CASE [Next]_vars
      BY <2>1, AccountedKept
    <2>2. ASSUME NEW d \in Clients, Request(d), Reviewed(m, k)
          PROVE  Reviewed(m, k)' \/ \E c \in Deleted' : c.msg = m
      <3>1. <<m, k>> \in Slots
        BY SlotOf
      <3>2. CASE ~CommitDelete(d)
        BY <2>2, <3>1, <3>2, RequestTables DEF Reviewed
      <3>3. CASE CommitDelete(d)
        <4>1. CASE doomed[d][<<m, k>>] > 0
          <5>1. target[d].msg = m
            BY <3>1, <4>1 DEF RequestControl
          <5>2. target[d] \in Deleted'
            BY <2>2, <3>3, DeletedSteps
          <5>3. QED
            BY <5>1, <5>2
        <4>2. CASE ~(doomed[d][<<m, k>>] > 0)
          <5>1. doomed[d][<<m, k>>] = 0 /\ quarantine[<<m, k>>] \in Nat
            BY <3>1, <4>2 DEF RequestsTypeOK
          <5>2. quarantine'[<<m, k>>] = quarantine[<<m, k>>]
            BY <3>1, <3>3, <5>1 DEF CommitDelete
          <5>3. QED
            BY <2>2, <5>2 DEF Reviewed
        <4>3. QED
          BY <4>1, <4>2
      <3>4. QED
        BY <3>2, <3>3
    <2>3. QED
      BY <2>1, <2>2, DeletionSteps
  <1>3. QED
    BY <1>1, <1>2, RememberedGrows DEF TextDeleted, HashOf

\* Every step keeps LossInv (pipeline.py:190-328, candidates.py:84-161).
LEMMA LossStep ==
  LossInv /\ [DeletionNext]_allVars => LossInv'
  <1> SUFFICES ASSUME LossInv, [DeletionNext]_allVars
               PROVE  LossInv'
    OBVIOUS
  <1>0. RequestInv /\ TypeOK /\ Control
    BY DEF LossInv, RequestInv
  <1>1. ASSUME NEW m \in Messages, NEW k \in DOMAIN Inbox[m]
        PROVE  /\ status'[m] = "ingested" => Stored(m, k)' \/ TextDeleted(Inbox[m][k].hash)'
               /\ status'[m] = "quarantined" /\ Reached(m, k)
                    => \/ Stored(m, k)' \/ Reviewed(m, k)'
                       \/ TextDeleted(Inbox[m][k].hash)'
                       \/ \E c \in Deleted' : c.msg = m
    <2>1. CASE status'[m] = status[m]
      BY <1>0, <1>1, <2>1, AccountedOrDeleted DEF LossInv, LostOnlyByDeletion
    <2>2. CASE status'[m] \in {"failed", "dead_letter"}
      BY <2>2
    <2>3. ASSUME NEW p \in Pollers, ApplyTransaction(p), email[p] = m
          PROVE  /\ status'[m] = "ingested" => Stored(m, k)' \/ TextDeleted(Inbox[m][k].hash)'
                 /\ Reached(m, k) => \/ Stored(m, k)' \/ Reviewed(m, k)'
                                     \/ TextDeleted(Inbox[m][k].hash)'
      <3>1. CASE Stored(m, k) \/ TextDeleted(Inbox[m][k].hash)
        BY <1>0, <3>1, AccountedOrDeleted
      <3>2. CASE ~(Stored(m, k) \/ TextDeleted(Inbox[m][k].hash))
        <4> SUFFICES ASSUME NEW rows, rows = Remembered
                     PROVE  /\ status'[m] = "ingested" => Stored(m, k)'
                            /\ Reached(m, k) => Stored(m, k)' \/ Reviewed(m, k)'
          OBVIOUS
        <4>1. CommitOK(rows, p)
          BY DEF LossInv, Progress, CommitOK, Known
        <4>2. \A c \in rows : HashOf(c) # Inbox[m][k].hash
          BY <3>2 DEF Stored, TextDeleted, Remembered
        <4>3. QED
          BY <1>0, <2>3, <4>1, <4>2, CommitAccounts
      <3>3. QED
        BY <3>1, <3>2
    <2>4. [Next]_vars \/ status' = status
      BY DeletionSteps, RequestFrame
    <2>5. QED
      BY <1>0, <2>1, <2>2, <2>3, <2>4, StatusSteps
  <1>2. LostOnlyByDeletion'
    BY <1>1 DEF LostOnlyByDeletion, Reached, Rejected
  <1>3. QED
    BY <1>0, <1>2, RequestStep, ProgressDespiteDeletes DEF LossInv

\* No interleaving of polls and requests, no failure and no crash loses a resume
\* that nobody deleted: the duplicate check may rely on a row although a request may
\* be deleting it (candidates.py:103-108, pipeline.py:246-257).
THEOREM LossesAreDeletions == DeletionSpec => []LostOnlyByDeletion
  <1>1. Init /\ RequestsInit => LossInv
    BY RequestInit
    DEF Init, LossInv, Progress, PassedOK, EmbedOK, CommitOK, Awaits, LostOnlyByDeletion
  <1>2. LossInv => LostOnlyByDeletion
    BY DEF LossInv
  <1>3. QED
    BY <1>1, <1>2, LossStep, PTL DEF DeletionSpec

----------------------------------------------------------------------------
(* Deletes beside a single poller: the journal keeps a settled mail out of  *)
(* the pipeline, so what a delete has taken away does not come back.        *)

\* A deleted row came from a settled mail, and its mail has no review rows left.
DeletedSettled ==
    \A c \in Deleted :
        /\ Real(c) /\ Terminal(c.msg)
        /\ \A s \in Slots : s[1] = c.msg => quarantine[s] = 0

\* A request works on a row that is there or that another request has deleted, and
\* a DELETE that is not committed yet has hit all review rows of the mail.
Targets ==
    \A d \in Clients :
        /\ rpc[d] # "idle" => target[d] \in Remembered
        /\ rpc[d] = "file" => target[d] \in Deleted
        /\ rpc[d] = "rows" => \A s \in Slots :
                                s[1] = target[d].msg => doomed[d][s] = quarantine[s]

OneDeletionInv ==
    /\ RequestInv
    /\ OnceInv
    /\ TxOfMail
    /\ SettledRows
    /\ UniqueContent
    /\ DeletedSettled
    /\ Targets
    /\ DeletedStaysDeleted

\* A request takes nothing from what the journal says (candidates.py:84-86).
LEMMA RequestKeepsJournal ==
  ASSUME RequestInv, OnceInv, TxOfMail, SettledRows, UniqueContent,
         NEW d \in Clients, Request(d)
  PROVE  OnceInv' /\ TxOfMail' /\ SettledRows' /\ UniqueContent'
  <1>1. /\ TypeOK' /\ Control'
        /\ \A s \in Slots : quarantine'[s] \in Nat /\ quarantine'[s] <= quarantine[s]
    BY RequestTables
  <1>2. UNCHANGED <<status, attempts, deadLetters, pc, email, txCandidates>>
    BY RequestFrame DEF tx, local
  <1>3. LifecycleInv'
    BY <1>1, <1>2 DEF OnceInv, LifecycleInv, InProgress, Terminal
  <1>4. \A s \in Slots : quarantine[s] \in Nat
    BY DEF RequestInv, TypeOK
  <1>5. ReviewedOnce' /\ OpenUnreviewed'
    BY <1>1, <1>2, <1>4 DEF OnceInv, ReviewedOnce, OpenUnreviewed, Terminal
  <1>6. TxOfMail' /\ SettledRows' /\ UniqueContent'
    BY <1>2, RequestFrame DEF TxOfMail, SettledRows, UniqueContent, Real, Terminal, HashOf
  <1>7. QED
    BY <1>3, <1>5, <1>6 DEF OnceInv

\* A single poller puts nothing in the review queue for a settled mail
\* (pipeline.py:57-62, 304-312).
LEMMA QueueClosed ==
  ASSUME LifecycleInv, [Next]_vars, NEW s \in Slots, Terminal(s[1])
  PROVE  quarantine'[s] = quarantine[s]
  <1>1. ASSUME NEW p \in Pollers, ApplyTransaction(p)
        PROVE  quarantine'[s] = quarantine[s]
    <2>1. s[1] # email[p]
      BY <1>1 DEF ApplyTransaction, LifecycleInv, InProgress, Awaits
    <2>2. QED
      BY <1>1, <2>1 DEF ApplyTransaction
  <1>2. QED
    BY <1>1, QuarantineSteps

\* A row that a poll adds comes from the mail the poller works on
\* (pipeline.py:231-247).
LEMMA RowOrigin ==
  ASSUME TypeOK, Control, [Next]_vars, NEW c \in AllRows'
  PROVE  c \in AllRows \/ \E p \in Pollers : InProgress(p) /\ c.msg = email[p]
  <1> USE DEF TypeOK, TxTypeOK, PcTypeOK, tx
  <1>1. ASSUME NEW p \in Pollers, InsertCandidate(p)
        PROVE  c \in AllRows \/ (InProgress(p) /\ c.msg = email[p])
    <2> DEFINE row == [id |-> nextId, msg |-> email[p], att |-> att[p]]
    <2>1. /\ candidates' = candidates /\ row.msg = email[p] /\ InProgress(p)
          /\ txCandidates' = [txCandidates EXCEPT ![p] = @ \cup {row}]
      BY <1>1 DEF InsertCandidate, InProgress, Awaits, db
    <2> HIDE DEF row
    <2>2. AllRows' \subseteq AllRows \cup {row}
      BY <2>1 DEF AllRows
    <2>3. QED
      BY <2>1, <2>2
  <1>2. ASSUME NEW p \in Pollers, Moves(p), ~InsertCandidate(p)
        PROVE  AllRows' \subseteq AllRows
    BY <1>2 DEF AllRows, Moves, StartPoll, Step, EndPoll, SkipEmail, TakeEmail, BeginEmail,
       RejectAttachment, SaveAttachment, ParseFails, ParseSucceeds, QuarantineAttachment,
       SkipDuplicate, UpsertResume, MarkProcessed, Commit, ApplyTransaction, EndTransaction,
       RecordFailure, Rollback, CheckRaises, CommitRaises, RecordRaises, db
  <1>3. QED
    BY <1>1, <1>2, NextMoves DEF Deliver, Crash, vars, db, AllRows

\* A poll or a crash brings nothing back and leaves the deletes as they are.
LEMMA PollsKeepDeletions ==
  ASSUME NoOverlap, OneDeletionInv, [Next]_vars, UNCHANGED requests \/ CrashAll
  PROVE  OneDeletionInv'
  <1>1. LifecycleInv /\ TypeOK /\ Control /\ UNCHANGED audit
    BY DEF OneDeletionInv, OnceInv, LifecycleInv, requests, CrashAll
  <1>2. Deleted' = Deleted /\ Remembered \subseteq Remembered'
    BY <1>1, CandidatesGrow DEF Deleted, Remembered
  <1>3. RequestInv' /\ OnceInv' /\ TxOfMail' /\ SettledRows'
    BY <1>1, PollsKeepRequests, OnceStep, TxOfMailStep, SettledRowsStep DEF OneDeletionInv
  <1>4. UniqueContent'
    <2> SUFFICES ASSUME TRUE
                 PROVE  \A c, d \in AllRows' : HashOf(c) = HashOf(d) => c = d
      BY DEF UniqueContent, HashOf
    <2>1. QED
      BY <1>1, RowsStep DEF OneDeletionInv, UniqueContent
  <1>5. DeletedSettled'
    <2>1. ASSUME NEW c \in Deleted
          PROVE  /\ Real(c) /\ Terminal(c.msg)'
                 /\ \A s \in Slots : s[1] = c.msg => quarantine'[s] = 0
      <3>1. Real(c) /\ Terminal(c.msg) /\ \A s \in Slots : s[1] = c.msg => quarantine[s] = 0
        BY DEF OneDeletionInv, DeletedSettled
      <3>2. c.msg \in Messages
        BY <3>1 DEF Real
      <3>3. QED
        BY <1>1, <3>1, <3>2, TerminalKept, QueueClosed
    <2>2. QED
      BY <1>2, <2>1 DEF DeletedSettled, Real
  <1>6. ASSUME NEW d \in Clients, rpc[d] # "idle"
        PROVE  target[d].msg \in Messages /\ Terminal(target[d].msg)
    BY <1>6 DEF OneDeletionInv, Targets, Remembered, DeletedSettled, SettledRows, Real
  <1>7. Targets'
    <2>1. CASE UNCHANGED requests
      <3>1. ASSUME NEW d \in Clients, rpc[d] = "rows", NEW s \in Slots, s[1] = target[d].msg
            PROVE  doomed[d][s] = quarantine'[s]
        BY <1>1, <1>6, <3>1, QueueClosed DEF OneDeletionInv, Targets
      <3>2. QED
        BY <1>2, <2>1, <3>1 DEF OneDeletionInv, Targets, requests
    <2>2. CASE CrashAll
      BY <2>2 DEF CrashAll, Targets
    <2>3. QED
      BY <2>1, <2>2
  <1>8. DeletedStaysDeleted'
    <2>1. ASSUME NEW c \in Deleted, NEW r \in AllRows'
          PROVE  <<c.msg, c.att>> # <<r.msg, r.att>>
      <3>1. CASE r \in AllRows
        BY <3>1 DEF OneDeletionInv, DeletedStaysDeleted
      <3>2. ASSUME NEW p \in Pollers, InProgress(p), r.msg = email[p]
            PROVE  c.msg # r.msg
        BY <1>1, <3>2 DEF OneDeletionInv, DeletedSettled, LifecycleInv
      <3>3. QED
        BY <1>1, <3>1, <3>2, RowOrigin
    <2>2. QED
      BY <1>2, <2>1 DEF DeletedStaysDeleted
  <1>9. QED
    BY <1>3, <1>4, <1>5, <1>7, <1>8 DEF OneDeletionInv

\* What the commit of a delete does to the review queue: the rows of its mail go, and
\* no others (candidates.py:103-110).
LEMMA CommitClears ==
  ASSUME OneDeletionInv, NEW d \in Clients, CommitDelete(d), NEW s \in Slots
  PROVE  /\ s[1] = target[d].msg => quarantine'[s] = 0
         /\ s[1] # target[d].msg => quarantine'[s] = quarantine[s]
  <1>1. /\ quarantine[s] \in Nat /\ doomed[d][s] \in Nat
        /\ quarantine'[s] = quarantine[s] - doomed[d][s] /\ rpc[d] = "rows"
        /\ doomed[d][s] > 0 => s[1] = target[d].msg
    BY DEF OneDeletionInv, RequestInv, RequestsTypeOK, RequestControl, CommitDelete
  <1>2. s[1] = target[d].msg => doomed[d][s] = quarantine[s]
    BY <1>1 DEF OneDeletionInv, Targets
  <1>3. QED
    BY <1>1, <1>2

\* The row a delete commits is the only one of its attachment, and no poller is
\* making another (candidates.py:107-110).
LEMMA CommittedAway ==
  ASSUME OneDeletionInv, NEW d \in Clients, CommitDelete(d), NEW r \in AllRows'
  PROVE  <<target[d].msg, target[d].att>> # <<r.msg, r.att>>
  <1> DEFINE c == target[d]
  <1>1. c \in Remembered /\ rpc[d] = "rows" /\ Request(d)
    BY DEF OneDeletionInv, Targets, CommitDelete, Request, DeleteCandidate
  <1>2. r \in AllRows /\ (r \in candidates \ {c} \/ \E p \in Pollers : r \in txCandidates[p])
    BY DEF CommitDelete, AllRows, tx
  <1>3. CASE c \in Deleted
    BY <1>2, <1>3 DEF OneDeletionInv, DeletedStaysDeleted
  <1>4. CASE c \in candidates /\ r \in candidates \ {c}
    BY <1>4 DEF OneDeletionInv, UniqueContent, HashOf, AllRows
  <1>5. ASSUME c \in candidates, NEW p \in Pollers, r \in txCandidates[p]
        PROVE  c.msg # r.msg
    <2>1. Terminal(c.msg) /\ r.msg = email[p]
      BY <1>5 DEF OneDeletionInv, SettledRows, TxOfMail
    <2>2. InProgress(p)
      BY <1>5 DEF OneDeletionInv, RequestInv, Control, InProgress
    <2>3. QED
      BY <2>1, <2>2 DEF OneDeletionInv, OnceInv, LifecycleInv
  <1>6. QED
    BY <1>1, <1>2, <1>3, <1>4, <1>5 DEF Remembered

\* A request keeps what the deletes have promised (candidates.py:68-161).
LEMMA RequestKeepsDeletions ==
  ASSUME OneDeletionInv, NEW d \in Clients, Request(d), [DeletionNext]_allVars
  PROVE  OneDeletionInv'
  <1>1. RequestInv /\ RequestInv'
    BY RequestStep DEF OneDeletionInv
  <1>2. OnceInv' /\ TxOfMail' /\ SettledRows' /\ UniqueContent'
    BY RequestKeepsJournal DEF OneDeletionInv
  <1>3. \A m \in Messages : Terminal(m)' <=> Terminal(m)
    BY RequestFrame DEF Terminal
  <1>4. Remembered \subseteq Remembered' /\ Deleted \subseteq Deleted'
    BY RememberedGrows
  <1>5. ASSUME NEW e \in Clients, rpc[e] # "idle"
        PROVE  Real(target[e]) /\ Terminal(target[e].msg)
    BY <1>5 DEF OneDeletionInv, Targets, Remembered, DeletedSettled, SettledRows
  <1>6. CASE CommitDelete(d)
    <2>1. /\ rpc[d] = "rows" /\ rpc' = [rpc EXCEPT ![d] = "file"] /\ target' = target
          /\ Deleted' = Deleted \cup {target[d]}
          /\ \A e \in Clients \ {d} : rpc'[e] = rpc[e] /\ doomed'[e] = doomed[e]
      BY <1>1, <1>6, DeletedSteps, OtherRequests DEF CommitDelete, Goto, RequestInv
    <2>2. DeletedSettled'
      <3>1. ASSUME NEW c \in Deleted'
            PROVE  Real(c) /\ Terminal(c.msg)
                   /\ \A s \in Slots : s[1] = c.msg => quarantine'[s] = 0
        BY <1>5, <1>6, <2>1, CommitClears DEF OneDeletionInv, DeletedSettled
      <3>2. QED
        BY <1>3, <3>1 DEF DeletedSettled, Real
    <2>3. ASSUME NEW e \in Clients \ {d}, rpc[e] = "rows",
                 NEW s \in Slots, s[1] = target[e].msg
          PROVE  doomed[e][s] = quarantine'[s]
      <3>1. doomed[e][s] = quarantine[s]
        BY <2>3 DEF OneDeletionInv, Targets
      <3>2. CASE s[1] = target[d].msg
        <4>1. /\ doomed[d][s] = quarantine[s] /\ quarantine[s] \in Nat
              /\ ~(doomed[d][s] > 0 /\ doomed[e][s] > 0)
          BY <1>1, <2>1, <3>2 DEF OneDeletionInv, Targets, RequestInv, TypeOK, Exclusive
        <4>2. QED
          BY <1>6, <3>1, <3>2, <4>1, CommitClears
      <3>3. CASE s[1] # target[d].msg
        BY <1>6, <3>1, <3>3, CommitClears
      <3>4. QED
        BY <3>2, <3>3
    <2>4. Targets'
      BY <1>1, <1>4, <2>1, <2>3 DEF OneDeletionInv, Targets, RequestInv, RequestsTypeOK
    <2>5. DeletedStaysDeleted'
      BY <1>6, <2>1, CommittedAway, RequestFrame DEF OneDeletionInv, DeletedStaysDeleted
    <2>6. QED
      BY <1>1, <1>2, <2>2, <2>4, <2>5 DEF OneDeletionInv
  <1>7. CASE ~CommitDelete(d)
    <2>1. /\ Deleted' = Deleted /\ candidates' = candidates
          /\ \A s \in Slots : quarantine'[s] = quarantine[s]
      BY <1>1, <1>7, DeletedSteps, RequestTables, RequestFrame DEF AuditDownload, vars, db
    <2>2. DeletedSettled'
      <3>1. ASSUME NEW c \in Deleted
            PROVE  Real(c) /\ Terminal(c.msg)
                   /\ \A s \in Slots : s[1] = c.msg => quarantine'[s] = 0
        BY <2>1 DEF OneDeletionInv, DeletedSettled
      <3>2. QED
        BY <1>3, <2>1, <3>1 DEF DeletedSettled, Real
    <2>3. /\ rpc'[d] # "idle" => target'[d] \in Remembered
          /\ rpc'[d] # "file"
          /\ rpc'[d] = "rows" => DeleteReviews(d)
      <3>1. ASSUME NEW c \in candidates, BeginDelete(d, c) \/ BeginDownload(d, c)
            PROVE  rpc'[d] \in {"point", "audit"} /\ target'[d] = c
        BY <1>1, <3>1 DEF BeginDelete, BeginDownload, Goto, RequestInv, RequestsTypeOK
      <3>2. CASE DeletePoint(d) \/ DeleteReviews(d) \/ AuditDownload(d)
        BY <1>1, <3>2
        DEF DeletePoint, DeleteReviews, AuditDownload, Goto, RequestInv, RequestsTypeOK,
           OneDeletionInv, Targets
      <3>3. CASE CommitFails(d) \/ UnlinkFile(d) \/ AuditFails(d) \/ ServeFile(d)
        BY <1>1, <3>3
        DEF CommitFails, UnlinkFile, AuditFails, ServeFile, Goto, Finish, RequestInv,
           RequestsTypeOK
      <3>4. QED
        BY <1>7, <3>1, <3>2, <3>3 DEF Request, DeleteCandidate, DownloadFile, Remembered
    <2>4. ASSUME DeleteReviews(d), NEW s \in Slots, s[1] = target'[d].msg
          PROVE  doomed'[d][s] = quarantine[s]
      BY <1>1, <2>4 DEF DeleteReviews, ReviewsOf, RequestInv, RequestsTypeOK
    <2>5. Targets'
      <3>1. ASSUME NEW e \in Clients \ {d}
            PROVE  rpc'[e] = rpc[e] /\ target'[e] = target[e] /\ doomed'[e] = doomed[e]
        BY <1>1, OtherRequests DEF RequestInv
      <3>2. ASSUME NEW e \in Clients
            PROVE  /\ rpc'[e] # "idle" => target'[e] \in Remembered
                   /\ rpc'[e] = "file" => target'[e] \in Deleted
                   /\ rpc'[e] = "rows" => \A s \in Slots :
                        s[1] = target'[e].msg => doomed'[e][s] = quarantine[s]
        BY <2>3, <2>4, <3>1 DEF OneDeletionInv, Targets
      <3>3. QED
        BY <2>1, <3>2 DEF Targets, Remembered
    <2>6. DeletedStaysDeleted'
      BY <2>1, RequestFrame DEF OneDeletionInv, DeletedStaysDeleted
    <2>7. QED
      BY <1>1, <1>2, <2>2, <2>5, <2>6 DEF OneDeletionInv
  <1>8. QED
    BY <1>6, <1>7

\* OneDeletionInv is inductive when polls do not overlap.
LEMMA OneDeletionStep ==
  ASSUME NoOverlap, OneDeletionInv, [DeletionNext]_allVars
  PROVE  OneDeletionInv'
  BY DeletionSteps, PollsKeepDeletions, RequestKeepsDeletions

\* OneDeletionInv holds when nothing has been polled or requested.
LEMMA OneDeletionInit == Init /\ RequestsInit => OneDeletionInv
  <1> SUFFICES ASSUME Init, RequestsInit
               PROVE  OneDeletionInv
    OBVIOUS
  <1>1. RequestInv
    BY RequestInit
  <1>2. OneFileInv
    BY OneFileInit
  <1>3. Deleted = {}
    BY DEF RequestsInit, Deleted
  <1>4. UniqueContent /\ Targets
    BY DEF Init, RequestsInit, UniqueContent, AllRows, Targets
  <1>5. QED
    BY <1>1, <1>2, <1>3, <1>4
    DEF OneDeletionInv, OneFileInv, DeletedSettled, DeletedStaysDeleted

\* When polls do not overlap, an attachment whose candidate was deleted is never made
\* a candidate again, however often its mail is listed (candidates.py:84-86,
\* pipeline.py:308-310).
THEOREM DeletedForGood ==
  ASSUME NoOverlap
  PROVE  DeletionSpec => []DeletedStaysDeleted
  <1>1. OneDeletionInv => DeletedStaysDeleted
    BY DEF OneDeletionInv
  <1>2. OneDeletionInv /\ [DeletionNext]_allVars => OneDeletionInv'
    BY OneDeletionStep
  <1>3. QED
    BY <1>1, <1>2, OneDeletionInit, PTL DEF DeletionSpec

\* When polls do not overlap, review rows go in the step that deletes a candidate of
\* their mail and in no other, although two requests may be deleting candidates of one
\* mail at once (candidates.py:103-106).
THEOREM ReviewsOnlyGoWithCandidate ==
  ASSUME NoOverlap
  PROVE  DeletionSpec => ReviewsGoWithCandidate
  <1>1. ASSUME OneDeletionInv, [DeletionNext]_allVars,
               NEW s \in Slots, quarantine'[s] < quarantine[s]
        PROVE  \E c \in candidates \ candidates' : c.msg = s[1]
    <2>1. RequestInv /\ quarantine[s] \in Nat
      BY <1>1 DEF OneDeletionInv, RequestInv, TypeOK
    <2>2. CASE [Next]_vars
      <3>1. TypeOK
        BY <2>1 DEF RequestInv
      <3>2. quarantine[s] \in Nat /\ quarantine'[s] \in Nat /\ quarantine'[s] >= quarantine[s]
        BY <2>2, <3>1, QuarantineGrows
      <3>3. QED
        BY <1>1, <3>2
    <2>3. ASSUME NEW d \in Clients, Request(d)
          PROVE  \E c \in candidates \ candidates' : c.msg = s[1]
      <3>1. CommitDelete(d)
        BY <1>1, <2>1, <2>3, RequestTables
      <3>2. s[1] = target[d].msg
        BY <1>1, <2>1, <3>1, CommitClears
      <3>3. target[d] \in Remembered /\ target[d] \notin Deleted
        BY <1>1, <2>1, <3>1, <3>2, RequestTables
        DEF OneDeletionInv, Targets, CommitDelete, DeletedSettled
      <3>4. QED
        BY <3>1, <3>2, <3>3 DEF CommitDelete, Remembered
    <2>4. QED
      BY <1>1, <2>2, <2>3, DeletionSteps
  <1>2. OneDeletionInv /\ [DeletionNext]_allVars
          => [\A s \in Slots : quarantine'[s] < quarantine[s]
                 => \E c \in candidates \ candidates' : c.msg = s[1]]_allVars
    BY <1>1
  <1>3. OneDeletionInv /\ [DeletionNext]_allVars => OneDeletionInv'
    BY OneDeletionStep
  <1>4. QED
    BY <1>2, <1>3, OneDeletionInit, PTL DEF DeletionSpec, ReviewsGoWithCandidate

----------------------------------------------------------------------------
(* The files behind the rows when requests unlink some of them.             *)

\* Unlinking the file of a deleted candidate takes no other attachment's file
\* (candidates.py:112-117).
LEMMA OtherFilesKept ==
  ASSUME DistinctPaths, OneDeletionInv, NEW d \in Clients, Request(d),
         NEW m \in Messages, NEW k \in DOMAIN Inbox[m], OnDisk(m, k)
  PROVE  \/ files'[Path(m, k)] = Inbox[m][k].hash
         \/ UnlinkFile(d) /\ target[d] \in Deleted /\ target[d].msg = m /\ target[d].att = k
  <1>1. CASE UNCHANGED files
    BY <1>1 DEF OnDisk
  <1>2. CASE UnlinkFile(d)
    <2>1. rpc[d] = "file"
      BY <1>2 DEF UnlinkFile, WhenCommitted
    <2>2. target[d] \in Deleted /\ Real(target[d])
      BY <2>1 DEF OneDeletionInv, Targets, DeletedSettled
    <2>3. <<m, k>> \in Slots /\ <<target[d].msg, target[d].att>> \in Slots
      BY <2>2, SlotOf DEF Real
    <2>4. FileOf(target[d]) = Path(m, k) => target[d].msg = m /\ target[d].att = k
      BY <2>3 DEF DistinctPaths, FileOf
    <2>5. Path(m, k) \in Paths
      BY <2>3 DEF Paths
    <2>6. files \in [Paths -> Hashes \cup {NoFile}]
      BY DEF OneDeletionInv, RequestInv, TypeOK
    <2>7. files'[Path(m, k)] = files[Path(m, k)] \/ FileOf(target[d]) = Path(m, k)
      BY <1>2, <2>5, <2>6 DEF UnlinkFile
    <2>8. QED
      BY <1>2, <2>2, <2>4, <2>7 DEF OnDisk
  <1>3. QED
    BY <1>1, <1>2, RequestFrame

\* A request keeps every file that a row needs: by the time of the unlink nothing
\* refers to the deleted attachment (candidates.py:103-117).
LEMMA RequestKeepsFiles ==
  ASSUME DistinctPaths, OneDeletionInv, OneFileInv, NEW d \in Clients, Request(d)
  PROVE  (\A p \in Pollers : OpenOnDisk(p)') /\ FilesIntact'
  <1> DEFINE Kept(m, k) == files'[Path(m, k)] = Inbox[m][k].hash
  <1>1. UNCHANGED <<pc, email, att, txCandidates, txRows>> /\ candidates' \subseteq candidates
    BY RequestFrame DEF tx, local
  <1>2. ASSUME NEW c, Real(c), OnDisk(c.msg, c.att),
               \A r \in Deleted : <<r.msg, r.att>> # <<c.msg, c.att>>
        PROVE  Kept(c.msg, c.att)
    BY <1>2, OtherFilesKept DEF Real
  <1>3. ASSUME NEW m \in Messages, NEW k \in DOMAIN Inbox[m], OnDisk(m, k),
               \A r \in Deleted : r.msg # m
        PROVE  Kept(m, k)
    BY <1>3, OtherFilesKept
  <1>4. ASSUME NEW c \in AllRows, OnDisk(c.msg, c.att)
        PROVE  Kept(c.msg, c.att)
    BY <1>2, <1>4 DEF OneDeletionInv, DeletedStaysDeleted, RequestInv, RealRows
  <1>5. ASSUME NEW p \in Pollers, InProgress(p)
        PROVE  email[p] \in Messages /\ \A r \in Deleted : r.msg # email[p]
    BY <1>5 DEF OneDeletionInv, OnceInv, LifecycleInv, Control, DeletedSettled
  <1>6. ASSUME NEW p \in Pollers
        PROVE  OpenOnDisk(p)'
    <2>1. Control
      BY DEF OneDeletionInv, RequestInv
    <2>2. \A c \in txCandidates[p] : Kept(c.msg, c.att)
      BY <1>4 DEF OneFileInv, OpenOnDisk, AllRows
    <2>3. \A k \in txRows[p] : ~Rejected(email[p], k) => Kept(email[p], k)
      <3>1. txRows[p] # {} => InProgress(p)
        BY <2>1 DEF Control, InProgress
      <3>2. QED
        BY <1>3, <1>5, <3>1 DEF OneFileInv, OpenOnDisk, RowsOfMail
    <2>4. pc[p] \in {"parse", "quarantine", "insert", "embed"} => Kept(email[p], att[p])
      BY <1>3, <1>5, <2>1 DEF OneFileInv, OpenOnDisk, Control, InProgress, Awaits
    <2>5. QED
      BY <1>1, <2>2, <2>3, <2>4 DEF OpenOnDisk, OnDisk, Rejected
  <1>7. \A c \in candidates' : Kept(c.msg, c.att)
    BY <1>1, <1>4 DEF OneFileInv, FilesIntact, OnDisk, HashOf, AllRows
  <1>8. ASSUME NEW s \in Slots, Reviewed(s[1], s[2])', ~Rejected(s[1], s[2])
        PROVE  Kept(s[1], s[2])
    <2>1. s = <<s[1], s[2]>> /\ s[1] \in Messages /\ s[2] \in DOMAIN Inbox[s[1]]
      BY DEF Slots
    <2>2. quarantine[s] \in Nat /\ quarantine'[s] \in Nat /\ quarantine'[s] <= quarantine[s]
      BY RequestTables DEF OneDeletionInv, RequestInv, TypeOK
    <2>3. quarantine[s] > 0
      BY <1>8, <2>1, <2>2 DEF Reviewed
    <2>4. OnDisk(s[1], s[2])
      BY <1>8, <2>1, <2>3 DEF OneFileInv, FilesIntact, OnDisk, Reviewed
    <2>5. \A r \in Deleted : r.msg # s[1]
      BY <2>3 DEF OneDeletionInv, DeletedSettled
    <2>6. QED
      BY <1>3, <2>1, <2>4, <2>5
  <1>9. FilesIntact'
    BY <1>7, <1>8 DEF FilesIntact, HashOf, Rejected
  <1>10. QED
    BY <1>6, <1>9

\* OneDeletionInv and OneFileInv are inductive together.
LEMMA DeletionFilesStep ==
  ASSUME NoOverlap, DistinctPaths, OneDeletionInv, OneFileInv, [DeletionNext]_allVars
  PROVE  OneDeletionInv' /\ OneFileInv'
  <1>1. OneDeletionInv'
    BY OneDeletionStep
  <1>2. CASE [Next]_vars
    BY <1>1, <1>2, OneFileStep
  <1>3. ASSUME NEW d \in Clients, Request(d)
        PROVE  OneFileInv'
    <2>1. RowsOfMail'
      BY <1>3, RequestFrame DEF OneFileInv, RowsOfMail, tx, local
    <2>2. QED
      BY <1>1, <1>3, <2>1, RequestKeepsFiles DEF OneDeletionInv, OneFileInv
  <1>4. QED
    BY <1>1, <1>2, <1>3, DeletionSteps

\* When polls do not overlap and no two attachments share a path, every candidate row
\* and every attachment in review has its file, whatever is deleted beside them
\* (candidates.py:103-117, pipeline.py:182-187, 236, 274).
THEOREM FilesStayIntact ==
  ASSUME NoOverlap, DistinctPaths
  PROVE  DeletionSpec => []FilesIntact
  <1>1. OneFileInv => FilesIntact
    BY DEF OneFileInv
  <1>2. OneDeletionInv /\ OneFileInv /\ [DeletionNext]_allVars => OneDeletionInv' /\ OneFileInv'
    BY DeletionFilesStep
  <1>3. QED
    BY <1>1, <1>2, OneDeletionInit, OneFileInit, PTL DEF DeletionSpec

=============================================================================
