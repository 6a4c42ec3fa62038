-------------------------- MODULE IngestionProofs --------------------------
(***************************************************************************)
(* Proofs about Ingestion, for every inbox, every number of pollers and     *)
(* every failure the module knows.                                          *)
(***************************************************************************)
EXTENDS IngestionProperties, TLAPS, FiniteSetTheorems

InProgress(p) == pc[p] \in Awaits \cup {"failure"}

\* Where a poller is decides what its local variables and its transaction hold.
Control ==
    \A p \in Pollers :
        /\ InProgress(p) => email[p] \in Messages
        /\ pc[p] \in {"parse", "quarantine", "insert", "embed"}
              => att[p] \in DOMAIN Inbox[email[p]] /\ ~Rejected(email[p], att[p])
        /\ pc[p] = "embed" => newId[p] # NoId
        /\ pc[p] = "commit" => txStatus[p] # "absent"
        /\ txStatus[p] = "ingested" => pc[p] = "commit"
        /\ txRows[p] # {} <=> txStatus[p] = "quarantined"
        /\ pc[p] \notin Awaits => txCandidates[p] = {} /\ txStatus[p] = "absent"

\* No poller runs at first, so Control holds with TypeOK in every initial state
\* (pipeline.py:290-304).
THEOREM InitTyped == Init => TypeOK /\ Control
  BY MaxAttemptsAssumption DEF Init, TypeOK, PcTypeOK, TxTypeOK, Control, Statuses,
     TerminalStatuses, CandidateRows, NoId, InProgress, Awaits

\* The attachments of a mail, and what it means to be past the last of them
\* (pipeline.py:209).
LEMMA InboxTyped ==
  ASSUME NEW m \in Messages
  PROVE  /\ Inbox[m] \in Seq(Attachments)
         /\ \A k \in DOMAIN Inbox[m] : k \in Nat \ {0} /\ Inbox[m][k] \in Attachments
         /\ \A k \in Nat \ {0} : k \in DOMAIN Inbox[m] <=> ~(k > Len(Inbox[m]))
  <1>1. Inbox[m] \in Seq(Attachments)
    BY InboxAssumption
  <1>2. DOMAIN Inbox[m] = 1..Len(Inbox[m]) /\ Len(Inbox[m]) \in Nat
    BY <1>1
  <1>3. QED
    BY <1>1, <1>2

\* Only a poller inside process_email holds locks.
LEMMA HolderInProgress ==
  ASSUME Control, NEW p \in Pollers, InCycle(p)
  PROVE  pc[p] \in Awaits
  <1>1. PICK r \in Pollers : WaitsFor(r, p)
    BY DEF InCycle
  <1>2. QED
    BY <1>1 DEF WaitsFor, HoldsRow, HoldsHash, Control

\* A write that is cut short leaves a path without content (pipeline.py:182-187).
LEMMA CutShortTyped ==
  ASSUME files \in [Paths -> Hashes \cup {NoFile}], NEW p \in Pollers
  PROVE  CutShort(p) \in [Paths -> Hashes \cup {NoFile}]
  BY DEF CutShort

\* Every step of every poller, failures and crashes included, keeps TypeOK and
\* Control (pipeline.py:131-328).
THEOREM NextTyped == TypeOK /\ Control /\ [Next]_vars => TypeOK' /\ Control'
  <1> SUFFICES ASSUME TypeOK, Control, [Next]_vars
               PROVE  TypeOK' /\ Control'
    OBVIOUS
  <1> USE DEF TypeOK, PcTypeOK, TxTypeOK, Control, InProgress, Awaits, NoId, db, tx, local
  <1>1. ASSUME NEW m \in Messages, Deliver(m)
        PROVE  TypeOK' /\ Control'
    BY <1>1 DEF Deliver
  <1>2. ASSUME NEW p \in Pollers, StartPoll(p)
        PROVE  TypeOK' /\ Control'
    BY <1>2 DEF StartPoll, MailboxAfterFetch
  <1>3. ASSUME NEW p \in Pollers, Step(p)
        PROVE  TypeOK' /\ Control'
    <2>1. CASE EndPoll(p)
      BY <2>1 DEF EndPoll
    <2>2. ASSUME NEW m \in Messages, SkipEmail(p, m)
          PROVE  TypeOK' /\ Control'
      BY <2>2 DEF SkipEmail
    <2>3. ASSUME NEW m \in Messages, TakeEmail(p, m)
          PROVE  TypeOK' /\ Control'
      BY <2>3 DEF TakeEmail, BeginEmail
    <2>4. CASE RejectAttachment(p)
      BY <2>4 DEF RejectAttachment, Quarantine
    <2>5. CASE SaveAttachment(p)
      <3>1. att[p] \in DOMAIN Inbox[email[p]] /\ Current(p).hash \in Hashes
        BY <2>5, InboxTyped DEF SaveAttachment, Saving, Exhausted, Current, Attachments
      <3>2. QED
        BY <2>5, <3>1 DEF SaveAttachment, Saving
    <2>6. CASE ParseFails(p)
      BY <2>6 DEF ParseFails
    <2>7. CASE ParseSucceeds(p)
      BY <2>7 DEF ParseSucceeds
    <2>8. CASE QuarantineAttachment(p)
      <3>1. att[p] \in DOMAIN Inbox[email[p]] /\ att[p] \in Nat \ {0}
        BY <2>8 DEF QuarantineAttachment
      <3>2. QED
        BY <2>8, <3>1 DEF QuarantineAttachment, Quarantine, NextAttachment
    <2>9. CASE InsertCandidate(p)
      <3> DEFINE row == [id |-> nextId, msg |-> email[p], att |-> att[p]]
      <3>1. row \in CandidateRows
        BY <2>9 DEF InsertCandidate, CandidateRows
      <3>2. txCandidates' = [txCandidates EXCEPT ![p] = @ \cup {row}]
        BY <2>9 DEF InsertCandidate
      <3>3. nextId \in Nat \ {0} /\ nextId' \in Nat \ {0}
        BY <2>9 DEF InsertCandidate
      <3> HIDE DEF row
      <3>4. TypeOK'
        <4>1. txCandidates' \in [Pollers -> SUBSET CandidateRows]
          BY <3>1, <3>2
        <4>2. newId' \in [Pollers -> Nat]
          BY <2>9, <3>3 DEF InsertCandidate
        <4>3. pc' \in [Pollers -> Awaits \cup {"idle", "loop", "failure"}]
          BY <2>9 DEF InsertCandidate
        <4>4. QED
          BY <2>9, <3>3, <4>1, <4>2, <4>3 DEF InsertCandidate
      <3>5. Control'
        BY <2>9, <3>2, <3>3 DEF InsertCandidate
      <3>6. QED
        BY <3>4, <3>5
    <2>10. CASE SkipDuplicate(p)
      <3>1. att[p] + 1 \in Nat \ {0}
        OBVIOUS
      <3>2. QED
        BY <2>10, <3>1 DEF SkipDuplicate, Continue, NextAttachment
    <2>11. CASE UpsertResume(p)
      <3>1. newId[p] \in Nat \ {0} /\ att[p] + 1 \in Nat \ {0}
        BY <2>11 DEF UpsertResume
      <3>2. QED
        BY <2>11, <3>1 DEF UpsertResume, UpsertPoint, NextAttachment
    <2>12. CASE MarkProcessed(p)
      BY <2>12 DEF MarkProcessed, FinalStatus
    <2>13. CASE Commit(p)
      BY <2>13 DEF Commit, ApplyTransaction, EndTransaction, Statuses, TerminalStatuses
    <2>14. CASE RecordFailure(p)
      BY <2>14 DEF RecordFailure, Statuses, TerminalStatuses
    <2>15. QED
      BY <1>3, <2>1, <2>2, <2>3, <2>4, <2>5, <2>6, <2>7, <2>8, <2>9, <2>10, <2>11,
         <2>12, <2>13, <2>14 DEF Step
  <1>4. ASSUME NEW p \in Pollers, Rollback(p), pc[p] \in Awaits,
               files' \in [Paths -> Hashes \cup {NoFile}]
        PROVE  TypeOK' /\ Control'
    BY <1>4 DEF Rollback, EndTransaction
  <1>5. ASSUME NEW p \in Pollers, Raise(p)
        PROVE  TypeOK' /\ Control'
    BY <1>4, <1>5, CutShortTyped, RaiseAssumption DEF Raise
  <1>6. ASSUME NEW p \in Pollers, DeadlockAbort(p)
        PROVE  TypeOK' /\ Control'
    BY <1>4, <1>6, HolderInProgress DEF DeadlockAbort
  <1>7. ASSUME NEW p \in Pollers, NEW m \in Messages, CheckRaises(p, m)
        PROVE  TypeOK' /\ Control'
    BY <1>7 DEF CheckRaises, Outage
  <1>8. ASSUME NEW p \in Pollers, CommitRaises(p)
        PROVE  TypeOK' /\ Control'
    BY <1>8 DEF CommitRaises, Outage, ApplyTransaction, EndTransaction, Statuses,
       TerminalStatuses
  <1>9. ASSUME NEW p \in Pollers, RecordRaises(p)
        PROVE  TypeOK' /\ Control'
    BY <1>9 DEF RecordRaises, Outage
  <1>10. ASSUME Crash
         PROVE  TypeOK' /\ Control'
    BY <1>10, CutShortTyped DEF Crash, Outage
  <1>11. CASE UNCHANGED vars
    BY <1>11 DEF vars
  <1>12. QED
    BY <1>1, <1>2, <1>3, <1>5, <1>6, <1>7, <1>8, <1>9, <1>10, <1>11 DEF Next

\* TypeOK and Control are an inductive invariant of Ingestion.
LEMMA ControlInvariant == Spec => [](TypeOK /\ Control)
  <1>1. Init => TypeOK /\ Control
    BY InitTyped
  <1>2. TypeOK /\ Control /\ [Next]_vars => (TypeOK /\ Control)'
    BY NextTyped
  <1>3. QED
    BY <1>1, <1>2, PTL DEF Spec

\* TypeOK holds in every reachable state, whatever fails and however many
\* pollers run (db.py:44-135, pipeline.py:190-328).
THEOREM TypeCorrect == Spec => []TypeOK
  BY ControlInvariant, PTL

----------------------------------------------------------------------------
(* No resume is lost.  The invariant follows a poller through its mail:     *)
(* what it has passed is in its transaction or in the committed tables.     *)

\* rows: the candidates that count as stored, those of the table and maybe more.
Known(rows, p, k) ==
    \E c \in rows \cup txCandidates[p] : HashOf(c) = Inbox[email[p]][k].hash

PassedOK(rows, p) ==
    pc[p] \in Awaits \ {"commit"} =>
        \A j \in 1..(att[p] - 1) :
            ~Rejected(email[p], j) /\ (j \in txRows[p] \/ Known(rows, p, j))

EmbedOK(rows, p) == pc[p] = "embed" => Known(rows, p, att[p])

CommitOK(rows, p) ==
    pc[p] = "commit" =>
        \A k \in DOMAIN Inbox[email[p]] :
            /\ Reached(email[p], k) => k \in txRows[p] \/ Known(rows, p, k)
            /\ txStatus[p] = "ingested" => Known(rows, p, k)

Progress(rows, p) == PassedOK(rows, p) /\ EmbedOK(rows, p) /\ CommitOK(rows, p)

ResumeInv == TypeOK /\ Control /\ (\A p \in Pollers : Progress(candidates, p)) /\ NoResumeLost

\* The call of q goes on as if nothing had happened.
Unaffected(q) ==
    /\ pc'[q] = pc[q] /\ email'[q] = email[q] /\ att'[q] = att[q]
    /\ txRows'[q] = txRows[q] /\ txCandidates'[q] = txCandidates[q]
    /\ txStatus'[q] = txStatus[q] /\ newId'[q] = newId[q]

\* The part of Next in which p moves.
Moves(p) ==
    \/ StartPoll(p) \/ Step(p)
    \/ Rollback(p) /\ (pc[p] \in RaiseAt \/ InCycle(p))
    \/ \E m \in Messages : CheckRaises(p, m)
    \/ CommitRaises(p) \/ RecordRaises(p)

\* A step is a delivery, a move of one poller, a crash or a stutter.
LEMMA NextMoves ==
  ASSUME [Next]_vars
  PROVE  \/ \E m \in Messages : Deliver(m)
         \/ \E p \in Pollers : Moves(p)
         \/ Crash
         \/ UNCHANGED vars
  BY DEF Next, Moves, Raise, DeadlockAbort

\* A move of one poller leaves the calls of the others where they were.
LEMMA OthersUnaffected ==
  ASSUME TypeOK, NEW p \in Pollers, Moves(p), NEW q \in Pollers \ {p}
  PROVE  Unaffected(q)
  <1> USE DEF TypeOK, PcTypeOK, TxTypeOK, Unaffected, tx, local
  <1>1. CASE Step(p)
    BY <1>1 DEF Step, EndPoll, SkipEmail, TakeEmail, BeginEmail, RejectAttachment, Quarantine,
       SaveAttachment, ParseFails, ParseSucceeds, QuarantineAttachment, NextAttachment,
       InsertCandidate, SkipDuplicate, Continue, UpsertResume, MarkProcessed, Commit,
       ApplyTransaction, EndTransaction, RecordFailure
  <1>2. CASE StartPoll(p) \/ Rollback(p) \/ CommitRaises(p) \/ RecordRaises(p)
    BY <1>2 DEF StartPoll, Rollback, CommitRaises, RecordRaises, ApplyTransaction, EndTransaction
  <1>3. CASE \E m \in Messages : CheckRaises(p, m)
    BY <1>3 DEF CheckRaises
  <1>4. QED
    BY <1>1, <1>2, <1>3 DEF Moves

\* Ingestion never deletes a candidate (pipeline.py:231-246).
LEMMA CandidatesGrow ==
  ASSUME [Next]_vars
  PROVE  candidates \subseteq candidates'
  <1> USE DEF db
  <1>1. ASSUME NEW p \in Pollers, Moves(p)
        PROVE  candidates \subseteq candidates'
    BY <1>1 DEF Moves, StartPoll, Step, EndPoll, SkipEmail, TakeEmail, BeginEmail,
       RejectAttachment, SaveAttachment, ParseFails, ParseSucceeds, QuarantineAttachment,
       InsertCandidate, SkipDuplicate, UpsertResume, MarkProcessed, Commit,
       ApplyTransaction, RecordFailure, Rollback, CheckRaises, CommitRaises, RecordRaises
  <1>2. QED
    BY <1>1, NextMoves DEF Deliver, Crash, vars

\* Ingestion never deletes a quarantine row (pipeline.py:87-104).
LEMMA QuarantineGrows ==
  ASSUME TypeOK, [Next]_vars, NEW s \in Slots
  PROVE  quarantine[s] \in Nat /\ quarantine'[s] \in Nat /\ quarantine'[s] >= quarantine[s]
  <1> USE DEF db, TypeOK
  <1>1. ASSUME NEW p \in Pollers, Moves(p)
        PROVE  quarantine'[s] \in Nat /\ quarantine'[s] >= quarantine[s]
    <2>1. CASE ApplyTransaction(p)
      BY <2>1 DEF ApplyTransaction
    <2>2. CASE UNCHANGED quarantine
      BY <2>2
    <2>3. QED
      BY <1>1, <2>1, <2>2 DEF Moves, StartPoll, Step, EndPoll, SkipEmail, TakeEmail,
         BeginEmail, RejectAttachment, SaveAttachment, ParseFails, ParseSucceeds,
         QuarantineAttachment, InsertCandidate, SkipDuplicate, UpsertResume, MarkProcessed,
         Commit, RecordFailure, Rollback, CheckRaises, CommitRaises, RecordRaises
  <1>2. QED
    BY <1>1, NextMoves DEF Deliver, Crash, vars

\* The status of a mail changes by a commit or by record_failure, and by nothing
\* else (pipeline.py:65-84, 131-179).
LEMMA StatusSteps ==
  ASSUME TypeOK, Control, [Next]_vars, NEW m \in Messages
  PROVE  \/ status'[m] = status[m]
         \/ status'[m] \in {"failed", "dead_letter"}
         \/ \E p \in Pollers : ApplyTransaction(p) /\ email[p] = m
  <1> USE DEF db, TypeOK, PcTypeOK, Control, InProgress, Awaits
  <1>1. ASSUME NEW p \in Pollers, Moves(p)
        PROVE  \/ status'[m] = status[m]
               \/ status'[m] \in {"failed", "dead_letter"}
               \/ ApplyTransaction(p) /\ email[p] = m
    <2>1. CASE ApplyTransaction(p)
      <3>1. status' = [status EXCEPT ![email[p]] = txStatus[p]]
        BY <2>1 DEF ApplyTransaction
      <3>2. QED
        BY <2>1, <3>1
    <2>2. CASE RecordFailure(p)
      BY <2>2 DEF RecordFailure
    <2>3. CASE UNCHANGED status
      BY <2>3
    <2>4. QED
      BY <1>1, <2>1, <2>2, <2>3 DEF Moves, StartPoll, Step, EndPoll, SkipEmail, TakeEmail,
         BeginEmail, RejectAttachment, SaveAttachment, ParseFails, ParseSucceeds,
         QuarantineAttachment, InsertCandidate, SkipDuplicate, UpsertResume, MarkProcessed,
         Commit, Rollback, CheckRaises, CommitRaises, RecordRaises
  <1>2. QED
    BY <1>1, NextMoves DEF Deliver, Crash, vars

\* Progress only needs rows that do not go: more are those that count after the
\* step.
LEMMA ProgressKept ==
  ASSUME NEW rows, NEW more, rows \subseteq more,
         NEW q \in Pollers, Unaffected(q), Progress(rows, q)
  PROVE  Progress(more, q)'
  <1>1. \A k : Known(rows, q, k) => Known(more, q, k)'
    BY DEF Known, Unaffected, HashOf
  <1>2. PassedOK(more, q)' /\ EmbedOK(more, q)'
    BY <1>1 DEF Progress, PassedOK, EmbedOK, Unaffected, Rejected
  <1>3. CommitOK(more, q)'
    BY <1>1 DEF Progress, CommitOK, Unaffected, Reached, Rejected
  <1>4. QED
    BY <1>2, <1>3 DEF Progress

\* A poller outside process_email has nothing to account for.
LEMMA ProgressOutside ==
  ASSUME NEW more, NEW p \in Pollers, pc'[p] \notin Awaits
  PROVE  Progress(more, p)'
  BY DEF Progress, PassedOK, EmbedOK, CommitOK, Awaits

\* The poller that moves goes on accounting for the attachments it has passed
\* (pipeline.py:209-280).
LEMMA ProgressMoves ==
  ASSUME TypeOK, Control, NEW rows, NEW more, candidates \subseteq rows, rows \subseteq more,
         NEW p \in Pollers, Moves(p), Progress(rows, p)
  PROVE  Progress(more, p)'
  <1> USE DEF TypeOK, PcTypeOK, TxTypeOK, local, tx, db
  <1>1. CASE pc'[p] \notin Awaits
    BY <1>1, ProgressOutside
  <1>2. ASSUME NEW m \in Messages, TakeEmail(p, m)
        PROVE  Progress(more, p)'
    BY <1>2 DEF TakeEmail, BeginEmail, Progress, PassedOK, EmbedOK, CommitOK
  <1>3. CASE RejectAttachment(p)
    <2> DEFINE m == email[p]
    <2>1. /\ pc[p] = "attachment" /\ m \in Messages /\ Rejected(m, att[p])
          /\ pc'[p] = "commit" /\ txStatus'[p] = "quarantined"
          /\ email'[p] = m /\ txRows'[p] = txRows[p] \cup {att[p]}
          /\ UNCHANGED <<txCandidates, att>>
      BY <1>3 DEF RejectAttachment, Quarantine, Control, InProgress, Awaits
    <2>2. ASSUME NEW k \in DOMAIN Inbox[m], Reached(m, k)
          PROVE  k \in txRows'[p] \/ Known(more, p, k)'
      <3>1. k \in Nat \ {0} /\ att[p] \in Nat \ {0}
        BY <2>1, InboxTyped
      <3>2. ~(att[p] < k)
        BY <2>1, <2>2, <3>1 DEF Reached
      <3>3. k = att[p] \/ k \in 1..(att[p] - 1)
        BY <3>1, <3>2
      <3>4. QED
        BY <2>1, <3>3 DEF Progress, PassedOK, Known, HashOf, Awaits
    <2>3. CommitOK(more, p)'
      BY <2>1, <2>2 DEF CommitOK, Reached, Rejected
    <2>4. QED
      BY <2>1, <2>3 DEF Progress, PassedOK, EmbedOK
  <1>4. CASE SaveAttachment(p) \/ ParseFails(p) \/ ParseSucceeds(p)
    <2>1. /\ pc[p] \in Awaits \ {"commit"} /\ pc'[p] \in Awaits \ {"commit", "embed"}
          /\ UNCHANGED <<txCandidates, txRows, email, att>>
      BY <1>4 DEF SaveAttachment, Saving, ParseFails, ParseSucceeds, Awaits
    <2>2. QED
      BY <2>1 DEF Progress, PassedOK, EmbedOK, CommitOK, Known, HashOf, Rejected
  <1>5. CASE QuarantineAttachment(p) \/ SkipDuplicate(p) \/ UpsertResume(p)
    <2>1. /\ pc[p] \in Awaits \ {"commit"} /\ pc'[p] = "attachment" /\ att'[p] = att[p] + 1
          /\ UNCHANGED <<txCandidates, email>> /\ txRows[p] \subseteq txRows'[p]
      BY <1>5 DEF QuarantineAttachment, SkipDuplicate, UpsertResume, Continue, NextAttachment,
         Quarantine, Awaits
    <2>2. att[p] \in txRows'[p] \/ Known(rows, p, att[p])
      BY <1>5 DEF QuarantineAttachment, Quarantine, SkipDuplicate, Duplicate, Current, Known,
         UpsertResume, Progress, EmbedOK
    <2>3. ~Rejected(email[p], att[p])
      BY <1>5 DEF QuarantineAttachment, SkipDuplicate, UpsertResume, Control
    <2>4. \A k : Known(rows, p, k) => Known(more, p, k)'
      BY <2>1 DEF Known, HashOf
    <2>5. ASSUME NEW j \in 1..(att'[p] - 1)
          PROVE  ~Rejected(email[p], j) /\ (j \in txRows'[p] \/ Known(more, p, j)')
      <3>1. att[p] \in Nat \ {0}
        OBVIOUS
      <3>2. j = att[p] \/ j \in 1..(att[p] - 1)
        BY <2>1, <3>1
      <3>3. QED
        BY <2>1, <2>2, <2>3, <2>4, <3>2 DEF Progress, PassedOK
    <2>6. PassedOK(more, p)'
      BY <2>1, <2>5 DEF PassedOK, Rejected
    <2>7. QED
      BY <2>1, <2>6 DEF Progress, EmbedOK, CommitOK
  <1>6. CASE InsertCandidate(p)
    <2> DEFINE row == [id |-> nextId, msg |-> email[p], att |-> att[p]]
    <2>1. /\ pc[p] = "insert" /\ pc'[p] = "embed"
          /\ UNCHANGED <<email, att, txRows>>
          /\ txCandidates'[p] = txCandidates[p] \cup {row}
      BY <1>6 DEF InsertCandidate
    <2>2. Known(more, p, att[p])'
      <3>1. HashOf(row) = Inbox[email[p]][att[p]].hash
        BY DEF HashOf
      <3>2. row \in txCandidates'[p]
        BY <2>1
      <3> HIDE DEF row
      <3>3. QED
        BY <2>1, <3>1, <3>2 DEF Known, HashOf
    <2>3. \A k : Known(rows, p, k) => Known(more, p, k)'
      BY <2>1 DEF Known, HashOf
    <2>4. PassedOK(more, p)'
      BY <2>1, <2>3 DEF Progress, PassedOK, Rejected, Awaits
    <2>5. QED
      BY <2>1, <2>2, <2>4 DEF Progress, EmbedOK, CommitOK
  <1>7. CASE MarkProcessed(p)
    <2> DEFINE m == email[p]
    <2>1. /\ pc[p] = "attachment" /\ m \in Messages /\ att[p] > Len(Inbox[m])
          /\ pc'[p] = "commit" /\ email'[p] = m
          /\ txStatus'[p] = (IF txRows[p] = {} THEN "ingested" ELSE txStatus[p])
          /\ UNCHANGED <<txCandidates, txRows>>
      BY <1>7 DEF MarkProcessed, FinalStatus, Exhausted, Control, InProgress, Awaits
    <2>2. txStatus'[p] = "ingested" => txRows[p] = {}
      BY <2>1 DEF Control
    <2>3. ASSUME NEW k \in DOMAIN Inbox[m]
          PROVE  k \in 1..(att[p] - 1)
      BY <2>1, InboxTyped
    <2>4. \A k \in DOMAIN Inbox[m] : k \in txRows[p] \/ Known(rows, p, k)
      BY <2>1, <2>3 DEF Progress, PassedOK, Awaits
    <2>5. \A k : Known(rows, p, k) => Known(more, p, k)'
      BY <2>1 DEF Known, HashOf
    <2>6. CommitOK(more, p)'
      BY <2>1, <2>2, <2>4, <2>5 DEF CommitOK
    <2>7. QED
      BY <2>1, <2>6 DEF Progress, PassedOK, EmbedOK
  <1>8. QED
    BY <1>1, <1>2, <1>3, <1>4, <1>5, <1>6, <1>7 DEF Moves, StartPoll, Step, EndPoll,
       SkipEmail, Commit, RecordFailure, Rollback, CheckRaises, CommitRaises, RecordRaises,
       Awaits

\* Every step keeps what every poller has accounted for.
LEMMA ProgressStep ==
  ASSUME TypeOK, Control, [Next]_vars, NEW rows, NEW more, candidates \subseteq rows,
         rows \subseteq more, \A p \in Pollers : Progress(rows, p)
  PROVE  \A p \in Pollers : Progress(more, p)'
  <1>1. ASSUME NEW p \in Pollers, Moves(p), NEW q \in Pollers
        PROVE  Progress(more, q)'
    <2>1. CASE q = p
      BY <1>1, <2>1, ProgressMoves
    <2>2. CASE q # p
      BY <1>1, <2>2, OthersUnaffected, ProgressKept
    <2>3. QED
      BY <2>1, <2>2
  <1>2. ASSUME NEW m \in Messages, Deliver(m), NEW q \in Pollers
        PROVE  Progress(more, q)'
    BY <1>2, ProgressKept DEF Deliver, Unaffected, local, tx
  <1>3. ASSUME Crash, NEW q \in Pollers
        PROVE  Progress(more, q)'
    BY <1>3, ProgressOutside DEF Crash, Awaits
  <1>4. ASSUME UNCHANGED vars, NEW q \in Pollers
        PROVE  Progress(more, q)'
    BY <1>4, ProgressKept DEF vars, Unaffected, local, tx
  <1>5. QED
    BY <1>1, <1>2, <1>3, <1>4, NextMoves

\* An attachment of a message has its counter in quarantine.
LEMMA SlotOf ==
  ASSUME NEW m \in Messages, NEW k \in DOMAIN Inbox[m]
  PROVE  <<m, k>> \in Slots
  BY DEF Slots

\* What is stored or waits for review stays so.
LEMMA AccountedKept ==
  ASSUME TypeOK, [Next]_vars, NEW m \in Messages, NEW k \in DOMAIN Inbox[m]
  PROVE  (Stored(m, k) => Stored(m, k)') /\ (Reviewed(m, k) => Reviewed(m, k)')
  <1>1. Stored(m, k) => Stored(m, k)'
    BY CandidatesGrow DEF Stored, HashOf
  <1>2. \A s \in Slots : /\ quarantine[s] \in Nat /\ quarantine'[s] \in Nat
                         /\ quarantine'[s] >= quarantine[s]
    BY QuarantineGrows
  <1>3. Reviewed(m, k) => Reviewed(m, k)'
    BY <1>2, SlotOf DEF Reviewed
  <1>4. QED
    BY <1>1, <1>3

\* A commit moves what the poller has accounted for into the tables, but for what
\* it has found among rows (pipeline.py:246-257, 328).
LEMMA CommitAccounts ==
  ASSUME TypeOK, Control, NEW rows, NEW p \in Pollers, ApplyTransaction(p), CommitOK(rows, p),
         NEW m \in Messages, email[p] = m, NEW k \in DOMAIN Inbox[m],
         \A c \in rows : HashOf(c) # Inbox[m][k].hash
  PROVE  /\ status'[m] = "ingested" => Stored(m, k)'
         /\ Reached(m, k) => Stored(m, k)' \/ Reviewed(m, k)'
  <1>1. pc[p] = "commit" /\ status'[m] = txStatus[p]
    BY DEF ApplyTransaction, TypeOK
  <1>2. Known(rows, p, k) => Stored(m, k)'
    BY DEF ApplyTransaction, Known, Stored, HashOf
  <1>3. k \in txRows[p] => Reviewed(m, k)'
    <2> SUFFICES ASSUME k \in txRows[p]
                 PROVE  quarantine'[<<m, k>>] > 0
      BY DEF Reviewed
    <2>1. <<m, k>> \in Slots /\ quarantine[<<m, k>>] \in Nat
      BY SlotOf DEF TypeOK
    <2>2. quarantine'[<<m, k>>] = quarantine[<<m, k>>] + 1
      BY <2>1 DEF ApplyTransaction
    <2>3. QED
      BY <2>1, <2>2
  <1>4. QED
    BY <1>1, <1>2, <1>3 DEF CommitOK

\* Every step keeps ResumeInv.
LEMMA ResumeStep ==
  ResumeInv /\ [Next]_vars => ResumeInv'
  <1> SUFFICES ASSUME ResumeInv, [Next]_vars
               PROVE  ResumeInv'
    OBVIOUS
  <1> USE DEF ResumeInv
  <1>1. TypeOK' /\ Control'
    BY NextTyped
  <1>2. \A p \in Pollers : Progress(candidates, p)'
    <2> SUFFICES ASSUME NEW rows, rows = candidates, NEW more, more = candidates'
                 PROVE  \A p \in Pollers : Progress(more, p)'
      BY DEF Progress, PassedOK, EmbedOK, CommitOK, Known
    <2>1. \A p \in Pollers : Progress(rows, p)
      BY DEF Progress, PassedOK, EmbedOK, CommitOK, Known
    <2>2. QED
      BY <2>1, CandidatesGrow, ProgressStep
  <1>3. ASSUME NEW m \in Messages, NEW k \in DOMAIN Inbox[m]
        PROVE  /\ status'[m] = "ingested" => Stored(m, k)'
               /\ status'[m] = "quarantined" /\ Reached(m, k)
                     => Stored(m, k)' \/ Reviewed(m, k)'
    <2>1. CASE status'[m] = status[m]
      BY <1>3, <2>1, AccountedKept DEF NoResumeLost
    <2>2. CASE status'[m] \in {"failed", "dead_letter"}
      BY <2>2
    <2>3. ASSUME NEW p \in Pollers, ApplyTransaction(p), email[p] = m
          PROVE  /\ status'[m] = "ingested" => Stored(m, k)'
                 /\ Reached(m, k) => Stored(m, k)' \/ Reviewed(m, k)'
      <3>1. CASE Stored(m, k)
        BY <1>3, <3>1, AccountedKept
      <3>2. CASE ~Stored(m, k)
        <4> SUFFICES ASSUME NEW rows, rows = candidates
                     PROVE  /\ status'[m] = "ingested" => Stored(m, k)'
                            /\ Reached(m, k) => Stored(m, k)' \/ Reviewed(m, k)'
          OBVIOUS
        <4>1. CommitOK(rows, p)
          BY DEF Progress, CommitOK, Known
        <4>2. \A c \in rows : HashOf(c) # Inbox[m][k].hash
          BY <3>2 DEF Stored
        <4>3. QED
          BY <1>3, <2>3, <4>1, <4>2, CommitAccounts
      <3>3. QED
        BY <3>1, <3>2
    <2>4. QED
      BY <2>1, <2>2, <2>3, StatusSteps
  <1>4. NoResumeLost'
    BY <1>3 DEF NoResumeLost, Reached, Rejected
  <1>5. QED
    BY <1>1, <1>2, <1>4

\* No interleaving of pollers, no failure and no crash loses a resume: an
\* "ingested" mail has all its texts in candidates, a "quarantined" one has each
\* attachment up to the first rejected one stored or in review
\* (pipeline.py:190-328).
THEOREM NeverLost == Spec => []NoResumeLost
  <1>1. Init => ResumeInv
    <2>1. Init => \A p \in Pollers : Progress(candidates, p)
      BY DEF Init, Progress, PassedOK, EmbedOK, CommitOK, Awaits
    <2>2. Init => NoResumeLost
      BY DEF Init, NoResumeLost
    <2>3. QED
      BY <2>1, <2>2, InitTyped DEF ResumeInv
  <1>2. ResumeInv => NoResumeLost
    BY DEF ResumeInv
  <1>3. QED
    BY <1>1, <1>2, ResumeStep, PTL DEF Spec

----------------------------------------------------------------------------
(* One row per text: an insert waits for the transactions that hold its key. *)

\* Every step keeps at most one row per text (pipeline.py:231-247).
LEMMA RowsStep ==
  ASSUME TypeOK, [Next]_vars
  PROVE  \/ AllRows' \subseteq AllRows
         \/ \E row : /\ AllRows' \subseteq AllRows \cup {row}
                     /\ \A c \in AllRows : HashOf(c) # HashOf(row)
  <1> USE DEF db, tx, TypeOK, TxTypeOK
  <1>1. ASSUME NEW p \in Pollers, InsertCandidate(p)
        PROVE  \E row : /\ AllRows' \subseteq AllRows \cup {row}
                        /\ \A c \in AllRows : HashOf(c) # HashOf(row)
    <2> DEFINE row == [id |-> nextId, msg |-> email[p], att |-> att[p]]
    <2>1. /\ candidates' = candidates /\ pc[p] = "insert"
          /\ txCandidates' = [txCandidates EXCEPT ![p] = @ \cup {row}]
      BY <1>1 DEF InsertCandidate
    <2>2. HashOf(row) = Current(p).hash
      BY DEF HashOf, Current
    <2> HIDE DEF row
    <2>3. AllRows' \subseteq AllRows \cup {row}
      BY <2>1 DEF AllRows
    <2>4. ASSUME NEW q \in Pollers, NEW c \in txCandidates[q]
          PROVE  HashOf(c) # HashOf(row)
      <3>1. CASE q = p
        BY <1>1, <2>2, <2>4, <3>1 DEF InsertCandidate, Duplicate
      <3>2. CASE q # p
        BY <1>1, <2>1, <2>2, <2>4, <3>2 DEF InsertCandidate, Unblocked, WaitsFor, HoldsHash
      <3>3. QED
        BY <3>1, <3>2
    <2>5. \A c \in candidates : HashOf(c) # HashOf(row)
      BY <1>1, <2>2 DEF InsertCandidate, Duplicate
    <2>6. QED
      BY <2>3, <2>4, <2>5 DEF AllRows
  <1>2. ASSUME NEW p \in Pollers, ApplyTransaction(p)
        PROVE  AllRows' \subseteq AllRows
    BY <1>2 DEF ApplyTransaction, EndTransaction, AllRows
  <1>3. ASSUME NEW p \in Pollers, Rollback(p)
        PROVE  AllRows' \subseteq AllRows
    BY <1>3 DEF Rollback, EndTransaction, AllRows
  <1>4. ASSUME UNCHANGED <<candidates, txCandidates>>
        PROVE  AllRows' = AllRows
    BY <1>4 DEF AllRows
  <1>5. ASSUME NEW p \in Pollers, Moves(p)
        PROVE  \/ InsertCandidate(p) \/ ApplyTransaction(p) \/ Rollback(p)
               \/ UNCHANGED <<candidates, txCandidates>>
    BY <1>5 DEF Moves, StartPoll, Step, EndPoll, SkipEmail, TakeEmail, BeginEmail,
       RejectAttachment, SaveAttachment, ParseFails, ParseSucceeds, QuarantineAttachment,
       SkipDuplicate, UpsertResume, MarkProcessed, Commit, RecordFailure, CheckRaises,
       CommitRaises, RecordRaises
  <1>6. ASSUME Crash
        PROVE  AllRows' \subseteq AllRows
    BY <1>6 DEF Crash, AllRows
  <1>7. QED
    BY <1>1, <1>2, <1>3, <1>4, <1>5, <1>6, NextMoves DEF Deliver, vars

\* Two rows with the same text never exist, committed or not, however many
\* pollers insert at once (pipeline.py:231-247).
THEOREM ContentUnique == Spec => []UniqueContent
  <1>1. Init => UniqueContent
    BY DEF Init, UniqueContent, AllRows
  <1>2. TypeOK /\ UniqueContent /\ [Next]_vars => UniqueContent'
    <2> SUFFICES ASSUME TypeOK, UniqueContent, [Next]_vars
                 PROVE  \A c, d \in AllRows' : HashOf(c) = HashOf(d) => c = d
      BY DEF UniqueContent, HashOf
    <2>1. QED
      BY RowsStep DEF UniqueContent
  <1>3. QED
    BY <1>1, <1>2, TypeCorrect, PTL DEF Spec

----------------------------------------------------------------------------
(* Indexed before visible.                                                  *)

OpenIndexed(p) ==
    \A c \in txCandidates[p] : c.id \in points \/ (pc[p] = "embed" /\ c.id = newId[p])

IndexInv == TypeOK /\ Control /\ CandidatesIndexed /\ \A p \in Pollers : OpenIndexed(p)

\* Ingestion never deletes a Qdrant point (pipeline.py:260-268).
LEMMA PointsGrow ==
  ASSUME [Next]_vars
  PROVE  points \subseteq points'
  <1>1. ASSUME NEW p \in Pollers, Moves(p)
        PROVE  points \subseteq points'
    BY <1>1 DEF Moves, StartPoll, Step, EndPoll, SkipEmail, TakeEmail, BeginEmail,
       RejectAttachment, SaveAttachment, ParseFails, ParseSucceeds, QuarantineAttachment,
       InsertCandidate, SkipDuplicate, UpsertResume, UpsertPoint, MarkProcessed, Commit,
       ApplyTransaction, RecordFailure, Rollback, CheckRaises, CommitRaises, RecordRaises
  <1>2. QED
    BY <1>1, NextMoves DEF Deliver, Crash, vars

\* The poller that moves indexes a row before it goes on (pipeline.py:258-268).
LEMMA OpenIndexedMoves ==
  ASSUME TypeOK, Control, [Next]_vars, NEW p \in Pollers, Moves(p), OpenIndexed(p)
  PROVE  OpenIndexed(p)'
  <1> USE DEF TypeOK, PcTypeOK, TxTypeOK, local, tx
  <1>0. points \subseteq points'
    BY PointsGrow
  <1>1. CASE InsertCandidate(p)
    <2> DEFINE row == [id |-> nextId, msg |-> email[p], att |-> att[p]]
    <2>1. /\ txCandidates'[p] = txCandidates[p] \cup {row} /\ row.id = nextId
          /\ newId'[p] = nextId /\ pc[p] = "insert" /\ pc'[p] = "embed"
      BY <1>1 DEF InsertCandidate
    <2> HIDE DEF row
    <2>2. QED
      BY <1>0, <2>1 DEF OpenIndexed
  <1>2. CASE UpsertResume(p)
    BY <1>2 DEF UpsertResume, UpsertPoint, NextAttachment, OpenIndexed
  <1>3. CASE txCandidates'[p] = {}
    BY <1>3 DEF OpenIndexed
  <1>4. CASE txCandidates'[p] = txCandidates[p] /\ pc[p] # "embed"
    BY <1>0, <1>4 DEF OpenIndexed
  <1>5. QED
    BY <1>1, <1>2, <1>3, <1>4 DEF Moves, StartPoll, Step, EndPoll, SkipEmail, TakeEmail,
       BeginEmail, RejectAttachment, SaveAttachment, Saving, ParseFails, ParseSucceeds,
       QuarantineAttachment, SkipDuplicate, MarkProcessed, Commit, ApplyTransaction,
       RecordFailure, Rollback, EndTransaction, CheckRaises, CommitRaises, RecordRaises

\* Every step keeps IndexInv.
LEMMA IndexStep ==
  IndexInv /\ [Next]_vars => IndexInv'
  <1> SUFFICES ASSUME IndexInv, [Next]_vars
               PROVE  IndexInv'
    OBVIOUS
  <1> USE DEF IndexInv
  <1>0. points \subseteq points'
    BY PointsGrow
  <1>1. TypeOK' /\ Control'
    BY NextTyped
  <1>2. ASSUME NEW q \in Pollers
        PROVE  OpenIndexed(q)'
    <2>1. ASSUME NEW p \in Pollers, Moves(p)
          PROVE  OpenIndexed(q)'
      <3>1. CASE q = p
        BY <2>1, <3>1, OpenIndexedMoves
      <3>2. CASE q # p
        <4>1. UNCHANGED <<txCandidates[q], pc[q], newId[q]>>
          BY <2>1, <3>2, OthersUnaffected DEF Unaffected
        <4>2. QED
          BY <1>0, <4>1 DEF OpenIndexed
      <3>3. QED
        BY <3>1, <3>2
    <2>2. ASSUME UNCHANGED <<txCandidates, pc, newId>>
          PROVE  OpenIndexed(q)'
      BY <1>0, <2>2 DEF OpenIndexed
    <2>3. QED
      BY <2>1, <2>2, NextMoves DEF Deliver, Crash, vars, local, tx, OpenIndexed
  <1>3. CandidatesIndexed'
    <2>1. ASSUME NEW p \in Pollers, ApplyTransaction(p)
          PROVE  CandidatesIndexed'
      BY <1>0, <2>1 DEF ApplyTransaction, CandidatesIndexed, OpenIndexed
    <2>2. ASSUME UNCHANGED candidates
          PROVE  CandidatesIndexed'
      BY <1>0, <2>2 DEF CandidatesIndexed
    <2>3. ASSUME NEW p \in Pollers, Moves(p)
          PROVE  ApplyTransaction(p) \/ UNCHANGED candidates
      BY <2>3 DEF Moves, StartPoll, Step, EndPoll, SkipEmail, TakeEmail, BeginEmail,
         RejectAttachment, SaveAttachment, ParseFails, ParseSucceeds, QuarantineAttachment,
         InsertCandidate, SkipDuplicate, UpsertResume, MarkProcessed, Commit, RecordFailure,
         Rollback, CheckRaises, CommitRaises, RecordRaises, db
    <2>4. QED
      BY <2>1, <2>2, <2>3, NextMoves DEF Deliver, Crash, vars, db
  <1>4. QED
    BY <1>1, <1>2, <1>3

\* A candidate row is never visible without its Qdrant point: the point is
\* written before the commit and nothing here removes it (pipeline.py:246-268).
THEOREM AlwaysIndexed == Spec => []CandidatesIndexed
  <1>1. Init => IndexInv
    BY InitTyped DEF Init, IndexInv, CandidatesIndexed, OpenIndexed
  <1>2. IndexInv => CandidatesIndexed
    BY DEF IndexInv
  <1>3. QED
    BY <1>1, <1>2, IndexStep, PTL DEF Spec

----------------------------------------------------------------------------
(* Polls that do not overlap implement the lifecycle of processed_emails.   *)

\* What a single poller works on is not settled, and no open mail has used up
\* its attempts.
LifecycleInv ==
    /\ TypeOK
    /\ Control
    /\ \A p \in Pollers : InProgress(p) => ~Terminal(email[p])
    /\ \A m \in Messages : ~Terminal(m) => attempts[m] < MaxAttempts

\* One poller, and neither is_terminal nor an applied commit reports an error.
NoOverlap ==
    /\ \A p, q \in Pollers : p = q
    /\ "check" \notin OutageKinds
    /\ "ack" \notin OutageKinds

\* A step of one poller is a step of EmailLifecycle or a stutter on status and
\* attempts (pipeline.py:57-84, 131-179).
LEMMA LifecycleStep ==
  ASSUME NoOverlap, LifecycleInv, [Next]_vars
  PROVE  LifecycleInv' /\ [Lifecycle!Next]_(Lifecycle!vars)
  <1> USE DEF LifecycleInv, Control, InProgress, Awaits, TypeOK, PcTypeOK, Terminal,
              db, tx, local, NoOverlap, Lifecycle!vars
  <1>1. TypeOK' /\ Control'
    BY NextTyped
  <1>2. ASSUME NEW p \in Pollers, Commit(p)
        PROVE  LifecycleInv' /\ Lifecycle!Next
    <2> DEFINE m == email[p]
    <2>1. /\ m \in Messages /\ ~Terminal(m) /\ pc' = [pc EXCEPT ![p] = "loop"]
          /\ txStatus[p] \in {"ingested", "quarantined"}
          /\ status' = [status EXCEPT ![m] = txStatus[p]] /\ attempts' = attempts
      BY <1>2 DEF Commit, ApplyTransaction, TxTypeOK
    <2>2. Lifecycle!Complete(m)
      BY <2>1 DEF Lifecycle!Complete, Lifecycle!Open, Statuses
    <2>3. LifecycleInv'
      BY <1>1, <2>1 DEF TerminalStatuses
    <2>4. QED
      BY <2>1, <2>2, <2>3 DEF Lifecycle!Next
  <1>3. ASSUME NEW p \in Pollers, RecordFailure(p)
        PROVE  LifecycleInv' /\ Lifecycle!Next
    <2> DEFINE m == email[p]
    <2>1. /\ m \in Messages /\ ~Terminal(m) /\ pc' = [pc EXCEPT ![p] = "loop"]
          /\ attempts' = [attempts EXCEPT ![m] = @ + 1]
          /\ status' = [status EXCEPT ![m] =
                          IF attempts[m] + 1 >= MaxAttempts THEN "dead_letter" ELSE "failed"]
      BY <1>3 DEF RecordFailure, LastAttempt
    <2>2. attempts[m] \in Nat /\ attempts[m] < MaxAttempts
      BY <2>1
    <2>3. Lifecycle!Fail(m) \/ Lifecycle!GiveUp(m)
      <3>1. Lifecycle!Open(m)
        BY <2>1 DEF Lifecycle!Open, Statuses
      <3>2. CASE attempts[m] + 1 < MaxAttempts
        <4>1. ~(attempts[m] + 1 >= MaxAttempts)
          BY <2>2, <3>2, MaxAttemptsAssumption
        <4>2. status' = [status EXCEPT ![m] = "failed"]
          BY <2>1, <4>1
        <4>3. QED
          BY <2>1, <3>1, <3>2, <4>2 DEF Lifecycle!Fail
      <3>3. CASE attempts[m] + 1 = MaxAttempts
        <4>1. attempts[m] + 1 >= MaxAttempts
          BY <2>2, <3>3, MaxAttemptsAssumption
        <4>2. status' = [status EXCEPT ![m] = "dead_letter"]
          BY <2>1, <4>1
        <4>3. QED
          BY <2>1, <3>1, <3>3, <4>2 DEF Lifecycle!GiveUp
      <3>4. QED
        BY <2>2, <3>2, <3>3, MaxAttemptsAssumption
    <2>4. LifecycleInv'
      BY <1>1, <2>1, <2>2, MaxAttemptsAssumption DEF TerminalStatuses
    <2>5. QED
      BY <2>1, <2>3, <2>4 DEF Lifecycle!Next
  <1>4. ASSUME UNCHANGED <<status, attempts>>,
               \A p \in Pollers : InProgress(p)' => InProgress(p) /\ email'[p] = email[p]
        PROVE  LifecycleInv' /\ UNCHANGED Lifecycle!vars
    BY <1>1, <1>4
  <1>5. ASSUME NEW p \in Pollers, NEW m \in Messages, TakeEmail(p, m)
        PROVE  LifecycleInv' /\ UNCHANGED Lifecycle!vars
    BY <1>1, <1>5 DEF TakeEmail, BeginEmail
  <1>6. ASSUME NEW p \in Pollers, Moves(p)
        PROVE  \/ Commit(p) \/ RecordFailure(p)
               \/ \E m \in Messages : TakeEmail(p, m)
               \/ /\ UNCHANGED <<status, attempts>>
                  /\ InProgress(p)' => InProgress(p) /\ email'[p] = email[p]
    BY <1>6, HolderInProgress, RaiseAssumption
    DEF Moves, StartPoll, Step, EndPoll, SkipEmail, RejectAttachment, SaveAttachment, Saving,
       ParseFails, ParseSucceeds, QuarantineAttachment, NextAttachment, InsertCandidate,
       SkipDuplicate, Continue, UpsertResume, MarkProcessed, Rollback, CheckRaises,
       CommitRaises, RecordRaises, Outage
  <1>7. QED
    BY <1>2, <1>3, <1>4, <1>5, <1>6, NextMoves DEF Deliver, Crash, vars

\* When polls do not overlap and is_terminal answers, processed_emails goes
\* through the promised lifecycle: a final status is never left and the
\* MaxAttempts-th failure, no other, dead-letters the mail (db.py:94-110,
\* pipeline.py:57-84, 131-179).
THEOREM OnePollerImplements ==
  ASSUME NoOverlap
  PROVE  Spec => ImplementsLifecycle
  <1>1. Init => LifecycleInv /\ Lifecycle!Init
    BY InitTyped, MaxAttemptsAssumption
    DEF Init, LifecycleInv, InProgress, Awaits, Lifecycle!Init
  <1>2. LifecycleInv /\ [Next]_vars => LifecycleInv' /\ [Lifecycle!Next]_(Lifecycle!vars)
    BY LifecycleStep
  <1>3. QED
    BY <1>1, <1>2, PTL DEF Spec, ImplementsLifecycle, Lifecycle!Spec

----------------------------------------------------------------------------
(* The journal: processed_emails, its attempts, the review queue and the    *)
(* dead letters.                                                            *)

\* Attempts, statuses and dead letters change by a commit or by record_failure
\* (pipeline.py:57-84, 131-179).
LEMMA JournalSteps ==
  ASSUME [Next]_vars
  PROVE  \/ UNCHANGED <<status, attempts, deadLetters>>
         \/ \E p \in Pollers : ApplyTransaction(p) /\ (Commit(p) \/ CommitRaises(p))
         \/ \E p \in Pollers : RecordFailure(p)
  <1> USE DEF db
  <1>1. ASSUME NEW p \in Pollers, Moves(p)
        PROVE  \/ UNCHANGED <<status, attempts, deadLetters>>
               \/ ApplyTransaction(p) /\ (Commit(p) \/ CommitRaises(p))
               \/ RecordFailure(p)
    BY <1>1 DEF Moves, StartPoll, Step, EndPoll, SkipEmail, TakeEmail, BeginEmail,
       RejectAttachment, SaveAttachment, ParseFails, ParseSucceeds, QuarantineAttachment,
       InsertCandidate, SkipDuplicate, UpsertResume, MarkProcessed, Commit, Rollback,
       CheckRaises, CommitRaises, RecordRaises
  <1>2. QED
    BY <1>1, NextMoves DEF Deliver, Crash, vars

----------------------------------------------------------------------------
(* Nothing is stranded.                                                     *)

\* What an open transaction puts in quarantine are attachments of its mail.
RowsOfMail ==
    \A p \in Pollers : \A k \in txRows[p] : k \in DOMAIN Inbox[email[p]]

StrandInv == TypeOK /\ Control /\ RowsOfMail /\ NothingStranded

\* An attachment is added to the rows while it is the current one, and the rows go
\* before the mail changes (pipeline.py:210-280).
LEMMA RowsOfMailStep ==
  ASSUME TypeOK, Control, RowsOfMail, [Next]_vars
  PROVE  RowsOfMail'
  <1> USE DEF TypeOK, PcTypeOK, TxTypeOK, tx, local
  <1>1. ASSUME NEW p \in Pollers, Moves(p)
        PROVE  \A k \in txRows'[p] : k \in DOMAIN Inbox[email'[p]]
    <2>1. CASE RejectAttachment(p) \/ QuarantineAttachment(p)
      <3>1. att[p] \in DOMAIN Inbox[email[p]]
        BY <2>1, InboxTyped
        DEF RejectAttachment, QuarantineAttachment, Exhausted, Control, InProgress, Awaits
      <3>2. txRows'[p] = txRows[p] \cup {att[p]} /\ email' = email
        BY <2>1 DEF RejectAttachment, QuarantineAttachment, Quarantine
      <3>3. QED
        BY <3>1, <3>2 DEF RowsOfMail
    <2>2. CASE UNCHANGED <<txRows[p], email[p]>>
      BY <2>2 DEF RowsOfMail
    <2>3. CASE txRows'[p] = {}
      BY <2>3
    <2>4. QED
      BY <1>1, <2>1, <2>2, <2>3 DEF Moves, StartPoll, Step, EndPoll, SkipEmail, TakeEmail,
         BeginEmail, SaveAttachment, ParseFails, ParseSucceeds, InsertCandidate, SkipDuplicate,
         UpsertResume, MarkProcessed, Commit, ApplyTransaction, EndTransaction, RecordFailure,
         Rollback, CheckRaises, CommitRaises, RecordRaises, Control, Awaits
  <1>2. ASSUME NEW p \in Pollers, Moves(p), NEW q \in Pollers \ {p}
        PROVE  \A k \in txRows'[q] : k \in DOMAIN Inbox[email'[q]]
    BY <1>2, OthersUnaffected DEF Unaffected, RowsOfMail
  <1>3. QED
    BY <1>1, <1>2, NextMoves DEF RowsOfMail, Deliver, Crash, vars

\* Every step keeps NothingStranded, whichever poller makes it.
LEMMA StrandStep ==
  StrandInv /\ [Next]_vars => StrandInv'
  <1> SUFFICES ASSUME StrandInv, [Next]_vars
               PROVE  StrandInv'
    OBVIOUS
  <1> USE DEF StrandInv
  <1>1. TypeOK' /\ Control' /\ RowsOfMail'
    BY NextTyped, RowsOfMailStep
  <1>2. ASSUME NEW m \in Messages, NEW k \in DOMAIN Inbox[m], Reviewed(m, k)
        PROVE  Reviewed(m, k)'
    BY <1>2, AccountedKept
  <1>3. ASSUME UNCHANGED <<status, attempts, deadLetters>>
        PROVE  NothingStranded'
    <2>1. ASSUME NEW m \in Messages
          PROVE  /\ status'[m] = "quarantined" => \E k \in DOMAIN Inbox[m] : Reviewed(m, k)'
                 /\ status'[m] = "dead_letter" => deadLetters'[m] > 0
                 /\ attempts'[m] >= MaxAttempts => Terminal(m)'
      BY <1>2, <1>3 DEF NothingStranded, Terminal
    <2>2. QED
      BY <2>1 DEF NothingStranded
  <1>4. ASSUME NEW p \in Pollers, ApplyTransaction(p), NEW e \in Messages, e = email[p]
        PROVE  NothingStranded'
    <2>1. /\ pc[p] = "commit" /\ UNCHANGED <<attempts, deadLetters>>
          /\ status' = [status EXCEPT ![e] = txStatus[p]]
          /\ txStatus[p] \in {"ingested", "quarantined"}
      BY <1>4 DEF ApplyTransaction, Control, InProgress, Awaits, TypeOK, TxTypeOK
    <2>2. txStatus[p] = "quarantined" => \E k \in DOMAIN Inbox[e] : Reviewed(e, k)'
      <3> SUFFICES ASSUME txStatus[p] = "quarantined"
                   PROVE  \E k \in DOMAIN Inbox[e] : Reviewed(e, k)'
        OBVIOUS
      <3>1. PICK k \in txRows[p] : k \in DOMAIN Inbox[e]
        BY <1>4 DEF Control, RowsOfMail
      <3>2. <<e, k>> \in Slots /\ quarantine[<<e, k>>] \in Nat
        BY <2>1, <3>1, SlotOf DEF TypeOK
      <3>3. quarantine'[<<e, k>>] = quarantine[<<e, k>>] + 1
        BY <1>4, <3>1, <3>2 DEF ApplyTransaction
      <3>4. quarantine'[<<e, k>>] > 0
        BY <3>2, <3>3
      <3>5. QED
        BY <3>1, <3>4 DEF Reviewed
    <2>3. \A m \in Messages \ {e} : status'[m] = status[m]
      BY <2>1 DEF TypeOK
    <2>4. status'[e] = txStatus[p]
      BY <2>1 DEF TypeOK
    <2>5. ASSUME NEW m \in Messages
          PROVE  /\ status'[m] = "quarantined" => \E k \in DOMAIN Inbox[m] : Reviewed(m, k)'
                 /\ status'[m] = "dead_letter" => deadLetters'[m] > 0
                 /\ attempts'[m] >= MaxAttempts => Terminal(m)'
      <3>1. CASE m = e
        BY <2>1, <2>2, <2>4, <3>1 DEF Terminal, TerminalStatuses
      <3>2. CASE m # e
        BY <1>2, <2>1, <2>3, <3>2 DEF NothingStranded, Terminal
      <3>3. QED
        BY <3>1, <3>2
    <2>6. QED
      BY <2>5 DEF NothingStranded
  <1>5. ASSUME NEW p \in Pollers, RecordFailure(p)
        PROVE  NothingStranded'
    <2> DEFINE e == email[p]
    <2>1. e \in Messages /\ quarantine' = quarantine
      BY <1>5 DEF RecordFailure, Control, InProgress
    <2>2. /\ attempts' = [attempts EXCEPT ![e] = @ + 1]
          /\ status' = [status EXCEPT ![e] =
                IF attempts[e] + 1 >= MaxAttempts THEN "dead_letter" ELSE "failed"]
          /\ deadLetters' = [deadLetters EXCEPT ![e] =
                IF attempts[e] + 1 >= MaxAttempts THEN @ + 1 ELSE @]
      BY <1>5 DEF RecordFailure, LastAttempt
    <2>3. \A m \in Messages \ {e} : UNCHANGED <<status[m], attempts[m], deadLetters[m]>>
      BY <2>2 DEF TypeOK
    <2>4. attempts[e] \in Nat /\ deadLetters[e] \in Nat
      BY <2>1 DEF TypeOK
    <2>5. ASSUME NEW m \in Messages
          PROVE  /\ status'[m] = "quarantined" => \E k \in DOMAIN Inbox[m] : Reviewed(m, k)'
                 /\ status'[m] = "dead_letter" => deadLetters'[m] > 0
                 /\ attempts'[m] >= MaxAttempts => Terminal(m)'
      <3>1. CASE m = e
        BY <2>1, <2>2, <2>4, <3>1, MaxAttemptsAssumption DEF TypeOK, Terminal, TerminalStatuses
      <3>2. CASE m # e
        BY <1>2, <2>3, <3>2 DEF NothingStranded, Terminal
      <3>3. QED
        BY <3>1, <3>2
    <2>6. QED
      BY <2>5 DEF NothingStranded
  <1>6. ASSUME NEW p \in Pollers, ApplyTransaction(p)
        PROVE  email[p] \in Messages
    BY <1>6 DEF ApplyTransaction, Control, InProgress, Awaits
  <1>7. QED
    BY <1>1, <1>3, <1>4, <1>5, <1>6, JournalSteps

\* A mail in a human's queue has the row the human looks at, and one that has used
\* up its attempts is never left in "failed", however many polls overlap and
\* whatever fails (pipeline.py:87-104, 164-179).
THEOREM NeverStranded == Spec => []NothingStranded
  <1>1. Init => StrandInv
    BY InitTyped, MaxAttemptsAssumption
    DEF Init, StrandInv, RowsOfMail, NothingStranded
  <1>2. StrandInv => NothingStranded
    BY DEF StrandInv
  <1>3. QED
    BY <1>1, <1>2, StrandStep, PTL DEF Spec

----------------------------------------------------------------------------
(* A bounded number of attempts.  Every poller at work on a mail may still  *)
(* cost it one; only an outage puts a poller to work on a settled mail.     *)

WorkingOn(m) == {p \in Pollers : InProgress(p) /\ email[p] = m}

Budget(m) ==
    attempts[m] + Cardinality(WorkingOn(m)) < MaxAttempts + Cardinality(Pollers) + outages

AttemptInv == TypeOK /\ Control /\ NothingStranded /\ \A m \in Messages : Budget(m)

\* Finitely many pollers work on a mail.
LEMMA FiniteWork ==
  ASSUME NEW m \in Messages
  PROVE  /\ IsFiniteSet(WorkingOn(m)) /\ Cardinality(WorkingOn(m)) \in Nat
         /\ Cardinality(Pollers) \in Nat
         /\ Cardinality(WorkingOn(m)) <= Cardinality(Pollers)
  <1>1. WorkingOn(m) \subseteq Pollers
    BY DEF WorkingOn
  <1>2. QED
    BY <1>1, PollersAssumption, FS_Subset, FS_CardinalityType

\* In which steps a poller starts to work on a mail (pipeline.py:304-312).
LEMMA WorkStarts ==
  ASSUME TypeOK, Control, [Next]_vars
  PROVE  \/ \A m \in Messages : WorkingOn(m)' \subseteq WorkingOn(m)
         \/ \E p \in Pollers, m \in Messages : TakeEmail(p, m)
         \/ \E p \in Pollers, m \in Messages : CheckRaises(p, m)
  <1> USE DEF TypeOK, PcTypeOK, InProgress, Awaits, WorkingOn
  <1>1. ASSUME NEW p \in Pollers, Moves(p)
        PROVE  \/ InProgress(p)' => InProgress(p) /\ email'[p] = email[p]
               \/ \E m \in Messages : TakeEmail(p, m) \/ CheckRaises(p, m)
    BY <1>1, HolderInProgress, RaiseAssumption
    DEF Moves, StartPoll, Step, EndPoll, SkipEmail, RejectAttachment, SaveAttachment, Saving,
       ParseFails, ParseSucceeds, QuarantineAttachment, NextAttachment, InsertCandidate,
       SkipDuplicate, Continue, UpsertResume, MarkProcessed, Commit, ApplyTransaction,
       RecordFailure, Rollback, CommitRaises, RecordRaises, local
  <1>2. ASSUME NEW p \in Pollers, Moves(p), NEW q \in Pollers \ {p}
        PROVE  (InProgress(q)' <=> InProgress(q)) /\ email'[q] = email[q]
    BY <1>2, OthersUnaffected DEF Unaffected
  <1>3. ASSUME NEW p \in Pollers, Moves(p)
        PROVE  \/ \A m \in Messages : WorkingOn(m)' \subseteq WorkingOn(m)
               \/ \E m \in Messages : TakeEmail(p, m) \/ CheckRaises(p, m)
    BY <1>1, <1>2, <1>3
  <1>4. QED
    BY <1>3, NextMoves DEF Deliver, Crash, vars, local

\* The number of outages never goes down (bound of the model).
LEMMA OutagesGrow ==
  ASSUME TypeOK, [Next]_vars
  PROVE  /\ outages \in Nat /\ outages' \in Nat /\ outages' >= outages
         /\ \A p \in Pollers, m \in Messages : CheckRaises(p, m) => outages' = outages + 1
  <1> USE DEF TypeOK
  <1>1. ASSUME NEW p \in Pollers, Moves(p)
        PROVE  outages' = outages \/ outages' = outages + 1
    BY <1>1 DEF Moves, StartPoll, Step, EndPoll, SkipEmail, TakeEmail, BeginEmail,
       RejectAttachment, SaveAttachment, ParseFails, ParseSucceeds, QuarantineAttachment,
       InsertCandidate, SkipDuplicate, UpsertResume, MarkProcessed, Commit, RecordFailure,
       Rollback, CheckRaises, CommitRaises, RecordRaises, Outage
  <1>2. QED
    BY <1>1, NextMoves DEF Deliver, Crash, CheckRaises, Outage, vars

\* Every step keeps every mail within its budget (pipeline.py:131-179, 304-328).
LEMMA BudgetStep ==
  ASSUME AttemptInv, [Next]_vars, NEW m \in Messages
  PROVE  Budget(m)'
  <1> USE DEF AttemptInv
  <1> DEFINE work == WorkingOn(m)
             all == Cardinality(Pollers)
  <1>1. /\ Cardinality(work) \in Nat /\ IsFiniteSet(work)
        /\ all \in Nat /\ MaxAttempts \in Nat
        /\ outages \in Nat /\ outages' \in Nat /\ outages' >= outages
        /\ attempts[m] \in Nat /\ Budget(m)
    BY FiniteWork, OutagesGrow, MaxAttemptsAssumption DEF TypeOK
  <1>2. IsFiniteSet(work') /\ Cardinality(work') \in Nat /\ Cardinality(work') <= all
    <2>1. work' \subseteq Pollers
      BY DEF WorkingOn
    <2>2. QED
      BY <2>1, PollersAssumption, FS_Subset, FS_CardinalityType
  <1>3. ASSUME work' \subseteq work, attempts'[m] = attempts[m]
        PROVE  Budget(m)'
    <2>1. Cardinality(work') <= Cardinality(work)
      BY <1>1, <1>3, FS_Subset
    <2>2. QED
      BY <1>1, <1>2, <1>3, <2>1 DEF Budget
  <1>4. ASSUME NEW p \in Pollers, NEW n \in Messages, TakeEmail(p, n)
        PROVE  Budget(m)'
    <2>1. UNCHANGED attempts
      BY <1>4 DEF TakeEmail, BeginEmail, db
    <2>2. CASE n = m
      <3>1. attempts[m] < MaxAttempts
        BY <1>1, <1>4, <2>2 DEF NothingStranded, TakeEmail
      <3>2. QED
        BY <1>1, <1>2, <2>1, <3>1 DEF Budget
    <2>3. CASE n # m
      <3>1. work' \subseteq work
        BY <1>4, <2>3
        DEF TakeEmail, BeginEmail, WorkingOn, InProgress, TypeOK, PcTypeOK
      <3>2. QED
        BY <1>3, <2>1, <3>1
    <2>4. QED
      BY <2>2, <2>3
  <1>5. ASSUME NEW p \in Pollers, NEW n \in Messages, CheckRaises(p, n)
        PROVE  Budget(m)'
    <2>1. UNCHANGED attempts /\ outages' = outages + 1
      BY <1>5, OutagesGrow DEF CheckRaises, db
    <2>2. work' \subseteq work \cup {p}
      BY <1>5 DEF CheckRaises, WorkingOn, InProgress, TypeOK, PcTypeOK
    <2>3. IsFiniteSet(work \cup {p}) /\ Cardinality(work \cup {p}) <= Cardinality(work) + 1
      <3>1. /\ IsFiniteSet(work \cup {p})
            /\ \/ Cardinality(work \cup {p}) = Cardinality(work)
               \/ Cardinality(work \cup {p}) = Cardinality(work) + 1
        BY <1>1, FS_AddElement
      <3> HIDE DEF work
      <3>2. QED
        BY <1>1, <3>1
    <2>4. Cardinality(work') <= Cardinality(work \cup {p}) /\ Cardinality(work \cup {p}) \in Nat
      BY <2>2, <2>3, FS_Subset, FS_CardinalityType
    <2>5. QED
      BY <1>1, <1>2, <2>1, <2>3, <2>4 DEF Budget
  <1>6. ASSUME NEW p \in Pollers, RecordFailure(p)
        PROVE  Budget(m)'
    <2>1. /\ email[p] \in Messages /\ InProgress(p)
          /\ attempts' = [attempts EXCEPT ![email[p]] = @ + 1]
          /\ pc' = [pc EXCEPT ![p] = "loop"] /\ email' = [email EXCEPT ![p] = NoMessage]
      BY <1>6 DEF RecordFailure, Control, InProgress
    <2>2. CASE email[p] = m
      <3>1. p \in work /\ work' \subseteq work \ {p}
        BY <2>1, <2>2 DEF WorkingOn, InProgress, Awaits, TypeOK, PcTypeOK
      <3>2. IsFiniteSet(work \ {p}) /\ Cardinality(work \ {p}) = Cardinality(work) - 1
        BY <1>1, <3>1, FS_RemoveElement
      <3>3. Cardinality(work') <= Cardinality(work) - 1
        BY <3>1, <3>2, FS_Subset
      <3>4. attempts'[m] = attempts[m] + 1
        BY <2>1, <2>2 DEF TypeOK
      <3>5. QED
        BY <1>1, <1>2, <3>3, <3>4 DEF Budget
    <2>3. CASE email[p] # m
      <3>1. work' \subseteq work /\ attempts'[m] = attempts[m]
        BY <2>1, <2>3 DEF WorkingOn, InProgress, Awaits, TypeOK, PcTypeOK
      <3>2. QED
        BY <1>3, <3>1
    <2>4. QED
      BY <2>2, <2>3
  <1>7. CASE UNCHANGED attempts
    BY <1>3, <1>4, <1>5, <1>7, WorkStarts
  <1>8. QED
    BY <1>6, <1>7, JournalSteps DEF ApplyTransaction

\* A mail costs fewer than MaxAttempts attempts, one per poller and one per outage
\* together: overlapping polls exceed the limit by their number, never more
\* (pipeline.py:164-179, 308).
THEOREM BoundedAttempts == Spec => []AttemptsBounded
  <1>1. Init => \A m \in Messages : Budget(m)
    <2> SUFFICES ASSUME Init, NEW m \in Messages
                 PROVE  Budget(m)
      OBVIOUS
    <2>1. attempts[m] = 0 /\ outages = 0
      BY DEF Init
    <2>2. WorkingOn(m) = {}
      BY DEF Init, WorkingOn, InProgress, Awaits
    <2>3. QED
      BY <2>1, <2>2, FiniteWork, FS_EmptySet, MaxAttemptsAssumption DEF Budget
  <1>2. Init => AttemptInv
    BY <1>1, InitTyped, MaxAttemptsAssumption DEF Init, AttemptInv, NothingStranded
  <1>3. StrandInv /\ AttemptInv /\ [Next]_vars => AttemptInv'
    BY BudgetStep, StrandStep DEF StrandInv, AttemptInv
  <1>4. AttemptInv => AttemptsBounded
    <2> SUFFICES ASSUME AttemptInv, NEW m \in Messages
                 PROVE  attempts[m] < MaxAttempts + Cardinality(Pollers) + outages
      BY DEF AttemptsBounded
    <2>1. attempts[m] \in Nat /\ outages \in Nat /\ Budget(m) /\ MaxAttempts \in Nat
      BY MaxAttemptsAssumption DEF AttemptInv, TypeOK
    <2>2. QED
      BY <2>1, FiniteWork DEF Budget
  <1>5. Init => StrandInv
    BY InitTyped, MaxAttemptsAssumption
    DEF Init, StrandInv, RowsOfMail, NothingStranded
  <1>6. QED
    BY <1>2, <1>3, <1>4, <1>5, StrandStep, PTL DEF Spec

----------------------------------------------------------------------------
(* Nothing is put before a person twice when polls do not overlap.          *)

\* An open mail has not been given to anybody yet.
OpenUnreviewed ==
    \A m \in Messages : ~Terminal(m) =>
        /\ deadLetters[m] = 0
        /\ \A s \in Slots : s[1] = m => quarantine[s] = 0

OnceInv == LifecycleInv /\ ReviewedOnce /\ OpenUnreviewed

\* Quarantine rows change by a commit only (pipeline.py:87-104, 328).
LEMMA QuarantineSteps ==
  ASSUME [Next]_vars
  PROVE  \/ UNCHANGED quarantine
         \/ \E p \in Pollers : ApplyTransaction(p) /\ (Commit(p) \/ CommitRaises(p))
  <1> USE DEF db
  <1>1. ASSUME NEW p \in Pollers, Moves(p)
        PROVE  UNCHANGED quarantine \/ (ApplyTransaction(p) /\ (Commit(p) \/ CommitRaises(p)))
    BY <1>1 DEF Moves, StartPoll, Step, EndPoll, SkipEmail, TakeEmail, BeginEmail,
       RejectAttachment, SaveAttachment, ParseFails, ParseSucceeds, QuarantineAttachment,
       InsertCandidate, SkipDuplicate, UpsertResume, MarkProcessed, Commit, RecordFailure,
       Rollback, CheckRaises, CommitRaises, RecordRaises
  <1>2. QED
    BY <1>1, NextMoves DEF Deliver, Crash, vars

\* A single poller commits or gives up a mail that is open, and settles it
\* thereby (pipeline.py:57-62, 164-179, 304-328).
LEMMA OnceStep ==
  ASSUME NoOverlap, OnceInv, [Next]_vars
  PROVE  OnceInv'
  <1> USE DEF OnceInv
  <1>0. LifecycleInv'
    BY LifecycleStep
  <1> USE DEF LifecycleInv
  <1>1. ASSUME NEW p \in Pollers, ApplyTransaction(p), NEW e \in Messages, e = email[p]
        PROVE  ReviewedOnce' /\ OpenUnreviewed'
    <2>1. /\ ~Terminal(e) /\ UNCHANGED deadLetters
          /\ status' = [status EXCEPT ![e] = txStatus[p]]
          /\ txStatus[p] \in {"ingested", "quarantined"}
      BY <1>1 DEF ApplyTransaction, Control, InProgress, Awaits, TypeOK, TxTypeOK
    <2>2. quarantine' = [s \in Slots |->
              IF s[1] = e /\ s[2] \in txRows[p] THEN quarantine[s] + 1 ELSE quarantine[s]]
      BY <1>1 DEF ApplyTransaction
    <2>3. ASSUME NEW s \in Slots
          PROVE  quarantine'[s] <= 1 /\ (s[1] # e => quarantine'[s] = quarantine[s])
      <3>1. quarantine[s] \in Nat /\ quarantine[s] <= 1 /\ (s[1] = e => quarantine[s] = 0)
        BY <1>1, <2>1 DEF TypeOK, ReviewedOnce, OpenUnreviewed
      <3>2. QED
        BY <2>2, <3>1
    <2>4. \A m \in Messages : status'[m] = IF m = e THEN txStatus[p] ELSE status[m]
      BY <2>1 DEF TypeOK
    <2>5. \A m \in Messages : ~Terminal(m)' => ~Terminal(m) /\ m # e
      BY <2>1, <2>4 DEF Terminal, TerminalStatuses
    <2>6. ReviewedOnce'
      BY <2>1, <2>3 DEF ReviewedOnce
    <2>7. OpenUnreviewed'
      BY <2>1, <2>3, <2>5 DEF OpenUnreviewed
    <2>8. QED
      BY <2>6, <2>7
  <1>2. ASSUME NEW p \in Pollers, RecordFailure(p), NEW e \in Messages, e = email[p]
        PROVE  ReviewedOnce' /\ OpenUnreviewed'
    <2>1. /\ ~Terminal(e) /\ UNCHANGED quarantine
          /\ status' = [status EXCEPT ![e] = IF LastAttempt(e) THEN "dead_letter" ELSE "failed"]
          /\ deadLetters' = [deadLetters EXCEPT ![e] = IF LastAttempt(e) THEN @ + 1 ELSE @]
      BY <1>2 DEF RecordFailure, InProgress
    <2>2. deadLetters[e] = 0
      BY <2>1 DEF OpenUnreviewed
    <2>3. \A m \in Messages \ {e} : UNCHANGED <<status[m], deadLetters[m]>>
      BY <2>1 DEF TypeOK
    <2>4. /\ status'[e] = IF LastAttempt(e) THEN "dead_letter" ELSE "failed"
          /\ deadLetters'[e] = IF LastAttempt(e) THEN 1 ELSE 0
      BY <2>1, <2>2 DEF TypeOK
    <2>5. ReviewedOnce'
      BY <2>1, <2>3, <2>4 DEF ReviewedOnce
    <2>6. ASSUME NEW m \in Messages, ~Terminal(m)'
          PROVE  ~Terminal(m) /\ deadLetters'[m] = 0
      BY <2>1, <2>3, <2>4, <2>6 DEF Terminal, TerminalStatuses, OpenUnreviewed
    <2>7. OpenUnreviewed'
      BY <2>1, <2>6 DEF OpenUnreviewed
    <2>8. QED
      BY <2>5, <2>7
  <1>3. CASE UNCHANGED <<status, attempts, deadLetters, quarantine>>
    BY <1>0, <1>3 DEF ReviewedOnce, OpenUnreviewed, Terminal
  <1>4. ASSUME NEW p \in Pollers, ApplyTransaction(p) \/ RecordFailure(p)
        PROVE  email[p] \in Messages
    BY <1>4 DEF ApplyTransaction, RecordFailure, Control, InProgress, Awaits
  <1>5. QED
    BY <1>0, <1>1, <1>2, <1>3, <1>4, JournalSteps, QuarantineSteps DEF RecordFailure

\* When polls do not overlap, no attachment is put in the review queue twice and no
\* mail is dead-lettered twice (db.py:95, pipeline.py:57-62).
THEOREM OnePollerReviewsOnce ==
  ASSUME NoOverlap
  PROVE  Spec => []ReviewedOnce
  <1>1. Init => OnceInv
    BY InitTyped, MaxAttemptsAssumption
    DEF Init, OnceInv, LifecycleInv, InProgress, Awaits, ReviewedOnce, OpenUnreviewed
  <1>2. OnceInv /\ [Next]_vars => OnceInv'
    BY OnceStep
  <1>3. OnceInv => ReviewedOnce
    BY DEF OnceInv
  <1>4. QED
    BY <1>1, <1>2, <1>3, PTL DEF Spec

----------------------------------------------------------------------------
(* The files behind the rows, when polls do not overlap and no two          *)
(* attachments are saved to one path.                                       *)

\* No two attachments are saved to one path: mails have different directories and
\* the attachments of a mail different names.  _save_attachment does not see to it.
DistinctPaths ==
    \A s, t \in Slots : Path(s[1], s[2]) = Path(t[1], t[2]) => s = t

OnDisk(m, k) == files[Path(m, k)] = Inbox[m][k].hash

\* A row was made from an attachment of the inbox.
Real(c) == c.msg \in Messages /\ c.att \in DOMAIN Inbox[c.msg]

\* The rows of an open transaction come from the mail it works on.
TxOfMail ==
    \A p \in Pollers : \A c \in txCandidates[p] : Real(c) /\ c.msg = email[p]

\* A visible candidate comes from a mail that is settled.
SettledRows == \A c \in candidates : Real(c) /\ Terminal(c.msg)

\* What an open transaction refers to is on disk.
OpenOnDisk(p) ==
    /\ pc[p] \in {"parse", "quarantine", "insert", "embed"} => OnDisk(email[p], att[p])
    /\ \A c \in txCandidates[p] : OnDisk(c.msg, c.att)
    /\ \A k \in txRows[p] : ~Rejected(email[p], k) => OnDisk(email[p], k)

OneFileInv ==
    /\ OnceInv
    /\ RowsOfMail
    /\ TxOfMail
    /\ SettledRows
    /\ \A p \in Pollers : OpenOnDisk(p)
    /\ FilesIntact

\* Candidates are inserted while their attachment is the current one, and a
\* transaction ends before its poller takes another mail (pipeline.py:231-280).
LEMMA TxOfMailStep ==
  ASSUME TypeOK, Control, TxOfMail, [Next]_vars
  PROVE  TxOfMail'
  <1> USE DEF TypeOK, PcTypeOK, TxTypeOK, tx, local
  <1>1. ASSUME NEW p \in Pollers, Moves(p)
        PROVE  \A c \in txCandidates'[p] : Real(c) /\ c.msg = email'[p]
    <2>1. CASE InsertCandidate(p)
      <3> DEFINE row == [id |-> nextId, msg |-> email[p], att |-> att[p]]
      <3>1. Real(row) /\ row.msg = email[p]
        BY <2>1 DEF InsertCandidate, Control, InProgress, Awaits, Real
      <3>2. txCandidates'[p] = txCandidates[p] \cup {row} /\ email' = email
        BY <2>1 DEF InsertCandidate
      <3> HIDE DEF row
      <3>3. QED
        BY <3>1, <3>2 DEF TxOfMail
    <2>2. CASE txCandidates'[p] = {}
      BY <2>2
    <2>3. CASE txCandidates'[p] = txCandidates[p] /\ email'[p] = email[p]
      BY <2>3 DEF TxOfMail
    <2>4. QED
      BY <1>1, <2>1, <2>2, <2>3
      DEF Moves, StartPoll, Step, EndPoll, SkipEmail, TakeEmail, BeginEmail,
       RejectAttachment, QuarantineAttachment, SaveAttachment, ParseFails, ParseSucceeds,
       NextAttachment, SkipDuplicate, Continue, UpsertResume, MarkProcessed, Commit,
       ApplyTransaction, EndTransaction, RecordFailure, Rollback, CheckRaises, CommitRaises,
       RecordRaises, Control, Awaits
  <1>2. ASSUME NEW p \in Pollers, Moves(p), NEW q \in Pollers \ {p}
        PROVE  txCandidates'[q] = txCandidates[q] /\ email'[q] = email[q]
    BY <1>2, OthersUnaffected DEF Unaffected
  <1>3. QED
    BY <1>1, <1>2, NextMoves DEF Deliver, Crash, vars, TxOfMail

\* Which steps change a file: a save, and a failure or a crash that cuts one short
\* (pipeline.py:182-187).
LEMMA FileSteps ==
  ASSUME [Next]_vars
  PROVE  \/ UNCHANGED files
         \/ \E p \in Pollers : SaveAttachment(p)
         \/ \E p \in Pollers :
              /\ Saving(p) /\ (Rollback(p) \/ Crash)
              /\ files' = [files EXCEPT ![Path(email[p], att[p])] = NoFile]
  <1>1. ASSUME NEW p \in Pollers, Step(p)
        PROVE  UNCHANGED files \/ SaveAttachment(p)
    BY <1>1 DEF Step, EndPoll, SkipEmail, TakeEmail, BeginEmail, RejectAttachment,
       ParseFails, ParseSucceeds, QuarantineAttachment, InsertCandidate, SkipDuplicate,
       UpsertResume, MarkProcessed, Commit, ApplyTransaction, RecordFailure
  <1>2. QED
    BY <1>1 DEF Next, Deliver, StartPoll, Raise, DeadlockAbort, CheckRaises, CommitRaises,
       ApplyTransaction, RecordRaises, Crash, CutShort, vars

\* A file stays what it is unless the same attachment is being saved again and the
\* write is cut short (pipeline.py:182-187).
LEMMA OnDiskKept ==
  ASSUME DistinctPaths, TypeOK, Control, [Next]_vars,
         NEW m \in Messages, NEW k \in DOMAIN Inbox[m], OnDisk(m, k)
  PROVE  \/ OnDisk(m, k)'
         \/ \E p \in Pollers : /\ Saving(p) /\ (Rollback(p) \/ Crash)
                               /\ email[p] = m /\ att[p] = k
  <1>1. ASSUME NEW p \in Pollers, Saving(p)
        PROVE  /\ email[p] \in Messages /\ att[p] \in DOMAIN Inbox[email[p]]
               /\ Path(email[p], att[p]) = Path(m, k) => email[p] = m /\ att[p] = k
    <2>1. email[p] \in Messages /\ att[p] \in DOMAIN Inbox[email[p]]
      BY <1>1, InboxTyped
      DEF Saving, Exhausted, Control, InProgress, Awaits, TypeOK, PcTypeOK
    <2>2. <<email[p], att[p]>> \in Slots /\ <<m, k>> \in Slots
      BY <2>1, SlotOf
    <2>3. QED
      BY <2>1, <2>2 DEF DistinctPaths
  <1>2. Path(m, k) \in Paths
    <2>1. <<m, k>> \in Slots
      BY SlotOf
    <2>2. QED
      BY <2>1 DEF Paths
  <1>3. ASSUME NEW p \in Pollers, SaveAttachment(p)
        PROVE  OnDisk(m, k)'
    BY <1>1, <1>2, <1>3 DEF SaveAttachment, Current, OnDisk, TypeOK
  <1>4. ASSUME NEW p \in Pollers, Saving(p),
               files' = [files EXCEPT ![Path(email[p], att[p])] = NoFile]
        PROVE  OnDisk(m, k)' \/ (email[p] = m /\ att[p] = k)
    BY <1>1, <1>2, <1>4 DEF OnDisk, TypeOK
  <1>5. QED
    BY <1>3, <1>4, FileSteps DEF OnDisk

\* A settled mail stays settled when polls do not overlap (pipeline.py:57-62).
LEMMA TerminalKept ==
  ASSUME NoOverlap, LifecycleInv, [Next]_vars, NEW m \in Messages, Terminal(m)
  PROVE  Terminal(m)'
  <1>1. [Lifecycle!Next]_(Lifecycle!vars)
    BY LifecycleStep
  <1>2. ASSUME NEW n \in Messages,
               Lifecycle!Complete(n) \/ Lifecycle!Fail(n) \/ Lifecycle!GiveUp(n)
        PROVE  Terminal(m)'
    <2>1. n # m
      BY <1>2 DEF Lifecycle!Complete, Lifecycle!Fail, Lifecycle!GiveUp, Lifecycle!Open,
         Terminal, TerminalStatuses
    <2>2. status'[m] = status[m]
      BY <1>2, <2>1 DEF Lifecycle!Complete, Lifecycle!Fail, Lifecycle!GiveUp,
         LifecycleInv, TypeOK
    <2>3. QED
      BY <2>2 DEF Terminal
  <1>3. QED
    BY <1>1, <1>2 DEF Lifecycle!Next, Lifecycle!vars, Terminal

\* Candidates become visible by a commit only (pipeline.py:231-247, 328).
LEMMA CandidateSteps ==
  ASSUME [Next]_vars
  PROVE  UNCHANGED candidates \/ \E p \in Pollers : ApplyTransaction(p)
  <1> USE DEF db
  <1>1. ASSUME NEW p \in Pollers, Moves(p)
        PROVE  UNCHANGED candidates \/ ApplyTransaction(p)
    BY <1>1 DEF Moves, StartPoll, Step, EndPoll, SkipEmail, TakeEmail, BeginEmail,
       RejectAttachment, SaveAttachment, ParseFails, ParseSucceeds, QuarantineAttachment,
       InsertCandidate, SkipDuplicate, UpsertResume, MarkProcessed, Commit, RecordFailure,
       Rollback, CheckRaises, CommitRaises, RecordRaises
  <1>2. QED
    BY <1>1, NextMoves DEF Deliver, Crash, vars

\* What a commit makes visible comes from a mail that it settles
\* (pipeline.py:65-84, 328).
LEMMA SettledRowsStep ==
  ASSUME NoOverlap, LifecycleInv, TxOfMail, SettledRows, [Next]_vars
  PROVE  SettledRows'
  <1> USE DEF LifecycleInv
  <1>1. ASSUME NEW c \in candidates
        PROVE  Real(c) /\ Terminal(c.msg)'
    BY TerminalKept DEF SettledRows, Real
  <1>2. ASSUME NEW p \in Pollers, ApplyTransaction(p), NEW c \in txCandidates[p]
        PROVE  Real(c) /\ Terminal(c.msg)'
    <2>1. /\ Real(c) /\ c.msg = email[p] /\ email[p] \in Messages
          /\ status' = [status EXCEPT ![email[p]] = txStatus[p]]
          /\ txStatus[p] \in {"ingested", "quarantined"}
      BY <1>2 DEF ApplyTransaction, TxOfMail, Real, Control, Awaits, TypeOK, TxTypeOK
    <2>2. QED
      BY <2>1 DEF Terminal, TerminalStatuses, TypeOK
  <1>3. ASSUME NEW c \in candidates'
        PROVE  c \in candidates \/ \E p \in Pollers : ApplyTransaction(p) /\ c \in txCandidates[p]
    BY <1>3, CandidateSteps DEF ApplyTransaction
  <1>4. QED
    BY <1>1, <1>2, <1>3 DEF SettledRows, Real

\* Nothing that is visible, and nothing that waits for review, comes from the mail
\* a single poller is working on (pipeline.py:304-312).
LEMMA VisibleElsewhere ==
  ASSUME OneFileInv, NEW p \in Pollers, InProgress(p)
  PROVE  /\ \A c \in candidates : c.msg # email[p]
         /\ \A s \in Slots : Reviewed(s[1], s[2]) => s[1] # email[p]
  <1>1. email[p] \in Messages /\ ~Terminal(email[p])
    BY DEF OneFileInv, OnceInv, LifecycleInv, Control
  <1>2. ASSUME NEW s \in Slots, Reviewed(s[1], s[2])
        PROVE  s[1] # email[p]
    <2>1. s = <<s[1], s[2]>>
      BY DEF Slots
    <2>2. quarantine[s] > 0
      BY <1>2, <2>1 DEF Reviewed
    <2>3. QED
      BY <1>1, <2>2 DEF OneFileInv, OnceInv, OpenUnreviewed
  <1>3. QED
    BY <1>1, <1>2 DEF OneFileInv, SettledRows

\* The poller keeps on disk what it has open: it saves an attachment before it
\* refers to it (pipeline.py:225-280).
LEMMA OpenOnDiskStep ==
  ASSUME NoOverlap, DistinctPaths, OneFileInv, [Next]_vars, NEW p \in Pollers
  PROVE  OpenOnDisk(p)'
  <1> USE DEF OneFileInv, OnceInv, LifecycleInv, TypeOK, PcTypeOK, TxTypeOK, tx, local
  <1> DEFINE Held == {"parse", "quarantine", "insert", "embed"}
             Kept(m, k) == files'[Path(m, k)] = Inbox[m][k].hash
  <1>1. ASSUME NEW m \in Messages, NEW k \in DOMAIN Inbox[m], OnDisk(m, k)
        PROVE  OnDisk(m, k)' \/ Rollback(p) \/ Crash
    BY <1>1, OnDiskKept DEF NoOverlap
  <1>2. CASE Rollback(p) \/ Crash
    BY <1>2 DEF Rollback, EndTransaction, Crash, OpenOnDisk
  <1>3. CASE ~Rollback(p) /\ ~Crash
    <2>1. \A m \in Messages : \A k \in DOMAIN Inbox[m] : OnDisk(m, k) => Kept(m, k)
      BY <1>1, <1>3 DEF OnDisk
    <2>2. \A c \in txCandidates[p] : Kept(c.msg, c.att)
      BY <2>1 DEF TxOfMail, Real, OpenOnDisk
    <2>3. InProgress(p) => email[p] \in Messages
      BY DEF Control
    <2>4. \A k \in txRows[p] : ~Rejected(email[p], k) => Kept(email[p], k)
      BY <2>1, <2>3 DEF OpenOnDisk, RowsOfMail, Control, Awaits, InProgress
    <2>5. pc[p] \in Held => Kept(email[p], att[p])
      BY <2>1, <2>3 DEF OpenOnDisk, Control, Awaits, InProgress
    <2>6. CASE SaveAttachment(p)
      <3>1. /\ email[p] \in Messages /\ att[p] \in DOMAIN Inbox[email[p]]
            /\ UNCHANGED <<txCandidates, txRows, email, att>>
        BY <2>6, InboxTyped
        DEF SaveAttachment, Saving, Exhausted, Control, InProgress, Awaits
      <3>2. Path(email[p], att[p]) \in Paths
        <4>1. <<email[p], att[p]>> \in Slots
          BY <3>1, SlotOf
        <4>2. QED
          BY <4>1 DEF Paths
      <3>3. Kept(email[p], att[p])
        BY <2>6, <3>1, <3>2 DEF SaveAttachment, Current, OnDisk
      <3>4. QED
        BY <2>2, <2>4, <3>1, <3>3 DEF OpenOnDisk, Rejected, OnDisk
    <2>7. CASE InsertCandidate(p)
      <3> DEFINE row == [id |-> nextId, msg |-> email[p], att |-> att[p]]
      <3>1. /\ txCandidates'[p] = txCandidates[p] \cup {row} /\ pc[p] = "insert"
            /\ UNCHANGED <<txRows, email, att>> /\ row.msg = email[p] /\ row.att = att[p]
        BY <2>7 DEF InsertCandidate
      <3> HIDE DEF row
      <3>2. QED
        BY <2>2, <2>4, <2>5, <3>1 DEF OpenOnDisk, Rejected, OnDisk
    <2>8. CASE RejectAttachment(p) \/ QuarantineAttachment(p)
      <3>1. /\ txRows'[p] = txRows[p] \cup {att[p]} /\ pc'[p] \notin Held
            /\ UNCHANGED <<txCandidates, email>>
            /\ pc[p] \in Held \/ Rejected(email[p], att[p])
        BY <2>8 DEF RejectAttachment, QuarantineAttachment, Quarantine, NextAttachment
      <3>2. QED
        BY <2>2, <2>4, <2>5, <3>1 DEF OpenOnDisk, Rejected, OnDisk
    <2>9. CASE /\ UNCHANGED <<txCandidates[p], txRows[p], email[p]>>
               /\ pc'[p] \in Held => pc[p] \in Held /\ att'[p] = att[p]
      BY <2>2, <2>4, <2>5, <2>9 DEF OpenOnDisk, Rejected, OnDisk
    <2>10. CASE txCandidates'[p] = {} /\ txRows'[p] = {} /\ pc'[p] \notin Held
      BY <2>10 DEF OpenOnDisk
    <2>11. ASSUME Moves(p)
           PROVE  OpenOnDisk(p)'
      <3> HIDE DEF OneFileInv, OnceInv, LifecycleInv
      <3>1. \/ SaveAttachment(p) \/ InsertCandidate(p)
            \/ RejectAttachment(p) \/ QuarantineAttachment(p)
            \/ /\ UNCHANGED <<txCandidates[p], txRows[p], email[p]>>
               /\ pc'[p] \in Held => pc[p] \in Held /\ att'[p] = att[p]
            \/ txCandidates'[p] = {} /\ txRows'[p] = {} /\ pc'[p] \notin Held
        <4>1. TypeOK /\ Control
          BY DEF OneFileInv, OnceInv, LifecycleInv
        <4>2. QED
          BY <1>3, <2>11, <4>1
          DEF Moves, StartPoll, Step, EndPoll, SkipEmail, TakeEmail, BeginEmail,
           ParseFails, ParseSucceeds, NextAttachment, SkipDuplicate, Continue, UpsertResume,
           MarkProcessed, Commit, ApplyTransaction, EndTransaction, RecordFailure,
           CheckRaises, CommitRaises, RecordRaises, Control, Awaits
      <3>2. QED
        BY <2>6, <2>7, <2>8, <2>9, <2>10, <3>1
    <2>12. CASE UNCHANGED <<pc, tx, local>>
      BY <2>9, <2>12
    <2>13. QED
      BY <1>3, <2>11, <2>12, NextMoves DEF NoOverlap, Deliver, vars
  <1>4. QED
    BY <1>2, <1>3

\* A row becomes visible while its file is there, and the files of what is visible
\* are not written again (pipeline.py:182-187, 225-280, 328).
LEMMA FilesIntactStep ==
  ASSUME NoOverlap, DistinctPaths, OneFileInv, [Next]_vars
  PROVE  FilesIntact'
  <1> USE DEF OneFileInv, OnceInv, LifecycleInv
  <1>1. ASSUME NEW m \in Messages, NEW k \in DOMAIN Inbox[m], OnDisk(m, k),
               \A p \in Pollers : Saving(p) => email[p] # m
        PROVE  OnDisk(m, k)'
    BY <1>1, OnDiskKept
  <1>2. ASSUME NEW c \in candidates
        PROVE  OnDisk(c.msg, c.att)'
    <2>1. Real(c) /\ OnDisk(c.msg, c.att)
      BY DEF SettledRows, FilesIntact, OnDisk, HashOf
    <2>2. \A p \in Pollers : Saving(p) => email[p] # c.msg
      BY VisibleElsewhere DEF Saving, InProgress, Awaits
    <2>3. QED
      BY <1>1, <2>1, <2>2 DEF Real
  <1>3. ASSUME NEW s \in Slots, Reviewed(s[1], s[2]), ~Rejected(s[1], s[2])
        PROVE  OnDisk(s[1], s[2])'
    <2>1. s[1] \in Messages /\ s[2] \in DOMAIN Inbox[s[1]] /\ OnDisk(s[1], s[2])
      BY <1>3 DEF Slots, FilesIntact, OnDisk
    <2>2. \A p \in Pollers : Saving(p) => email[p] # s[1]
      BY <1>3, VisibleElsewhere DEF Saving, InProgress, Awaits
    <2>3. QED
      BY <1>1, <2>1, <2>2
  <1>4. ASSUME NEW p \in Pollers, ApplyTransaction(p)
        PROVE  FilesIntact'
    <2>1. UNCHANGED files /\ candidates' = candidates \cup txCandidates[p]
      BY <1>4 DEF ApplyTransaction
    <2>2. \A c \in candidates' : OnDisk(c.msg, c.att)'
      BY <1>2, <2>1 DEF OpenOnDisk, OnDisk
    <2>3. ASSUME NEW s \in Slots, Reviewed(s[1], s[2])', ~Rejected(s[1], s[2])
          PROVE  OnDisk(s[1], s[2])'
      <3>1. s = <<s[1], s[2]>>
        BY DEF Slots
      <3>2. CASE s[1] = email[p] /\ s[2] \in txRows[p]
        BY <2>1, <2>3, <3>2 DEF OpenOnDisk, OnDisk
      <3>3. CASE ~(s[1] = email[p] /\ s[2] \in txRows[p])
        <4>1. quarantine'[s] = quarantine[s]
          BY <1>4, <3>3 DEF ApplyTransaction
        <4>2. QED
          BY <1>3, <2>3, <3>1, <4>1 DEF Reviewed
      <3>4. QED
        BY <3>2, <3>3
    <2>4. QED
      BY <2>2, <2>3 DEF FilesIntact, OnDisk, HashOf, Rejected
  <1>5. CASE UNCHANGED <<candidates, quarantine>>
    BY <1>2, <1>3, <1>5 DEF FilesIntact, OnDisk, HashOf, Reviewed, Rejected
  <1>6. QED
    BY <1>4, <1>5, CandidateSteps, QuarantineSteps

\* Every step of a single poller keeps OneFileInv (pipeline.py:131-328).
LEMMA OneFileStep ==
  ASSUME NoOverlap, DistinctPaths, OneFileInv, [Next]_vars
  PROVE  OneFileInv'
  <1>1. LifecycleInv /\ OnceInv /\ TypeOK /\ Control /\ RowsOfMail /\ TxOfMail /\ SettledRows
    BY DEF OneFileInv, OnceInv, LifecycleInv
  <1>2. OnceInv' /\ RowsOfMail' /\ TxOfMail' /\ SettledRows'
    BY <1>1, OnceStep, RowsOfMailStep, TxOfMailStep, SettledRowsStep
  <1>3. \A p \in Pollers : OpenOnDisk(p)'
    BY OpenOnDiskStep
  <1>4. QED
    BY <1>2, <1>3, FilesIntactStep DEF OneFileInv

\* OneFileInv holds when nothing has been polled.
LEMMA OneFileInit == Init => OneFileInv
  BY InitTyped, MaxAttemptsAssumption
  DEF Init, OneFileInv, OnceInv, LifecycleInv, InProgress, Awaits, ReviewedOnce,
     OpenUnreviewed, RowsOfMail, TxOfMail, SettledRows, OpenOnDisk, FilesIntact, Reviewed, Slots

\* Without deletions, a candidate row and a reviewed attachment always have their
\* file on disk, a crash in the middle of a write included
\* (pipeline.py:182-187, 236, 274).
THEOREM FilesOfRows ==
  ASSUME NoOverlap, DistinctPaths
  PROVE  Spec => []FilesIntact
  <1>1. OneFileInv => FilesIntact
    BY DEF OneFileInv
  <1>2. OneFileInv /\ [Next]_vars => OneFileInv'
    BY OneFileStep
  <1>3. QED
    BY <1>1, <1>2, OneFileInit, PTL DEF Spec

=============================================================================
