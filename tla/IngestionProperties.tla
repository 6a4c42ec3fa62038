------------------------ MODULE IngestionProperties ------------------------
(***************************************************************************)
(* What Ingestion is meant to guarantee: types, safety invariants, the      *)
(* lifecycle of processed_emails it implements when polls do not overlap,   *)
(* and the settlement of every mail.                                        *)
(***************************************************************************)
EXTENDS Ingestion

(* Types                                                                    *)

PcTypeOK ==
    /\ pc \in [Pollers -> Awaits \cup {"idle", "loop", "failure"}]
    /\ todo \in [Pollers -> SUBSET Messages]
    /\ email \in [Pollers -> Messages \cup {NoMessage}]
    /\ att \in [Pollers -> Nat \ {0}]
    /\ newId \in [Pollers -> Nat]

TxTypeOK ==
    /\ txCandidates \in [Pollers -> SUBSET CandidateRows]
    /\ txRows \in [Pollers -> SUBSET (Nat \ {0})]
    /\ txStatus \in [Pollers -> {"absent", "ingested", "quarantined"}]

\* Every variable has the type its column, its file system or its Python name
\* gives it (db.py:44-135, pipeline.py:190-328).
TypeOK ==
    /\ status \in [Messages -> Statuses]
    /\ attempts \in [Messages -> Nat]
    /\ candidates \subseteq CandidateRows
    /\ quarantine \in [Slots -> Nat]
    /\ deadLetters \in [Messages -> Nat]
    /\ nextId \in Nat \ {NoId}
    /\ files \in [Paths -> Hashes \cup {NoFile}]
    /\ points \subseteq Nat \ {NoId}
    /\ mailbox \subseteq Messages
    /\ outages \in Nat
    /\ PcTypeOK
    /\ TxTypeOK

----------------------------------------------------------------------------
(* Safety                                                                   *)

Stored(m, k) == \E c \in candidates : HashOf(c) = Inbox[m][k].hash
Reviewed(m, k) == quarantine[<<m, k>>] > 0

\* No attachment before k makes process_email return early.
Reached(m, k) == \A j \in 1..(k - 1) : ~Rejected(m, j)

\* No resume is lost: "ingested" means that the text of every attachment is in
\* candidates, "quarantined" that every attachment up to the first rejected one
\* is in candidates or waits for review.  is_terminal never lets the mail be
\* processed again, so what is missing here is missing for good
\* (pipeline.py:190-280).
NoResumeLost ==
    \A m \in Messages : \A k \in DOMAIN Inbox[m] :
        /\ status[m] = "ingested" => Stored(m, k)
        /\ status[m] = "quarantined" /\ Reached(m, k) => Stored(m, k) \/ Reviewed(m, k)

\* The module's docstring on process_email: an attachment that passes the checks
\* becomes a candidate, any other is quarantined (pipeline.py:8-9).
EveryAttachmentHandled ==
    \A m \in Messages : \A k \in DOMAIN Inbox[m] :
        status[m] \in {"ingested", "quarantined"} => Stored(m, k) \/ Reviewed(m, k)

\* A mail that reached a human's queue is there to be seen: "quarantined" has a
\* quarantine row, "dead_letter" a dead_letter_emails row, and a mail that used
\* up its attempts is never left in "failed" (pipeline.py:87-104, 164-179).
NothingStranded ==
    \A m \in Messages :
        /\ status[m] = "quarantined" => \E k \in DOMAIN Inbox[m] : Reviewed(m, k)
        /\ status[m] = "dead_letter" => deadLetters[m] > 0
        /\ attempts[m] >= MaxAttempts => Terminal(m)

\* The rows of candidates, those of transactions that are still open included.
AllRows == candidates \cup UNION {txCandidates[p] : p \in Pollers}

\* One row per text, whoever inserts it and whether or not it is committed: the
\* UNIQUE(content_hash) that concurrent pollers rely on (pipeline.py:231-247).
UniqueContent == \A c, d \in AllRows : HashOf(c) = HashOf(d) => c = d

\* Every candidate that other sessions can see has its Qdrant point, so the
\* duplicate check may skip embedding (pipeline.py:248, 258-268).
CandidatesIndexed == \A c \in candidates : c.id \in points

\* What a candidate row or a reviewed quarantine row points to on disk is the
\* file it was made from (pipeline.py:182-187, 236, 274).
FilesIntact ==
    /\ \A c \in candidates : files[Path(c.msg, c.att)] = HashOf(c)
    /\ \A s \in Slots : Reviewed(s[1], s[2]) /\ ~Rejected(s[1], s[2])
                          => files[Path(s[1], s[2])] = Inbox[s[1]][s[2]].hash

\* Idempotency of the journal: no attachment is put in the review queue twice
\* and no mail is dead-lettered twice (db.py:95, pipeline.py:57-62).
ReviewedOnce ==
    /\ \A s \in Slots : quarantine[s] <= 1
    /\ \A m \in Messages : deadLetters[m] <= 1

\* A mail costs a bounded number of attempts: concurrent pollers may each add
\* one after the last allowed attempt, no more (pipeline.py:164-179, 308).
AttemptsBounded ==
    \A m \in Messages : attempts[m] < MaxAttempts + Cardinality(Pollers) + outages

Lifecycle == INSTANCE EmailLifecycle WITH
                 Messages <- Messages, MaxAttempts <- MaxAttempts,
                 status <- status, attempts <- attempts

\* The journal goes through the lifecycle of EmailLifecycle and no other: what
\* processed_emails promises when polls do not overlap (db.py:94-110).
ImplementsLifecycle == Lifecycle!Spec

\* Every listed mail is settled for good, whatever fails on the way
\* (pipeline.py:10-11, 131-179).
EventuallySettled == \A m \in Messages : m \in mailbox ~> []Terminal(m)

============================================================================
