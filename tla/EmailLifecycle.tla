--------------------------- MODULE EmailLifecycle ---------------------------
(***************************************************************************)
(* What processed_emails promises for one message_id (db.py:94-110,         *)
(* base.py:57-78): a mail fails fewer than MaxAttempts times and may then   *)
(* be completed, or is dead-lettered by its last failure; a final status    *)
(* is never left.                                                           *)
(***************************************************************************)
EXTENDS Naturals

CONSTANTS Messages, MaxAttempts

VARIABLES status, attempts

vars == <<status, attempts>>

Open(m) == status[m] \in {"absent", "failed"}

Init ==
    /\ status = [m \in Messages |-> "absent"]
    /\ attempts = [m \in Messages |-> 0]

\* One poll gets through the mail: every attachment accepted, or some kept for
\* review.
Complete(m) ==
    /\ Open(m)
    /\ \E s \in {"ingested", "quarantined"} : status' = [status EXCEPT ![m] = s]
    /\ UNCHANGED attempts

Fail(m) ==
    /\ Open(m)
    /\ attempts[m] + 1 < MaxAttempts
    /\ status' = [status EXCEPT ![m] = "failed"]
    /\ attempts' = [attempts EXCEPT ![m] = @ + 1]

\* The last attempt fails.
GiveUp(m) ==
    /\ Open(m)
    /\ attempts[m] + 1 = MaxAttempts
    /\ status' = [status EXCEPT ![m] = "dead_letter"]
    /\ attempts' = [attempts EXCEPT ![m] = @ + 1]

Next == \E m \in Messages : Complete(m) \/ Fail(m) \/ GiveUp(m)

Spec == Init /\ [][Next]_vars

=============================================================================
