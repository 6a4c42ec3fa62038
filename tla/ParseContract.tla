---------------------------- MODULE ParseContract ----------------------------
(***************************************************************************)
(* What process_email relies on when it calls parse_resume: every document  *)
(* gets one verdict and keeps it, the verdict is one of those that its      *)
(* content allows, and waiting for it ends.                                 *)
(***************************************************************************)
CONSTANTS Documents, Pending

VARIABLES
    allowed,   \* allowed[d]: the verdicts the content of d allows
    verdict

vars == <<allowed, verdict>>

\* Some documents have their verdict from an earlier process.
Init ==
    /\ DOMAIN verdict = Documents
    /\ \A d \in Documents : verdict[d] \in allowed[d] \cup {Pending}

Decide(d) ==
    /\ verdict[d] = Pending
    /\ \E v \in allowed[d] : verdict' = [verdict EXCEPT ![d] = v]
    /\ UNCHANGED allowed

Next == \E d \in Documents : Decide(d)

Spec == Init /\ [][Next]_vars /\ \A d \in Documents : WF_vars(Decide(d))

============================================================================
