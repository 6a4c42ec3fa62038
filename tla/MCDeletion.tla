---------------------------- MODULE MCDeletion ----------------------------
(* Inbox and constants for the run of Deletion.                             *)
EXTENDS Deletion, TLC

CONSTANTS m1, m2, tick, h1, h2, d1, d2

MCSafeId == [m \in Messages |-> m]

Att(n, k, h) == [name |-> n, kind |-> k, hash |-> h]

\* A mail with a good and an unreadable attachment, and one that repeats its
\* text.
RepeatedInbox == m1 :> <<Att("cv.pdf", "resume", h1), Att("scan.pdf", "unreadable", h2)>> @@
                 m2 :> <<Att("cv.pdf", "resume", h1)>>

ClientSymmetry == Permutations(Clients)

============================================================================
