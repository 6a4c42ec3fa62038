---------------------------- MODULE MCIngestion ----------------------------
(* Inboxes and constants for the runs of Ingestion.                         *)
EXTENDS IngestionProperties, TLC

CONSTANTS m1, m2, tick, sync, h1, h2, h3

MCSafeId == [m \in Messages |-> m]

Att(n, k, h) == [name |-> n, kind |-> k, hash |-> h]

\* A good mail, and one that repeats a text and ends in attachments of which
\* the first is rejected.
MixedInbox == m1 :> <<Att("cv.pdf", "resume", h1), Att("cv.docx", "resume", h2)>> @@
              m2 :> <<Att("cv.pdf", "resume", h2), Att("big.pdf", "too_large", h3),
                      Att("scan.pdf", "unreadable", h1)>>

\* One mail with two texts.
SingleInbox == m1 :> <<Att("cv.pdf", "resume", h1), Att("cv.docx", "resume", h2)>>

\* One mail; a rejected attachment comes first.
RejectedFirstInbox == m1 :> <<Att("photo.png", "unsupported", h3),
                              Att("cv.pdf", "resume", h1)>>

PollerSymmetry == Permutations(Pollers)

============================================================================
