---------------------------- MODULE MCDashboard -----------------------------
(* Sessions and the start of the runs of Dashboard.                  *)
EXTENDS Dashboard

CONSTANTS a, b, d

\* No seed files: the seeder has a run of its own.
NoSeeds == <<>>

\* One session does a little more than the others.
MCMaxClicks == [s \in Clients |-> IF s = a THEN 2 ELSE 1]

\* The server is up, one vacancy is in the table, and every session has opened the
\* page, seen it and ticked the box that enables the button.
Opened == {[id |-> 1, title |-> "python", language |-> "ru", file |-> FromForm]}
MCInit ==
    /\ jobs = Opened /\ lastId = 1 /\ deleted = {}
    /\ api = "serving" /\ starts = 1 /\ seeder = AtFile(1) /\ skipped = {}
    /\ rpc = [c \in Clients |-> Idle]
    /\ cache = Opened
    /\ page = [s \in Clients |-> [Draw(NewPage, Opened) EXCEPT !.confirm = TRUE]]
    /\ clicks = [s \in Clients |-> 0]

MCSpec == MCInit /\ [][Next]_vars /\ Fairness

=============================================================================
