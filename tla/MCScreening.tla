---------------------------- MODULE MCScreening ----------------------------
(* Files, settings and jobs for the run of Judging.                         *)
EXTENDS Judging, TLC

CONSTANTS d1, d2, s1, r1, r2

Mark(layer, at) == [layer |-> layer, at |-> at]
File(ext, length, marks, code) ==
    [ext |-> ext, readable |-> TRUE, language |-> code,
     text |-> [length |-> length, marks |-> marks, mentions |-> {s1}]]

\* The boundaries of every check, and each way to fail it.
Odd == {
    [File(".pdf", 300, {}, "ru") EXCEPT !.readable = FALSE],
    File("other", 300, {}, "ru"),
    File(".pdf", 0, {}, "exception"),
    File(".docx", MIN_TEXT_CHARS - 1, {Mark("plain", 50)}, "ru"),
    File(".txt", 300, {Mark("hidden", 50)}, "en"),
    File(".pdf", 4000, {Mark("case", CASE_SCAN_LIMIT - 50)}, "en"),
    File(".pdf", MAX_TEXT_CHARS + 9, {Mark("plain", MAX_TEXT_CHARS)}, "ru")}

Fine == {
    File(".pdf", MAX_TEXT_CHARS + 9, {Mark("plain", MAX_TEXT_CHARS + 1),
                                      Mark("case", CASE_SCAN_LIMIT)}, "unsupported")}

\* Two odd files; or a candidate whose text does not mention the skill beside a
\* new file that does.
MCStarts ==
    [file : [Documents -> Odd], early : {{}}]
    \cup [file : {d1 :> f @@ d2 :> [File(".docx", 500, {}, "en") EXCEPT !.text.mentions = {}]
                     : f \in Fine}, early : {{d2}}]

Set(mocks, key, version) == [mocks |-> mocks, key |-> key, version |-> version]
MCConfigs == {Set(TRUE, FALSE, 1), Set(FALSE, FALSE, 1), Set(FALSE, TRUE, 1)}

\* Two jobs with one text.
MCQuestions == {[description |-> "text", required |-> {}],
                [description |-> "text", required |-> {s1}]}

============================================================================
