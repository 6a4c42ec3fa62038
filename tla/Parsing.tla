------------------------------ MODULE Parsing ------------------------------
(***************************************************************************)
(* src/parsing: parse_resume takes a saved file through text extraction,    *)
(* language detection, the injection filter and the LLM extractor.          *)
(*                                                                          *)
(* A text is known by its length and by the marks the injection filter      *)
(* looks for: a pattern found as it stands ("plain"), one found only once   *)
(* invisible characters are gone and white space is single ("hidden"), and  *)
(* a window of alternating case ("case"); at is where a pattern ends or a   *)
(* window starts.  What a text says is known by the skills that are found   *)
(* in its first 30000 characters, word for word or nearly so.               *)
(***************************************************************************)
EXTENDS Naturals, FiniteSets

CONSTANTS
    Documents,        \* files given to parse_resume
    Starts,           \* what they may hold, and which of them are candidates already
    Skills,           \* the skills a text may mention
    Configs,          \* settings the process may be started with
    ExtractAttempts,  \* stop_after_attempt of the extractor
    MaxRestarts,      \* bound on the restarts of the process
    NoText

MAX_TEXT_CHARS == 30000
MIN_TEXT_CHARS == 200
CASE_SCAN_LIMIT == 1500

Marks == [layer : {"plain", "hidden", "case"}, at : Nat]
Texts == [length : Nat, marks : SUBSET Marks, mentions : SUBSET Skills]

\* language is what langdetect says of the text: a supported code, another
\* one, or LangDetectException.
Files == [ext : {".txt", ".pdf", ".docx", "other"}, readable : BOOLEAN, text : Texts,
          language : {"ru", "en", "unsupported", "exception"}]

\* USE_MOCKS, whether OPENAI_API_KEY is set, and the model and prompt versions.
Settings == [mocks : BOOLEAN, key : BOOLEAN, version : Nat]

ASSUME StartsAssumption == Starts \subseteq [file : [Documents -> Files], early : SUBSET Documents]
ASSUME ConfigsAssumption == Configs \subseteq Settings
ASSUME AttemptsAssumption == ExtractAttempts \in Nat \ {0}
ASSUME RestartsAssumption == MaxRestarts \in Nat
ASSUME NoTextAssumption == NoText \notin Texts

Reasons == {"extract_failed", "vlm_extract_failed", "text_too_short",
            "prompt_injection_suspected"}

VARIABLES
    file,      \* what each file holds
    config,    \* the settings of the running process
    restarts,
    step,      \* where parse_resume is with each file
    text,      \* the text it works on
    language,  \* the language it gives the resume
    tries,     \* calls of the LLM made for the file in this run
    result,    \* ParseSuccess, a QuarantineReason, or not yet
    resume     \* skills of the structured resume

parsing == <<step, text, language, tries, result, resume>>
parseVars == <<file, config, restarts, parsing>>

Readable(f) == f.ext \in {".txt", ".pdf", ".docx"} /\ f.readable

Uncut(t, limit) == t   \* mutant

\* text[:limit]: a mark that ends beyond the cut is gone.
Cut(t, limit) ==
    [t EXCEPT !.length = IF @ > limit THEN limit ELSE @,
              !.marks = {m \in @ : m.at <= limit}]

ParseInit ==
    \E start \in Starts :
        LET Recorded(early, new) ==
                [d \in Documents |-> IF d \in start.early THEN early ELSE new]
        IN  /\ file = start.file
            /\ config \in Configs
            /\ restarts = 0
            /\ step = Recorded("recorded", "extract")
            /\ text = [d \in Documents |->
                  IF d \in start.early THEN Cut(file[d].text, MAX_TEXT_CHARS) ELSE NoText]
            /\ language = [d \in Documents |-> "en"]
            /\ tries = [d \in Documents |-> 0]
            /\ result = Recorded("accepted", "pending")
            /\ resume = [d \in Documents |->
                  IF d \in start.early THEN file[d].text.mentions ELSE {}]

Goto(d, s) == step' = [step EXCEPT ![d] = s]

\* return ParseFailure(reason, ...)
Refuse(d, reason) ==
    /\ result' = [result EXCEPT ![d] = reason]
    /\ Goto(d, "returned")

----------------------------------------------------------------------------
(* text_extract.py, language.py                                             *)

\* _extract_sync gives None: unsupported extension, or the parser raised.
ExtractNothing(d) ==
    /\ step[d] = "extract"
    /\ ~Readable(file[d])
    /\ Refuse(d, "extract_failed")
    /\ UNCHANGED <<file, config, restarts, text, language, tries, resume>>

ExtractText(d) ==
    /\ step[d] = "extract"
    /\ Readable(file[d])
    /\ text' = [text EXCEPT ![d] = Cut(file[d].text, MAX_TEXT_CHARS)]
    /\ Goto(d, "length")
    /\ UNCHANGED <<file, config, restarts, language, tries, result, resume>>

TooShort(t) == t.length < MIN_TEXT_CHARS

RefuseShort(d) ==
    /\ step[d] = "length"
    /\ TooShort(text[d])
    /\ Refuse(d, IF file[d].ext = ".pdf" THEN "vlm_extract_failed" ELSE "text_too_short")
    /\ UNCHANGED <<file, config, restarts, text, language, tries, resume>>

\* detect_language, with English for what it does not know.
DetectLanguage(d) ==
    /\ step[d] = "length"
    /\ ~TooShort(text[d])
    /\ language' = [language EXCEPT ![d] =
                      IF file[d].language \in {"ru", "en"} THEN file[d].language ELSE "en"]
    /\ Goto(d, "screen")
    /\ UNCHANGED <<file, config, restarts, text, tries, result, resume>>

----------------------------------------------------------------------------
(* sanitize.py                                                              *)

\* _scan_patterns on the text, then on the normalized text.
MatchesPattern(t) == \E m \in t.marks : m.layer = "plain"
MatchesNormalized(t) == \E m \in t.marks : m.layer \in {"plain", "hidden"}

\* _detect_case_obfuscation looks at windows that start in the first
\* _CASE_SCAN_LIMIT characters.
CaseObfuscated(t) == \E m \in t.marks : m.layer = "case" /\ m.at < CASE_SCAN_LIMIT

RawTextOnly(t) == MatchesPattern(t) \/ CaseObfuscated(t)   \* mutant: no _normalize
DetectInjection(t) == MatchesPattern(t) \/ MatchesNormalized(t) \/ CaseObfuscated(t)

RefuseInjection(d) ==
    /\ step[d] = "screen"
    /\ DetectInjection(text[d])
    /\ Refuse(d, "prompt_injection_suspected")
    /\ UNCHANGED <<file, config, restarts, text, language, tries, resume>>

PassScreen(d) ==
    /\ step[d] = "screen"
    /\ ~DetectInjection(text[d])
    /\ Goto(d, "llm")
    /\ UNCHANGED <<file, config, restarts, text, language, tries, result, resume>>

----------------------------------------------------------------------------
(* extractor.py                                                             *)

Accept(d, skills) ==
    /\ resume' = [resume EXCEPT ![d] = skills]
    /\ result' = [result EXCEPT ![d] = "accepted"]
    /\ Goto(d, "returned")

\* USE_MOCKS: the skills the dictionary's patterns find in the text.
MockExtract(d, skills) ==
    /\ step[d] = "llm"
    /\ config.mocks
    /\ skills \subseteq text[d].mentions
    /\ Accept(d, skills)
    /\ UNCHANGED <<file, config, restarts, text, language, tries>>

\* LLMExtractor() raises without a key, at every use: lru_cache keeps no
\* exception.
ExtractorUnavailable(d) ==
    /\ step[d] = "llm"
    /\ ~config.mocks /\ ~config.key
    /\ Refuse(d, "extract_failed")
    /\ UNCHANGED <<file, config, restarts, text, language, tries, resume>>

\* One call of the provider with the text, while attempts are left.
CallExtractor(d) ==
    /\ step[d] = "llm"
    /\ ~config.mocks /\ config.key
    /\ tries' = [tries EXCEPT ![d] = @ + 1]
    /\ Goto(d, "reply")
    /\ UNCHANGED <<file, config, restarts, text, language, result, resume>>

\* completion.choices[0].message.parsed: what the model makes of the text.
ExtractorAnswers(d, skills) ==
    /\ step[d] = "reply"
    /\ Accept(d, skills)
    /\ UNCHANGED <<file, config, restarts, text, language, tries>>

RetriesForEver(n, limit) == TRUE   \* mutant: no stop_after_attempt
MayRetry(n, limit) == n < limit

\* Connection, timeout, rate limit, or any other APIError: retried.
ExtractorFails(d) ==
    /\ step[d] = "reply"
    /\ IF MayRetry(tries[d], ExtractAttempts)
       THEN Goto(d, "llm") /\ UNCHANGED result
       ELSE Refuse(d, "extract_failed")
    /\ UNCHANGED <<file, config, restarts, text, language, tries, resume>>

\* Refusal, or an answer that is no Resume: raised at once.
ExtractorRefuses(d) ==
    /\ step[d] = "reply"
    /\ Refuse(d, "extract_failed")
    /\ UNCHANGED <<file, config, restarts, text, language, tries, resume>>

\* process_email stores the candidate or the quarantine row, and the poll
\* commits it with the mail.
Record(d) ==
    /\ step[d] = "returned"
    /\ Goto(d, "recorded")
    /\ UNCHANGED <<file, config, restarts, text, language, tries, result, resume>>

----------------------------------------------------------------------------
Parse(d) ==
    \/ ExtractNothing(d) \/ ExtractText(d)
    \/ RefuseShort(d) \/ DetectLanguage(d)
    \/ RefuseInjection(d) \/ PassScreen(d)
    \/ \E skills \in SUBSET Skills : MockExtract(d, skills) \/ ExtractorAnswers(d, skills)
    \/ ExtractorUnavailable(d) \/ CallExtractor(d)
    \/ ExtractorFails(d) \/ ExtractorRefuses(d)
    \/ Record(d)

\* A restart, with other settings perhaps: what is not committed is parsed from
\* the start when its mail is polled again.
RestartParsing ==
    LET Reset(f, new) == [d \in Documents |-> IF step[d] = "recorded" THEN f[d] ELSE new]
    IN  /\ restarts < MaxRestarts
        /\ restarts' = restarts + 1
        /\ config' \in Configs
        /\ step' = Reset(step, "extract")
        /\ text' = Reset(text, NoText)
        /\ tries' = Reset(tries, 0)
        /\ result' = Reset(result, "pending")
        /\ resume' = Reset(resume, {})
        /\ UNCHANGED <<file, language>>

----------------------------------------------------------------------------
(* Properties                                                               *)

\* The types of what parse_resume computes: in particular a resume's language is
\* one of the two that the schema has (schemas.py:13-17, pipeline.py:33-50).
ParsingTypeOK ==
    /\ file \in [Documents -> Files] /\ config \in Configs /\ restarts \in 0..MaxRestarts
    /\ step \in [Documents -> {"extract", "length", "screen", "llm", "reply", "returned",
                              "recorded"}]
    /\ text \in [Documents -> Texts \cup {NoText}]
    /\ language \in [Documents -> {"ru", "en"}]
    /\ tries \in [Documents -> 0..ExtractAttempts]
    /\ result \in [Documents -> Reasons \cup {"pending", "accepted"}]
    /\ resume \in [Documents -> SUBSET Skills]

\* The verdicts that the content of a file allows, said of the whole text: the
\* first check it fails decides, and only a text that fails none may be accepted
\* (or refused because the LLM failed).
Visible(t) == {m \in t.marks : m.at <= MAX_TEXT_CHARS}
Suspicious(t) ==
    \E m \in Visible(t) : m.layer \in {"plain", "hidden"} \/ m.at < CASE_SCAN_LIMIT

AllowedVerdicts(f) ==
    IF f.ext = "other" \/ ~f.readable THEN {"extract_failed"}
    ELSE IF f.text.length < MIN_TEXT_CHARS
         THEN {IF f.ext = ".pdf" THEN "vlm_extract_failed" ELSE "text_too_short"}
    ELSE IF Suspicious(f.text) THEN {"prompt_injection_suspected"}
    ELSE {"accepted", "extract_failed"}

\* A candidate that is there already was accepted by an earlier process.
ASSUME EarlyAssumption ==
    \A start \in Starts : \A d \in start.early : "accepted" \in AllowedVerdicts(start.file[d])

Contract == INSTANCE ParseContract
    WITH Documents <- Documents, Pending <- "pending",
         allowed <- [d \in Documents |-> AllowedVerdicts(file[d])],
         verdict <- [d \in Documents |->
                       IF step[d] = "recorded" THEN result[d] ELSE "pending"]

\* parse_resume keeps its contract: one verdict per file, one its content
\* deserves, whatever the provider answers, through restarts and with settings
\* that cannot reach it, and always one in the end (pipeline.py:53-99).
KeepsContract == Contract!Spec

\* A text that may be given to the provider: it has passed the length check, the
\* cut and every layer of the filter.
Screened(t) == t.length \in MIN_TEXT_CHARS..MAX_TEXT_CHARS /\ ~Suspicious(t)

============================================================================
