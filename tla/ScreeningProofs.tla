-------------------------- MODULE ScreeningProofs --------------------------
(***************************************************************************)
(* Proofs about Parsing and Judging, for every set of files with any text,  *)
(* every setting, number of attempts, restarts and requests.                *)
(***************************************************************************)
EXTENDS Judging, TLAPS

----------------------------------------------------------------------------
(* What the cut and the filter do to a text.                                *)

\* The text that is worth parsing is shorter than the prompt of the judge, and that
\* than the text that is kept (text_extract.py:28, pipeline.py:29, prompts.py:12).
LEMMA Limits ==
  /\ MIN_TEXT_CHARS \in Nat /\ RAW_TEXT_LIMIT \in Nat /\ MAX_TEXT_CHARS \in Nat
  /\ MIN_TEXT_CHARS < RAW_TEXT_LIMIT /\ RAW_TEXT_LIMIT < MAX_TEXT_CHARS
  BY DEF MIN_TEXT_CHARS, RAW_TEXT_LIMIT, MAX_TEXT_CHARS

\* The cut keeps a text's type, what it says, and no mark beyond the limit
\* (text_extract.py:28, matching/prompts.py:82).
LEMMA CutText ==
  ASSUME NEW t \in Texts, NEW limit \in Nat
  PROVE  /\ Cut(t, limit) \in Texts
         /\ Cut(t, limit).length = (IF t.length > limit THEN limit ELSE t.length)
         /\ Cut(t, limit).marks = {m \in t.marks : m.at <= limit}
         /\ Cut(t, limit).mentions = t.mentions
  BY DEF Cut, Texts

\* The filter finds in a cut text what is suspicious in the whole one
\* (sanitize.py:60-120).
LEMMA FilterFinds ==
  ASSUME NEW t \in Texts
  PROVE  LET cut == Cut(t, MAX_TEXT_CHARS)
         IN  /\ DetectInjection(cut) <=> Suspicious(t)
             /\ TooShort(cut) <=> t.length < MIN_TEXT_CHARS
             /\ ~TooShort(cut) /\ ~DetectInjection(cut) => Screened(cut)
  <1> DEFINE cut == Cut(t, MAX_TEXT_CHARS)
  <1>1. /\ cut \in Texts
        /\ cut.length = (IF t.length > MAX_TEXT_CHARS THEN MAX_TEXT_CHARS ELSE t.length)
        /\ cut.marks = Visible(t)
    BY CutText, Limits DEF Visible
  <1>2. \A m \in t.marks : m.at \in Nat /\ m.layer \in {"plain", "hidden", "case"}
    BY DEF Texts, Marks
  <1>3. t.length \in Nat /\ cut.length \in Nat
    BY <1>1 DEF Texts
  <1> HIDE DEF cut
  <1>4. DetectInjection(cut) <=> Suspicious(t)
    BY <1>1, <1>2
    DEF DetectInjection, MatchesPattern, MatchesNormalized, CaseObfuscated, Suspicious, Visible
  <1>5. TooShort(cut) <=> t.length < MIN_TEXT_CHARS
    BY <1>1, <1>3, Limits DEF TooShort
  <1>6. ASSUME ~TooShort(cut), ~DetectInjection(cut)
        PROVE  Screened(cut)
    <2>1. Visible(cut) = Visible(t)
      BY <1>1 DEF Visible
    <2>2. ~Suspicious(cut)
      BY <1>4, <1>6, <2>1 DEF Suspicious
    <2>3. cut.length \in MIN_TEXT_CHARS..MAX_TEXT_CHARS
      BY <1>1, <1>3, <1>6, Limits DEF TooShort
    <2>4. QED
      BY <2>2, <2>3 DEF Screened
  <1>7. QED
    BY <1>4, <1>5, <1>6 DEF cut

\* The prompt of the judge holds less of a text, and is screened when the text is
\* (matching/prompts.py:82).
LEMMA PromptScreened ==
  ASSUME NEW t \in Texts, Screened(t)
  PROVE  Screened(Cut(t, RAW_TEXT_LIMIT))
  <1> DEFINE cut == Cut(t, RAW_TEXT_LIMIT)
  <1>1. /\ cut.length = (IF t.length > RAW_TEXT_LIMIT THEN RAW_TEXT_LIMIT ELSE t.length)
        /\ cut.marks \subseteq t.marks
    BY CutText, Limits
  <1> HIDE DEF cut
  <1>2. ~Suspicious(cut)
    BY <1>1 DEF Screened, Suspicious, Visible
  <1>3. cut.length \in MIN_TEXT_CHARS..MAX_TEXT_CHARS
    BY <1>1, Limits DEF Screened
  <1>4. QED
    BY <1>2, <1>3 DEF Screened, cut

----------------------------------------------------------------------------
(* Parsing                                                                  *)

\* Where a file is says which checks its text has passed, how often the provider
\* was called for it, and whether its verdict is known.
FileControl(d) ==
    /\ step[d] \in {"extract", "length", "screen"} => tries[d] = 0
    /\ step[d] = "llm" => tries[d] < ExtractAttempts
    /\ step[d] \in {"length", "screen", "llm", "reply"} \/ result[d] = "accepted" =>
         Readable(file[d]) /\ text[d] = Cut(file[d].text, MAX_TEXT_CHARS)
    /\ step[d] \in {"screen", "llm", "reply"} \/ result[d] = "accepted" => ~TooShort(text[d])
    /\ step[d] \in {"llm", "reply"} \/ result[d] = "accepted" => ~DetectInjection(text[d])
    /\ IF step[d] \in {"returned", "recorded"}
       THEN result[d] \in AllowedVerdicts(file[d])
       ELSE result[d] = "pending"

ParseInv == ParsingTypeOK /\ \A d \in Documents : FileControl(d)

\* What a step of one file leaves alone.
Alone(d) ==
    /\ UNCHANGED <<file, config, restarts>>
    /\ \A e \in Documents \ {d} :
         /\ step'[e] = step[e] /\ tries'[e] = tries[e] /\ text'[e] = text[e]
         /\ result'[e] = result[e] /\ language'[e] = language[e] /\ resume'[e] = resume[e]

\* Every step of parse_resume for a file keeps the types and the control
\* (parsing/pipeline.py:53-99, extractor.py:60-140).
LEMMA ParseKept ==
  ASSUME ParseInv, NEW d \in Documents, Parse(d)
  PROVE  ParseInv' /\ Alone(d)
  <1> USE DEF Goto, Alone
  <1>0. /\ file[d] \in Files /\ file[d].text \in Texts /\ ParsingTypeOK /\ FileControl(d)
        /\ \A t \in Texts : Cut(t, MAX_TEXT_CHARS) \in Texts
    <2>1. file[d] \in Files /\ ParsingTypeOK /\ FileControl(d)
      BY DEF ParseInv, ParsingTypeOK
    <2>2. file[d].text \in Texts
      BY <2>1 DEF Files
    <2>3. \A t \in Texts : Cut(t, MAX_TEXT_CHARS) \in Texts
      BY CutText, Limits
    <2>4. QED
      BY <2>1, <2>2, <2>3
  <1>1. ASSUME ParsingTypeOK', Alone(d), FileControl(d)'
        PROVE  ParseInv'
    <2>1. ASSUME NEW e \in Documents, e # d
          PROVE  FileControl(e)'
      BY <1>1, <2>1 DEF ParseInv, FileControl
    <2>2. QED
      BY <1>1, <2>1 DEF ParseInv
  <1>2. /\ DetectInjection(Cut(file[d].text, MAX_TEXT_CHARS)) <=> Suspicious(file[d].text)
        /\ TooShort(Cut(file[d].text, MAX_TEXT_CHARS)) <=> file[d].text.length < MIN_TEXT_CHARS
    BY <1>0, FilterFinds
  <1>3. CASE ExtractNothing(d)
    <2>1. ParsingTypeOK' /\ Alone(d)
      BY <1>0, <1>3 DEF ExtractNothing, Refuse, ParsingTypeOK, Reasons
    <2>2. FileControl(d)'
      <3>1. "extract_failed" \in AllowedVerdicts(file[d])
        BY <1>0, <1>3 DEF ExtractNothing, AllowedVerdicts, Readable, Files
      <3>2. QED
        BY <1>0, <1>3, <3>1 DEF ExtractNothing, Refuse, ParsingTypeOK, FileControl
    <2>3. QED
      BY <1>1, <2>1, <2>2
  <1>4. CASE ExtractText(d)
    <2>1. ParsingTypeOK' /\ Alone(d)
      BY <1>0, <1>4 DEF ExtractText, ParsingTypeOK
    <2>2. FileControl(d)'
      BY <1>0, <1>4 DEF ExtractText, ParsingTypeOK, FileControl
    <2>3. QED
      BY <1>1, <2>1, <2>2
  <1>5. CASE RefuseShort(d)
    <2>1. ParsingTypeOK' /\ Alone(d)
      BY <1>0, <1>5 DEF RefuseShort, Refuse, ParsingTypeOK, Reasons
    <2>2. FileControl(d)'
      <3>1. Readable(file[d]) /\ file[d].text.length < MIN_TEXT_CHARS
        BY <1>0, <1>2, <1>5 DEF RefuseShort, FileControl
      <3>2. (IF file[d].ext = ".pdf" THEN "vlm_extract_failed" ELSE "text_too_short")
              \in AllowedVerdicts(file[d])
        BY <3>1 DEF AllowedVerdicts, Readable
      <3>3. QED
        BY <1>0, <1>5, <3>2 DEF RefuseShort, Refuse, ParsingTypeOK, FileControl
    <2>3. QED
      BY <1>1, <2>1, <2>2
  <1>6. CASE DetectLanguage(d)
    <2>1. ParsingTypeOK' /\ Alone(d)
      BY <1>0, <1>6 DEF DetectLanguage, ParsingTypeOK
    <2>2. FileControl(d)'
      BY <1>0, <1>6 DEF DetectLanguage, ParsingTypeOK, FileControl
    <2>3. QED
      BY <1>1, <2>1, <2>2
  <1>7. CASE RefuseInjection(d)
    <2>1. ParsingTypeOK' /\ Alone(d)
      BY <1>0, <1>7 DEF RefuseInjection, Refuse, ParsingTypeOK, Reasons
    <2>2. FileControl(d)'
      BY <1>0, <1>2, <1>7 DEF RefuseInjection, Refuse, ParsingTypeOK, FileControl,
         AllowedVerdicts, Readable, Files
    <2>3. QED
      BY <1>1, <2>1, <2>2
  <1>8. CASE PassScreen(d)
    <2>1. ParsingTypeOK' /\ Alone(d)
      BY <1>0, <1>8 DEF PassScreen, ParsingTypeOK
    <2>2. FileControl(d)'
      BY <1>0, <1>8, AttemptsAssumption DEF PassScreen, ParsingTypeOK, FileControl
    <2>3. QED
      BY <1>1, <2>1, <2>2
  <1>9. step[d] \in {"llm", "reply"} => {"accepted", "extract_failed"} \subseteq AllowedVerdicts(file[d])
    BY <1>0, <1>2 DEF FileControl, AllowedVerdicts, Readable, Files
  <1>10. ASSUME NEW skills \in SUBSET Skills, MockExtract(d, skills) \/ ExtractorAnswers(d, skills)
         PROVE  ParseInv' /\ Alone(d)
    <2>1. /\ step[d] \in {"llm", "reply"} /\ Accept(d, skills)
          /\ UNCHANGED <<file, config, restarts, text, language, tries>>
      BY <1>10 DEF MockExtract, ExtractorAnswers
    <2>2. ParsingTypeOK' /\ Alone(d)
      BY <1>0, <2>1 DEF Accept, ParsingTypeOK
    <2>3. FileControl(d)'
      BY <1>0, <1>9, <2>1 DEF Accept, ParsingTypeOK, FileControl
    <2>4. QED
      BY <1>1, <2>2, <2>3
  <1>11. CASE ExtractorUnavailable(d) \/ ExtractorRefuses(d)
              \/ (ExtractorFails(d) /\ ~MayRetry(tries[d], ExtractAttempts))
    <2>1. /\ step[d] \in {"llm", "reply"} /\ Refuse(d, "extract_failed")
          /\ UNCHANGED <<file, config, restarts, text, language, tries, resume>>
      BY <1>11 DEF ExtractorUnavailable, ExtractorRefuses, ExtractorFails
    <2>2. ParsingTypeOK' /\ Alone(d)
      BY <1>0, <2>1 DEF Refuse, ParsingTypeOK, Reasons
    <2>3. FileControl(d)'
      BY <1>0, <1>9, <2>1 DEF Refuse, ParsingTypeOK, FileControl
    <2>4. QED
      BY <1>1, <2>2, <2>3
  <1>12. CASE CallExtractor(d)
    <2>1. ParsingTypeOK' /\ Alone(d)
      BY <1>0, <1>12, AttemptsAssumption DEF CallExtractor, ParsingTypeOK, FileControl
    <2>2. FileControl(d)'
      BY <1>0, <1>12 DEF CallExtractor, ParsingTypeOK, FileControl
    <2>3. QED
      BY <1>1, <2>1, <2>2
  <1>13. CASE ExtractorFails(d) /\ MayRetry(tries[d], ExtractAttempts)
    <2>1. ParsingTypeOK' /\ Alone(d)
      BY <1>0, <1>13 DEF ExtractorFails, ParsingTypeOK
    <2>2. FileControl(d)'
      BY <1>0, <1>13 DEF ExtractorFails, MayRetry, ParsingTypeOK, FileControl
    <2>3. QED
      BY <1>1, <2>1, <2>2
  <1>14. CASE Record(d)
    <2>1. ParsingTypeOK' /\ Alone(d)
      BY <1>0, <1>14 DEF Record, ParsingTypeOK
    <2>2. FileControl(d)'
      BY <1>0, <1>14 DEF Record, ParsingTypeOK, FileControl
    <2>3. QED
      BY <1>1, <2>1, <2>2
  <1>15. QED
    BY <1>3, <1>4, <1>5, <1>6, <1>7, <1>8, <1>10, <1>11, <1>12, <1>13, <1>14, <1>1 DEF Parse

\* A restart keeps the types and the control, and what was recorded
\* (main.py:31-60, pipeline.py:110-130).
LEMMA RestartKept ==
  ASSUME ParseInv, RestartParsing
  PROVE  /\ ParseInv' /\ file' = file
         /\ \A d \in Documents : step[d] = "recorded" =>
              /\ step'[d] = "recorded" /\ text'[d] = text[d]
              /\ result'[d] = result[d] /\ resume'[d] = resume[d]
         /\ \A d \in Documents : step[d] # "recorded" => step'[d] = "extract"
  <1>1. /\ restarts < MaxRestarts /\ restarts' = restarts + 1 /\ config' \in Configs
        /\ step' = [d \in Documents |-> IF step[d] = "recorded" THEN step[d] ELSE "extract"]
        /\ text' = [d \in Documents |-> IF step[d] = "recorded" THEN text[d] ELSE NoText]
        /\ tries' = [d \in Documents |-> IF step[d] = "recorded" THEN tries[d] ELSE 0]
        /\ result' = [d \in Documents |-> IF step[d] = "recorded" THEN result[d] ELSE "pending"]
        /\ resume' = [d \in Documents |-> IF step[d] = "recorded" THEN resume[d] ELSE {}]
        /\ UNCHANGED <<file, language>>
    BY DEF RestartParsing
  <1>2. ParsingTypeOK'
    <2>1. restarts' \in 0..MaxRestarts
      BY <1>1, RestartsAssumption DEF ParseInv, ParsingTypeOK
    <2>2. tries' \in [Documents -> 0..ExtractAttempts]
      BY <1>1, AttemptsAssumption DEF ParseInv, ParsingTypeOK
    <2>3. QED
      BY <1>1, <2>1, <2>2 DEF ParseInv, ParsingTypeOK
  <1>3. \A d \in Documents : FileControl(d)'
    BY <1>1 DEF ParseInv, FileControl
  <1>4. QED
    BY <1>1, <1>2, <1>3 DEF ParseInv

\* A candidate that is there at the start has passed the checks
\* (db.py:44-60, parsing/pipeline.py:53-99).
LEMMA ParseStart == ParseInit => ParseInv
  <1> SUFFICES ASSUME ParseInit
               PROVE  ParseInv
    OBVIOUS
  <1>1. PICK start \in Starts :
          /\ file = start.file /\ config \in Configs /\ restarts = 0
          /\ step = [d \in Documents |-> IF d \in start.early THEN "recorded" ELSE "extract"]
          /\ text = [d \in Documents |->
                IF d \in start.early THEN Cut(file[d].text, MAX_TEXT_CHARS) ELSE NoText]
          /\ language = [d \in Documents |-> "en"]
          /\ tries = [d \in Documents |-> 0]
          /\ result = [d \in Documents |-> IF d \in start.early THEN "accepted" ELSE "pending"]
          /\ resume = [d \in Documents |->
                IF d \in start.early THEN file[d].text.mentions ELSE {}]
    BY DEF ParseInit
  <1>2. file \in [Documents -> Files] /\ \A d \in start.early : "accepted" \in AllowedVerdicts(file[d])
    BY <1>1, StartsAssumption, EarlyAssumption
  <1>3. ASSUME NEW d \in Documents
        PROVE  /\ file[d].text \in Texts /\ file[d].text.mentions \in SUBSET Skills
               /\ Cut(file[d].text, MAX_TEXT_CHARS) \in Texts
               /\ DetectInjection(Cut(file[d].text, MAX_TEXT_CHARS)) <=> Suspicious(file[d].text)
               /\ TooShort(Cut(file[d].text, MAX_TEXT_CHARS))
                    <=> file[d].text.length < MIN_TEXT_CHARS
    <2>1. file[d].text \in Texts
      BY <1>2 DEF Files
    <2>2. file[d].text.mentions \in SUBSET Skills
      BY <2>1 DEF Texts
    <2>3. QED
      BY <2>1, <2>2, CutText, FilterFinds, Limits
  <1>4. ParsingTypeOK
    <2>1. text \in [Documents -> Texts \cup {NoText}]
      BY <1>1, <1>3
    <2>2. resume \in [Documents -> SUBSET Skills]
      BY <1>1, <1>3
    <2>3. QED
      BY <1>1, <1>2, <2>1, <2>2, AttemptsAssumption, RestartsAssumption DEF ParsingTypeOK
  <1>5. ASSUME NEW d \in Documents
        PROVE  FileControl(d)
    <2>1. CASE d \in start.early
      <3>1. "accepted" \in AllowedVerdicts(file[d])
        BY <1>2, <2>1
      <3>2. /\ file[d].ext # "other" /\ file[d].readable
            /\ ~(file[d].text.length < MIN_TEXT_CHARS) /\ ~Suspicious(file[d].text)
        BY <3>1 DEF AllowedVerdicts
      <3>3. Readable(file[d])
        BY <1>2, <3>2 DEF Readable, Files
      <3>4. /\ step[d] = "recorded" /\ tries[d] = 0 /\ result[d] = "accepted"
            /\ text[d] = Cut(file[d].text, MAX_TEXT_CHARS)
        BY <1>1, <2>1
      <3>5. ~TooShort(text[d]) /\ ~DetectInjection(text[d])
        BY <1>3, <3>2, <3>4
      <3>6. QED
        BY <3>1, <3>3, <3>4, <3>5 DEF FileControl
    <2>2. CASE d \notin start.early
      BY <1>1, <2>2 DEF FileControl
    <2>3. QED
      BY <2>1, <2>2
  <1>6. QED
    BY <1>4, <1>5 DEF ParseInv

\* parse_resume does nothing to a file that is recorded (parsing/pipeline.py:53-99).
LEMMA ParsedOnce ==
  ASSUME NEW d \in Documents, Parse(d)
  PROVE  step[d] # "recorded"
  BY DEF Parse, ExtractNothing, ExtractText, RefuseShort, DetectLanguage, RefuseInjection,
     PassScreen, MockExtract, ExtractorAnswers, ExtractorUnavailable, CallExtractor,
     ExtractorFails, ExtractorRefuses, Record

\* The parsing side of a step: one file goes on, or the process restarts, or nothing
\* happens to files; what is recorded stays.
LEMMA ParseSide ==
  ASSUME ParseInv, [Next]_vars
  PROVE  /\ ParseInv' /\ file' = file
         /\ \A d \in Documents : step[d] = "recorded" =>
              /\ step'[d] = "recorded" /\ text'[d] = text[d]
              /\ result'[d] = result[d] /\ resume'[d] = resume[d]
         /\ config' = config \/ Restart
  <1>1. ASSUME NEW d \in Documents, ParseStep(d)
        PROVE  /\ ParseInv' /\ file' = file /\ config' = config
               /\ \A e \in Documents : step[e] = "recorded" =>
                    /\ step'[e] = "recorded" /\ text'[e] = text[e]
                    /\ result'[e] = result[e] /\ resume'[e] = resume[e]
    <2>1. Parse(d)
      BY <1>1 DEF ParseStep
    <2>2. ParseInv' /\ Alone(d) /\ step[d] # "recorded"
      BY <2>1, ParseKept, ParsedOnce
    <2>3. QED
      BY <2>2 DEF Alone
  <1>2. ASSUME UNCHANGED parseVars
        PROVE  /\ ParseInv' /\ UNCHANGED <<file, config, step, text, result, resume>>
    BY <1>2 DEF parseVars, parsing, ParseInv, ParsingTypeOK, FileControl
  <1>3. ASSUME NEW r \in Requests, Judge(r) \/ \E d \in Documents, q \in Questions : Ask(r, d, q)
        PROVE  UNCHANGED parseVars
    BY <1>3 DEF Judge, CacheHit, CacheMiss, MockJudge, JudgeUnavailable, CallJudge, JudgeAnswers,
       JudgeFails, JudgeRefuses, WriteCache, TakeResult, Ask
  <1>4. CASE Restart
    BY <1>4, RestartKept DEF Restart
  <1>5. CASE Tick \/ UNCHANGED vars
    BY <1>2, <1>5 DEF Tick, vars
  <1>6. QED
    BY <1>1, <1>2, <1>3, <1>4, <1>5 DEF Next

\* Every variable of parse_resume keeps its type: a resume's language is one of the
\* two the schema has, whatever langdetect says, and no file gets more calls than
\* the limit (schemas.py:13-17, pipeline.py:33-50, extractor.py:95-140).
THEOREM ParsingTyped == Spec => []ParsingTypeOK
  <1>1. Init => ParseInv
    BY ParseStart DEF Init
  <1>2. ParseInv /\ [Next]_vars => ParseInv'
    BY ParseSide
  <1>3. ParseInv => ParsingTypeOK
    BY DEF ParseInv
  <1>4. QED
    BY <1>1, <1>2, <1>3, PTL DEF Spec

\* A step of the whole is one of the contract or none: a file that was not recorded
\* gets a verdict its content allows, and a recorded one keeps its own
\* (parsing/pipeline.py:53-99).
LEMMA ContractStep ==
  ASSUME ParseInv, [Next]_vars
  PROVE  [Contract!Next]_(Contract!vars)
  <1> DEFINE given == [d \in Documents |-> IF step[d] = "recorded" THEN result[d] ELSE "pending"]
             may == [d \in Documents |-> AllowedVerdicts(file[d])]
  <1>1. may' = may
    BY ParseSide
  <1>2. ASSUME \A d \in Documents : step'[d] = "recorded" => step[d] = "recorded"
        PROVE  given' = given
    BY <1>2, ParseSide
  <1>3. ASSUME NEW d \in Documents, ParseStep(d)
        PROVE  given' = given \/ Contract!Decide(d)
    <2>1. Alone(d) /\ step[d] # "recorded"
      BY <1>3, ParseKept, ParsedOnce DEF ParseStep
    <2>2. CASE step'[d] # "recorded"
      <3>1. \A e \in Documents : step'[e] = "recorded" => step[e] = "recorded"
        BY <2>1, <2>2 DEF Alone
      <3>2. QED
        BY <1>2, <3>1
    <2>3. CASE step'[d] = "recorded"
      <3>1. result'[d] \in may[d]
        BY <1>1, <2>3, ParseSide DEF ParseInv, FileControl
      <3>2. given[d] = "pending" /\ given'[d] = result'[d]
        BY <2>1, <2>3
      <3>3. \A e \in Documents \ {d} : given'[e] = given[e]
        BY <2>1 DEF Alone
      <3>4. given' = [given EXCEPT ![d] = result'[d]]
        BY <3>2, <3>3
      <3>5. QED
        BY <1>1, <3>1, <3>2, <3>4 DEF Contract!Decide
    <2>4. QED
      BY <2>2, <2>3
  <1>4. ASSUME NEW r \in Requests, Judge(r) \/ \E d \in Documents, q \in Questions : Ask(r, d, q)
        PROVE  UNCHANGED parseVars
    BY <1>4 DEF Judge, CacheHit, CacheMiss, MockJudge, JudgeUnavailable, CallJudge, JudgeAnswers,
       JudgeFails, JudgeRefuses, WriteCache, TakeResult, Ask
  <1>5. ASSUME UNCHANGED parseVars
        PROVE  given' = given
    BY <1>2, <1>5 DEF parseVars, parsing
  <1>6. CASE Restart
    <2>1. \A d \in Documents : step'[d] = "recorded" => step[d] = "recorded"
      BY <1>6, RestartKept DEF Restart
    <2>2. given' = given
      BY <1>2, <2>1
    <2>3. QED
      BY <1>1, <2>2 DEF Contract!vars
  <1>7. CASE Tick \/ UNCHANGED vars
    BY <1>1, <1>5, <1>7 DEF Tick, vars, Contract!vars
  <1>8. QED
    BY <1>1, <1>3, <1>4, <1>5, <1>6, <1>7 DEF Next, Contract!Next, Contract!vars

\* parse_resume keeps the safety of its contract: one verdict per file, one that its
\* content deserves, kept through restarts and changes of settings
\* (parsing/pipeline.py:53-99).
THEOREM VerdictsKeepContract == Spec => Contract!Init /\ [][Contract!Next]_(Contract!vars)
  <1>1. Init => ParseInv
    BY ParseStart DEF Init
  <1>2. ParseInv => Contract!Init
    BY DEF ParseInv, FileControl, Contract!Init
  <1>3. ParseInv /\ [Next]_vars => ParseInv' /\ [Contract!Next]_(Contract!vars)
    BY ParseSide, ContractStep
  <1>4. QED
    BY <1>1, <1>2, <1>3, PTL DEF Spec

----------------------------------------------------------------------------
(* Judging                                                                  *)

Answers ==
    [candidate : Documents, question : Questions, config : Configs,
     matched : SUBSET Skills, confidence : Confidences, at : Nat]

RequestTyped(r) ==
    /\ asked[r] \in (Documents \X Questions) \cup {NoQuestion}
    /\ pc[r] \in {"idle", "lookup", "judge", "reply", "write", "done", "taken", "failed"}
    /\ calls[r] \in 0..JudgeAttempts
    /\ answer[r] \in Answers \cup {NoAnswer}

\* A request that runs asks about a recorded candidate, has attempts left when it is
\* about to call the judge, and holds an answer to its question.
Running(r) == pc[r] \notin {"idle", "taken", "failed"}

Answered(r) ==
    /\ answer[r] \in Answers
    /\ answer[r].candidate = Candidate(r)
    /\ answer[r].question.description = Question(r).description
    /\ answer[r].config.mocks = config.mocks /\ answer[r].config.version = config.version

JudgeControl(r) ==
    /\ Running(r) =>
         /\ asked[r] \in Documents \X Questions
         /\ step[Candidate(r)] = "recorded" /\ result[Candidate(r)] = "accepted"
    /\ pc[r] \in {"idle", "lookup"} => calls[r] = 0
    /\ pc[r] = "judge" => calls[r] < JudgeAttempts
    /\ pc[r] \in {"write", "done"} => Answered(r)
    /\ pc[r] = "done" => \/ answer[r].matched \subseteq text[Candidate(r)].mentions
                         \/ answer[r].confidence = "low"

\* match_cache: an answer under the key of what it answers, for its time to live.
CacheInv ==
    /\ \A e \in cache :
         /\ e.answer \in Answers
         /\ e.key = [candidate |-> e.answer.candidate,
                     description |-> e.answer.question.description,
                     mocks |-> e.answer.config.mocks, version |-> e.answer.config.version]
         /\ e.expires = e.answer.at + TTL
    /\ \A e, f \in cache : e.key = f.key => e = f

RequestsTyped ==
    /\ DOMAIN asked = Requests /\ pc = [q \in Requests |-> pc[q]]
    /\ DOMAIN answer = Requests /\ calls = [q \in Requests |-> calls[q]]
    /\ \A r \in Requests : RequestTyped(r)

JudgeInv ==
    /\ ParseInv /\ now \in 0..MaxTime
    /\ RequestsTyped /\ \A r \in Requests : JudgeControl(r)
    /\ CacheInv

\* What a step of one request leaves alone.
Apart(r) ==
    /\ UNCHANGED <<parseVars, now>>
    /\ DOMAIN asked' = Requests /\ pc' = [q \in Requests |-> pc'[q]]
    /\ DOMAIN answer' = Requests /\ calls' = [q \in Requests |-> calls'[q]]
    /\ \A q \in Requests \ {r} :
         /\ asked'[q] = asked[q] /\ pc'[q] = pc[q]
         /\ calls'[q] = calls[q] /\ answer'[q] = answer[q]

\* The other requests are in order when r and the cache are.
LEMMA ApartKept ==
  ASSUME JudgeInv, NEW r \in Requests, Apart(r), RequestTyped(r)', JudgeControl(r)', CacheInv'
  PROVE  JudgeInv'
  <1>1. ParseInv'
    BY DEF JudgeInv, Apart, parseVars, parsing, ParseInv, ParsingTypeOK, FileControl
  <1>2. ASSUME NEW q \in Requests, q # r
        PROVE  RequestTyped(q)' /\ JudgeControl(q)'
    BY <1>2 DEF JudgeInv, RequestsTyped, Apart, RequestTyped, JudgeControl, Running, Answered,
       Candidate, Question, parseVars, parsing
  <1>3. QED
    BY <1>1, <1>2 DEF JudgeInv, RequestsTyped, Apart

\* The check of the skills keeps what an answer is about, and marks an answer that
\* claims what the text does not bear out (anti_hallucination.py:43-73).
LEMMA VerifyMarks ==
  ASSUME NEW c, NEW a \in Answers
  PROVE  LET v == Verify(c, a)
         IN  /\ v \in Answers /\ v.candidate = a.candidate /\ v.question = a.question
             /\ v.config = a.config /\ v.at = a.at
             /\ v.matched \subseteq text[c].mentions \/ v.confidence = "low"
  BY DEF Verify, Answers, Confidences

\* A row of the cache under the key of a request answers what the request asks
\* (llm_judge.py:165-174, 203-216).
LEMMA HitFits ==
  ASSUME CacheInv, NEW r \in Requests, NEW e \in cache, e.key = KeyOf(r)
  PROVE  /\ e.answer \in Answers /\ e.answer.candidate = Candidate(r)
         /\ e.answer.question.description = Question(r).description
         /\ e.answer.config.mocks = config.mocks /\ e.answer.config.version = config.version
         /\ e.expires = e.answer.at + TTL
  <1>1. /\ e.key.candidate = Candidate(r) /\ e.key.description = Question(r).description
        /\ e.key.mocks = config.mocks /\ e.key.version = config.version
    BY DEF KeyOf, Key
  <1>2. /\ e.key.candidate = e.answer.candidate
        /\ e.key.description = e.answer.question.description
        /\ e.key.mocks = e.answer.config.mocks /\ e.key.version = e.answer.config.version
    <2>1. e.key = [candidate |-> e.answer.candidate,
                   description |-> e.answer.question.description,
                   mocks |-> e.answer.config.mocks, version |-> e.answer.config.version]
      BY DEF CacheInv
    <2>2. QED
      BY <2>1
  <1>3. e.answer \in Answers /\ e.expires = e.answer.at + TTL
    BY DEF CacheInv
  <1>4. QED
    BY <1>1, <1>2, <1>3

\* An answer that is given is an answer to the question, checked against the text.
LEMMA GiveAnswers ==
  ASSUME JudgeInv, NEW r \in Requests, Running(r), NEW a \in Answers, NEW hit \in BOOLEAN,
         Give(r, a, hit), UNCHANGED <<parseVars, now, asked, calls>>,
         a.candidate = Candidate(r), a.question.description = Question(r).description,
         a.config.mocks = config.mocks, a.config.version = config.version
  PROVE  /\ Apart(r) /\ RequestTyped(r)' /\ JudgeControl(r)'
         /\ answer'[r].at = a.at
  <1> DEFINE v == Verify(Candidate(r), a)
  <1>1. /\ v \in Answers /\ v.candidate = a.candidate /\ v.question = a.question
        /\ v.config = a.config /\ v.at = a.at
        /\ v.matched \subseteq text[Candidate(r)].mentions \/ v.confidence = "low"
    BY VerifyMarks
  <1>2. /\ answer' = [answer EXCEPT ![r] = v] /\ pc' = [pc EXCEPT ![r] = "done"]
    BY DEF Give, Verified, Proceed
  <1> HIDE DEF v
  <1>3. answer'[r] = v /\ pc'[r] = "done" /\ Apart(r)
    BY <1>2 DEF JudgeInv, RequestsTyped, Apart
  <1>4. UNCHANGED <<config, step, result, text, asked, calls>>
    BY DEF parseVars, parsing
  <1>5. RequestTyped(r)'
    BY <1>1, <1>3, <1>4 DEF JudgeInv, RequestsTyped, RequestTyped
  <1>6. Candidate(r)' = Candidate(r) /\ Question(r)' = Question(r)
    BY <1>4 DEF Candidate, Question
  <1>7. JudgeControl(r)'
    BY <1>1, <1>3, <1>4, <1>6 DEF JudgeInv, JudgeControl, Running, Answered
  <1>8. QED
    BY <1>1, <1>3, <1>5, <1>7

\* A request that has failed or was answered holds nothing
\* (llm_judge.py:129-153).
LEMMA LeaveKept ==
  ASSUME JudgeInv, NEW r \in Requests, NEW s \in {"taken", "failed"}, Leave(r, s),
         UNCHANGED <<parseVars, now, cache>>
  PROVE  JudgeInv'
  <1>1. /\ asked' = [asked EXCEPT ![r] = NoQuestion] /\ calls' = [calls EXCEPT ![r] = 0]
        /\ answer' = [answer EXCEPT ![r] = NoAnswer] /\ pc' = [pc EXCEPT ![r] = s]
    BY DEF Leave, Proceed
  <1>2. Apart(r) /\ asked'[r] = NoQuestion /\ calls'[r] = 0 /\ answer'[r] = NoAnswer /\ pc'[r] = s
    BY <1>1 DEF JudgeInv, RequestsTyped, Apart
  <1>3. RequestTyped(r)'
    BY <1>2, JudgeAttemptsAssumption DEF RequestTyped
  <1>4. JudgeControl(r)'
    BY <1>2 DEF JudgeControl, Running
  <1>5. CacheInv'
    BY DEF JudgeInv, CacheInv
  <1>6. QED
    BY <1>2, <1>3, <1>4, <1>5, ApartKept

\* Judging a candidate keeps JudgeInv: a hit answers the same question, the cache has
\* one row per key, and there are attempts left for every call
\* (llm_judge.py:149-239).
LEMMA JudgeKept ==
  ASSUME JudgeInv, NEW r \in Requests,
         Judge(r) \/ \E d \in Documents, q \in Questions : Ask(r, d, q)
  PROVE  JudgeInv'
  <1>0. /\ JudgeControl(r) /\ RequestTyped(r) /\ CacheInv /\ ParsingTypeOK
        /\ DOMAIN asked = Requests /\ pc = [q \in Requests |-> pc[q]]
        /\ DOMAIN answer = Requests /\ calls = [q \in Requests |-> calls[q]]
        /\ JudgeAttempts \in Nat /\ JudgeAttempts > 0 /\ now \in Nat
    BY JudgeAttemptsAssumption, TimeAssumption DEF JudgeInv, RequestsTyped, ParseInv
  <1>1. ASSUME NEW d \in Documents, NEW q \in Questions, Ask(r, d, q)
        PROVE  JudgeInv'
    <2>1. /\ pc[r] = "idle" /\ step[d] = "recorded" /\ result[d] = "accepted"
          /\ asked' = [asked EXCEPT ![r] = <<d, q>>] /\ pc' = [pc EXCEPT ![r] = "lookup"]
          /\ UNCHANGED <<parseVars, now, calls, answer, cache>>
      BY <1>1 DEF Ask, Proceed
    <2>2. Apart(r) /\ asked'[r] = <<d, q>> /\ pc'[r] = "lookup"
      BY <1>0, <2>1 DEF Apart
    <2>3. RequestTyped(r)'
      BY <1>0, <2>1, <2>2 DEF RequestTyped
    <2>4. JudgeControl(r)'
      BY <1>0, <2>1, <2>2 DEF JudgeControl, Running, Candidate, parseVars, parsing
    <2>5. CacheInv'
      BY <1>0, <2>1 DEF CacheInv
    <2>6. QED
      BY <2>2, <2>3, <2>4, <2>5, ApartKept
  <1>2. CASE CacheHit(r)
    <2>1. PICK e \in Hits(r) : Give(r, e.answer, TRUE)
      BY <1>2 DEF CacheHit
    <2>2. /\ e \in cache /\ e.key = KeyOf(r) /\ Running(r)
          /\ UNCHANGED <<parseVars, now, asked, calls>> /\ UNCHANGED cache
      BY <1>2, <2>1 DEF CacheHit, Hits, Running
    <2>3. /\ e.answer \in Answers /\ e.answer.candidate = Candidate(r)
          /\ e.answer.question.description = Question(r).description
          /\ e.answer.config.mocks = config.mocks /\ e.answer.config.version = config.version
      BY <1>0, <2>2, HitFits
    <2>4. Apart(r) /\ RequestTyped(r)' /\ JudgeControl(r)'
      BY <2>1, <2>2, <2>3, GiveAnswers
    <2>5. CacheInv'
      BY <1>0, <2>2 DEF CacheInv
    <2>6. QED
      BY <2>4, <2>5, ApartKept
  <1>3. ASSUME NEW s \in {"judge", "reply"}, NEW n \in 0..JudgeAttempts, Running(r),
               pc' = [pc EXCEPT ![r] = s], calls' = [calls EXCEPT ![r] = n],
               s = "judge" => n < JudgeAttempts,
               UNCHANGED <<parseVars, now, asked, answer, cache>>
        PROVE  JudgeInv'
    <2>1. Apart(r) /\ pc'[r] = s /\ calls'[r] = n
      BY <1>0, <1>3 DEF Apart
    <2>2. RequestTyped(r)'
      BY <1>0, <1>3, <2>1 DEF RequestTyped
    <2>3. JudgeControl(r)'
      BY <1>0, <1>3, <2>1 DEF JudgeControl, Running, Candidate, parseVars, parsing
    <2>4. CacheInv'
      BY <1>0, <1>3 DEF CacheInv
    <2>5. QED
      BY <2>1, <2>2, <2>3, <2>4, ApartKept
  <1>4. CASE CacheMiss(r)
    <2>1. /\ pc[r] = "lookup" /\ pc' = [pc EXCEPT ![r] = "judge"]
          /\ UNCHANGED <<parseVars, now, asked, calls, answer, cache>>
      BY <1>4 DEF CacheMiss, Proceed
    <2>2. calls' = [calls EXCEPT ![r] = 0]
      BY <1>0, <2>1 DEF JudgeControl
    <2>3. 0 \in 0..JudgeAttempts /\ 0 < JudgeAttempts /\ Running(r)
      BY <1>0, <2>1 DEF Running
    <2>4. QED
      BY <1>3, <2>1, <2>2, <2>3
  <1>5. CASE CallJudge(r)
    <2>1. /\ pc[r] = "judge" /\ pc' = [pc EXCEPT ![r] = "reply"]
          /\ calls' = [calls EXCEPT ![r] = calls[r] + 1]
          /\ UNCHANGED <<parseVars, now, asked, answer, cache>>
      BY <1>5 DEF CallJudge, Proceed
    <2>2. calls[r] + 1 \in 0..JudgeAttempts /\ Running(r)
      BY <1>0, <2>1 DEF JudgeControl, RequestTyped, Running
    <2>3. QED
      BY <1>3, <2>1, <2>2
  <1>6. CASE JudgeFails(r) /\ MayRetry(calls[r], JudgeAttempts)
    <2>1. /\ pc[r] = "reply" /\ pc' = [pc EXCEPT ![r] = "judge"] /\ calls[r] < JudgeAttempts
          /\ UNCHANGED <<parseVars, now, asked, calls, answer, cache>>
      BY <1>6 DEF JudgeFails, Proceed, MayRetry
    <2>2. calls' = [calls EXCEPT ![r] = calls[r]] /\ calls[r] \in 0..JudgeAttempts /\ Running(r)
      BY <1>0, <2>1 DEF RequestTyped, Running
    <2>3. QED
      BY <1>3, <2>1, <2>2
  <1>7. CASE JudgeUnavailable(r) \/ JudgeRefuses(r) \/ TakeResult(r)
             \/ (JudgeFails(r) /\ ~MayRetry(calls[r], JudgeAttempts))
    <2>1. \E s \in {"taken", "failed"} : Leave(r, s) /\ UNCHANGED <<parseVars, now, cache>>
      BY <1>7 DEF JudgeUnavailable, JudgeRefuses, TakeResult, JudgeFails, Abandon
    <2>2. QED
      BY <2>1, LeaveKept
  <1>8. ASSUME NEW matched \in SUBSET Skills, NEW confidence \in Confidences, Running(r),
               Conclude(r, matched, confidence),
               UNCHANGED <<parseVars, now, asked, calls, cache>>
        PROVE  JudgeInv'
    <2> DEFINE a == Judgement(r, matched, confidence)
    <2>1. Candidate(r) \in Documents /\ Question(r) \in Questions /\ config \in Configs
      BY <1>0, <1>8 DEF JudgeControl, Candidate, Question, ParsingTypeOK
    <2>2. /\ a \in Answers /\ a.candidate = Candidate(r) /\ a.question = Question(r)
          /\ a.config = config
      BY <1>0, <2>1 DEF Judgement, Answers
    <2>3. answer' = [answer EXCEPT ![r] = a] /\ pc' = [pc EXCEPT ![r] = "write"]
      BY <1>8 DEF Conclude, Proceed
    <2> HIDE DEF a
    <2>4. Apart(r) /\ answer'[r] = a /\ pc'[r] = "write"
      BY <1>0, <1>8, <2>3 DEF Apart
    <2>5. RequestTyped(r)'
      BY <1>0, <1>8, <2>2, <2>4 DEF RequestTyped
    <2>6. JudgeControl(r)'
      BY <1>0, <1>8, <2>2, <2>4
      DEF JudgeControl, Running, Answered, Candidate, Question, parseVars, parsing
    <2>7. CacheInv'
      BY <1>0, <1>8 DEF CacheInv
    <2>8. QED
      BY <2>4, <2>5, <2>6, <2>7, ApartKept
  <1>9. CASE MockJudge(r)
    <2>1. /\ Running(r) /\ Conclude(r, Question(r).required \cap resume[Candidate(r)], "medium")
          /\ UNCHANGED <<parseVars, now, asked, calls, cache>>
      BY <1>9 DEF MockJudge, Running
    <2>2. Candidate(r) \in Documents
      BY <1>0, <2>1 DEF JudgeControl, Candidate
    <2>3. Question(r).required \cap resume[Candidate(r)] \in SUBSET Skills
      BY <1>0, <2>2 DEF ParsingTypeOK
    <2>4. "medium" \in Confidences
      BY DEF Confidences
    <2>5. QED
      BY <1>8, <2>1, <2>3, <2>4
  <1>10. ASSUME NEW matched \in SUBSET Skills, JudgeAnswers(r, matched)
         PROVE  JudgeInv'
    <2>1. /\ Running(r) /\ Conclude(r, matched, "high") /\ "high" \in Confidences
          /\ UNCHANGED <<parseVars, now, asked, calls, cache>>
      BY <1>10 DEF JudgeAnswers, Running, Confidences
    <2>2. QED
      BY <1>8, <2>1
  <1>11. CASE WriteCache(r)
    <2> DEFINE a == answer[r]
               row == [key |-> KeyOf(r), answer |-> a, expires |-> a.at + TTL]
    <2>1. /\ Running(r) /\ pc[r] = "write" /\ Give(r, a, FALSE)
          /\ cache' = Others(KeyOf(r)) \cup {row}
          /\ UNCHANGED <<parseVars, now, asked, calls>>
      BY <1>11 DEF WriteCache, Running
    <2>2. /\ a \in Answers /\ a.candidate = Candidate(r)
          /\ a.question.description = Question(r).description
          /\ a.config.mocks = config.mocks /\ a.config.version = config.version
      BY <1>0, <2>1 DEF JudgeControl, Answered
    <2>3. Apart(r) /\ RequestTyped(r)' /\ JudgeControl(r)'
      BY <2>1, <2>2, GiveAnswers
    <2>4. /\ row.key = KeyOf(r) /\ row.answer = a /\ row.expires = a.at + TTL
          /\ KeyOf(r) = [candidate |-> a.candidate, description |-> a.question.description,
                         mocks |-> a.config.mocks, version |-> a.config.version]
      BY <2>2 DEF KeyOf, Key
    <2> HIDE DEF row
    <2>5. \A e \in cache' : (e \in cache /\ e.key # KeyOf(r)) \/ e = row
      BY <2>1 DEF Others
    <2>6. CacheInv'
      BY <1>0, <2>2, <2>4, <2>5 DEF CacheInv
    <2>7. QED
      BY <2>3, <2>6, ApartKept
  <1>12. QED
    BY <1>1, <1>2, <1>4, <1>5, <1>6, <1>7, <1>9, <1>10, <1>11 DEF Judge

\* Every step keeps JudgeInv: requests do not outlive the settings they were started
\* with (config.py:20-60, main.py:31-60).
LEMMA JudgeStep ==
  JudgeInv /\ [Next]_vars => JudgeInv'
  <1> SUFFICES ASSUME JudgeInv, [Next]_vars
               PROVE  JudgeInv'
    OBVIOUS
  <1>0. /\ ParseInv'
        /\ \A d \in Documents : step[d] = "recorded" =>
             step'[d] = "recorded" /\ text'[d] = text[d] /\ result'[d] = result[d]
    BY ParseSide DEF JudgeInv
  <1>1. ASSUME UNCHANGED <<judging, cache>>, config' = config, now' \in 0..MaxTime
        PROVE  JudgeInv'
    <2>1. \A r \in Requests : RequestTyped(r)' /\ JudgeControl(r)'
      BY <1>0, <1>1 DEF JudgeInv, RequestsTyped, RequestTyped, JudgeControl, Running, Answered,
         Candidate, Question, judging
    <2>2. CacheInv'
      BY <1>1 DEF JudgeInv, CacheInv
    <2>3. QED
      BY <1>0, <1>1, <2>1, <2>2 DEF JudgeInv, RequestsTyped, judging
  <1>2. ASSUME NEW d \in Documents, ParseStep(d)
        PROVE  JudgeInv'
    <2>1. UNCHANGED <<now, judging, cache>> /\ config' = config
      BY <1>2, ParseKept DEF ParseStep, Alone, JudgeInv
    <2>2. QED
      BY <1>1, <2>1 DEF JudgeInv
  <1>3. CASE Tick
    <2>1. UNCHANGED <<parseVars, judging, cache>> /\ now' \in 0..MaxTime
      BY <1>3, TimeAssumption DEF Tick, JudgeInv
    <2>2. QED
      BY <1>1, <2>1 DEF parseVars
  <1>4. CASE Restart
    <2>1. \A r \in Requests : /\ pc'[r] \in {"idle", "taken", "failed"}
                              /\ asked'[r] = NoQuestion /\ calls'[r] = 0 /\ answer'[r] = NoAnswer
      BY <1>4 DEF Restart, JudgeInv, RequestsTyped, RequestTyped
    <2>2. \A r \in Requests : RequestTyped(r)' /\ JudgeControl(r)'
      BY <2>1, JudgeAttemptsAssumption DEF RequestTyped, JudgeControl, Running
    <2>3. CacheInv' /\ now' \in 0..MaxTime
      BY <1>4 DEF Restart, JudgeInv, CacheInv
    <2>4. QED
      BY <1>0, <1>4, <2>2, <2>3 DEF Restart, JudgeInv, RequestsTyped
  <1>5. CASE UNCHANGED vars
    BY <1>1, <1>5 DEF vars, parseVars, JudgeInv
  <1>6. QED
    BY <1>2, <1>3, <1>4, <1>5, JudgeKept DEF Next

\* At the start nobody has asked and nothing is cached.
LEMMA JudgeStart == Init => JudgeInv
  <1> SUFFICES ASSUME Init
               PROVE  JudgeInv
    OBVIOUS
  <1>1. ParseInv /\ now \in 0..MaxTime
    BY ParseStart, TimeAssumption DEF Init
  <1>2. RequestsTyped
    BY JudgeAttemptsAssumption DEF Init, RequestsTyped, RequestTyped
  <1>3. (\A r \in Requests : JudgeControl(r)) /\ CacheInv
    BY DEF Init, JudgeControl, Running, CacheInv
  <1>4. QED
    BY <1>1, <1>2, <1>3 DEF JudgeInv

\* Every variable of the judge keeps its type, no request makes more calls than the
\* limit, and match_cache has one row per key (db.py:151-161, llm_judge.py:165-239).
THEOREM JudgingTyped == Spec => []JudgingTypeOK
  <1>1. JudgeInv => JudgingTypeOK
    <2> SUFFICES ASSUME JudgeInv
                 PROVE  JudgingTypeOK
      OBVIOUS
    <2>1. /\ \A r \in Requests : pc[r] \notin {"idle", "taken", "failed"}
                                   => asked[r] \in Documents \X Questions
      BY DEF JudgeInv, JudgeControl, Running
    <2>2. pc = [r \in Requests |-> pc[r]] /\ calls = [r \in Requests |-> calls[r]]
      BY DEF JudgeInv, RequestsTyped
    <2>3. QED
      BY <2>1, <2>2 DEF JudgeInv, RequestsTyped, RequestTyped, CacheInv, JudgingTypeOK
  <1>2. QED
    BY <1>1, JudgeStart, JudgeStep, PTL DEF Spec

\* Whoever missed, wrote or hit the cache, and whatever settings there were before: a
\* result is about the candidate and the text of the job asked about, by the model
\* and with the prompt in use (llm_judge.py:165-174, 203-216).
THEOREM AnswersAreApt == Spec => []AnswersTheQuestion
  <1>1. JudgeInv => AnswersTheQuestion
    BY DEF JudgeInv, JudgeControl, Answered, AnswersTheQuestion
  <1>2. QED
    BY <1>1, JudgeStart, JudgeStep, PTL DEF Spec

\* A claim that the text does not bear out is never given with more than low
\* confidence, from the judge or from the cache (anti_hallucination.py:43-73).
THEOREM InventionsAreFlagged == Spec => []InventionsFlagged
  <1>1. JudgeInv => InventionsFlagged
    BY DEF JudgeInv, JudgeControl, InventionsFlagged
  <1>2. QED
    BY <1>1, JudgeStart, JudgeStep, PTL DEF Spec

\* The provider only gets text that has passed the length check, the cut and all
\* layers of the filter (parsing/pipeline.py:59-97, matching/prompts.py:82).
THEOREM ProviderGetsScreened == Spec => []OnlyScreenedSent
  <1>1. JudgeInv => OnlyScreenedSent
    <2> SUFFICES ASSUME JudgeInv
                 PROVE  OnlyScreenedSent
      OBVIOUS
    <2>1. ASSUME NEW d \in Documents, step[d] = "reply" \/ result[d] = "accepted"
          PROVE  text[d] \in Texts /\ Screened(text[d])
      <3>1. /\ file[d].text \in Texts /\ text[d] = Cut(file[d].text, MAX_TEXT_CHARS)
            /\ ~TooShort(text[d]) /\ ~DetectInjection(text[d])
        BY <2>1 DEF JudgeInv, ParseInv, ParsingTypeOK, Files, FileControl
      <3>2. QED
        BY <3>1, CutText, FilterFinds, Limits
    <2>2. ASSUME NEW r \in Requests, pc[r] = "reply"
          PROVE  Screened(Prompt(r))
      <3>1. Candidate(r) \in Documents /\ result[Candidate(r)] = "accepted"
        BY <2>2 DEF JudgeInv, JudgeControl, Running, Candidate
      <3>2. QED
        BY <2>1, <3>1, PromptScreened DEF Prompt
    <2>3. QED
      BY <2>1, <2>2 DEF OnlyScreenedSent
  <1>2. QED
    BY <1>1, JudgeStart, JudgeStep, PTL DEF Spec

\* An answer from the cache is given within its time to live
\* (llm_judge.py:211-216, 220).
THEOREM HitsStayFresh == Spec => HitsAreFresh
  <1> DEFINE Given == \A r \in Requests : pc[r] = "lookup" /\ pc'[r] = "done"
                                            => now < answer'[r].at + TTL
  <1>1. JudgeInv /\ [Next]_vars => [Given]_vars
    <2> SUFFICES ASSUME JudgeInv, Next, NEW r \in Requests, pc[r] = "lookup", pc'[r] = "done"
                 PROVE  now < answer'[r].at + TTL
      OBVIOUS
    <2>1. CASE CacheHit(r)
      <3>1. PICK e \in Hits(r) : Give(r, e.answer, TRUE)
        BY <2>1 DEF CacheHit
      <3>2. /\ e \in cache /\ e.key = KeyOf(r) /\ Running(r) /\ e.expires > now
            /\ UNCHANGED <<parseVars, now, asked, calls>>
        BY <2>1, <3>1 DEF CacheHit, Hits, Running, Fresh
      <3>3. /\ e.answer \in Answers /\ e.answer.candidate = Candidate(r)
            /\ e.answer.question.description = Question(r).description
            /\ e.answer.config.mocks = config.mocks /\ e.answer.config.version = config.version
            /\ e.expires = e.answer.at + TTL
        BY <3>2, HitFits DEF JudgeInv
      <3>4. answer'[r].at = e.answer.at
        BY <3>1, <3>2, <3>3, GiveAnswers
      <3>5. QED
        BY <3>2, <3>3, <3>4, TimeAssumption DEF JudgeInv, Answers
    <2>2. ASSUME NEW q \in Requests,
                 Judge(q) \/ \E d \in Documents, j \in Questions : Ask(q, d, j)
          PROVE  CacheHit(r)
      <3>1. pc = [i \in Requests |-> pc[i]]
        BY DEF JudgeInv, RequestsTyped
      <3>2. CASE q # r
        <4>1. pc'[r] = pc[r]
          BY <2>2, <3>1, <3>2 DEF Judge, CacheHit, CacheMiss, MockJudge, JudgeUnavailable,
             CallJudge, JudgeAnswers, JudgeFails, JudgeRefuses, WriteCache, TakeResult, Ask, Give,
             Conclude, Abandon, Leave, Proceed
        <4>2. QED
          BY <4>1
      <3>3. CASE q = r
        BY <2>2, <3>1, <3>3 DEF Judge, CacheMiss, MockJudge, JudgeUnavailable, CallJudge,
           JudgeAnswers, JudgeFails, JudgeRefuses, WriteCache, TakeResult, Ask, Proceed
      <3>4. QED
        BY <3>2, <3>3
    <2>3. ASSUME NEW d \in Documents, ParseStep(d)
          PROVE  FALSE
      BY <2>3 DEF ParseStep, judging
    <2>4. CASE Tick
      BY <2>4 DEF Tick, judging
    <2>5. CASE Restart
      BY <2>5 DEF Restart
    <2>6. QED
      BY <2>1, <2>2, <2>3, <2>4, <2>5 DEF Next
  <1>2. QED
    BY <1>1, JudgeStart, JudgeStep, PTL DEF Spec, HitsAreFresh

=============================================================================
