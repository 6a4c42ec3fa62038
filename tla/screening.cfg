SPECIFICATION Spec
CONSTANTS
    d1 = d1  d2 = d2
    s1 = s1
    r1 = r1  r2 = r2
    NoText = NoText  NoQuestion = NoQuestion  NoAnswer = NoAnswer
    Documents = {d1, d2}
    Starts <- MCStarts
    Skills = {s1}
    Configs <- MCConfigs
    ExtractAttempts = 2
    MaxRestarts = 1
    Requests = {r1, r2}
    Descriptions = {"text"}
    Questions <- MCQuestions
    JudgeAttempts = 2
    TTL = 1
    MaxTime = 1
INVARIANTS ParsingTypeOK OnlyScreenedSent JudgingTypeOK AnswersTheQuestion InventionsFlagged
PROPERTIES HitsAreFresh KeepsContract TasksEnd
CHECK_DEADLOCK FALSE
