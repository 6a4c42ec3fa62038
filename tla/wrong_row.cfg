SPECIFICATION MCSpec
CONSTANTS
    a = a  b = b  d = d
    Clients = {a, b}
    Titles = {"python"}
    Languages = {"ru"}
    NoLanguage = NoLanguage
    SeedTitle <- NoSeeds
    SeedLanguage <- NoSeeds
    MayBreak = {}
    MaxId = 2
    MaxStarts = 1
    Documents = {}
    NoDocument = NoDocument
    NoCache = NoCache
    FailAt = {}
    MaxClicks <- MCMaxClicks
INVARIANT DeletesTheShown
CHECK_DEADLOCK FALSE
