SPECIFICATION MCSpec
CONSTANTS
    a = a  b = b  d = d
    Clients = {a, b}
    Titles = {"python"}
    Languages = {"ru"}
    NoLanguage = NoLanguage
    SeedTitle <- NoSeeds
    SeedLanguage <- NoSeeds
    MayBreak = {}
    MaxId = 2
    MaxStarts = 2
    Documents = {d}
    NoDocument = NoDocument
    NoCache = NoCache
    FailAt = {"parse"}
    MaxClicks <- MCMaxClicks
INVARIANT ToldTrue
PROPERTY RunsEnd
CHECK_DEADLOCK FALSE
