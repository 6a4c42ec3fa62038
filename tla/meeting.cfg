SPECIFICATION Spec
CONSTANTS
    j1 = j1  c1 = c1  c2 = c2
    NoJob = NoJob  NoCandidate = NoCandidate
    Jobs = {j1}
    Candidates = {c1, c2}
    Requests = {r1, r2}
    Operations <- AllOperations
    PoolSize = 3
    FailAt <- Calls
INVARIANTS TypeOK MatchesRefer AnswersRecorded GhostsFiltered
SYMMETRY MCSymmetry
CHECK_DEADLOCK FALSE
