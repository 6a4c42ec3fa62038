SPECIFICATION Spec
CONSTANTS
    j1 = j1  c1 = c1  c2 = c2
    NoJob = NoJob  NoCandidate = NoCandidate
    Jobs = {j1}
    Candidates = {c1}
    Requests = {r1, r2, r3}
    Operations <- WaitingOperations
    PoolSize = 3
    FailAt = {"judge"}
PROPERTIES EventuallyAnswered
CHECK_DEADLOCK FALSE
