SPECIFICATION Spec
CONSTANTS
    j1 = j1  c1 = c1  c2 = c2
    NoJob = NoJob  NoCandidate = NoCandidate
    Jobs = {j1}
    Candidates = {c1}
    Requests = {r1, r2}
    Operations <- DeletionsOnly
    PoolSize = 3
    FailAt = {}
INVARIANT Forgotten
CHECK_DEADLOCK FALSE
