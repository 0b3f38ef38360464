\* Two worker processes, no failure: the account locks do not reach across.
CONSTANTS
    t1 = t1
    t2 = t2
    w1 = w1
    w2 = w2
    Threads <- MCThreads
    Workers = {w1, w2}
    WorkerOf <- TwoWorkers
    Accounts = {1, 2}
    k1 = k1
    k2 = k2
    Keys = {k1}
    NoKey = NoKey
    Amounts = {1}
    OpeningRow <- MCOpeningRow
    MaxRequests = 2
    MaxCrashes = 0
    MaxFaults = 0
    SavepointMayFail = FALSE
SPECIFICATION Spec
INVARIANTS
    StatementAddsUp
