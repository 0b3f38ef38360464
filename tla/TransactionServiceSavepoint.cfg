\* Two workers whose savepoints may fail: a claim left in an idle session makes
\* another INSERT of its key wait for good, so the system may stop.
CONSTANTS
    t1 = t1
    t2 = t2
    w1 = w1
    w2 = w2
    Threads <- MCThreads
    Workers = {w1, w2}
    WorkerOf <- TwoWorkers
    Accounts = {1, 2}
    k1 = k1
    k2 = k2
    Keys = {k1, k2}
    NoKey = NoKey
    Amounts = {1}
    OpeningRow <- MCOpeningRow
    MaxRequests = 3
    MaxCrashes = 0
    MaxFaults = 1
    SavepointMayFail = TRUE
CHECK_DEADLOCK FALSE
SPECIFICATION Spec
INVARIANTS
    KeyMovesOnce
    SuccessIsRecorded
