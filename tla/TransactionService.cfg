\* One worker process: the locks of _account_lock exclude each other.  Liveness under the
\* fairness of thread scheduling; no symmetry, which liveness does not allow.
CONSTANTS
    t1 = t1
    t2 = t2
    w1 = w1
    w2 = w2
    Threads <- MCThreads
    Workers = {w1}
    WorkerOf <- OneWorker
    Accounts = {1, 2}
    k1 = k1
    k2 = k2
    Keys = {k1}
    NoKey = NoKey
    Amounts = {1}
    OpeningRow <- MCOpeningRow
    MaxRequests = 3
    MaxCrashes = 1
    MaxFaults = 1
    SavepointMayFail = FALSE
SPECIFICATION FairSpec
INVARIANTS
    TypeOK
    StatementAddsUp
    NeverOverdrawn
    DoubleEntry
    KeyTellsOutcome
PROPERTIES
    ImplementsBank
    EveryCallReturns
