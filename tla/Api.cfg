SPECIFICATION Spec
SYMMETRY ThreadSymmetry
CONSTANTS
    Threads = {t1, t2}
    Accounts = {1, 2, 3}
    Loans = {1, 2}
    Goals = {1, 2, 3}
    OpeningAccounts <- MCOpeningAccounts
    OpeningLoans <- MCOpeningLoans
    OpeningGoals <- MCOpeningGoals
    Requests <- MCRequests
    Menus <- MCMenus
    MaxOps = 2
    Window = 2
    Ttl = 2
    PageSize = 1
    MiniLimit = 2
INVARIANTS
    TypeOK
    LimiterHolds
    ListTellsStatus
    AnswersTellOutcome
    CreatedIsShown
    WalksAreComplete
    ReportsAddUp
