SPECIFICATION Spec
SYMMETRY TerminalSymmetry
CONSTANTS
    Terminals = {t1, t2}
    simon = simon
    manager = manager
    OpeningAccounts <- MCOpeningAccounts
    OpeningLoans <- MCOpeningLoans
    OpeningGoals <- MCOpeningGoals
    NewAccounts = {3}
    Simon = simon
    AdminName = manager
    Timeout = 1
    ApiCalls <- MCApiCalls
    Menus <- MCMenus
    MaxClock = 1
INVARIANTS
    TypeOK
    SessionBalanceIsTrue
    MoneyIsKept
    OneFirstAdmin
PROPERTIES
    ConfirmedIsDone
