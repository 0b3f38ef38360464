SPECIFICATION Spec
SYMMETRY ThreadSymmetry
CONSTANTS
    Threads = {t1, t2}
    Accounts = {1, 2}
    Loans = {1, 2}
    Goals = {1, 2}
    OpeningAccounts <- MCOpeningAccounts
    OpeningLoans <- MCOpeningLoans
    OpeningGoals <- MCOpeningGoals
    Calls <- MCCalls
    Menus <- MCMenus
    MaxCrashes = 1
INVARIANTS
    TypeOK
    MoneyIsKept
    LoanBooksAddUp
    LoansMatchStatements
    GoalsAreMarked
    BalancesStayPositive
    AuditTellsTheTruth
PROPERTIES
    IdleMoneyStays
