SPECIFICATION Spec
CONSTANTS
    Threads = {t1, t2}
    Accounts = {1, 2}
    Loans = {1, 2}
    Goals = {1, 2}
    OpeningAccounts <- MCOpeningAccounts
    OpeningLoans <- MCOpeningLoans
    OpeningGoals <- MCOpeningGoals
    Calls <- MCCalls
    Menus <- MCLendingMenus
    MaxCrashes = 0
INVARIANT
    DisbursedOnce
