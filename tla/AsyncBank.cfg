SPECIFICATION Spec
SYMMETRY TaskSymmetry
CONSTANTS
    Tasks = {t1, t2}
    Accounts = {1, 2, 3}
    Goals = {1, 2}
    k1 = k1
    Keys = {k1}
    NoKey = NoKey
    OpeningAccounts <- MCOpeningAccounts
    OpeningGoals <- MCOpeningGoals
    Calls <- MCCalls
    Menus <- MCMenus
    MaxAttempts = 2
    Lockout = 1
INVARIANTS
    TypeOK
    MoneyIsKept
    AnswersTellOutcome
    KeysMoveOnce
