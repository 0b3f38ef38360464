SPECIFICATION Spec
SYMMETRY ThreadSymmetry
CONSTANTS
    Threads = {t1, t2}
    alice = alice
    frank = frank
    nobody = nobody
    admin = admin
    Customers <- MCCustomers
    OpeningCustomers <- MCOpeningCustomers
    Admin = admin
    NoOne = no_one
    MaxAttempts = 2
    LockoutMinutes = 1
    AccessMinutes = 1
    RefreshMinutes = 2
    Menus <- MCMenus
    MaxCalls = 5
    MaxClock = 3
    MaxFaults = 1
INVARIANTS
    TypeOK
    GuessesAreCounted
    RefreshedOnce
    EnabledSecretIsProven
PROPERTIES
    LockHolds
    LockedIsTrue
    PasswordEndsAccess
