\* Three processes want two megabytes each of three.
CONSTANTS
    p1 = p1
    p2 = p2
    p3 = p3
    Procs = {p1, p2, p3}
    NoPid = NoPid
    WORD = 16
    AvailableMb = 3
    AssignedMb <- MCAssigned
    LoanMb = 1
    mLoanMemory = FALSE
    OomMonitor = FALSE
    Controlled = TRUE
SPECIFICATION Spec
CHECK_DEADLOCK FALSE
INVARIANTS
    LedgerBalances
