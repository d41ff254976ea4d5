\* The wait for a borrower that is never repaid.
CONSTANTS
    p1 = p1
    p2 = p2
    p3 = p3
    Procs = {p1, p2}
    NoPid = NoPid
    WORD = 16
    AvailableMb = 3
    AssignedMb <- MCAssigned
    LoanMb = 1
    mLoanMemory = TRUE
    OomMonitor = TRUE
    Controlled = TRUE
SPECIFICATION FairSpec
CHECK_DEADLOCK FALSE
PROPERTIES
    SpawnReturns
