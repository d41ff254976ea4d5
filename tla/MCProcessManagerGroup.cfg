\* A wait for the exit that times out as the exit is recorded.
CONSTANTS
    p1 = p1
    p2 = p2
    p3 = p3
    Procs = {p1, p2}
    NoPid = NoPid
    WORD = 16
    AvailableMb = 4
    AssignedMb <- MCAssigned
    LoanMb = 1
    mLoanMemory = FALSE
    OomMonitor = FALSE
    Controlled = TRUE
SPECIFICATION Spec
INVARIANTS
    SignalsStayInGroup
