\* Two processes that fit in the node's memory, no controller to ask for a
\* stop, no control groups; fair threads.
CONSTANTS
    p1 = p1
    p2 = p2
    p3 = p3
    Procs = {p1, p2}
    NoPid = NoPid
    WORD = 16
    AvailableMb = 4
    AssignedMb <- MCAssigned
    LoanMb = 1
    mLoanMemory = FALSE
    OomMonitor = FALSE
    Controlled = FALSE
SPECIFICATION FairSpec
INVARIANTS
    TypeOK
    TerminatedIsGone
    ChildIsWatched
    NoLockCycle
    LedgerBalances
PROPERTIES
    ReservationOutlivesChild
    ImplementsLifecycle
    EveryWaitEnds
