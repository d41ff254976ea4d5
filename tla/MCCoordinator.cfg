CONSTANTS
    N = 2
    Definition <- MCDefinition
    Total <- MCTotal
    MaxFaults = 1
SPECIFICATION FairSpec
INVARIANTS
    TypeOK
    BookedOnce
PROPERTIES
    ImplementsStartup
    CallsReturn
CHECK_DEADLOCK FALSE
