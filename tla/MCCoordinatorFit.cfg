CONSTANTS
    N = 2
    Definition <- MCDefinition
    Total <- MCTotal
    MaxFaults = 1
SPECIFICATION Spec
INVARIANTS
    NodesFit
CHECK_DEADLOCK FALSE
