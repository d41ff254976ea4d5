CONSTANTS
    MaxMessages <- MCMessagesBothWays
    MaxEndpoints = 2
    MaxFaults = 1
SPECIFICATION Spec
INVARIANT LesserRoutesInTurn
CHECK_DEADLOCK FALSE
