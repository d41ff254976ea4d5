CONSTANTS
    MaxMessages <- MCMessagesBothWays
    MaxEndpoints = 2
    MaxFaults = 1
SPECIFICATION Spec
INVARIANT ArrivesInOrder
CHECK_DEADLOCK FALSE
