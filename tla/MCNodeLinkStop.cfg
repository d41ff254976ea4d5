CONSTANTS
    MaxMessages <- MCMessages
    MaxEndpoints = 3
    MaxFaults = 1
SPECIFICATION FairSpec
PROPERTY DestructionEnds
CHECK_DEADLOCK FALSE
