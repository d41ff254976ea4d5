CONSTANTS
    MaxMessages <- MCMessages
    MaxEndpoints = 3
    MaxFaults = 1
SPECIFICATION FairSpec
INVARIANTS
    TypeOK
    OneConnection
PROPERTIES
    ImplementsLink
    MessagesArrive
CHECK_DEADLOCK FALSE
