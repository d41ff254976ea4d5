CONSTANTS
    MaxClients = 1
    Talkers = {1}
    Sources = {"s1"}
    MaxMessages = 0
SPECIFICATION FairSpec
PROPERTIES
    DestructionEnds
CHECK_DEADLOCK FALSE
