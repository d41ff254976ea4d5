CONSTANTS
    MaxClients = 2
    Talkers = {1}
    Sources = {"s1"}
    MaxMessages = 2
SPECIFICATION FairSpec
INVARIANTS
    TypeOK
    DeliveredInOrder
    UsedIsAlive
PROPERTIES
    KickedClientIsClosed
    MessagesReachClient
CHECK_DEADLOCK FALSE
