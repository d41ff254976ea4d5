SPECIFICATION FairSpec
CONSTANTS
    MaxMessages = 0
    MaxAccepted = 1
    MaxUnread = 1
    MonitorIsPrompt = FALSE
PROPERTIES
    RunEnds
CHECK_DEADLOCK FALSE
