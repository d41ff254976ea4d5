SPECIFICATION Spec
CONSTANTS
    MaxMessages = 0
    MaxAccepted = 1
    MaxUnread = 1
    MonitorIsPrompt = TRUE
INVARIANTS
    StopIsNoError
CHECK_DEADLOCK FALSE
