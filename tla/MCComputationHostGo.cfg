SPECIFICATION Spec
CONSTANTS
    MaxMessages = 1
    MaxAccepted = 1
    MaxUnread = 1
    MonitorIsPrompt = TRUE
INVARIANTS
    TimeoutIsReported
CHECK_DEADLOCK FALSE
