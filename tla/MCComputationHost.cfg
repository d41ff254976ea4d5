SPECIFICATION FairSpec
CONSTANTS
    MaxMessages = 2
    MaxAccepted = 1
    MaxUnread = 1
    MonitorIsPrompt = TRUE
INVARIANTS
    TypeOK
    SourceOutlivesThreads
    ExitCodeTellsTheCause
PROPERTIES
    SentInOrder
    ImplementsComputation
    HostProgresses
CHECK_DEADLOCK FALSE
