\* A line that loses nothing, shared with other replies; the connection may break.
CONSTANTS
    NumKeys = 2
    MaxVersion = 1
    MaxInFlight = 2
    RetryTicks = 1
    WatchdogTicks = 1
    MaxFaults = 1
    FaultKinds = {"link"}
    OtherMessages <- AnyReplies
    Backlog = TRUE
    Outlives = TRUE
    Prompt = FALSE
SPECIFICATION Spec
INVARIANTS TypeOK NoLostUpdate SelectedIsFree
PROPERTY ImplementsCache
CHECK_DEADLOCK FALSE
