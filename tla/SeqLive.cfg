\* A Duet that answers within a poll interval, on a line that loses and breaks.
CONSTANTS
    NumKeys = 2
    MaxVersion = 2
    MaxInFlight = 3
    RetryTicks = 1
    WatchdogTicks = 6
    MaxFaults = 2
    FaultKinds = {"lost", "cut", "bad", "link"}
    OtherMessages <- OnlyModel
    Backlog = FALSE
    Outlives = FALSE
    Prompt = TRUE
SPECIFICATION FairSpec
INVARIANTS WatchdogIsPatient OkIsLoaded
PROPERTY EveryChangeShown
CHECK_DEADLOCK FALSE
