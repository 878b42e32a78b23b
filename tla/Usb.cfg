\* Two channels on a quiet board; one with subscribers that send and a board that goes.
CONSTANTS
    None = None
    Worlds <- AllWorlds
    Transfers = 1
    MaxQueue = 2
SPECIFICATION FairSpec
INVARIANTS TypeOK ClosedIsQuiet PendingIsExact InOrder
PROPERTY QuietIsReconnected
\* A program that aborted, and one whose threads wait for each other.
CHECK_DEADLOCK FALSE
