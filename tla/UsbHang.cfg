\* One channel, and subscribers that send while the watchdog reconnects.
CONSTANTS
    None = None
    Worlds <- OneSends
    Transfers = 1
    MaxQueue = 1
SPECIFICATION FairSpec
PROPERTY IdleIsReconnected
CHECK_DEADLOCK FALSE
