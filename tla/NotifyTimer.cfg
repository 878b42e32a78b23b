\* Notifications that close on their own, and the alert.
CONSTANTS
    Worlds <- OnlyTimed
    MaxResponses = 2
    MaxAlerts = 2
    MaxLost = 1
    MaxEvents = 1
SPECIFICATION Spec
INVARIANT NoTimerOutlivesItsBox
CHECK_DEADLOCK FALSE
