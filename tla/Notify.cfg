\* Notifications with and without timeouts, over reconnections.
CONSTANTS
    Worlds <- AllWorlds
    MaxResponses = 2
    MaxAlerts = 3
    MaxLost = 1
    MaxEvents = 1
SPECIFICATION FairSpec
INVARIANTS TypeOK FrontIsShown KnownTimerDies AnsweredStaysClosed
PROPERTIES QuestionIsAsked WithdrawnIsClosed
\* A program that crashed.
CHECK_DEADLOCK FALSE
