\* Two news are on the way, and two threads set the status.
CONSTANTS
    MaxUnderway = 2
    Posters = {p1, p2}
SYMMETRY Threads
SPECIFICATION Spec
INVARIANTS TypeOK OneFace SeenIsCurrent JobsFollowStatus
