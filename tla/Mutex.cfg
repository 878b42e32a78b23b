\* A debug build: LVGL and the event loop may take both locks, a decoder one.
CONSTANTS
    lvgl = lvgl
    eventLoop = eventLoop
    decoder = decoder
    ui = ui
    model = model
    None = None
    Threads = {lvgl, eventLoop, decoder}
    Locks = {ui, model}
    MultiLockers <- LvglAndEventLoop
    Checking = TRUE
    TryLockers = {eventLoop}
    MaxCount = 2
SPECIFICATION FairSpec
INVARIANTS TypeOK RecordIsExact StuckPairIsReported
PROPERTIES ImplementsLocks NoFalseAlarm FreeIsTaken
\* The program may abort, and its callers may lock in opposite orders.
CHECK_DEADLOCK FALSE
