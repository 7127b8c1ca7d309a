SPECIFICATION ThreadsSpec
CONSTANTS
    Subject = {"errors", "waiting"}
    Thread = {main, worker1, worker2}
    Main = main
    Record = {r1, r2}
    MainRecord = MainRecord
    NoRecord = NoRecord
    Code = {e1, e2}
    NoCode = NoCode
    OutOfMemory = e1
    NoThread = NoThread
    EarlyCallers = {main}
    AllocMayFail = TRUE
    MaxFailures = 1
    Awaited = {visibility}
    OtherEvent = other
    NoTimeout = NoTimeout
    PipeSize = 2
    MaxTimeout = 2
    MaxEvents = 2
    MaxSignals = 1
CHECK_DEADLOCK FALSE
INVARIANTS
    TypeOK
    LastErrorOfThread
    NoRecordLost
    WaitsKeepTimeout
PROPERTIES
    ErrorsDelivered
    PostWakes
    TimedWaitEnds
