SPECIFICATION FairControllerSpec
CONSTANTS
    Runs = {r1}
    Requests = {}
    NoRun = NoRun
    NoRequest = NoRequest
    MaxAttempts = 2
    LostAcks = TRUE
    CardBound = 0
PROPERTIES
    CancelledRunsEnd
    EndedStreamsSettle
    ShutdownSettles
CHECK_DEADLOCK FALSE
