SPECIFICATION ControllerSpec
CONSTANTS
    Runs = {r1, r2}
    Requests = {}
    NoRun = NoRun
    NoRequest = NoRequest
    MaxAttempts = 2
    LostAcks = FALSE
    CardBound = 0
SYMMETRY Symmetry
INVARIANTS
    GracefulShutdownStopsRuns
CHECK_DEADLOCK FALSE
