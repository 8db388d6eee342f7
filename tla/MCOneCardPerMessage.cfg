SPECIFICATION ControllerSpec
CONSTANTS
    Runs = {r1, r2}
    Requests = {}
    NoRun = NoRun
    NoRequest = NoRequest
    MaxAttempts = 2
    LostAcks = FALSE
    CardBound = 1
SYMMETRY Symmetry
INVARIANTS
    OneCardPerMessage
CHECK_DEADLOCK FALSE
