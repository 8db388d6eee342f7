SPECIFICATION ControllerSpec
CONSTANTS
    Runs = {r1, r2}
    Requests = {}
    NoRun = NoRun
    NoRequest = NoRequest
    MaxAttempts = 2
    LostAcks = TRUE
    CardBound = 0
SYMMETRY Symmetry
INVARIANTS
    RunningRunsAreOwned
    AcceptedAnswersAreNotRepeated
    OutcomesHaveTheirOutput
CHECK_DEADLOCK FALSE
