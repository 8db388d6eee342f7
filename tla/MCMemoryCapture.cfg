SPECIFICATION FairSpec
CONSTANTS
    Jobs = {j1}
    Workers = {w1, w2}
    Wipes = {c1}
    Nil = Nil
    AttemptLimit = 2
    MaxFaults = 2
INVARIANTS
    ErasedStaysErased
    TurnSubmittedOnce
PROPERTIES
    CancellationStands
    CancellationsEnd
    CapturesSettleUnlessStarved
CHECK_DEADLOCK FALSE
