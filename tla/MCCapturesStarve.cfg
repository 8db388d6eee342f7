SPECIFICATION FairSpec
CONSTANTS
    Jobs = {j1, j2}
    Workers = {w1}
    Wipes = {c1}
    Nil = Nil
    AttemptLimit = 2
    MaxFaults = 1
PROPERTIES
    CapturesSettle
CHECK_DEADLOCK FALSE
