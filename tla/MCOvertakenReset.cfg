SPECIFICATION Spec
CONSTANTS
    Jobs = {j1}
    Workers = {w1}
    Wipes = {c1, c2, c3}
    Nil = Nil
    AttemptLimit = 1
    MaxFaults = 1
INVARIANTS
    ResetIsABarrier
CHECK_DEADLOCK FALSE
