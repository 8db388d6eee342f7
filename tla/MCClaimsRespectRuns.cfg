SPECIFICATION Spec
CONSTANTS
    Schedulers = {s1, s2}
    Runs = {r1, r2}
    Requests = {q1}
    Nil = Nil
    MaxTime = 1
    MaxFaults = 0
INVARIANTS
    ClaimsRespectRuns
CHECK_DEADLOCK FALSE
