SPECIFICATION FairSpec
CONSTANTS
    Schedulers = {s1, s2}
    Runs = {r1, r2}
    Requests = {q1}
    Nil = Nil
    MaxTime = 2
    MaxFaults = 1
INVARIANTS
    OneRunAtATime
PROPERTIES
    DueTasksStart
CHECK_DEADLOCK FALSE
