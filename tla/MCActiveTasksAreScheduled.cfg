SPECIFICATION Spec
CONSTANTS
    Schedulers = {s1}
    Runs = {r1}
    Requests = {q1}
    Nil = Nil
    MaxTime = 3
    MaxFaults = 0
INVARIANTS
    ActiveTasksAreScheduled
SYMMETRY Symmetry
CHECK_DEADLOCK FALSE
