SPECIFICATION Spec
CONSTANTS
    a1 = a1
    a2 = a2
    b1 = b1
    b2 = b2
    c1 = c1
    c2 = c2
    c3 = c3
    Nil = Nil
    Attempts = {a1, a2}
    Archives = {b1, b2}
    Calls = {c1, c2, c3}
    Risky = {c1, c2}
    MaxFaults = 2
INVARIANTS
    ApprovalsAreUsedOnce
    FinishedWorkKeepsNoLease
    ArchivedProjectsKeepNoToken
    ReadyProjectHasItsToken
CHECK_DEADLOCK FALSE
