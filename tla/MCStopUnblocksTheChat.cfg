SPECIFICATION Spec
CONSTANTS
    g1 = g1
    m1 = m1
    m2 = m2
    m3 = m3
    Nil = Nil
    Gateways = {g1}
    Messages = {m1, m2, m3}
    AttemptLimit = 2
    MaxPending = 5
    MaxFaults = 0
SYMMETRY Symmetry
INVARIANTS CommandsSucceed
CHECK_DEADLOCK FALSE
