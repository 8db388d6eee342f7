SPECIFICATION Spec
CONSTANTS
    g1 = g1
    g2 = g2
    m1 = m1
    m2 = m2
    Nil = Nil
    Gateways = {g1, g2}
    Messages = {m1, m2}
    AttemptLimit = 2
    MaxPending = 5
    MaxFaults = 1
PROPERTIES QueueHeadFirst
CHECK_DEADLOCK FALSE
