SPECIFICATION FollowSpec
CONSTANTS
    Clients = {c1}
    MaxStreamed = 3
    TailLength = 2
    BufferSize = 2
    MaxDrops = 1
INVARIANTS
    DoneIsTerminal
CHECK_DEADLOCK FALSE
