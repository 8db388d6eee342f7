SPECIFICATION Spec
CONSTANTS
    Clients = {c1, m1}
    Chats = {c1}
    Nil = Nil
    MaxEdits = 1
    MaxFaults = 1
    MaxRetries = 1
    MaxUsage = 2
INVARIANT PartialStreamsAreMetered
