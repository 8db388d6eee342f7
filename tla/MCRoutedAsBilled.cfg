SPECIFICATION Spec
CONSTANTS
    Clients = {c1}
    Chats = {c1}
    Nil = Nil
    MaxEdits = 1
    MaxFaults = 0
    MaxRetries = 0
    MaxUsage = 1
INVARIANTS
    RoutedAsBilled
