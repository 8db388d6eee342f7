SPECIFICATION QuotaSpec
CONSTANTS
    Slots = {r1, r2}
    Admins = {a1}
    NoEntry = NoEntry
    Default <- UserCap
    Caps = {1}
    Preset = 1
    TTL = 1
    MaxTokens = 1
    MaxTime = 1
    MaxOutages = 1
SYMMETRY SlotSymmetry
INVARIANT RevocationsSurviveLosses
CHECK_DEADLOCK FALSE
