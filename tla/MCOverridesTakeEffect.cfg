SPECIFICATION QuotaSpec
CONSTANTS
    Slots = {}
    Admins = {a1, a2}
    NoEntry = NoEntry
    Default <- UserCap
    Caps = {1, 2}
    Preset = 2
    TTL = 1
    MaxTokens = 1
    MaxTime = 0
    MaxOutages = 0
INVARIANT OverridesTakeEffect
CHECK_DEADLOCK FALSE
