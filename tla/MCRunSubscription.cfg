SPECIFICATION FairSpec
CONSTANTS
    Clients = {c1, c2}
    MaxStreamed = 2
    TailLength = 1
    BufferSize = 2
    MaxDrops = 1
INVARIANTS
    SubscribersMissNothing
    DoneMeansComplete
PROPERTIES
    FollowersReachTheEnd
CHECK_DEADLOCK FALSE
