SPECIFICATION FairSpec
CONSTANTS
    j1 = j1
    k1 = k1
    Job = {j1}
    Consumer = {k1}
    Conn = {c1, c2}
    None = None
    Followed <- SameJob
    maxEventsPerJob = 2
    maxFramesPerSubscriber = 1
    maxSubscribersPerJob = 1
    maxGlobalSubscribers = 1
    MaxEvents = 4
    MaxLosses = 1
    WireCapacity = 2
INVARIANTS
    TypeOK
    SubscribersAccounted
PROPERTIES
    ImplementsFeed
    FollowersEnd
    DeadSubscribersRemoved
CHECK_DEADLOCK FALSE
