CONSTANTS
    Feeders = {"f1", "f2", "t1", "t2"}
    NoFeeder = "none"
    Requests = {"post", "delete"}
    KindOf <- MCKindOf
    StoreOf <- MCStoreOf
    KeyOf <- MCKeyOf
    BaseTags = {"tag"}
    HostKey = "host"
    ElectionEnabled = FALSE
    Docs = {1, 2, 3}
    NoDoc = 0
    RulesOf <- MCRulesOf
    BadRule = BadRule
    Unreadable = {3}
    Source = "remote"
    MaxPublish = 2
    Category = "logging"
    Points = {1, 2, 3, 4, 5, 6}
    Feeds <- MCFeeds
    Script <- MCScript
    Made <- MCMade
    MaxOptions = 4
    Compactors = {"c1"}
    CompactAt = 1
    ChanCap = 1
    Customers = {"w1"}
    OffloadCap = 1
    PtsBuf = 2
    MayExit = TRUE
SPECIFICATION MCSpec
INVARIANTS FeedTypeOK  PooledOptionsClean FreshTags RulesOfOneDocument
PROPERTIES FeedReturns PointsSettle RulesConverge
CHECK_DEADLOCK FALSE
