CONSTANTS
    w1 = w1
    w2 = w2
    w3 = w3
    w4 = w4
    None = None
    Rows = {1, 2, 3, 5, 6, 7}
    Kind <- TheKind
    By <- TheBy
    Of <- TheOf
    RootPost <- TheRoot
    Fixture <- TheFixture
    Readers = {w1, w2, w3, w4}
    FeedOf <- Walks
    Limits = {1}
    Stamps = {1, 2}
    PerSecond = 2
    TTL = 2
    MaxTime = 2
    MaxWalkers = 1
    Strays <- ProfileCursor
    FollowPairs <- OneFollow
SPECIFICATION Spec
INVARIANTS
    TypeOK
    NothingMissed
    PagesInOrder
CHECK_DEADLOCK FALSE
