SPECIFICATION Spec
CONSTANTS
    Account = {"tenant-1|PERSONA", "tenant-2|PERSONA"}
    Handle = {"h1", "h2"}
    Path = {"p", "q"}
    Subscription = {"s1", "s2", "s3", "s4"}
    Value = {"v1", "v2"}
    Nothing = Nothing
    MatchId = {"m", "n"}
    Reviewer = {"r1", "r2", "r3"}
    MaxFeeds = 2
    Absent = Absent
    Nobody = Nobody
    Unset = Unset
    Subject = {"i", "j"}
    SessionStatus = {"PENDING", "VERIFIED"}
    Text <- MCText
    Digits = {"5"}
    KeyOrder <- MCKeyOrder
    MaxDepth = 3
    PathOf <- MCPathOf
    CallbackOf <- MCCallbackOf
    MatchOf <- MCMatchOf
    Kind <- MCKind
    Input <- MCInput
INVARIANTS
    RedactionIsExact
    CanonicalIsExact
    ValuesExact
    HandlesKeepTheirValue
    WatchersCurrent
    ReviewsStand
CHECK_DEADLOCK FALSE
