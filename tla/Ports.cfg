\* The log stops growing, and its reader ends.
SPECIFICATION PortsSpec
CONSTANTS
    e1 = e1
    e2 = e2
    e3 = e3
    one = one
    two = two
    h1 = h1
    h2 = h2
    s1 = s1
    s2 = s2
    s3 = s3
    s4 = s4
    p1 = p1
    p2 = p2
    started = started
    failed = failed
    a = a
    b = b
    c = c
    d = d
    k = k
    Event = {e1, e2, e3}
    Time <- MCTime
    Text = {one, two}
    joined <- MCJoined
    TailFaults = FALSE
    MaxAppends = 3
    MaxFaults = 1
    EventType = {started, failed}
    EventHandler = {h1, h2}
    Subscription = {s1, s2, s3, s4}
    HandlerOf <- MCHandlerOf
    TypeOf <- MCTypeOf
    Publication = {p1, p2}
    EventTypeOf <- MCEventTypeOf
    Call = {a, b, c, d}
    Key = {k}
    KeyOf <- MCKeyOf
    Ttl <- MCTtl
    Inside <- MCInside
    Throwing = {d}
    Result = {"v"}
    Failure = {"badTtl", "failed"}
    BadTtl = "badTtl"
    NoCall = NoCall
    NoValue = NoValue
    MaxClock = 2
INVARIANTS
    PortsTypeOK
    IntactVerifies
    FaultDetected
    DeliveredAuthentic
    SubscribersExact
    ResolvedAfterAll
    DeadLettersExact
PROPERTIES
    StreamComplete
    HoldersAnswered
CHECK_DEADLOCK FALSE
