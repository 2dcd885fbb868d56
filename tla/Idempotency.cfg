SPECIFICATION FairSpec
CONSTANTS
    a = a
    b = b
    d = d
    z = z
    k1 = k1
    k2 = k2
    NoCall = NoCall
    NoValue = NoValue
    BadTtl = "badTtl"
    MaxClock = 3
    Call <- MCCall
    Key <- MCKey
    KeyOf <- MCKeyOf
    Ttl <- MCTtl
    Result <- MCResult
    Failure <- MCFailure
INVARIANTS
    TypeOK
    OneExecutionPerKey
    NoExecutionInsideWindow
PROPERTIES
    JoinersAnswered
    ImplementsContract
