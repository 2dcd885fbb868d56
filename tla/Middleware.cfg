\* The system stops when everyone is answered; RequestsAnswered says it stops
\* nowhere else.
SPECIFICATION FairSpec
CONSTANTS
    a = a
    b = b
    c = c
    d = d
    e = e
    Refused = Refused
    NoCredential = NoCredential
    NoName = NoName
    NoCall = NoCall
    NoValue = NoValue
    MaxClock = 1
    Request <- MCRequest
    Char <- MCChar
    Tenant <- MCTenant
    Scope <- MCScope
    Command <- MCCommand
    Caller <- MCCaller
    Required <- MCScope
    CommandOf <- MCCommandOf
    IdemKey <- MCIdemKey
    Keyed <- MCKeyed
    ClassName <- MCClassName
    Ttl <- MCTtl
    Fallible <- MCFallible
INVARIANTS
    TypeOK
    AnswersEarned
    AnswersStayWithTenant
    MetricsCountExecutions
    TracesTellOutcome
PROPERTIES
    RequestsAnswered
CHECK_DEADLOCK FALSE
