SPECIFICATION LogSpec
CONSTANTS
    e1 = e1
    e2 = e2
    e3 = e3
    one = one
    two = two
    Event = {e1, e2, e3}
    Time <- MCTime
    Text = {one, two}
    joined <- MCJoined
    TailFaults = FALSE
    MaxAppends = 3
    MaxFaults = 0
INVARIANTS
    RangeVerifies
CHECK_DEADLOCK FALSE
