SPECIFICATION Spec
CONSTANTS
    s1 = s1
    s3 = s3
    s4 = s4
    s5 = s5
    w1 = w1
    w2 = w2
    w3 = w3
    keyA = keyA
    keyB = keyB
    d1 = d1
    d2 = d2
    v1 = v1
    v2 = v2
    idA = idA
    idB = idB
    NoId = NoId
    NoCall = NoCall
    NoValue = NoValue
    StartCall = {s1}
    CompleteCall = {w1}
    StartKey = {keyA}
    Delivery = {d1}
    Session = {v1}
    Identity = {idA, idB}
    KeyOf <- MCKeyOf
    Ttl <- MCTtl
    SessionOf <- MCSessionOf
    IdentityId <- MCIdentityId
    NewIdentityId <- MCNewIdentityId
    Consent <- MCConsent
    Fallible = {"auditVerdict"}
    MaxFaults = 1
    MaxClock = 0
    OneDelivery = TRUE
INVARIANTS
    AcceptedIsAudited
