CONSTANTS
    p = p
    q = q
    Instances = {p, q}
    MaxAttempts = 2
    MaxClaims = 2
    MaxLapses = 0
    MaxExits = 1
    MaxRequests = 1
SPECIFICATION FairDeliverySpec
INVARIANTS OneResult EndedIsUnleased DeliveredIsDone
PROPERTIES ContinuationRunsOnce LeaseEnds EndIsDelivered
CHECK_DEADLOCK FALSE
