SPECIFICATION Spec
CONSTANTS
    a1 = a1
    a2 = a2
    t1 = t1
    t2 = t2
    alice = alice
    ALICE = ALICE
    IPs = {a1, a2}
    Names = {alice, ALICE}
    Tasks = {t1, t2}
    Lower <- LowerNames
    IpCapacity = 2
    IpPeriod = 1
    UserCapacity = 1
    UserPeriod = 2
    MaxEntries = 1
    IdleTTL = 2
    MaxTime = 5
INVARIANTS RateBounded TablesBounded RefusalsEarned
SYMMETRY TaskSymmetry
CHECK_DEADLOCK FALSE
