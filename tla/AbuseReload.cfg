SPECIFICATION Spec
CONSTANTS
    a1 = a1
    a2 = a2
    t1 = t1
    t2 = t2
    t3 = t3
    IPs = {a1}
    Tasks = {t1, t2}
    Paths = {"main", "other"}
    Settings <- Varied
    BanCountMax = 5
    DurationMax = 4
    MaxTime = 2
    MaxFailures = 2
    MaxReloads = 1
    MaxCrashes = 1
    WriteMayFail = TRUE
    ReadMayFail = TRUE
INVARIANTS BansWithinCap FailuresInOrder BansEarned
PROPERTIES BansEndByTime ThresholdBans
SYMMETRY TaskSymmetry
CHECK_DEADLOCK FALSE
