SPECIFICATION Spec
CONSTANTS
    a1 = a1
    a2 = a2
    t1 = t1
    t2 = t2
    t3 = t3
    IPs = {a1}
    Tasks = {t1, t2}
    Paths = {"main"}
    Settings <- Eager
    BanCountMax = 3
    DurationMax = 2
    MaxTime = 4
    MaxFailures = 4
    MaxReloads = 0
    MaxCrashes = 0
    WriteMayFail = FALSE
    ReadMayFail = FALSE
PROPERTY ThresholdAlwaysBans
SYMMETRY TaskSymmetry
CHECK_DEADLOCK FALSE
