SPECIFICATION Spec
CONSTANTS
    a1 = a1
    a2 = a2
    t1 = t1
    t2 = t2
    t3 = t3
    IPs = {a1}
    Tasks = {t1, t2}
    Paths = {"main"}
    Settings <- OneSettings
    BanCountMax = 3
    DurationMax = 100
    MaxTime = 3
    MaxFailures = 2
    MaxReloads = 1
    MaxCrashes = 0
    WriteMayFail = FALSE
    ReadMayFail = FALSE
PROPERTY ReloadKeepsBans
SYMMETRY TaskSymmetry
CHECK_DEADLOCK FALSE
