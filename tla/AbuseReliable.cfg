SPECIFICATION HistorySpec
CONSTANTS
    a1 = a1
    a2 = a2
    t1 = t1
    t2 = t2
    t3 = t3
    IPs = {a1}
    Tasks = {t1, t2, t3}
    Paths = {"main"}
    Settings <- OneSettings
    BanCountMax = 2
    DurationMax = 100
    MaxTime = 6
    MaxFailures = 5
    MaxReloads = 0
    MaxCrashes = 2
    WriteMayFail = FALSE
    ReadMayFail = FALSE
INVARIANTS TypeOK OvershootBounded
PROPERTIES BackoffRemembered BansNeedBurst ImplementsRegister
SYMMETRY TaskSymmetry
CHECK_DEADLOCK FALSE
