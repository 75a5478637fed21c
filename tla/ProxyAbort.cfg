SPECIFICATION Spec
CONSTANTS
    c1 = c1
    c2 = c2
    r1 = r1
    Channels = {c1}
    RawChannels = {}
    MaxSessions = 2
    DropToMenu = TRUE
    Signals = FALSE
    TargetsMayFail = FALSE
    MaxReloads = 0
PROPERTY FailureHasCause
CHECK_DEADLOCK FALSE
