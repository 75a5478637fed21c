SPECIFICATION FairSpec
CONSTANTS
    c1 = c1
    c2 = c2
    r1 = r1
    Channels = {c1}
    RawChannels = {r1}
    MaxSessions = 2
    DropToMenu = TRUE
    Signals = TRUE
    TargetsMayFail = TRUE
    MaxReloads = 1
INVARIANTS TypeOK MenuExclusive ReplayIsShell
PROPERTIES ExitTold ImplementsTerminal SessionsEnd NoLimbo
CHECK_DEADLOCK FALSE
