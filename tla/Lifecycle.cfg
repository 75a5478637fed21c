SPECIFICATION Spec
CONSTANTS
    alice = alice
    bob = bob
    git = git
    web = web
    Users <- MCUsers
    Servers <- MCServers
    Keys = {k1, k2, k3, k4, k5, k6, k7, k8}
    NoFile = NoFile
    Torn = Torn
    Broken = Broken
    Strict = TRUE
    Documents <- MCDocuments
    FirstDocument <- TwoServers
    MaxEdits = 2
    MaxSignals = 2
    MaxStops = 1
INVARIANTS TypeOK ActiveFits TrackerFollows PublicMatches KeysUsable
PROPERTIES KeysKept SignalServed
CHECK_DEADLOCK FALSE
