SPECIFICATION Spec
CONSTANTS
    alice = alice
    bob = bob
    h1 = h1
    h2 = h2
    totp1 = totp1
    totp2 = totp2
    old = old
    new = new
    broken = broken
    s1 = s1
    s2 = s2
    Users = {bob}
    Sessions = {s1, s2}
    Hashes = {h1, h2}
    Plain = Plain
    Secrets = {totp1, totp2}
    NoSecret = NoSecret
    Absent = Absent
    Editions = {old, new, broken}
    Broken = broken
    Compatible <- Fitting
    InitUsers <- OneUser
    InitEdition = old
    MaxReloads = 1
    MaxEdits = 0
    MaxUpdates = 2
    MaxCrashes = 0
    MaxFailures = 0
INVARIANTS AckedServed
SYMMETRY SessionSymmetry
CHECK_DEADLOCK FALSE
