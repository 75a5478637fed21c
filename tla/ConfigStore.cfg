SPECIFICATION Spec
CONSTANTS
    alice = alice
    bob = bob
    h1 = h1
    h2 = h2
    totp1 = totp1
    totp2 = totp2
    old = old
    new = new
    broken = broken
    s1 = s1
    s2 = s2
    Users = {alice, bob}
    Sessions = {s1, s2}
    Hashes = {h1, h2}
    Plain = Plain
    Secrets = {totp1, totp2}
    NoSecret = NoSecret
    Absent = Absent
    Editions = {old, new, broken}
    Broken = broken
    Compatible <- Fitting
    InitUsers <- FirstUsers
    InitEdition = old
    MaxReloads = 1
    MaxEdits = 1
    MaxUpdates = 3
    MaxCrashes = 2
    MaxFailures = 1
INVARIANTS TypeOK ActiveStateFits AckedDurable AckedServedUndisturbed ServingHashed
PROPERTIES ImplementsRegister
SYMMETRY SessionSymmetry
CHECK_DEADLOCK FALSE
