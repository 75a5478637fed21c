SPECIFICATION Spec
CONSTANTS
    alice = alice
    ghost = ghost
    c1 = c1
    c2 = c2
    temporary = temporary
    chosen = chosen
    stored = stored
    git = git
    db = db
    new1 = new1
    new2 = new2
    new3 = new3
    Empty = empty
    None = None
    Clients = {c1, c2}
    Names = {alice, ghost}
    Passwords = {empty, temporary, chosen}
    Secrets = {stored, new1, new2, new3}
    Targets = {git, db}
    Tables <- AllTables
    EnforcePolicy = TRUE
    MaxReloads = 1
INVARIANTS TypeOK SelectionEarned
PROPERTIES CommitsEarned MenuHonest
SYMMETRY Symmetry
