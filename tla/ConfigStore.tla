---------------------------- MODULE ConfigStore ----------------------------
(***************************************************************************)
(* ConfigStore of src/config/mod.rs: the RuntimeState behind a read-write  *)
(* lock, config.toml and servers.toml on disk, and those that touch them:  *)
(* start-up (load, then migrate_bootstrap_passwords), the reload loop, the *)
(* sessions that call update_user_credentials, and an administrator with   *)
(* an editor.                                                              *)
(*                                                                         *)
(* Loading reads one file, then the other, then validates, and takes the   *)
(* write lock only to install the result.  An update takes the write lock  *)
(* first, changes the state in memory, and then reads, edits and replaces  *)
(* config.toml: each of these is an action of its own.                     *)
(***************************************************************************)
EXTENDS Naturals, FiniteSets

CONSTANTS
    Users,          \* user names
    Sessions,       \* gateway sessions that may commit credentials
    Hashes,         \* Argon2id strings
    Plain,          \* a bootstrap plaintext password
    Secrets,        \* TOTP secrets
    NoSecret,       \* totp_secret = None
    Absent,         \* no [[users]] table of that name
    Editions,       \* versions of all the rest of a file
    Broken,         \* the edition of a file that is no TOML
    Compatible,     \* pairs of editions validate_semantics accepts together
    InitUsers,      \* [[users]] of the first config.toml
    InitEdition,    \* edition of both files at first
    MaxReloads, MaxEdits, MaxUpdates, MaxCrashes,   \* bounds
    MaxFailures     \* bound on the errors of atomic_write_bytes

(* A reload is early when it begins before the server serves.              *)
Counted == {"reloads", "early", "edits", "updates", "crashes", "failures"}

Keep == "keep"      \* None, as an argument of update_user_credentials
Free == "free"      \* nobody holds the write lock
Boot == "boot"      \* start-up holds the write lock

UserRecord ==
    [password : Hashes \cup {Plain}, totp_secret : Secrets \cup {NoSecret},
     must_change_password : BOOLEAN]

UserTables == [Users -> UserRecord \cup {Absent}]

ConfigFile == [users : UserTables, edition : Editions]

ASSUME LockAssumption == Free \notin Sessions /\ Boot \notin Sessions

(* validate_password_field: a bootstrap password has to be changed.        *)
ValidUser(r) ==
    r # Absent /\ r.password = Plain => r.must_change_password

(* Fault: each file is validated on its own.                               *)
ValidApart(config, servers) ==
    /\ config.edition # Broken /\ servers # Broken
    /\ \E u \in Users : config.users[u] # Absent
    /\ \A u \in Users : ValidUser(config.users[u])

(* The two files parse and validate_semantics accepts them.                *)
Valid(config, servers) ==
    /\ config.edition # Broken /\ servers # Broken
    /\ <<config.edition, servers>> \in Compatible
    /\ \E u \in Users : config.users[u] # Absent
    /\ \A u \in Users : ValidUser(config.users[u])

ASSUME FilesAssumption ==
    /\ Broken \in Editions
    /\ Compatible \subseteq Editions \X Editions
    /\ InitUsers \in UserTables
    /\ Valid([users |-> InitUsers, edition |-> InitEdition], InitEdition)

(* What an update changes of a record.  commit_pending_updates, its only   *)
(* caller, always clears must_change_password.                             *)
Changes == [password : Hashes \cup {Keep}, totp_secret : Secrets \cup {Keep}]

(* Fault: a value that is not given is stored too.                         *)
UpdateWholeRecord(r, c) ==
    [password |-> c.password, totp_secret |-> c.totp_secret,
     must_change_password |-> FALSE]

UpdateRecord(r, c) ==
    [password |-> IF c.password = Keep THEN r.password ELSE c.password,
     totp_secret |-> IF c.totp_secret = Keep THEN r.totp_secret ELSE c.totp_secret,
     must_change_password |-> FALSE]

(* update_user_record_in_document: only the matching table.                *)
UpdateUserRecordInDocument(doc, u, c) ==
    [doc EXCEPT !.users[u] = UpdateRecord(@, c)]

-----------------------------------------------------------------------------
VARIABLES
    phase,          \* of the process: down, loading, starting or serving
    state,          \* RuntimeState: the active configuration
    lock,           \* who holds the write lock of state
    config_toml,    \* the file on disk
    servers_toml,   \* the edition of the file on disk
    session,        \* where each session's update is
    migration,      \* where migrate_bootstrap_passwords is
    load,           \* where the load or reload is
    acked,          \* history: the record an update last reported as stored
    count           \* history: how many of each there were so far

files == <<config_toml, servers_toml>>
vars == <<phase, state, lock, files, session, migration, load, acked, count>>

Idle == [pc |-> "idle"]

SessionStates ==
    {Idle}
    \cup [pc : {"login", "load"}, user : Users, change : Changes]
    \cup [pc : {"write"}, user : Users, change : Changes, doc : ConfigFile]

MigrationStates == {Idle} \cup [pc : {"write"}, doc : ConfigFile]

LoadStates ==
    {Idle}
    \cup [pc : {"servers"}, config : ConfigFile]
    \cup [pc : {"install"}, config : ConfigFile, servers : Editions]

TypeOK ==
    /\ phase \in {"down", "loading", "starting", "serving"}
    /\ state \in [config : ConfigFile, servers : Editions]
    /\ lock \in Sessions \cup {Free, Boot}
    /\ config_toml \in ConfigFile
    /\ servers_toml \in Editions
    /\ session \in [Sessions -> SessionStates]
    /\ migration \in MigrationStates
    /\ load \in LoadStates
    /\ acked \in [Users -> UserRecord \cup {Absent}]
    /\ count \in [Counted -> Nat]

Init ==
    /\ phase = "down"
    /\ config_toml = [users |-> InitUsers, edition |-> InitEdition]
    /\ servers_toml = InitEdition
    /\ state = [config |-> config_toml, servers |-> servers_toml]
    /\ lock = Free
    /\ session = [s \in Sessions |-> Idle]
    /\ migration = Idle
    /\ load = Idle
    /\ acked = [u \in Users |-> Absent]
    /\ count = [k \in Counted |-> 0]

Bump(k, bound) == count[k] < bound /\ count' = [count EXCEPT ![k] = @ + 1]

(* The process ends: all but the files is lost.                            *)
Exit ==
    /\ phase' = "down"
    /\ lock' = Free
    /\ session' = [s \in Sessions |-> Idle]
    /\ migration' = Idle
    /\ load' = Idle

-----------------------------------------------------------------------------
(* ConfigStore::load and ConfigStore::reload.                              *)

Start ==
    /\ phase = "down"
    /\ phase' = "loading"
    /\ load' = [pc |-> "servers", config |-> config_toml]
    /\ UNCHANGED <<state, lock, files, session, migration, acked, count>>

(* The reload loop is spawned before bootstrap.                            *)
BeginReload ==
    /\ phase \in {"starting", "serving"}
    /\ load = Idle
    /\ Bump(IF phase = "starting" THEN "early" ELSE "reloads", MaxReloads)
    /\ load' = [pc |-> "servers", config |-> config_toml]
    /\ UNCHANGED <<phase, state, lock, files, session, migration, acked>>

(* A reload of files that are not valid ends here; a start-up exits.       *)
ReadServersAndValidate ==
    /\ load.pc = "servers"
    /\ IF Valid(load.config, servers_toml)
       THEN /\ load' = [pc |-> "install", config |-> load.config,
                        servers |-> servers_toml]
            /\ UNCHANGED <<phase, lock, session, migration>>
       ELSE IF phase = "loading"
       THEN Exit
       ELSE load' = Idle /\ UNCHANGED <<phase, lock, session, migration>>
    /\ UNCHANGED <<state, files, acked, count>>

(* Fault: the server serves without the migration.                         *)
InstallAndServe ==
    /\ load.pc = "install"
    /\ lock = Free
    /\ state' = [config |-> load.config, servers |-> load.servers]
    /\ load' = Idle
    /\ phase' = "serving"
    /\ UNCHANGED <<lock, files, session, migration, acked, count>>

Install ==
    /\ load.pc = "install"
    /\ lock = Free
    /\ state' = [config |-> load.config, servers |-> load.servers]
    /\ load' = Idle
    /\ phase' = IF phase = "loading" THEN "starting" ELSE phase
    /\ UNCHANGED <<lock, files, session, migration, acked, count>>

-----------------------------------------------------------------------------
(* ConfigStore::migrate_bootstrap_passwords, before the server serves.     *)

Unhashed(config) ==
    {u \in Users : config.users[u] # Absent /\ config.users[u].password \notin Hashes}

HashPasswords(config, us, hash) ==
    [config EXCEPT !.users = [u \in Users |->
        IF u \in us
        THEN [@[u] EXCEPT !.password = hash[u], !.must_change_password = TRUE]
        ELSE @[u]]]

(* Start-up ends when the document cannot be read or lacks a user; state   *)
(* is changed before the file is.                                          *)
Migrate ==
    /\ phase = "starting" /\ migration = Idle
    /\ lock = Free
    /\ LET us == Unhashed(state.config)
       IN  \/ /\ config_toml.edition = Broken \/ \E u \in us : config_toml.users[u] = Absent
              /\ Exit
              /\ UNCHANGED state
           \/ /\ config_toml.edition # Broken
              /\ us = {}
              /\ phase' = "serving"
              /\ UNCHANGED <<state, lock, session, migration, load>>
           \/ /\ config_toml.edition # Broken
              /\ us # {} /\ \A u \in us : config_toml.users[u] # Absent
              /\ \E hash \in [us -> Hashes] :
                    /\ state' = [state EXCEPT !.config = HashPasswords(@, us, hash)]
                    /\ migration' = [pc |-> "write",
                                     doc |-> HashPasswords(config_toml, us, hash)]
              /\ lock' = Boot
              /\ UNCHANGED <<phase, session, load>>
    /\ UNCHANGED <<files, acked, count>>

(* atomic_write_document: one rename.  It can also fail after the rename,  *)
(* when the directory cannot be synced.                                    *)
Replace(doc) == config_toml' = doc /\ UNCHANGED servers_toml

MigrateWrite ==
    /\ migration.pc = "write"
    /\ \/ /\ Replace(migration.doc)
          /\ phase' = "serving"
          /\ lock' = Free
          /\ migration' = Idle
          /\ UNCHANGED <<session, load, count>>
       \/ /\ Bump("failures", MaxFailures)
          /\ Replace(migration.doc) \/ UNCHANGED files
          /\ Exit
    /\ UNCHANGED <<state, acked>>

-----------------------------------------------------------------------------
(* The callers of update_user_credentials: a session whose user gave a     *)
(* password that matched its hash and has either a new password and secret *)
(* to store, when the password had to be changed, or a first secret.       *)
PendingChanges(r) ==
    {c \in Changes :
        /\ c.totp_secret # Keep
        /\ IF r.must_change_password
           THEN c.password # Keep
           ELSE c.password = Keep /\ r.totp_secret = NoSecret}

Login(s) ==
    /\ phase = "serving" /\ session[s] = Idle
    /\ lock = Free
    /\ Bump("updates", MaxUpdates)
    /\ \E u \in Users :
          LET r == state.config.users[u]
          IN  /\ r # Absent
              /\ r.password \in Hashes
              /\ \E c \in PendingChanges(r) :
                    session' = [session EXCEPT ![s] =
                                   [pc |-> "login", user |-> u, change |-> c]]
    /\ UNCHANGED <<phase, state, lock, files, migration, load, acked>>

-----------------------------------------------------------------------------
(* ConfigStore::update_user_credentials.                                   *)

(* Fault: the lock is given up once the state in memory is changed.        *)
BeginUpdateUnlocked(s) ==
    /\ session[s].pc = "login"
    /\ lock = Free
    /\ LET u == session[s].user
       IN  IF state.config.users[u] = Absent
           THEN /\ session' = [session EXCEPT ![s] = Idle]
                /\ UNCHANGED state
           ELSE /\ state' = [state EXCEPT !.config =
                                UpdateUserRecordInDocument(@, u, session[s].change)]
                /\ session' = [session EXCEPT ![s].pc = "load"]
    /\ UNCHANGED <<phase, lock, files, migration, load, acked, count>>

BeginUpdate(s) ==
    /\ session[s].pc = "login"
    /\ lock = Free
    /\ LET u == session[s].user
       IN  IF state.config.users[u] = Absent
           THEN /\ session' = [session EXCEPT ![s] = Idle]
                /\ UNCHANGED <<state, lock>>
           ELSE /\ state' = [state EXCEPT !.config =
                                UpdateUserRecordInDocument(@, u, session[s].change)]
                /\ session' = [session EXCEPT ![s].pc = "load"]
                /\ lock' = s
    /\ UNCHANGED <<phase, files, migration, load, acked, count>>

LoadDocument(s) ==
    /\ session[s].pc = "load"
    /\ IF config_toml.edition = Broken \/ config_toml.users[session[s].user] = Absent
       THEN session' = [session EXCEPT ![s] = Idle] /\ lock' = Free
       ELSE /\ session' = [session EXCEPT ![s] =
                              [pc |-> "write", user |-> session[s].user,
                               change |-> session[s].change, doc |-> config_toml]]
            /\ UNCHANGED lock
    /\ UNCHANGED <<phase, state, files, migration, load, acked, count>>

WriteDocument(s) ==
    /\ session[s].pc = "write"
    /\ LET u   == session[s].user
           doc == UpdateUserRecordInDocument(session[s].doc, u, session[s].change)
       IN  \/ /\ Replace(doc)
              /\ acked' = [acked EXCEPT ![u] = doc.users[u]]
              /\ UNCHANGED count
           \/ /\ Bump("failures", MaxFailures)
              /\ \/ Replace(doc) /\ acked' = [acked EXCEPT ![u] = Absent]
                 \/ UNCHANGED <<files, acked>>
    /\ session' = [session EXCEPT ![s] = Idle]
    /\ lock' = Free
    /\ UNCHANGED <<phase, state, migration, load>>

-----------------------------------------------------------------------------
(* Outside.                                                                *)

(* The administrator saves config.toml as it was read, but for the edition *)
(* or one user, who is removed or given a bootstrap password.              *)
EditConfig ==
    /\ Bump("edits", MaxEdits)
    /\ \/ /\ \E e \in Editions : config_toml' = [config_toml EXCEPT !.edition = e]
          /\ UNCHANGED acked
       \/ \E u \in Users :
             /\ \E r \in {Absent, [password |-> Plain, totp_secret |-> NoSecret,
                                   must_change_password |-> TRUE]} :
                   config_toml' = [config_toml EXCEPT !.users[u] = r]
             /\ acked' = [acked EXCEPT ![u] = Absent]
    /\ UNCHANGED <<phase, state, lock, servers_toml, session, migration, load>>

EditServers ==
    /\ Bump("edits", MaxEdits)
    /\ servers_toml' \in Editions
    /\ UNCHANGED <<phase, state, lock, config_toml, session, migration, load, acked>>

Crash ==
    /\ phase # "down"
    /\ Bump("crashes", MaxCrashes)
    /\ Exit
    /\ UNCHANGED <<state, files, acked>>

Next ==
    \/ Start \/ BeginReload \/ ReadServersAndValidate \/ Install
    \/ Migrate \/ MigrateWrite
    \/ \E s \in Sessions : Login(s) \/ BeginUpdate(s) \/ LoadDocument(s) \/ WriteDocument(s)
    \/ EditConfig \/ EditServers \/ Crash

Spec == Init /\ [][Next]_vars

-----------------------------------------------------------------------------
(* Properties.                                                             *)

Active == phase \in {"starting", "serving"}

(***************************************************************************)
(* README.md:561, disection.md:159: an invalid configuration is never      *)
(* active, whatever mix of old and new files a reload reads: its two       *)
(* halves fit together.                                                    *)
(***************************************************************************)
ActiveStateFits ==
    Active => /\ <<state.config.edition, state.servers>> \in Compatible
              /\ Broken \notin {state.config.edition, state.servers}

(***************************************************************************)
(* A record an update reported as stored is what config.toml holds until   *)
(* the next update or edit of that user: updates of other users, failed    *)
(* writes, crashes and restarts do not take it back.                       *)
(***************************************************************************)
AckedDurable ==
    \A u \in Users : acked[u] # Absent => config_toml.users[u] = acked[u]

(***************************************************************************)
(* op-guide.md:359, disection.md:580: the record an update reported as     *)
(* stored is also the one new sessions see.                                *)
(***************************************************************************)
AckedServed ==
    \A u \in Users :
        (phase = "serving" /\ lock = Free /\ acked[u] # Absent) =>
            state.config.users[u] = acked[u]

(***************************************************************************)
(* As long as no reload, no administrator and no failing write interferes, *)
(* that is so: the updates of several sessions, crashes and the migrations *)
(* of later starts do not take memory and disk apart.                      *)
(***************************************************************************)
Undisturbed == \A k \in {"reloads", "early", "edits", "failures"} : count[k] = 0

AckedServedUndisturbed == Undisturbed => AckedServed

(***************************************************************************)
(* README.md:399: once the server serves, no bootstrap plaintext is left   *)
(* on disk, though an earlier start may have crashed or its write failed   *)
(* half way, and whatever reloads there are; nor in memory, which a reload *)
(* replaces, as long as every reload began after its start had migrated:   *)
(* one that read config.toml before may serve the plaintext again.  An     *)
(* administrator may put one there.                                        *)
(***************************************************************************)
ServingHashed ==
    (phase = "serving" /\ count["edits"] = 0) =>
        /\ Unhashed(config_toml) = {}
        /\ count["early"] = 0 => Unhashed(state.config) = {}

(***************************************************************************)
(* Until an administrator edits a file, config.toml is the register of     *)
(* CredentialRegister: its two steps are the renames of the migration and  *)
(* of an update; locks, loads, reloads, failed writes and crashes are      *)
(* stutters of it, whatever the memory has become by then.                 *)
(***************************************************************************)
Register == INSTANCE CredentialRegister WITH
    First <- InitUsers,
    stored <- config_toml.users,
    reported <- acked

ImplementsRegister ==
    Register!Init /\ [][count'["edits"] = 0 => Register!Next]_<<config_toml.users, acked>>

=============================================================================
