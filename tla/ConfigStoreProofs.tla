-------------------------- MODULE ConfigStoreProofs --------------------------
(***************************************************************************)
(* Proofs about ConfigStore for any users, sessions, editions and bounds.  *)
(*                                                                         *)
(* The invariant is built in layers, each inductive given those before it: *)
(* who holds the lock, what is loaded and active, which documents hold the *)
(* acknowledged records, and how memory and disk keep together as long as  *)
(* nobody from outside interferes.                                         *)
(***************************************************************************)
EXTENDS ConfigStore, TLAPS

(* The update of a session runs while the server serves; from the change   *)
(* in memory to the write it holds the lock, as the migration does, and    *)
(* the user is in the document it is going to write.                       *)
LockHeld ==
    /\ \A s \in Sessions :
          /\ session[s].pc # "idle" => phase = "serving"
          /\ session[s].pc \in {"load", "write"} => lock = s
          /\ session[s].pc = "write" => session[s].doc.users[session[s].user] # Absent
    /\ migration.pc = "write" => lock = Boot /\ phase = "starting"

Locked == TypeOK /\ LockHeld

(* What is about to be installed was validated; of an active configuration *)
(* the editions still fit, and until the migration the users are valid too.*)
LoadedFits ==
    /\ load.pc = "install" => Valid(load.config, load.servers)
    /\ Active => /\ <<state.config.edition, state.servers>> \in Compatible
                 /\ state.config.edition # Broken /\ state.servers # Broken
    /\ phase = "starting" /\ migration.pc = "idle"
          => \A u \in Users : ValidUser(state.config.users[u])

(* A document that holds every acknowledged record.                        *)
Agrees(config, a) == \A u \in Users : a[u] # Absent => config.users[u] = a[u]

(* Whatever may yet be written to config.toml agrees with it on them.  An  *)
(* acknowledged record need not change its password, so when it is valid   *)
(* the migration leaves it alone.                                          *)
AckedKept ==
    /\ \A u \in Users : acked[u] # Absent => acked[u].must_change_password = FALSE
    /\ Agrees(config_toml, acked)
    /\ \A s \in Sessions : session[s].pc = "write" => Agrees(session[s].doc, acked)
    /\ phase \in {"loading", "starting"} /\ load.pc # "idle" => Agrees(load.config, acked)
    /\ phase = "starting" /\ migration.pc = "idle" => Agrees(state.config, acked)
    /\ migration.pc = "write" => Agrees(migration.doc, acked)

(* No reload and no edit yet: only one party at a time reads and writes.   *)
Untouched == \A k \in {"reloads", "early", "edits"} : count[k] = 0

Hashed(config) ==
    \A u \in Users : config.users[u] # Absent => config.users[u].password \in Hashes

UntouchedHashed ==
    Untouched =>
        /\ load.pc # "idle" => phase = "loading" /\ load.config = config_toml
        /\ phase = "starting" /\ migration.pc = "idle" => state.config = config_toml
        /\ migration.pc = "write" =>
              state.config = migration.doc /\ Hashed(migration.doc)
        /\ phase = "serving" => Hashed(state.config) /\ Hashed(config_toml)
        /\ \A s \in Sessions : session[s].pc = "write" => session[s].doc = config_toml

(* Then memory is ahead of the disk only by the update that holds the lock.*)
UndisturbedTogether ==
    Undisturbed =>
        /\ phase = "serving" /\ lock = Free => state.config = config_toml
        /\ \A s \in Sessions :
              session[s].pc \in {"load", "write"} =>
                  /\ state.config =
                        UpdateUserRecordInDocument(config_toml, session[s].user, session[s].change)
                  /\ config_toml.users[session[s].user] # Absent

StoreInv == Locked /\ LoadedFits /\ AckedKept /\ UntouchedHashed /\ UndisturbedTogether

-----------------------------------------------------------------------------
(* Shapes of the records that say where an update, a load or the migration *)
(* is.                                                                     *)
LEMMA SessionShape ==
    ASSUME NEW x \in SessionStates
    PROVE  /\ x.pc \in {"idle", "login", "load", "write"}
           /\ x.pc = "idle" <=> x = Idle
           /\ x.pc # "idle" => x.user \in Users /\ x.change \in Changes
           /\ x.pc = "write" => x.doc \in ConfigFile
  <1>. USE DEF Idle
  <1>1. CASE x = Idle
    BY <1>1
  <1>2. CASE x \in [pc : {"login", "load"}, user : Users, change : Changes]
    BY <1>2
  <1>3. CASE x \in [pc : {"write"}, user : Users, change : Changes, doc : ConfigFile]
    BY <1>3
  <1>. QED  BY <1>1, <1>2, <1>3 DEF SessionStates

LEMMA SessionIntro ==
    /\ Idle \in SessionStates /\ Idle.pc = "idle"
    /\ \A u \in Users, c \in Changes :
          /\ \A pc \in {"login", "load"} : [pc |-> pc, user |-> u, change |-> c] \in SessionStates
          /\ \A d \in ConfigFile :
                [pc |-> "write", user |-> u, change |-> c, doc |-> d] \in SessionStates
  BY DEF SessionStates, Idle

(* Only the place of an update changes.                                    *)
LEMMA SessionToLoad ==
    ASSUME NEW x \in SessionStates, x.pc = "login"
    PROVE  LET y == [x EXCEPT !.pc = "load"] IN
           /\ y \in SessionStates /\ y.pc = "load"
           /\ y.user = x.user /\ y.change = x.change
  <1>1. x \in [pc : {"login", "load"}, user : Users, change : Changes]
    BY DEF SessionStates, Idle
  <1>. QED  BY <1>1 DEF SessionStates

LEMMA LoadShape ==
    ASSUME NEW x \in LoadStates
    PROVE  /\ x.pc \in {"idle", "servers", "install"}
           /\ x.pc = "idle" <=> x = Idle
           /\ x.pc # "idle" => x.config \in ConfigFile
           /\ x.pc = "install" => x.servers \in Editions
  <1>. USE DEF Idle
  <1>1. CASE x = Idle
    BY <1>1
  <1>2. CASE x \in [pc : {"servers"}, config : ConfigFile]
    BY <1>2
  <1>3. CASE x \in [pc : {"install"}, config : ConfigFile, servers : Editions]
    BY <1>3
  <1>. QED  BY <1>1, <1>2, <1>3 DEF LoadStates

LEMMA LoadIntro ==
    /\ Idle \in LoadStates
    /\ \A d \in ConfigFile :
          /\ [pc |-> "servers", config |-> d] \in LoadStates
          /\ \A e \in Editions : [pc |-> "install", config |-> d, servers |-> e] \in LoadStates
  BY DEF LoadStates, Idle

LEMMA MigrationShape ==
    ASSUME NEW x \in MigrationStates
    PROVE  /\ x.pc \in {"idle", "write"}
           /\ x.pc = "idle" <=> x = Idle
           /\ x.pc = "write" => x.doc \in ConfigFile
  BY DEF MigrationStates, Idle

LEMMA MigrationIntro ==
    /\ Idle \in MigrationStates
    /\ \A d \in ConfigFile : [pc |-> "write", doc |-> d] \in MigrationStates
  BY DEF MigrationStates, Idle

-----------------------------------------------------------------------------
(* The operators on documents.                                             *)

(* update_user_record_in_document.                                         *)
LEMMA UpdatedDocument ==
    ASSUME NEW d \in ConfigFile, NEW u \in Users, NEW c \in Changes, d.users[u] # Absent
    PROVE  LET e == UpdateUserRecordInDocument(d, u, c) IN
           /\ e \in ConfigFile
           /\ e.edition = d.edition
           /\ \A v \in Users \ {u} : e.users[v] = d.users[v]
           /\ e.users[u] \in UserRecord
           /\ e.users[u].must_change_password = FALSE
           /\ d.users[u].password \in Hashes => e.users[u].password \in Hashes
  <1>. DEFINE r == UpdateRecord(d.users[u], c)
              e == UpdateUserRecordInDocument(d, u, c)
  <1>1. d.users \in UserTables /\ d.edition \in Editions
    BY DEF ConfigFile
  <1>2. d.users[u] \in UserRecord
    BY <1>1 DEF UserTables
  <1>3. /\ r \in UserRecord /\ r.must_change_password = FALSE
        /\ d.users[u].password \in Hashes => r.password \in Hashes
    BY <1>2 DEF UpdateRecord, UserRecord, Changes
  <1>. HIDE DEF r
  <1>4. e = [users |-> [d.users EXCEPT ![u] = r], edition |-> d.edition]
    BY DEF UpdateUserRecordInDocument, ConfigFile, r
  <1>5. /\ [d.users EXCEPT ![u] = r] \in UserTables
        /\ [d.users EXCEPT ![u] = r][u] = r
        /\ \A v \in Users \ {u} : [d.users EXCEPT ![u] = r][v] = d.users[v]
    BY <1>1, <1>3 DEF UserTables
  <1>6. /\ e \in ConfigFile /\ e.edition = d.edition
        /\ e.users = [d.users EXCEPT ![u] = r]
    BY <1>1, <1>4, <1>5 DEF ConfigFile
  <1>. QED  BY <1>3, <1>5, <1>6

(* What migrate_bootstrap_passwords makes of a document.                   *)
LEMMA HashedDocument ==
    ASSUME NEW d \in ConfigFile, NEW us \in SUBSET Users, NEW hash \in [us -> Hashes],
           \A u \in us : d.users[u] # Absent
    PROVE  LET e == HashPasswords(d, us, hash) IN
           /\ e \in ConfigFile
           /\ e.edition = d.edition
           /\ \A v \in Users \ us : e.users[v] = d.users[v]
           /\ \A u \in us : e.users[u].password \in Hashes
  <1>. DEFINE t == [u \in Users |->
                      IF u \in us
                      THEN [d.users[u] EXCEPT !.password = hash[u], !.must_change_password = TRUE]
                      ELSE d.users[u]]
              e == HashPasswords(d, us, hash)
  <1>1. d.users \in UserTables /\ d.edition \in Editions
    BY DEF ConfigFile
  <1>2. ASSUME NEW u \in us
        PROVE  /\ t[u] \in UserRecord
               /\ t[u].password \in Hashes
    BY <1>1, <1>2 DEF UserTables, UserRecord
  <1>3. t \in UserTables
    BY <1>1, <1>2 DEF UserTables
  <1>4. e = [users |-> t, edition |-> d.edition]
    <2>1. d = [users |-> d.users, edition |-> d.edition]
      BY DEF ConfigFile
    <2>2. e = [d EXCEPT !.users = t]
      BY DEF HashPasswords
    <2>. HIDE DEF t, e
    <2>. QED  BY <2>1, <2>2
  <1>5. \A v \in Users \ us : t[v] = d.users[v]
    OBVIOUS
  <1>. HIDE DEF t
  <1>6. /\ e \in ConfigFile /\ e.edition = d.edition
        /\ e.users = t
    BY <1>1, <1>3, <1>4 DEF ConfigFile
  <1>. QED  BY <1>2, <1>5, <1>6

LEMMA HashedIsHashed ==
    ASSUME NEW d \in ConfigFile
    PROVE  Hashed(d) <=> Unhashed(d) = {}
  BY DEF Hashed, Unhashed

-----------------------------------------------------------------------------
(* The lock.                                                               *)

(* The end of the process leaves everybody idle.                           *)
LEMMA ExitLocked ==
    ASSUME TypeOK', Exit
    PROVE  Locked'
  <1>1. \A s \in Sessions : session'[s].pc = "idle"
    BY SessionIntro DEF Exit
  <1>2. migration'.pc = "idle"
    BY DEF Exit, Idle
  <1>. QED  BY <1>1, <1>2 DEF Locked, LockHeld

LEMMA BumpTyped ==
    ASSUME NEW k \in Counted, NEW bound, count \in [Counted -> Nat], Bump(k, bound)
    PROVE  /\ count' \in [Counted -> Nat]
           /\ count'[k] # 0
           /\ \A j \in Counted \ {k} : count'[j] = count[j]
  BY DEF Bump

(* A step of one update that no other holder of the lock is at.            *)
LEMMA SessionStep ==
    ASSUME Locked, TypeOK', NEW s \in Sessions, NEW x \in SessionStates,
           session' = [session EXCEPT ![s] = x],
           lock \in {Free, s},
           phase = "serving", UNCHANGED <<phase, migration>>,
           x.pc \in {"load", "write"} => lock' = s,
           x.pc = "write" => x.doc.users[x.user] # Absent
    PROVE  Locked'
  <1>1. ASSUME NEW t \in Sessions
        PROVE  /\ session'[t].pc # "idle" => phase' = "serving"
               /\ session'[t].pc \in {"load", "write"} => lock' = t
               /\ session'[t].pc = "write" => session'[t].doc.users[session'[t].user] # Absent
    <2>1. CASE t = s
      BY <2>1 DEF Locked, TypeOK
    <2>2. CASE t # s
      <3>1. session'[t] = session[t]
        BY <2>2 DEF Locked, TypeOK
      <3>2. session[t].pc \notin {"load", "write"}
        BY <2>2, LockAssumption DEF Locked, LockHeld
      <3>. QED  BY <3>1, <3>2
    <2>. QED  BY <2>1, <2>2
  <1>2. migration'.pc # "write"
    BY DEF Locked, LockHeld
  <1>. QED  BY <1>1, <1>2 DEF Locked, LockHeld

(* A step that leaves the updates and the lock alone.                      *)
LEMMA OutsideStep ==
    ASSUME Locked, TypeOK', UNCHANGED <<lock, session, migration>>,
           phase' = phase \/ (lock = Free /\ phase # "serving")
    PROVE  Locked'
  <1>1. CASE phase' = phase
    BY <1>1 DEF Locked, LockHeld
  <1>2. CASE lock = Free /\ phase # "serving"
    <2>1. migration.pc # "write"
      BY <1>2 DEF Locked, LockHeld, Free, Boot
    <2>2. \A s \in Sessions : session[s].pc = "idle"
      BY <1>2 DEF Locked, LockHeld
    <2>. QED  BY <2>1, <2>2 DEF Locked, LockHeld
  <1>. QED  BY <1>1, <1>2

LEMMA LockedUpdates ==
    ASSUME Locked, NEW s \in Sessions,
           Login(s) \/ BeginUpdate(s) \/ LoadDocument(s) \/ WriteDocument(s)
    PROVE  Locked'
  <1>. DEFINE u == session[s].user
              c == session[s].change
  <1>1. /\ session[s] \in SessionStates /\ session \in [Sessions -> SessionStates]
        /\ config_toml \in ConfigFile /\ config_toml.users \in UserTables
        /\ state.config \in ConfigFile /\ state.config.users \in UserTables
        /\ state.servers \in Editions
        /\ session[s].pc # "idle" => phase = "serving" /\ u \in Users /\ c \in Changes
        /\ session[s].pc \in {"load", "write"} => lock = s
    BY SessionShape DEF Locked, TypeOK, LockHeld, ConfigFile
  <1>2. CASE Login(s)
    <2>1. PICK v \in Users, d \in Changes :
             session' = [session EXCEPT ![s] = [pc |-> "login", user |-> v, change |-> d]]
      BY <1>2 DEF Login, PendingChanges
    <2>. DEFINE x == [pc |-> "login", user |-> v, change |-> d]
    <2>2. x \in SessionStates /\ x.pc = "login"
      BY SessionIntro
    <2>3. count' \in [Counted -> Nat]
      BY <1>2, BumpTyped DEF Login, Counted, Locked, TypeOK
    <2>. HIDE DEF x
    <2>4. TypeOK'
      BY <1>1, <1>2, <2>1, <2>2, <2>3 DEF Login, Locked, TypeOK, files, x
    <2>. QED  BY <1>2, <2>1, <2>2, <2>4, SessionStep DEF Login, x
  <1>3. CASE BeginUpdate(s) /\ state.config.users[u] = Absent
    <2>1. TypeOK'
      BY <1>1, <1>3, SessionIntro DEF BeginUpdate, Locked, TypeOK, files
    <2>. QED  BY <1>1, <1>3, <2>1, SessionIntro, SessionStep DEF BeginUpdate
  <1>4. CASE BeginUpdate(s) /\ state.config.users[u] # Absent
    <2>. DEFINE x == [session[s] EXCEPT !.pc = "load"]
                d == UpdateUserRecordInDocument(state.config, u, c)
    <2>1. x \in SessionStates /\ x.pc = "load"
      BY <1>1, <1>4, SessionToLoad DEF BeginUpdate
    <2>2. d \in ConfigFile
      BY <1>1, <1>4, UpdatedDocument DEF BeginUpdate
    <2>3. session' = [session EXCEPT ![s] = x] /\ lock' = s /\ lock = Free
      BY <1>1, <1>4 DEF BeginUpdate
    <2>4. state' = [state EXCEPT !.config = d]
      BY <1>4 DEF BeginUpdate
    <2>. HIDE DEF x, d
    <2>5. TypeOK'
      BY <1>4, <2>1, <2>2, <2>3, <2>4 DEF BeginUpdate, Locked, TypeOK, files
    <2>. QED  BY <1>1, <1>4, <2>1, <2>3, <2>5, SessionStep DEF BeginUpdate
  <1>5. CASE LoadDocument(s)
    <2>. DEFINE x == [pc |-> "write", user |-> u, change |-> c, doc |-> config_toml]
    <2>1. CASE session' = [session EXCEPT ![s] = Idle] /\ lock' = Free
      <3>1. TypeOK'
        BY <1>1, <1>5, <2>1, SessionIntro DEF LoadDocument, Locked, TypeOK, files
      <3>. QED  BY <1>1, <1>5, <2>1, <3>1, SessionIntro, SessionStep DEF LoadDocument
    <2>2. CASE /\ config_toml.users[u] # Absent
               /\ session' = [session EXCEPT ![s] = x]
               /\ UNCHANGED lock
      <3>1. /\ x \in SessionStates /\ x.pc = "write"
            /\ x.doc.users[x.user] # Absent
        BY <1>1, <1>5, <2>2, SessionIntro DEF LoadDocument
      <3>2. UNCHANGED <<phase, state, files, migration, load, acked, count>>
        BY <1>5 DEF LoadDocument
      <3>. HIDE DEF x
      <3>3. TypeOK'
        BY <2>2, <3>1, <3>2 DEF Locked, TypeOK, files
      <3>. QED  BY <1>1, <1>5, <2>2, <3>1, <3>3, SessionStep DEF LoadDocument
    <2>. QED  BY <1>5, <2>1, <2>2 DEF LoadDocument
  <1>6. CASE WriteDocument(s)
    <2>. DEFINE d == UpdateUserRecordInDocument(session[s].doc, u, c)
    <2>1. session[s].pc = "write" /\ session[s].doc \in ConfigFile
          /\ session[s].doc.users[u] # Absent
      BY <1>1, <1>6, SessionShape DEF WriteDocument, Locked, LockHeld
    <2>2. d \in ConfigFile /\ d.users[u] \in UserRecord
      BY <1>1, <2>1, UpdatedDocument
    <2>3. /\ config_toml' \in {d, config_toml} /\ UNCHANGED servers_toml
          /\ \/ acked' = acked \/ acked' = [acked EXCEPT ![u] = d.users[u]]
             \/ acked' = [acked EXCEPT ![u] = Absent]
          /\ UNCHANGED count \/ Bump("failures", MaxFailures)
      BY <1>6 DEF WriteDocument, Replace, files
    <2>. HIDE DEF d
    <2>4. count' \in [Counted -> Nat]
      BY <2>3, BumpTyped DEF Counted, Locked, TypeOK
    <2>5. /\ acked' \in [Users -> UserRecord \cup {Absent}]
          /\ config_toml' \in ConfigFile
      BY <1>1, <2>1, <2>2, <2>3 DEF Locked, TypeOK
    <2>6. /\ session' = [session EXCEPT ![s] = Idle] /\ lock' = Free
          /\ UNCHANGED <<phase, state, migration, load>>
      BY <1>6 DEF WriteDocument
    <2>7. TypeOK'
      BY <2>3, <2>4, <2>5, <2>6, SessionIntro DEF Locked, TypeOK
    <2>. QED  BY <1>1, <2>1, <2>6, <2>7, SessionIntro, SessionStep
  <1>. QED  BY <1>2, <1>3, <1>4, <1>5, <1>6

LEMMA ExitTyped ==
    ASSUME TypeOK, Exit, UNCHANGED <<state, servers_toml, acked>>,
           config_toml' \in ConfigFile, count' \in [Counted -> Nat]
    PROVE  TypeOK'
  BY SessionIntro, LoadIntro, MigrationIntro DEF TypeOK, Exit

LEMMA LockedLoads ==
    ASSUME Locked, Start \/ BeginReload \/ ReadServersAndValidate \/ Install
    PROVE  Locked'
  <1>1. CASE Start
    <2>1. TypeOK'
      BY <1>1, LoadIntro DEF Start, Locked, TypeOK, files
    <2>2. \A s \in Sessions : session[s].pc = "idle"
      BY <1>1 DEF Start, Locked, LockHeld
    <2>3. migration.pc # "write"
      BY <1>1 DEF Start, Locked, LockHeld
    <2>. QED  BY <1>1, <2>1, <2>2, <2>3 DEF Start, Locked, LockHeld
  <1>2. CASE BeginReload
    <2>1. count' \in [Counted -> Nat]
      BY <1>2, BumpTyped DEF BeginReload, Counted, Locked, TypeOK
    <2>2. TypeOK'
      BY <1>2, <2>1, LoadIntro DEF BeginReload, Locked, TypeOK, files
    <2>3. UNCHANGED <<phase, lock, session, migration>>
      BY <1>2 DEF BeginReload
    <2>. QED  BY <2>2, <2>3, OutsideStep
  <1>3. CASE ReadServersAndValidate
    <2>1. load.config \in ConfigFile /\ servers_toml \in Editions
      BY <1>3, LoadShape DEF ReadServersAndValidate, Locked, TypeOK
    <2>2. CASE Exit
      <3>1. TypeOK'
        BY <1>3, <2>2, ExitTyped DEF ReadServersAndValidate, Locked, TypeOK, files
      <3>. QED  BY <2>2, <3>1, ExitLocked
    <2>3. CASE /\ load' \in {[pc |-> "install", config |-> load.config, servers |-> servers_toml],
                             Idle}
               /\ UNCHANGED <<phase, lock, session, migration>>
      <3>1. TypeOK'
        BY <1>3, <2>1, <2>3, LoadIntro DEF ReadServersAndValidate, Locked, TypeOK, files
      <3>. QED  BY <2>3, <3>1, OutsideStep
    <2>. QED  BY <1>3, <2>2, <2>3 DEF ReadServersAndValidate
  <1>4. CASE Install
    <2>1. load.config \in ConfigFile /\ load.servers \in Editions
      BY <1>4, LoadShape DEF Install, Locked, TypeOK
    <2>2. /\ state' = [config |-> load.config, servers |-> load.servers]
          /\ load' = Idle
          /\ phase' = IF phase = "loading" THEN "starting" ELSE phase
          /\ UNCHANGED <<lock, files, session, migration, acked, count>>
      BY <1>4 DEF Install
    <2>3. TypeOK'
      BY <2>1, <2>2, LoadIntro DEF Locked, TypeOK, files
    <2>4. lock = Free
      BY <1>4 DEF Install
    <2>. QED  BY <2>2, <2>3, <2>4, OutsideStep
  <1>. QED  BY <1>1, <1>2, <1>3, <1>4

LEMMA LockedMigration ==
    ASSUME Locked, Migrate \/ MigrateWrite
    PROVE  Locked'
  <1>. DEFINE us == Unhashed(state.config)
  <1>1. /\ config_toml \in ConfigFile
        /\ state.config \in ConfigFile /\ state.servers \in Editions
        /\ us \in SUBSET Users
        /\ \A u \in us : state.config.users[u] # Absent
    BY DEF Locked, TypeOK, Unhashed
  <1>2. ASSUME Migrate, Exit, UNCHANGED state
        PROVE  Locked'
    <2>1. TypeOK'
      BY <1>2, ExitTyped DEF Migrate, Locked, TypeOK, files
    <2>. QED  BY <1>2, <2>1, ExitLocked
  <1>3. ASSUME Migrate, phase' = "serving", UNCHANGED <<state, lock, session, migration, load>>
        PROVE  Locked'
    <2>1. TypeOK'
      BY <1>3 DEF Migrate, Locked, TypeOK, files
    <2>2. phase # "serving" /\ lock = Free
      BY <1>3 DEF Migrate
    <2>. QED  BY <1>3, <2>1, <2>2, OutsideStep
  <1>4. ASSUME Migrate, NEW hash \in [us -> Hashes],
               \A u \in us : config_toml.users[u] # Absent,
               state' = [state EXCEPT !.config = HashPasswords(@, us, hash)],
               migration' = [pc |-> "write", doc |-> HashPasswords(config_toml, us, hash)],
               lock' = Boot, UNCHANGED <<phase, session, load>>
        PROVE  Locked'
    <2>. DEFINE d == HashPasswords(state.config, us, hash)
                m == HashPasswords(config_toml, us, hash)
    <2>. HIDE DEF us
    <2>1. d \in ConfigFile /\ m \in ConfigFile
      BY <1>1, <1>4, HashedDocument
    <2>2. /\ state' = [state EXCEPT !.config = d] /\ migration' = [pc |-> "write", doc |-> m]
          /\ phase = "starting"
          /\ UNCHANGED <<files, acked, count>>
      BY <1>4 DEF Migrate
    <2>. HIDE DEF d, m
    <2>3. TypeOK'
      BY <1>4, <2>1, <2>2, MigrationIntro DEF Locked, TypeOK, files
    <2>4. \A s \in Sessions : session[s].pc = "idle"
      BY <2>2 DEF Locked, LockHeld
    <2>. QED  BY <1>4, <2>2, <2>3, <2>4 DEF Locked, LockHeld
  <1>5. CASE MigrateWrite
    <2>1. /\ migration.pc = "write" /\ migration.doc \in ConfigFile
          /\ lock = Boot /\ phase = "starting"
      BY <1>5, MigrationShape DEF MigrateWrite, Locked, TypeOK, LockHeld
    <2>2. /\ config_toml' \in ConfigFile
          /\ UNCHANGED <<servers_toml, state, acked>>
          /\ count' \in [Counted -> Nat]
      BY <1>1, <1>5, <2>1, BumpTyped DEF MigrateWrite, Replace, files, Counted, Locked, TypeOK
    <2>3. CASE Exit
      BY <2>2, <2>3, ExitTyped, ExitLocked DEF Locked
    <2>4. CASE /\ phase' = "serving" /\ lock' = Free /\ migration' = Idle
               /\ UNCHANGED <<session, load>>
      <3>1. TypeOK'
        BY <2>2, <2>4, MigrationIntro DEF Locked, TypeOK
      <3>2. \A s \in Sessions : session[s].pc = "idle"
        BY <2>1 DEF Locked, LockHeld
      <3>. QED  BY <2>4, <3>1, <3>2 DEF Locked, LockHeld, Idle
    <2>. QED  BY <1>5, <2>3, <2>4 DEF MigrateWrite
  <1>. QED  BY <1>2, <1>3, <1>4, <1>5 DEF Migrate

LEMMA LockedOutside ==
    ASSUME Locked, EditConfig \/ EditServers \/ Crash \/ UNCHANGED vars
    PROVE  Locked'
  <1>1. CASE EditConfig
    <2>. DEFINE bootstrap == [password |-> Plain, totp_secret |-> NoSecret,
                              must_change_password |-> TRUE]
    <2>1. bootstrap \in UserRecord
      BY DEF UserRecord
    <2>. HIDE DEF bootstrap
    <2>2. count' \in [Counted -> Nat]
      BY <1>1, BumpTyped DEF EditConfig, Counted, Locked, TypeOK
    <2>3. config_toml' \in ConfigFile /\ acked' \in [Users -> UserRecord \cup {Absent}]
      <3>1. CASE /\ \E e \in Editions : config_toml' = [config_toml EXCEPT !.edition = e]
                 /\ UNCHANGED acked
        BY <3>1 DEF Locked, TypeOK, ConfigFile
      <3>2. ASSUME NEW u \in Users, NEW r \in {Absent, bootstrap},
                   config_toml' = [config_toml EXCEPT !.users[u] = r],
                   acked' = [acked EXCEPT ![u] = Absent]
            PROVE  config_toml' \in ConfigFile /\ acked' \in [Users -> UserRecord \cup {Absent}]
        <4>1. [config_toml.users EXCEPT ![u] = r] \in UserTables
          BY <2>1 DEF Locked, TypeOK, ConfigFile, UserTables
        <4>. QED  BY <3>2, <4>1 DEF Locked, TypeOK, ConfigFile
      <3>. QED  BY <1>1, <3>1, <3>2 DEF EditConfig, bootstrap
    <2>4. UNCHANGED <<phase, state, lock, servers_toml, session, migration, load>>
      BY <1>1 DEF EditConfig
    <2>5. TypeOK'
      BY <2>2, <2>3, <2>4 DEF Locked, TypeOK
    <2>. QED  BY <2>4, <2>5, OutsideStep
  <1>2. CASE EditServers
    <2>1. count' \in [Counted -> Nat]
      BY <1>2, BumpTyped DEF EditServers, Counted, Locked, TypeOK
    <2>2. TypeOK'
      BY <1>2, <2>1 DEF EditServers, Locked, TypeOK
    <2>3. UNCHANGED <<phase, lock, session, migration>>
      BY <1>2 DEF EditServers
    <2>. QED  BY <2>2, <2>3, OutsideStep
  <1>3. CASE Crash
    <2>1. count' \in [Counted -> Nat]
      BY <1>3, BumpTyped DEF Crash, Counted, Locked, TypeOK
    <2>2. TypeOK'
      BY <1>3, <2>1, ExitTyped DEF Crash, Locked, TypeOK, files
    <2>. QED  BY <1>3, <2>2, ExitLocked DEF Crash
  <1>4. CASE UNCHANGED vars
    <2>1. TypeOK'
      BY <1>4 DEF vars, files, Locked, TypeOK
    <2>. QED  BY <1>4, <2>1, OutsideStep DEF vars
  <1>. QED  BY <1>1, <1>2, <1>3, <1>4

LEMMA LockedNext == Locked /\ [Next]_vars => Locked'
  BY LockedUpdates, LockedLoads, LockedMigration, LockedOutside DEF Next

LEMMA LockedInit == Init => Locked
  <1>. SUFFICES ASSUME Init PROVE Locked
    OBVIOUS
  <1>1. config_toml \in ConfigFile /\ servers_toml \in Editions
    BY FilesAssumption DEF Init, ConfigFile, Valid
  <1>2. TypeOK
    BY <1>1, SessionIntro, LoadIntro, MigrationIntro DEF Init, TypeOK
  <1>. QED  BY <1>2, SessionIntro DEF Init, Locked, LockHeld, Idle

-----------------------------------------------------------------------------
(* What is loaded and what is active.                                      *)

(* Only an installation, the migration and an update change the state.     *)
LEMMA FitsKept ==
    ASSUME LoadedFits, UNCHANGED <<state, load>>,
           phase' = phase \/ phase' \in {"down", "loading", "serving"},
           phase' = "serving" => Active,
           migration' = migration \/ phase' # "starting"
    PROVE  LoadedFits'
  BY DEF LoadedFits, Active

LEMMA FitsExit ==
    ASSUME Exit
    PROVE  LoadedFits'
  BY DEF Exit, LoadedFits, Active, Idle

LEMMA FitsNext ==
    ASSUME Locked, LoadedFits, [Next]_vars
    PROVE  LoadedFits'
  <1>1. CASE Start
    BY <1>1 DEF Start, LoadedFits, Active
  <1>2. CASE BeginReload
    BY <1>2 DEF BeginReload, LoadedFits, Active
  <1>3. CASE ReadServersAndValidate
    <2>1. CASE Exit
      BY <2>1, FitsExit
    <2>2. CASE /\ \/ /\ Valid(load.config, servers_toml)
                     /\ load' = [pc |-> "install", config |-> load.config,
                                 servers |-> servers_toml]
                  \/ load' = Idle
               /\ UNCHANGED <<phase, migration>>
      <3>1. load'.pc = "install" => Valid(load'.config, load'.servers)
        BY <2>2 DEF Idle
      <3>2. UNCHANGED <<phase, migration, state>>
        BY <1>3, <2>2 DEF ReadServersAndValidate
      <3>. QED  BY <3>1, <3>2 DEF LoadedFits, Active
    <2>. QED  BY <1>3, <2>1, <2>2 DEF ReadServersAndValidate
  <1>4. CASE Install
    <2>1. Valid(load.config, load.servers)
      BY <1>4 DEF Install, LoadedFits
    <2>2. /\ state'.config = load.config /\ state'.servers = load.servers
          /\ load' = Idle /\ UNCHANGED migration
      BY <1>4 DEF Install
    <2>. QED  BY <2>1, <2>2 DEF LoadedFits, Active, Idle, Valid
  <1>5. CASE Migrate
    <2>1. CASE Exit
      BY <2>1, FitsExit
    <2>2. CASE phase' = "serving" /\ UNCHANGED <<state, migration, load>>
      BY <1>5, <2>2, FitsKept DEF Migrate, Active
    <2>3. ASSUME NEW us \in SUBSET Users, NEW hash \in [us -> Hashes],
                 \A u \in us : state.config.users[u] # Absent,
                 state' = [state EXCEPT !.config = HashPasswords(@, us, hash)],
                 migration'.pc = "write",
                 UNCHANGED <<phase, load>>
          PROVE  LoadedFits'
      <3>1. state'.config.edition = state.config.edition /\ state'.servers = state.servers
        BY <2>3, HashedDocument DEF Locked, TypeOK
      <3>. QED  BY <2>3, <3>1 DEF LoadedFits, Active
    <2>4. /\ Unhashed(state.config) \in SUBSET Users
          /\ \A u \in Unhashed(state.config) : state.config.users[u] # Absent
      BY DEF Unhashed
    <2>. QED  BY <1>5, <2>1, <2>2, <2>3, <2>4 DEF Migrate
  <1>6. CASE MigrateWrite
    <2>1. CASE Exit
      BY <2>1, FitsExit
    <2>2. CASE phase' = "serving" /\ UNCHANGED load
      <3>1. phase = "starting" /\ UNCHANGED state
        BY <1>6 DEF MigrateWrite, Locked, LockHeld
      <3>. QED  BY <2>2, <3>1, FitsKept DEF Active
    <2>. QED  BY <1>6, <2>1, <2>2 DEF MigrateWrite
  <1>7. ASSUME NEW s \in Sessions, BeginUpdate(s)
        PROVE  LoadedFits'
    <2>. DEFINE u == session[s].user
                c == session[s].change
    <2>1. /\ phase = "serving" /\ u \in Users /\ c \in Changes
          /\ UNCHANGED <<phase, migration, load>>
      BY <1>7, SessionShape DEF BeginUpdate, Locked, LockHeld, TypeOK
    <2>2. CASE UNCHANGED state
      BY <2>1, <2>2, FitsKept DEF Active
    <2>3. CASE /\ state.config.users[u] # Absent
               /\ state' = [state EXCEPT !.config = UpdateUserRecordInDocument(@, u, c)]
      <3>1. state'.config.edition = state.config.edition /\ state'.servers = state.servers
        BY <2>1, <2>3, UpdatedDocument DEF Locked, TypeOK
      <3>. QED  BY <2>1, <3>1 DEF LoadedFits, Active
    <2>. QED  BY <1>7, <2>2, <2>3 DEF BeginUpdate
  <1>8. ASSUME NEW s \in Sessions, Login(s) \/ LoadDocument(s) \/ WriteDocument(s)
        PROVE  LoadedFits'
    BY <1>8 DEF Login, LoadDocument, WriteDocument, LoadedFits, Active
  <1>9. CASE EditConfig \/ EditServers
    BY <1>9 DEF EditConfig, EditServers, LoadedFits, Active
  <1>10. CASE Crash
    BY <1>10, FitsExit DEF Crash
  <1>11. CASE UNCHANGED vars
    BY <1>11 DEF vars, LoadedFits, Active
  <1>. QED
    BY <1>1, <1>2, <1>3, <1>4, <1>5, <1>6, <1>7, <1>8, <1>9, <1>10, <1>11 DEF Next

-----------------------------------------------------------------------------
(* The acknowledged records.                                               *)

(* Nothing that is held or may be written changes.                         *)
LEMMA KeptStep ==
    ASSUME AckedKept, UNCHANGED <<config_toml, acked, migration>>,
           \/ UNCHANGED load
           \/ load'.pc # "idle" /\ load'.config = load.config /\ load.pc # "idle"
           \/ load'.pc = "idle"
           \/ load'.config = config_toml,
           \/ UNCHANGED <<phase, state>>
           \/ phase' = "serving"
           \/ phase' = "loading" /\ load'.config = config_toml,
           \A s \in Sessions :
              session'[s].pc = "write" =>
                 session'[s] = session[s] \/ session'[s].doc = config_toml
    PROVE  AckedKept'
  BY DEF AckedKept, Agrees

LEMMA KeptExit ==
    ASSUME AckedKept, Exit, UNCHANGED acked, Agrees(config_toml', acked)
    PROVE  AckedKept'
  <1>1. /\ \A s \in Sessions : session'[s].pc = "idle"
        /\ migration'.pc = "idle"
    BY SessionIntro DEF Exit, Idle
  <1>. QED  BY <1>1 DEF Exit, AckedKept, Agrees

(* The migration leaves acknowledged records as they are.                  *)
LEMMA AckedAreHashed ==
    ASSUME Locked, LoadedFits, AckedKept, phase = "starting", migration.pc = "idle",
           NEW u \in Users, acked[u] # Absent
    PROVE  u \notin Unhashed(state.config)
  <1>1. /\ state.config.users[u] = acked[u]
        /\ acked[u].must_change_password = FALSE
        /\ ValidUser(state.config.users[u])
    BY DEF AckedKept, Agrees, LoadedFits
  <1>2. acked[u] \in UserRecord
    BY DEF Locked, TypeOK
  <1>3. acked[u].password # Plain
    BY <1>1 DEF ValidUser
  <1>4. acked[u].password \in Hashes
    BY <1>2, <1>3 DEF UserRecord
  <1>. QED  BY <1>1, <1>4 DEF Unhashed

LEMMA KeptMigration ==
    ASSUME Locked, LoadedFits, AckedKept, Migrate \/ MigrateWrite
    PROVE  AckedKept'
  <1>1. ASSUME Migrate, Exit
        PROVE  AckedKept'
    BY <1>1, KeptExit DEF Migrate, AckedKept, files
  <1>2. ASSUME Migrate, phase' = "serving", UNCHANGED <<session, migration, load>>
        PROVE  AckedKept'
    <2>1. UNCHANGED <<config_toml, acked>>
      BY <1>2 DEF Migrate, files
    <2>. QED  BY <1>2, <2>1, KeptStep
  <1>3. ASSUME Migrate, NEW us, us = Unhashed(state.config), NEW hash \in [us -> Hashes],
               \A u \in us : config_toml.users[u] # Absent,
               migration' = [pc |-> "write", doc |-> HashPasswords(config_toml, us, hash)],
               UNCHANGED <<phase, session, load>>
        PROVE  AckedKept'
    <2>1. /\ phase = "starting" /\ migration.pc = "idle"
          /\ UNCHANGED <<config_toml, acked>>
      BY <1>3 DEF Migrate, Idle, files
    <2>2. us \in SUBSET Users
      BY <1>3 DEF Unhashed
    <2>3. Agrees(HashPasswords(config_toml, us, hash), acked)
      <3>. SUFFICES ASSUME NEW u \in Users, acked[u] # Absent
                    PROVE  HashPasswords(config_toml, us, hash).users[u] = acked[u]
        BY DEF Agrees
      <3>1. u \notin us
        BY <1>3, <2>1, AckedAreHashed
      <3>2. config_toml.users[u] = acked[u]
        BY DEF AckedKept, Agrees
      <3>3. config_toml \in ConfigFile
        BY DEF Locked, TypeOK
      <3>4. \A v \in Users \ us :
               HashPasswords(config_toml, us, hash).users[v] = config_toml.users[v]
        BY <1>3, <2>2, <3>3, HashedDocument
      <3>. QED  BY <3>1, <3>2, <3>4
    <2>4. migration'.pc = "write" /\ Agrees(migration'.doc, acked)
      BY <1>3, <2>3
    <2>. QED  BY <1>3, <2>1, <2>4 DEF AckedKept, Agrees
  <1>4. CASE MigrateWrite
    <2>1. /\ Agrees(config_toml', acked) /\ UNCHANGED acked
          /\ phase = "starting"
      BY <1>4 DEF MigrateWrite, Replace, files, AckedKept, Locked, LockHeld
    <2>2. CASE Exit
      BY <2>1, <2>2, KeptExit
    <2>3. CASE phase' = "serving" /\ migration' = Idle /\ UNCHANGED <<session, load>>
      <3>1. migration'.pc = "idle"
        BY <2>3 DEF Idle
      <3>. QED  BY <2>1, <2>3, <3>1 DEF AckedKept, Agrees
    <2>. QED  BY <1>4, <2>2, <2>3 DEF MigrateWrite
  <1>. QED  BY <1>1, <1>2, <1>3, <1>4 DEF Migrate

LEMMA KeptWrite ==
    ASSUME Locked, AckedKept, NEW s \in Sessions, WriteDocument(s)
    PROVE  AckedKept'
  <1>. DEFINE u == session[s].user
              c == session[s].change
              d == UpdateUserRecordInDocument(session[s].doc, u, c)
  <1>1. /\ session[s].pc = "write" /\ lock = s /\ phase = "serving" /\ migration.pc # "write"
        /\ u \in Users /\ c \in Changes
        /\ session[s].doc \in ConfigFile /\ session[s].doc.users[u] # Absent
        /\ session \in [Sessions -> SessionStates] /\ acked \in [Users -> UserRecord \cup {Absent}]
    BY SessionShape DEF WriteDocument, Locked, LockHeld, TypeOK
  <1>2. /\ d.users[u].must_change_password = FALSE
        /\ \A v \in Users \ {u} : d.users[v] = session[s].doc.users[v]
    BY <1>1, UpdatedDocument
  <1>3. Agrees(session[s].doc, acked) /\ Agrees(config_toml, acked)
    BY <1>1 DEF AckedKept
  <1>4. \/ config_toml' = d /\ acked' = [acked EXCEPT ![u] = d.users[u]]
        \/ config_toml' = d /\ acked' = [acked EXCEPT ![u] = Absent]
        \/ UNCHANGED <<config_toml, acked>>
    BY DEF WriteDocument, Replace, files
  <1>. HIDE DEF d
  <1>5. /\ Agrees(config_toml', acked')
        /\ \A v \in Users : acked'[v] # Absent => acked'[v].must_change_password = FALSE
    BY <1>1, <1>2, <1>3, <1>4 DEF Agrees, AckedKept
  <1>6. \A t \in Sessions : session'[t].pc # "write"
    <2>1. session' = [session EXCEPT ![s] = Idle]
      BY DEF WriteDocument
    <2>2. \A t \in Sessions \ {s} : session[t].pc # "write"
      BY <1>1 DEF Locked, LockHeld
    <2>. QED  BY <1>1, <2>1, <2>2 DEF Idle
  <1>7. UNCHANGED <<phase, migration>>
    BY DEF WriteDocument
  <1>. QED  BY <1>1, <1>5, <1>6, <1>7 DEF AckedKept

(* An edit that changes a record of a user ends the record's history.      *)
LEMMA KeptEdit ==
    ASSUME Locked, AckedKept, EditConfig
    PROVE  AckedKept'
  <1>1. /\ Agrees(config_toml', acked')
        /\ \A u \in Users : acked'[u] # Absent => acked'[u] = acked[u]
    <2>1. CASE /\ \E e \in Editions : config_toml' = [config_toml EXCEPT !.edition = e]
               /\ UNCHANGED acked
      <3>1. config_toml'.users = config_toml.users
        BY <2>1 DEF Locked, TypeOK, ConfigFile
      <3>. QED  BY <2>1, <3>1 DEF AckedKept, Agrees
    <2>2. ASSUME NEW u \in Users, NEW r,
                 config_toml' = [config_toml EXCEPT !.users[u] = r],
                 acked' = [acked EXCEPT ![u] = Absent]
          PROVE  /\ Agrees(config_toml', acked')
                 /\ \A v \in Users : acked'[v] # Absent => acked'[v] = acked[v]
      <3>1. \A v \in Users \ {u} : config_toml'.users[v] = config_toml.users[v]
        BY <2>2 DEF Locked, TypeOK, ConfigFile, UserTables
      <3>2. acked'[u] = Absent /\ \A v \in Users \ {u} : acked'[v] = acked[v]
        BY <2>2 DEF Locked, TypeOK
      <3>. QED  BY <3>1, <3>2 DEF AckedKept, Agrees
    <2>. QED  BY <2>1, <2>2 DEF EditConfig
  <1>2. UNCHANGED <<phase, state, session, migration, load>>
    BY DEF EditConfig
  <1>. QED  BY <1>1, <1>2 DEF AckedKept, Agrees

LEMMA KeptNext ==
    ASSUME Locked, LoadedFits, AckedKept, [Next]_vars
    PROVE  AckedKept'
  <1>1. CASE Start \/ BeginReload
    <2>1. /\ load'.config = config_toml /\ UNCHANGED <<config_toml, acked, migration, session>>
          /\ UNCHANGED <<phase, state>> \/ phase' = "loading"
      BY <1>1 DEF Start, BeginReload, files
    <2>. QED  BY <2>1, KeptStep
  <1>2. CASE ReadServersAndValidate
    <2>1. UNCHANGED <<state, config_toml, acked>> /\ load.pc = "servers"
      BY <1>2 DEF ReadServersAndValidate, files
    <2>2. CASE Exit
      BY <2>1, <2>2, KeptExit DEF AckedKept
    <2>3. CASE /\ \/ load' = [pc |-> "install", config |-> load.config,
                              servers |-> servers_toml]
                  \/ load' = Idle
               /\ UNCHANGED <<phase, session, migration>>
      <3>1. load'.pc # "idle" => load'.config = load.config
        BY <2>3 DEF Idle
      <3>. QED  BY <2>1, <2>3, <3>1 DEF AckedKept
    <2>. QED  BY <1>2, <2>2, <2>3 DEF ReadServersAndValidate
  <1>3. CASE Install
    <2>1. /\ state'.config = load.config /\ load'.pc = "idle" /\ load.pc = "install"
          /\ phase' = "starting" => phase \in {"loading", "starting"}
          /\ UNCHANGED <<config_toml, acked, session, migration>>
      BY <1>3 DEF Install, files, Idle
    <2>. QED  BY <2>1 DEF AckedKept
  <1>4. CASE Migrate \/ MigrateWrite
    BY <1>4, KeptMigration
  <1>5. ASSUME NEW s \in Sessions, Login(s) \/ BeginUpdate(s) \/ LoadDocument(s)
        PROVE  AckedKept'
    <2>1. UNCHANGED <<config_toml, acked, migration, load>> /\ phase' = "serving"
      BY <1>5 DEF Login, BeginUpdate, LoadDocument, Locked, LockHeld, files
    <2>2. ASSUME NEW t \in Sessions, session'[t].pc = "write"
          PROVE  session'[t] = session[t] \/ session'[t].doc = config_toml
      <3>. DEFINE x == [pc |-> "write", user |-> session[s].user,
                        change |-> session[s].change, doc |-> config_toml]
      <3>1. session \in [Sessions -> SessionStates]
        BY DEF Locked, TypeOK
      <3>2. CASE t # s
        BY <1>5, <3>1, <3>2 DEF Login, BeginUpdate, LoadDocument
      <3>3. CASE t = s
        <4>1. session'[s] = session[s] \/ session'[s].pc # "write" \/ session'[s] = x
          <5>1. CASE Login(s)
            BY <3>1, <5>1 DEF Login
          <5>2. CASE BeginUpdate(s)
            <6>1. [session[s] EXCEPT !.pc = "load"].pc = "load"
              BY <3>1, <5>2, SessionToLoad DEF BeginUpdate
            <6>2. \/ session' = [session EXCEPT ![s] = Idle]
                  \/ session' = [session EXCEPT ![s] = [session[s] EXCEPT !.pc = "load"]]
              BY <5>2 DEF BeginUpdate
            <6>3. session'[s] \in {Idle, [session[s] EXCEPT !.pc = "load"]}
              BY <3>1, <6>2
            <6>4. Idle.pc = "idle"
              BY DEF Idle
            <6>. QED  BY <6>1, <6>3, <6>4
          <5>3. CASE LoadDocument(s)
            BY <3>1, <5>3 DEF LoadDocument, Idle
          <5>. QED  BY <1>5, <5>1, <5>2, <5>3
        <4>. QED  BY <2>2, <3>3, <4>1
      <3>. QED  BY <3>2, <3>3
    <2>. QED  BY <2>1, <2>2, KeptStep
  <1>6. ASSUME NEW s \in Sessions, WriteDocument(s)
        PROVE  AckedKept'
    BY <1>6, KeptWrite
  <1>7. CASE EditConfig
    BY <1>7, KeptEdit
  <1>8. CASE EditServers \/ UNCHANGED vars
    <2>1. UNCHANGED <<phase, state, config_toml, acked, session, migration, load>>
      BY <1>8 DEF EditServers, vars, files
    <2>. QED  BY <2>1, KeptStep
  <1>9. CASE Crash
    BY <1>9, KeptExit DEF Crash, AckedKept, files
  <1>. QED  BY <1>1, <1>2, <1>3, <1>4, <1>5, <1>6, <1>7, <1>8, <1>9 DEF Next

-----------------------------------------------------------------------------
(* Nobody from outside interferes.                                         *)

LEMMA CountsGrow ==
    ASSUME Locked, [Next]_vars, NEW k \in Counted, count'[k] = 0
    PROVE  count[k] = 0
  <1>1. UNCHANGED count \/ \E j \in Counted : \E b : Bump(j, b)
    BY DEF Next, vars, Counted, Start, BeginReload, ReadServersAndValidate, Install, Migrate,
       MigrateWrite, Login, BeginUpdate, LoadDocument, WriteDocument, EditConfig, EditServers,
       Crash
  <1>2. count \in [Counted -> Nat]
    BY DEF Locked, TypeOK
  <1>. QED  BY <1>1, <1>2, BumpTyped

(* What has not happened yet does not happen in this step either.          *)
LEMMA NothingHappens ==
    ASSUME Locked, [Next]_vars, Untouched'
    PROVE  Untouched /\ ~BeginReload /\ ~EditConfig /\ ~EditServers
  <1>1. count \in [Counted -> Nat] /\ {"reloads", "early", "edits"} \subseteq Counted
    BY DEF Locked, TypeOK, Counted
  <1>2. Untouched
    BY <1>1, CountsGrow DEF Untouched
  <1>3. ~BeginReload
    BY <1>1, BumpTyped DEF BeginReload, Untouched
  <1>4. ~EditConfig /\ ~EditServers
    BY <1>1, BumpTyped DEF EditConfig, EditServers, Untouched
  <1>. QED  BY <1>2, <1>3, <1>4

LEMMA NoFailure ==
    ASSUME Locked, [Next]_vars, Undisturbed'
    PROVE  Undisturbed /\ Untouched' /\ \A b : ~Bump("failures", b)
  <1>1. count \in [Counted -> Nat] /\ {"reloads", "early", "edits", "failures"} \subseteq Counted
    BY DEF Locked, TypeOK, Counted
  <1>2. Undisturbed
    BY <1>1, CountsGrow DEF Undisturbed
  <1>3. ASSUME NEW b, Bump("failures", b)
        PROVE  FALSE
    BY <1>1, <1>3, BumpTyped DEF Undisturbed
  <1>. QED  BY <1>2, <1>3 DEF Undisturbed, Untouched

LEMMA HashedExit ==
    ASSUME Exit
    PROVE  UntouchedHashed' /\ UndisturbedTogether'
  <1>1. /\ \A s \in Sessions : session'[s].pc = "idle"
        /\ migration'.pc = "idle" /\ load'.pc = "idle" /\ phase' = "down"
    BY SessionIntro DEF Exit, Idle
  <1>. QED  BY <1>1 DEF UntouchedHashed, UndisturbedTogether

(* The migration on files that nobody edits meanwhile.                     *)
LEMMA MigrationHashes ==
    ASSUME Locked, UntouchedHashed, Untouched, Untouched', Migrate
    PROVE  UntouchedHashed'
  <1>1. /\ phase = "starting" /\ migration.pc = "idle" /\ load.pc = "idle"
        /\ state.config = config_toml /\ config_toml \in ConfigFile
        /\ UNCHANGED config_toml
    BY LoadShape DEF Migrate, Idle, UntouchedHashed, Locked, TypeOK, files
  <1>2. \A s \in Sessions : session[s].pc = "idle"
    BY <1>1 DEF Locked, LockHeld
  <1>3. CASE Exit
    BY <1>3, HashedExit
  <1>4. CASE /\ Unhashed(state.config) = {}
             /\ phase' = "serving"
             /\ UNCHANGED <<state, session, migration, load>>
    BY <1>1, <1>2, <1>4, HashedIsHashed DEF UntouchedHashed
  <1>5. ASSUME NEW us, us = Unhashed(config_toml), NEW hash \in [us -> Hashes],
               state' = [state EXCEPT !.config = HashPasswords(config_toml, us, hash)],
               migration' = [pc |-> "write", doc |-> HashPasswords(config_toml, us, hash)],
               UNCHANGED <<phase, session, load>>
        PROVE  UntouchedHashed'
    <2>. DEFINE d == HashPasswords(config_toml, us, hash)
    <2>1. us \in SUBSET Users /\ \A u \in us : config_toml.users[u] # Absent
      BY <1>5 DEF Unhashed
    <2>2. /\ \A u \in us : d.users[u].password \in Hashes
          /\ \A u \in Users \ us : d.users[u] = config_toml.users[u]
      BY <1>1, <1>5, <2>1, HashedDocument
    <2>3. Hashed(d)
      BY <1>5, <2>2 DEF Hashed, Unhashed
    <2>4. state' = [state EXCEPT !.config = d] /\ migration' = [pc |-> "write", doc |-> d]
      BY <1>5
    <2>. HIDE DEF d
    <2>5. state'.config = d /\ migration'.doc = d /\ migration'.pc = "write"
      BY <2>4 DEF Locked, TypeOK
    <2>. QED  BY <1>1, <1>2, <1>5, <2>3, <2>5 DEF UntouchedHashed
  <1>. QED  BY <1>1, <1>3, <1>4, <1>5 DEF Migrate

LEMMA HashedNext ==
    ASSUME Locked, UntouchedHashed, [Next]_vars
    PROVE  UntouchedHashed'
  <1>. SUFFICES ASSUME Untouched' PROVE UntouchedHashed'
    BY DEF UntouchedHashed
  <1>0. /\ Untouched /\ ~BeginReload /\ ~EditConfig /\ ~EditServers
        /\ config_toml \in ConfigFile /\ state \in [config : ConfigFile, servers : Editions]
        /\ session \in [Sessions -> SessionStates]
    BY NothingHappens DEF Locked, TypeOK
  <1>1. CASE Start
    BY <1>0, <1>1 DEF Start, UntouchedHashed, Locked, LockHeld, files
  <1>2. CASE ReadServersAndValidate
    <2>1. CASE Exit
      BY <2>1, HashedExit
    <2>2. CASE load'.pc # "idle" => load'.config = load.config /\ UNCHANGED phase
      <3>1. load.pc = "servers" /\ UNCHANGED <<state, config_toml>>
        BY <1>2 DEF ReadServersAndValidate, files
      <3>2. Exit \/ UNCHANGED <<phase, session, migration>>
        BY <1>2 DEF ReadServersAndValidate
      <3>. QED  BY <1>0, <2>1, <2>2, <3>1, <3>2 DEF UntouchedHashed
    <2>. QED  BY <1>2, <2>1, <2>2 DEF ReadServersAndValidate, Idle
  <1>3. CASE Install
    <2>1. /\ phase = "loading" /\ load.config = config_toml
          /\ state'.config = load.config /\ load'.pc = "idle" /\ phase' = "starting"
          /\ UNCHANGED <<config_toml, session, migration>>
      BY <1>0, <1>3 DEF Install, files, Idle, UntouchedHashed
    <2>2. migration.pc # "write" /\ \A s \in Sessions : session[s].pc = "idle"
      BY <2>1 DEF Locked, LockHeld
    <2>. QED  BY <2>1, <2>2 DEF UntouchedHashed
  <1>4. CASE Migrate
    BY <1>0, <1>4, MigrationHashes
  <1>5. CASE MigrateWrite
    <2>1. CASE Exit
      BY <2>1, HashedExit
    <2>2. CASE /\ Replace(migration.doc) /\ phase' = "serving" /\ migration' = Idle
               /\ UNCHANGED <<session, load>>
      <3>1. /\ phase = "starting" /\ UNCHANGED state /\ config_toml' = migration.doc
            /\ state.config = migration.doc /\ Hashed(migration.doc) /\ migration'.pc = "idle"
            /\ load.pc = "idle"
        BY <1>0, <1>5, <2>2 DEF MigrateWrite, Replace, Idle, UntouchedHashed, Locked, LockHeld
      <3>2. \A s \in Sessions : session[s].pc = "idle"
        BY <3>1 DEF Locked, LockHeld
      <3>. QED  BY <2>2, <3>1, <3>2 DEF UntouchedHashed
    <2>. QED  BY <1>5, <2>1, <2>2 DEF MigrateWrite
  <1>6. ASSUME NEW s \in Sessions, Login(s)
        PROVE  UntouchedHashed'
    <2>1. /\ UNCHANGED <<phase, state, config_toml, migration, load>>
          /\ \A t \in Sessions : session'[t].pc = "write" => session'[t] = session[t]
      BY <1>0, <1>6 DEF Login, files
    <2>. QED  BY <1>0, <2>1 DEF UntouchedHashed
  <1>7. ASSUME NEW s \in Sessions, BeginUpdate(s)
        PROVE  UntouchedHashed'
    <2>. DEFINE u == session[s].user
                c == session[s].change
    <2>1. /\ phase = "serving" /\ u \in Users /\ c \in Changes /\ session[s].pc = "login"
          /\ UNCHANGED <<phase, config_toml, migration, load>>
          /\ migration.pc # "write" /\ load.pc = "idle"
      BY <1>0, <1>7, SessionShape DEF BeginUpdate, files, Locked, LockHeld, UntouchedHashed
    <2>2. Hashed(state'.config)
      <3>1. CASE UNCHANGED state
        BY <1>0, <2>1, <3>1 DEF UntouchedHashed
      <3>2. CASE /\ state.config.users[u] # Absent
                 /\ state' = [state EXCEPT !.config = UpdateUserRecordInDocument(@, u, c)]
        <4>. DEFINE d == UpdateUserRecordInDocument(state.config, u, c)
        <4>1. state.config \in ConfigFile /\ Hashed(state.config)
          BY <1>0, <2>1 DEF UntouchedHashed
        <4>2. /\ \A v \in Users \ {u} : d.users[v] = state.config.users[v]
              /\ d.users[u].password \in Hashes
          BY <2>1, <3>2, <4>1, UpdatedDocument DEF Hashed
        <4>3. Hashed(d)
          BY <4>1, <4>2 DEF Hashed
        <4>4. state' = [state EXCEPT !.config = d]
          BY <3>2
        <4>. HIDE DEF d
        <4>5. state'.config = d
          BY <1>0, <4>4
        <4>. QED  BY <4>3, <4>5
      <3>. QED  BY <1>7, <3>1, <3>2 DEF BeginUpdate
    <2>3. \A t \in Sessions : session'[t].pc = "write" => session'[t] = session[t]
      <3>1. \/ session' = [session EXCEPT ![s] = Idle]
            \/ session' = [session EXCEPT ![s] = [session[s] EXCEPT !.pc = "load"]]
        BY <1>7 DEF BeginUpdate
      <3>2. [session[s] EXCEPT !.pc = "load"].pc = "load" /\ Idle.pc = "idle"
        BY <1>0, <2>1, SessionToLoad DEF Idle
      <3>. QED  BY <1>0, <3>1, <3>2
    <2>. QED  BY <1>0, <2>1, <2>2, <2>3 DEF UntouchedHashed
  <1>8. ASSUME NEW s \in Sessions, LoadDocument(s)
        PROVE  UntouchedHashed'
    <2>1. UNCHANGED <<phase, state, config_toml, migration, load>>
      BY <1>8 DEF LoadDocument, files
    <2>2. \A t \in Sessions :
             session'[t].pc = "write" => session'[t] = session[t] \/ session'[t].doc = config_toml
      BY <1>0, <1>8 DEF LoadDocument, Idle
    <2>. QED  BY <1>0, <2>1, <2>2 DEF UntouchedHashed
  <1>9. ASSUME NEW s \in Sessions, WriteDocument(s)
        PROVE  UntouchedHashed'
    <2>. DEFINE u == session[s].user
                c == session[s].change
                d == UpdateUserRecordInDocument(session[s].doc, u, c)
    <2>1. /\ phase = "serving" /\ u \in Users /\ c \in Changes /\ session[s].pc = "write"
          /\ session[s].doc = config_toml /\ config_toml.users[u] # Absent
          /\ Hashed(config_toml) /\ lock = s
      BY <1>0, <1>9, SessionShape DEF WriteDocument, Locked, LockHeld, UntouchedHashed
    <2>2. Hashed(d)
      <3>1. /\ \A v \in Users \ {u} : d.users[v] = config_toml.users[v]
            /\ d.users[u].password \in Hashes
        BY <1>0, <2>1, UpdatedDocument DEF Hashed
      <3>. QED  BY <2>1, <3>1 DEF Hashed
    <2>3. /\ config_toml' \in {d, config_toml}
          /\ UNCHANGED <<phase, state, migration, load>>
          /\ session' = [session EXCEPT ![s] = Idle]
      BY <1>9 DEF WriteDocument, Replace, files
    <2>4. \A t \in Sessions : session'[t].pc # "write"
      <3>1. \A t \in Sessions \ {s} : session[t].pc # "write"
        BY <2>1 DEF Locked, LockHeld
      <3>. QED  BY <1>0, <2>3, <3>1 DEF Idle
    <2>5. migration.pc # "write"
      BY <2>1 DEF Locked, LockHeld
    <2>. HIDE DEF d
    <2>. QED  BY <1>0, <2>1, <2>2, <2>3, <2>4, <2>5 DEF UntouchedHashed
  <1>10. CASE Crash
    BY <1>10, HashedExit DEF Crash
  <1>11. CASE UNCHANGED vars
    BY <1>0, <1>11 DEF vars, files, UntouchedHashed
  <1>. QED
    BY <1>0, <1>1, <1>2, <1>3, <1>4, <1>5, <1>6, <1>7, <1>8, <1>9, <1>10, <1>11 DEF Next

LEMMA TogetherNext ==
    ASSUME Locked, LoadedFits, UntouchedHashed, UndisturbedTogether, [Next]_vars
    PROVE  UndisturbedTogether'
  <1>. SUFFICES ASSUME Undisturbed' PROVE UndisturbedTogether'
    BY DEF UndisturbedTogether
  <1>0. /\ Undisturbed /\ Untouched /\ ~BeginReload /\ ~EditConfig /\ ~EditServers
        /\ \A b : ~Bump("failures", b)
        /\ config_toml \in ConfigFile /\ state \in [config : ConfigFile, servers : Editions]
        /\ session \in [Sessions -> SessionStates]
    BY NothingHappens, NoFailure DEF Locked, TypeOK
  <1>1. ASSUME phase' # "serving", phase # "serving", UNCHANGED session
        PROVE  UndisturbedTogether'
    BY <1>1 DEF UndisturbedTogether, Locked, LockHeld
  <1>2. CASE Start
    BY <1>1, <1>2 DEF Start
  <1>3. CASE ReadServersAndValidate
    <2>1. Exit \/ UNCHANGED <<phase, lock, session>>
      BY <1>3 DEF ReadServersAndValidate
    <2>2. UNCHANGED <<state, config_toml>>
      BY <1>3 DEF ReadServersAndValidate, files
    <2>. QED  BY <1>0, <2>1, <2>2, HashedExit DEF UndisturbedTogether
  <1>4. CASE Install
    <2>1. phase = "loading"
      BY <1>0, <1>4 DEF Install, UntouchedHashed
    <2>. QED  BY <1>1, <1>4, <2>1 DEF Install
  <1>5. CASE Migrate
    <2>1. /\ phase = "starting" /\ state.config = config_toml
          /\ UNCHANGED config_toml
      BY <1>0, <1>5 DEF Migrate, Idle, UntouchedHashed, files
    <2>2. \A s \in Sessions : session[s].pc = "idle"
      BY <2>1 DEF Locked, LockHeld
    <2>3. Exit \/ (UNCHANGED <<phase, session>>) \/ (UNCHANGED <<state, session>>)
      BY <1>5 DEF Migrate
    <2>. QED  BY <1>0, <1>1, <2>1, <2>2, <2>3, HashedExit DEF UndisturbedTogether
  <1>6. CASE MigrateWrite
    <2>1. /\ Replace(migration.doc) /\ UNCHANGED <<state, session>>
          /\ phase = "starting" /\ state.config = migration.doc
      BY <1>0, <1>6 DEF MigrateWrite, Locked, LockHeld, UntouchedHashed
    <2>2. \A s \in Sessions : session[s].pc = "idle"
      BY <2>1 DEF Locked, LockHeld
    <2>. QED  BY <2>1, <2>2 DEF Replace, UndisturbedTogether
  <1>7. ASSUME NEW s \in Sessions, Login(s)
        PROVE  UndisturbedTogether'
    <2>1. /\ UNCHANGED <<phase, lock, state, config_toml>>
          /\ \A t \in Sessions :
                session'[t].pc \in {"load", "write"} => session'[t] = session[t]
      BY <1>0, <1>7 DEF Login, files
    <2>. QED  BY <1>0, <2>1 DEF UndisturbedTogether
  <1>8. ASSUME NEW s \in Sessions, BeginUpdate(s)
        PROVE  UndisturbedTogether'
    <2>. DEFINE u == session[s].user
                c == session[s].change
                x == [session[s] EXCEPT !.pc = "load"]
    <2>1. /\ phase = "serving" /\ lock = Free /\ session[s].pc = "login"
          /\ state.config = config_toml
          /\ UNCHANGED <<phase, config_toml>>
      BY <1>0, <1>8 DEF BeginUpdate, files, Locked, LockHeld, UndisturbedTogether
    <2>2. \A t \in Sessions : session[t].pc \notin {"load", "write"}
      BY <2>1, LockAssumption DEF Locked, LockHeld
    <2>3. CASE session' = [session EXCEPT ![s] = Idle] /\ UNCHANGED <<state, lock>>
      <3>1. \A t \in Sessions : session'[t].pc \notin {"load", "write"}
        BY <1>0, <2>2, <2>3 DEF Idle
      <3>. QED  BY <2>1, <2>3, <3>1 DEF UndisturbedTogether
    <2>4. CASE /\ state.config.users[u] # Absent
               /\ state' = [state EXCEPT !.config = UpdateUserRecordInDocument(@, u, c)]
               /\ session' = [session EXCEPT ![s] = x]
               /\ lock' = s
      <3>1. x.pc = "load" /\ x.user = u /\ x.change = c
        BY <1>0, <2>1, SessionToLoad
      <3>2. state'.config = UpdateUserRecordInDocument(config_toml, u, c)
        BY <1>0, <2>1, <2>4
      <3>. HIDE DEF x
      <3>3. /\ session'[s] = x
            /\ \A t \in Sessions \ {s} : session'[t].pc \notin {"load", "write"}
        BY <1>0, <2>2, <2>4
      <3>4. lock' # Free
        BY <2>4, LockAssumption
      <3>. QED  BY <2>1, <2>4, <3>1, <3>2, <3>3, <3>4 DEF UndisturbedTogether
    <2>. QED  BY <1>8, <2>3, <2>4 DEF BeginUpdate
  <1>9. ASSUME NEW s \in Sessions, LoadDocument(s)
        PROVE  UndisturbedTogether'
    <2>. DEFINE u == session[s].user
                c == session[s].change
                x == [pc |-> "write", user |-> u, change |-> c, doc |-> config_toml]
    <2>1. /\ phase = "serving" /\ lock = s /\ session[s].pc = "load"
          /\ u \in Users /\ c \in Changes
          /\ state.config = UpdateUserRecordInDocument(config_toml, u, c)
          /\ config_toml.users[u] # Absent
          /\ UNCHANGED <<phase, state, config_toml>>
      BY <1>0, <1>9, SessionShape DEF LoadDocument, files, Locked, LockHeld, UndisturbedTogether
    <2>2. config_toml.edition # Broken
      <3>1. state.config.edition = config_toml.edition
        <4>. DEFINE d == UpdateUserRecordInDocument(config_toml, u, c)
        <4>1. d.edition = config_toml.edition
          BY <1>0, <2>1, UpdatedDocument
        <4>. HIDE DEF d
        <4>2. state.config = d
          BY <2>1 DEF d
        <4>. QED  BY <4>1, <4>2
      <3>. QED  BY <2>1, <3>1 DEF LoadedFits, Active
    <2>3. session' = [session EXCEPT ![s] = x] /\ UNCHANGED lock
      BY <1>9, <2>1, <2>2 DEF LoadDocument
    <2>4. \A t \in Sessions \ {s} : session'[t].pc \notin {"load", "write"}
      BY <1>0, <2>1, <2>3 DEF Locked, LockHeld
    <2>5. session'[s].user = u /\ session'[s].change = c
      BY <1>0, <2>3
    <2>6. lock' # Free
      BY <2>1, <2>3, LockAssumption
    <2>. QED  BY <2>1, <2>4, <2>5, <2>6 DEF UndisturbedTogether
  <1>10. ASSUME NEW s \in Sessions, WriteDocument(s)
         PROVE  UndisturbedTogether'
    <2>. DEFINE u == session[s].user
                c == session[s].change
    <2>1. /\ lock = s /\ session[s].pc = "write" /\ session[s].doc = config_toml
          /\ state.config = UpdateUserRecordInDocument(config_toml, u, c)
      BY <1>0, <1>10 DEF WriteDocument, Locked, LockHeld, UntouchedHashed, UndisturbedTogether
    <2>2. /\ config_toml' = UpdateUserRecordInDocument(config_toml, u, c)
          /\ session' = [session EXCEPT ![s] = Idle]
          /\ UNCHANGED state
      BY <1>0, <1>10, <2>1 DEF WriteDocument, Replace
    <2>3. \A t \in Sessions : session'[t].pc \notin {"load", "write"}
      <3>1. \A t \in Sessions \ {s} : session[t].pc \notin {"load", "write"}
        BY <2>1 DEF Locked, LockHeld
      <3>. QED  BY <1>0, <2>2, <3>1 DEF Idle
    <2>. QED  BY <2>1, <2>2, <2>3 DEF UndisturbedTogether
  <1>11. CASE Crash
    BY <1>11, HashedExit DEF Crash
  <1>12. CASE UNCHANGED vars
    BY <1>0, <1>12 DEF vars, files, UndisturbedTogether
  <1>. QED
    BY <1>0, <1>2, <1>3, <1>4, <1>5, <1>6, <1>7, <1>8, <1>9, <1>10, <1>11, <1>12 DEF Next

-----------------------------------------------------------------------------
(* All layers together.                                                    *)

LEMMA StoreInit == Init => StoreInv
  <1>. SUFFICES ASSUME Init PROVE StoreInv
    OBVIOUS
  <1>1. /\ phase = "down" /\ load.pc = "idle" /\ migration.pc = "idle"
        /\ \A s \in Sessions : session[s].pc = "idle"
        /\ \A u \in Users : acked[u] = Absent
    BY DEF Init, Idle
  <1>2. Locked
    BY LockedInit
  <1>. QED
    BY <1>1, <1>2 DEF StoreInv, LoadedFits, Active, AckedKept, Agrees, UntouchedHashed,
       UndisturbedTogether

LEMMA StoreNext == StoreInv /\ [Next]_vars => StoreInv'
  BY LockedNext, FitsNext, KeptNext, HashedNext, TogetherNext DEF StoreInv

(* StoreInv is an inductive invariant.                                     *)
THEOREM StoreInvariant == Spec => []StoreInv
  BY StoreInit, StoreNext, PTL DEF Spec

(***************************************************************************)
(* Type correctness: every variable of the store keeps to its set; in      *)
(* particular no update writes a record for a user who is gone.            *)
(***************************************************************************)
THEOREM TypeCorrect == Spec => []TypeOK
  BY StoreInvariant, PTL DEF StoreInv, Locked

(***************************************************************************)
(* Whatever ConfigStore::load and reload read while the files are edited,  *)
(* the two halves of the active configuration fit together.                *)
(***************************************************************************)
THEOREM ActiveConfigurationFits == Spec => []ActiveStateFits
  <1>1. StoreInv => ActiveStateFits
    BY DEF StoreInv, LoadedFits, ActiveStateFits
  <1>. QED  BY <1>1, StoreInvariant, PTL

(***************************************************************************)
(* What update_user_credentials reported as stored is on disk until the    *)
(* next update or edit of that user, through other updates, failed writes, *)
(* crashes, restarts and the migration.                                    *)
(***************************************************************************)
THEOREM AcknowledgedIsDurable == Spec => []AckedDurable
  <1>1. StoreInv => AckedDurable
    BY DEF StoreInv, AckedKept, Agrees, AckedDurable
  <1>. QED  BY <1>1, StoreInvariant, PTL

(***************************************************************************)
(* While no reload, no administrator and no failing write interferes, an   *)
(* acknowledged record is also the one the server serves.                  *)
(***************************************************************************)
THEOREM AcknowledgedIsServed == Spec => []AckedServedUndisturbed
  <1>1. StoreInv => AckedServedUndisturbed
    BY DEF StoreInv, AckedKept, Agrees, UndisturbedTogether, AckedServedUndisturbed, AckedServed
  <1>. QED  BY <1>1, StoreInvariant, PTL

-----------------------------------------------------------------------------
(* The register of CredentialRegister.  Until somebody edits a file it     *)
(* stays, from the read of a start, of the migration or of an update to    *)
(* the write that ends it, what was read; reloads, whatever they install   *)
(* in memory, do not matter.                                               *)

HashedFrom(d, e) ==
    /\ Unhashed(d) # {}
    /\ \E hash \in [Unhashed(d) -> Hashes] : e = HashPasswords(d, Unhashed(d), hash)

Unedited ==
    /\ phase \in {"loading", "starting"} /\ load.pc # "idle" => load.config = config_toml
    /\ phase = "starting" /\ migration.pc = "idle" => state.config = config_toml
    /\ migration.pc = "write" => HashedFrom(config_toml, migration.doc)
    /\ phase = "serving" => Hashed(config_toml)
    /\ \A s \in Sessions : session[s].pc = "write" => session[s].doc = config_toml
    /\ \A s \in Sessions : session[s].pc # "idle" => session[s].change.totp_secret # Keep

LEMMA UneditedExit ==
    ASSUME Exit
    PROVE  Unedited'
  <1>1. /\ \A s \in Sessions : session'[s].pc = "idle"
        /\ migration'.pc = "idle" /\ phase' = "down"
    BY SessionIntro DEF Exit, Idle
  <1>. QED  BY <1>1 DEF Unedited

(* What the migration makes of a document has no bootstrap password.       *)
LEMMA HashedFromIsHashed ==
    ASSUME NEW d \in ConfigFile, NEW e, HashedFrom(d, e)
    PROVE  Hashed(e)
  <1>1. PICK hash \in [Unhashed(d) -> Hashes] : e = HashPasswords(d, Unhashed(d), hash)
    BY DEF HashedFrom
  <1>2. PICK us \in SUBSET Users : us = Unhashed(d) /\ \A u \in us : d.users[u] # Absent
    BY DEF Unhashed
  <1>3. /\ \A u \in us : e.users[u].password \in Hashes
        /\ \A u \in Users \ us : e.users[u] = d.users[u]
    BY <1>1, <1>2, HashedDocument
  <1>. QED  BY <1>2, <1>3 DEF Hashed, Unhashed

(* A commit leaves none in a document that has none.                       *)
LEMMA UpdatedIsHashed ==
    ASSUME NEW d \in ConfigFile, NEW u \in Users, NEW c \in Changes, d.users[u] # Absent,
           Hashed(d)
    PROVE  Hashed(UpdateUserRecordInDocument(d, u, c))
  <1>1. PICK e : e = UpdateUserRecordInDocument(d, u, c)
    OBVIOUS
  <1>2. /\ \A v \in Users \ {u} : e.users[v] = d.users[v]
        /\ e.users[u].password \in Hashes
    BY <1>1, UpdatedDocument DEF Hashed
  <1>. QED  BY <1>1, <1>2 DEF Hashed

LEMMA NoEdit ==
    ASSUME Locked, count'["edits"] = 0
    PROVE  ~EditConfig /\ ~EditServers
  <1>1. count["edits"] \in Nat /\ count \in [Counted -> Nat] /\ "edits" \in Counted
    BY DEF Locked, TypeOK, Counted
  <1>2. ASSUME Bump("edits", MaxEdits) PROVE FALSE
    BY <1>1, <1>2 DEF Bump
  <1>. QED  BY <1>2 DEF EditConfig, EditServers

(* The number of edits never decreases.                                    *)
LEMMA EditsStay ==
    ASSUME Locked, [Next]_vars, count'["edits"] = 0
    PROVE  count["edits"] = 0
  <1>1. count \in [Counted -> Nat]
    BY DEF Locked, TypeOK
  <1>2. ASSUME NEW k \in Counted, NEW b, Bump(k, b)
        PROVE  count'["edits"] \in {count["edits"], count["edits"] + 1}
    BY <1>1, <1>2 DEF Bump, Counted
  <1>3. count["edits"] \in Nat /\ {"reloads", "early", "edits", "updates", "crashes", "failures"} \subseteq Counted
    BY <1>1 DEF Counted
  <1>4. CASE UNCHANGED count
    BY <1>4
  <1>5. CASE \E k \in Counted : \E b : Bump(k, b)
    BY <1>2, <1>3, <1>5
  <1>6. CASE UNCHANGED vars
    BY <1>4, <1>6 DEF vars
  <1>7. CASE BeginReload \/ EditConfig \/ EditServers \/ Crash
    BY <1>3, <1>5, <1>7 DEF BeginReload, EditConfig, EditServers, Crash
  <1>8. CASE Start \/ ReadServersAndValidate \/ Install \/ Migrate
    BY <1>4, <1>8 DEF Start, ReadServersAndValidate, Install, Migrate
  <1>9. CASE MigrateWrite
    BY <1>3, <1>4, <1>5, <1>9 DEF MigrateWrite
  <1>10. ASSUME NEW s \in Sessions, Login(s) \/ BeginUpdate(s) \/ LoadDocument(s) \/ WriteDocument(s)
         PROVE  count["edits"] = 0
    BY <1>3, <1>4, <1>5, <1>10 DEF Login, BeginUpdate, LoadDocument, WriteDocument
  <1>. QED  BY <1>6, <1>7, <1>8, <1>9, <1>10 DEF Next

LEMMA UneditedLoads ==
    ASSUME Locked, Unedited, Start \/ BeginReload \/ ReadServersAndValidate \/ Install
    PROVE  Unedited'
  <1>1. CASE Start \/ BeginReload
    <2>1. /\ UNCHANGED <<state, config_toml, session, migration>> /\ load'.config = config_toml
          /\ phase' = phase \/ (phase' = "loading" /\ phase = "down")
      BY <1>1 DEF Start, BeginReload, files
    <2>. QED  BY <2>1 DEF Unedited
  <1>2. CASE ReadServersAndValidate
    <2>1. CASE Exit
      BY <2>1, UneditedExit
    <2>2. CASE /\ \/ load' = [pc |-> "install", config |-> load.config,
                              servers |-> servers_toml]
                  \/ load' = Idle
               /\ UNCHANGED <<phase, session, migration>>
      <3>1. load'.pc # "idle" => load'.config = load.config
        BY <2>2 DEF Idle
      <3>2. UNCHANGED <<state, config_toml>> /\ load.pc = "servers"
        BY <1>2 DEF ReadServersAndValidate, files
      <3>. QED  BY <2>2, <3>1, <3>2 DEF Unedited
    <2>. QED  BY <1>2, <2>1, <2>2 DEF ReadServersAndValidate
  <1>3. CASE Install
    <2>1. /\ state'.config = load.config /\ load'.pc = "idle" /\ load.pc = "install"
          /\ phase' = "starting" => phase \in {"loading", "starting"}
          /\ phase' = "serving" => phase = "serving"
          /\ UNCHANGED <<config_toml, session, migration>>
      BY <1>3 DEF Install, files, Idle
    <2>. QED  BY <2>1 DEF Unedited
  <1>. QED  BY <1>1, <1>2, <1>3

LEMMA UneditedMigration ==
    ASSUME Locked, Unedited, Migrate \/ MigrateWrite
    PROVE  Unedited'
  <1>1. /\ config_toml \in ConfigFile /\ state \in [config : ConfigFile, servers : Editions]
        /\ phase = "starting"
        /\ \A s \in Sessions : session[s].pc = "idle"
    BY DEF Locked, TypeOK, LockHeld, Migrate, MigrateWrite
  <1>2. CASE Exit
    BY <1>2, UneditedExit
  <1>3. CASE Migrate /\ ~Exit
    <2>1. state.config = config_toml /\ UNCHANGED config_toml
      BY <1>3 DEF Migrate, Unedited, Idle, files
    <2>2. CASE Unhashed(state.config) = {} /\ phase' = "serving"
               /\ UNCHANGED <<state, session, migration>>
      <3>1. Hashed(config_toml')
        BY <1>1, <2>1, <2>2, HashedIsHashed
      <3>2. migration.pc = "idle"
        BY <1>3 DEF Migrate, Idle
      <3>. QED  BY <1>1, <2>1, <2>2, <3>1, <3>2 DEF Unedited
    <2>3. ASSUME NEW us, us = Unhashed(config_toml), us # {}, NEW hash \in [us -> Hashes],
                 migration' = [pc |-> "write", doc |-> HashPasswords(config_toml, us, hash)],
                 UNCHANGED <<phase, session, load>>
          PROVE  Unedited'
      <3>1. migration'.pc = "write" /\ migration'.doc = HashPasswords(config_toml, us, hash)
        BY <2>3
      <3>2. HashedFrom(config_toml', migration'.doc)
        BY <2>1, <2>3, <3>1 DEF HashedFrom
      <3>. QED  BY <1>1, <2>1, <2>3, <3>1, <3>2 DEF Unedited
    <2>. QED  BY <1>3, <2>1, <2>2, <2>3 DEF Migrate
  <1>4. CASE MigrateWrite /\ ~Exit
    <2>1. /\ config_toml' = migration.doc /\ phase' = "serving" /\ migration'.pc = "idle"
          /\ UNCHANGED session
          /\ HashedFrom(config_toml, migration.doc)
      BY <1>4 DEF MigrateWrite, Replace, Idle, Unedited
    <2>2. Hashed(config_toml')
      BY <1>1, <2>1, HashedFromIsHashed
    <2>. QED  BY <1>1, <2>1, <2>2 DEF Unedited
  <1>. QED  BY <1>2, <1>3, <1>4

LEMMA UneditedUpdates ==
    ASSUME Locked, Unedited, NEW s \in Sessions,
           Login(s) \/ BeginUpdate(s) \/ LoadDocument(s) \/ WriteDocument(s)
    PROVE  Unedited'
  <1>1. /\ session \in [Sessions -> SessionStates] /\ config_toml \in ConfigFile
        /\ phase = "serving" /\ migration.pc # "write"
        /\ UNCHANGED <<phase, migration, load>>
        /\ session[s].pc # "idle" => session[s].user \in Users /\ session[s].change \in Changes
    BY SessionShape DEF Locked, TypeOK, LockHeld, Login, BeginUpdate, LoadDocument, WriteDocument
  <1>2. ASSUME UNCHANGED config_toml,
               NEW x, session' = [session EXCEPT ![s] = x],
               x.pc = "write" => x.doc = config_toml,
               x.pc # "idle" => x.change.totp_secret # Keep
        PROVE  Unedited'
    BY <1>1, <1>2 DEF Unedited
  <1>3. Idle.pc = "idle"
    BY DEF Idle
  <1>4. CASE Login(s)
    <2>1. PICK u \in Users, c \in Changes :
             /\ c.totp_secret # Keep
             /\ session' = [session EXCEPT ![s] = [pc |-> "login", user |-> u, change |-> c]]
      BY <1>4 DEF Login, PendingChanges
    <2>2. UNCHANGED config_toml
      BY <1>4 DEF Login, files
    <2>. QED  BY <1>2, <2>1, <2>2
  <1>5. CASE BeginUpdate(s)
    <2>1. /\ UNCHANGED config_toml /\ session[s].pc = "login"
          /\ \/ session' = [session EXCEPT ![s] = Idle]
             \/ session' = [session EXCEPT ![s] = [session[s] EXCEPT !.pc = "load"]]
      BY <1>5 DEF BeginUpdate, files
    <2>2. PICK x : x = [session[s] EXCEPT !.pc = "load"]
      OBVIOUS
    <2>3. x.pc = "load" /\ x.change = session[s].change
      BY <1>1, <2>1, <2>2, SessionToLoad
    <2>4. x.change.totp_secret # Keep
      BY <2>1, <2>3 DEF Unedited
    <2>. QED  BY <1>2, <1>3, <2>1, <2>2, <2>3, <2>4
  <1>6. CASE LoadDocument(s)
    <2>. DEFINE x == [pc |-> "write", user |-> session[s].user,
                      change |-> session[s].change, doc |-> config_toml]
    <2>1. UNCHANGED config_toml /\ session[s].pc = "load"
      BY <1>6 DEF LoadDocument, files
    <2>2. session' = [session EXCEPT ![s] = Idle] \/ session' = [session EXCEPT ![s] = x]
      BY <1>6 DEF LoadDocument
    <2>3. x.doc = config_toml /\ x.change.totp_secret # Keep
      BY <2>1 DEF Unedited
    <2>. HIDE DEF x
    <2>. QED  BY <1>2, <1>3, <2>1, <2>2, <2>3
  <1>7. CASE WriteDocument(s)
    <2>1. /\ session[s].pc = "write" /\ lock = s /\ session[s].doc = config_toml
          /\ config_toml.users[session[s].user] # Absent
          /\ session' = [session EXCEPT ![s] = Idle]
          /\ Hashed(config_toml)
      BY <1>1, <1>7 DEF WriteDocument, Locked, LockHeld, Unedited
    <2>2. \A t \in Sessions \ {s} : session[t].pc # "write"
      BY <2>1 DEF Locked, LockHeld
    <2>3. \A t \in Sessions : (session'[t] = session[t] /\ t # s) \/ session'[t].pc = "idle"
      BY <1>1, <1>3, <2>1
    <2>4. PICK d : d = UpdateUserRecordInDocument(config_toml, session[s].user, session[s].change)
      OBVIOUS
    <2>5. config_toml' \in {d, config_toml}
      BY <1>7, <2>1, <2>4 DEF WriteDocument, Replace, files
    <2>6. Hashed(config_toml')
      BY <1>1, <2>1, <2>4, <2>5, UpdatedIsHashed
    <2>. QED  BY <1>1, <2>2, <2>3, <2>6 DEF Unedited
  <1>. QED  BY <1>4, <1>5, <1>6, <1>7

LEMMA UneditedNext ==
    Locked /\ (count["edits"] = 0 => Unedited) /\ [Next]_vars =>
        (count["edits"] = 0 => Unedited)'
  <1>. SUFFICES ASSUME Locked, count["edits"] = 0 => Unedited, [Next]_vars, count'["edits"] = 0
                PROVE  Unedited'
    OBVIOUS
  <1>3. Unedited
    BY EditsStay
  <1>1. CASE Crash
    BY <1>1, UneditedExit DEF Crash
  <1>2. CASE UNCHANGED vars
    BY <1>2, <1>3 DEF vars, files, Unedited
  <1>. QED  BY <1>1, <1>2, <1>3, NoEdit, UneditedLoads, UneditedMigration, UneditedUpdates DEF Next

LEMMA UneditedInit == Init => Unedited
  <1>. SUFFICES ASSUME Init PROVE Unedited
    OBVIOUS
  <1>1. phase = "down" /\ migration.pc = "idle" /\ \A s \in Sessions : session[s].pc = "idle"
    BY DEF Init, Idle
  <1>. QED  BY <1>1 DEF Unedited

(* The record that a commit stores.                                        *)
LEMMA CommittedRecord ==
    ASSUME NEW d \in ConfigFile, NEW u \in Users, NEW c \in Changes,
           d.users[u] # Absent, Hashed(d), c.totp_secret # Keep
    PROVE  \E r \in Register!Committed :
              /\ UpdateUserRecordInDocument(d, u, c).users = [d.users EXCEPT ![u] = r]
              /\ UpdateUserRecordInDocument(d, u, c).users[u] = r
  <1>. DEFINE r == UpdateRecord(d.users[u], c)
  <1>1. d = [users |-> d.users, edition |-> d.edition] /\ d.users \in UserTables
    BY DEF ConfigFile
  <1>2. d.users[u] \in UserRecord /\ d.users[u].password \in Hashes
    BY <1>1 DEF UserTables, Hashed
  <1>3. c.password # Keep => c.password \in Hashes
    BY DEF Changes
  <1>4. (IF c.password = Keep THEN d.users[u].password ELSE c.password) \in Hashes
    BY <1>2, <1>3
  <1>5. r \in Register!Committed
    BY <1>4 DEF UpdateRecord, Changes, Register!Committed
  <1>6. UpdateUserRecordInDocument(d, u, c) = [d EXCEPT !.users = [d.users EXCEPT ![u] = r]]
    BY <1>1 DEF UpdateUserRecordInDocument
  <1>. HIDE DEF r
  <1>7. UpdateUserRecordInDocument(d, u, c).users = [d.users EXCEPT ![u] = r]
    BY <1>1, <1>6
  <1>8. [d.users EXCEPT ![u] = r][u] = r
    BY <1>1 DEF UserTables
  <1>. QED  BY <1>5, <1>7, <1>8

LEMMA RegisterHashes ==
    ASSUME Locked, Unedited, MigrateWrite, Replace(migration.doc)
    PROVE  Register!HashAll
  <1>1. config_toml \in ConfigFile /\ UNCHANGED acked
    BY DEF Locked, TypeOK, MigrateWrite
  <1>2. Unhashed(config_toml) = Register!Unhashed
    BY DEF Unhashed, Register!Unhashed
  <1>3. HashedFrom(config_toml, config_toml')
    BY DEF MigrateWrite, Unedited, Replace
  <1>4. PICK hash \in [Register!Unhashed -> Hashes] :
           config_toml' = HashPasswords(config_toml, Register!Unhashed, hash)
    BY <1>2, <1>3 DEF HashedFrom
  <1>5. config_toml = [users |-> config_toml.users, edition |-> config_toml.edition]
    BY <1>1 DEF ConfigFile
  <1>6. config_toml'.users =
           [u \in Users |->
               IF u \in Register!Unhashed
               THEN [config_toml.users[u] EXCEPT !.password = hash[u],
                                                 !.must_change_password = TRUE]
               ELSE config_toml.users[u]]
    BY <1>4, <1>5 DEF HashPasswords
  <1>7. Register!Unhashed # {}
    BY <1>2, <1>3 DEF HashedFrom
  <1>. QED  BY <1>1, <1>6, <1>7 DEF Register!HashAll

LEMMA RegisterCommits ==
    ASSUME Locked, Unedited, NEW s \in Sessions, WriteDocument(s),
           ~ UNCHANGED <<config_toml, acked>>
    PROVE  Register!Next
  <1>1. /\ config_toml \in ConfigFile /\ Hashed(config_toml)
        /\ session[s].doc = config_toml
        /\ session[s].user \in Users /\ session[s].change \in Changes
        /\ session[s].change.totp_secret # Keep
        /\ config_toml.users[session[s].user] # Absent
    BY SessionShape DEF Locked, TypeOK, LockHeld, Unedited, WriteDocument
  <1>2. PICK u \in Users, c \in Changes : u = session[s].user /\ c = session[s].change
    BY <1>1
  <1>3. PICK d : d = UpdateUserRecordInDocument(config_toml, u, c)
    OBVIOUS
  <1>4. PICK r \in Register!Committed :
           d.users = [config_toml.users EXCEPT ![u] = r] /\ d.users[u] = r
    <2>1. config_toml.users[u] # Absent /\ c.totp_secret # Keep
      BY <1>1, <1>2
    <2>. QED  BY <1>1, <1>3, <2>1, CommittedRecord
  <1>5. /\ config_toml' = d
        /\ \E answer \in {r, Absent} : acked' = [acked EXCEPT ![u] = answer]
    BY <1>1, <1>2, <1>3, <1>4 DEF WriteDocument, Replace, files
  <1>6. Register!Unhashed = {}
    BY <1>1 DEF Hashed, Register!Unhashed
  <1>7. Register!Commit(u)
    BY <1>1, <1>2, <1>4, <1>5, <1>6 DEF Register!Commit
  <1>. QED  BY <1>7 DEF Register!Next

(***************************************************************************)
(* Whatever sessions, reloads, failed writes and crashes do, and however   *)
(* many of them: until an administrator edits a file, config.toml is the   *)
(* atomic register of CredentialRegister.  One rename hashes all the       *)
(* bootstrap passwords of a start, one rename stores what a session        *)
(* committed and leaves every other user alone, and only they change what  *)
(* is stored.                                                              *)
(***************************************************************************)
THEOREM StoreIsRegister == Spec => ImplementsRegister
  <1>1. Init => Register!Init
    BY DEF Init, Register!Init
  <1>2. Locked /\ (count["edits"] = 0 => Unedited) /\ [Next]_vars =>
           [count'["edits"] = 0 => Register!Next]_(<<config_toml.users, acked>>)
    <2>. SUFFICES ASSUME Locked, count["edits"] = 0 => Unedited, [Next]_vars,
                         count'["edits"] = 0, ~ UNCHANGED <<config_toml, acked>>
                  PROVE  Register!Next
      OBVIOUS
    <2>. Unedited
      BY EditsStay
    <2>1. CASE Start \/ BeginReload \/ ReadServersAndValidate \/ Install \/ Migrate \/ Crash
      BY <2>1 DEF Start, BeginReload, ReadServersAndValidate, Install, Migrate, Crash, files
    <2>2. CASE MigrateWrite
      <3>1. Replace(migration.doc)
        BY <2>2 DEF MigrateWrite, files
      <3>. QED  BY <2>2, <3>1, RegisterHashes DEF Register!Next
    <2>3. ASSUME NEW s \in Sessions, Login(s) \/ BeginUpdate(s) \/ LoadDocument(s)
          PROVE  FALSE
      BY <2>3 DEF Login, BeginUpdate, LoadDocument, files
    <2>4. ASSUME NEW s \in Sessions, WriteDocument(s)
          PROVE  Register!Next
      BY <2>4, RegisterCommits
    <2>. QED  BY <2>1, <2>2, <2>3, <2>4, NoEdit DEF Next, vars, files
  <1>3. Spec => []Locked
    BY StoreInvariant, PTL DEF StoreInv
  <1>4. Init => (count["edits"] = 0 => Unedited)
    BY UneditedInit
  <1>5. Locked /\ (count["edits"] = 0 => Unedited) /\ [Next]_vars => (count["edits"] = 0 => Unedited)'
    BY UneditedNext
  <1>. QED  BY <1>1, <1>2, <1>3, <1>4, <1>5, PTL DEF Spec, ImplementsRegister

-----------------------------------------------------------------------------
(* What the server serves has no bootstrap password, unless somebody edits *)
(* a file or begins a reload before the migration is done.  A reload that  *)
(* begins later reads what the migration or an update has written.         *)

MemoryHashed ==
    (count["edits"] = 0 /\ count["early"] = 0) =>
        /\ load.pc # "idle" => phase = "loading" \/ (phase = "serving" /\ Hashed(load.config))
        /\ migration.pc = "write" => Hashed(state.config)
        /\ phase = "serving" => Hashed(state.config)

LEMMA MemoryMigration ==
    ASSUME Locked, Unedited, MemoryHashed, count["early"] = 0, count["edits"] = 0, Migrate
    PROVE  MemoryHashed'
  <1>1. /\ phase = "starting" /\ migration.pc = "idle" /\ load.pc = "idle"
        /\ state.config = config_toml /\ config_toml \in ConfigFile
        /\ state \in [config : ConfigFile, servers : Editions]
    BY LoadShape DEF Migrate, Idle, MemoryHashed, Unedited, Locked, TypeOK
  <1>2. CASE Exit
    BY <1>2 DEF Exit, Idle, MemoryHashed
  <1>3. CASE Unhashed(state.config) = {} /\ phase' = "serving" /\ UNCHANGED <<state, migration, load>>
    BY <1>1, <1>3, HashedIsHashed DEF MemoryHashed
  <1>4. ASSUME NEW us, us = Unhashed(config_toml), us # {}, NEW hash \in [us -> Hashes],
               state' = [state EXCEPT !.config = HashPasswords(config_toml, us, hash)],
               UNCHANGED <<phase, load>>
        PROVE  MemoryHashed'
    <2>1. PICK d : d = HashPasswords(config_toml, us, hash)
      OBVIOUS
    <2>2. HashedFrom(config_toml, d)
      BY <1>4, <2>1 DEF HashedFrom
    <2>3. state'.config = d
      BY <1>1, <1>4, <2>1
    <2>. QED  BY <1>1, <1>4, <2>2, <2>3, HashedFromIsHashed DEF MemoryHashed
  <1>. QED  BY <1>1, <1>2, <1>3, <1>4 DEF Migrate

LEMMA MemoryNext ==
    Locked /\ (count["edits"] = 0 => Unedited) /\ MemoryHashed /\ [Next]_vars => MemoryHashed'
  <1>. SUFFICES ASSUME Locked, count["edits"] = 0 => Unedited, MemoryHashed, [Next]_vars,
                       count'["edits"] = 0, count'["early"] = 0
                PROVE  MemoryHashed'
    BY DEF MemoryHashed
  <1>0. /\ Unedited /\ count["edits"] = 0 /\ count["early"] = 0
        /\ ~EditConfig /\ ~EditServers
        /\ config_toml \in ConfigFile /\ state \in [config : ConfigFile, servers : Editions]
        /\ load.pc # "idle" => phase = "loading" \/ (phase = "serving" /\ Hashed(load.config))
        /\ migration.pc = "write" => Hashed(state.config) /\ phase = "starting"
        /\ phase = "serving" => Hashed(state.config)
    <2>1. "early" \in Counted
      BY DEF Counted
    <2>. QED  BY <2>1, EditsStay, NoEdit, CountsGrow DEF Locked, LockHeld, TypeOK, MemoryHashed
  <1>1. CASE Start
    BY <1>0, <1>1 DEF Start, MemoryHashed
  <1>2. CASE BeginReload
    <2>1. phase = "serving"
      <3>1. ASSUME phase = "starting" PROVE FALSE
        <4>1. Bump("early", MaxReloads)
          BY <1>2, <3>1 DEF BeginReload
        <4>. QED  BY <4>1, BumpTyped DEF Counted, Locked, TypeOK
      <3>. QED  BY <1>2, <3>1 DEF BeginReload
    <2>. QED  BY <1>0, <1>2, <2>1 DEF BeginReload, Unedited, MemoryHashed
  <1>3. CASE ReadServersAndValidate
    <2>1. CASE Exit
      BY <2>1 DEF Exit, Idle, MemoryHashed
    <2>2. CASE UNCHANGED <<phase, migration>> /\ (load'.pc # "idle" => load'.config = load.config)
      BY <1>0, <1>3, <2>2 DEF ReadServersAndValidate, MemoryHashed
    <2>. QED  BY <1>3, <2>1, <2>2 DEF ReadServersAndValidate, Idle
  <1>4. CASE Install
    <2>1. /\ load'.pc = "idle" /\ UNCHANGED migration
          /\ state'.config = load.config /\ lock = Free
          /\ phase' = IF phase = "loading" THEN "starting" ELSE phase
          /\ load.pc # "idle"
      BY <1>4 DEF Install, Idle
    <2>2. migration.pc # "write"
      BY <2>1, LockAssumption DEF Locked, LockHeld, Free, Boot
    <2>. QED  BY <1>0, <2>1, <2>2 DEF MemoryHashed
  <1>5. CASE Migrate
    BY <1>0, <1>5, MemoryMigration
  <1>6. CASE MigrateWrite
    <2>1. CASE Exit
      BY <2>1 DEF Exit, Idle, MemoryHashed
    <2>2. CASE migration' = Idle /\ UNCHANGED load
      <3>1. load.pc = "idle"
        BY <1>0, <1>6 DEF MigrateWrite
      <3>. QED  BY <1>0, <1>6, <2>2, <3>1 DEF MigrateWrite, Idle, MemoryHashed
    <2>. QED  BY <1>6, <2>1, <2>2 DEF MigrateWrite
  <1>7. ASSUME NEW s \in Sessions, BeginUpdate(s)
        PROVE  MemoryHashed'
    <2>. DEFINE u == session[s].user
                c == session[s].change
    <2>1. /\ phase = "serving" /\ u \in Users /\ c \in Changes
          /\ UNCHANGED <<phase, migration, load>>
      BY <1>7, SessionShape DEF BeginUpdate, Locked, LockHeld, TypeOK
    <2>2. CASE UNCHANGED state
      BY <1>0, <2>1, <2>2 DEF MemoryHashed
    <2>3. CASE /\ state.config.users[u] # Absent
               /\ state' = [state EXCEPT !.config = UpdateUserRecordInDocument(@, u, c)]
      <3>1. PICK d : d = UpdateUserRecordInDocument(state.config, u, c)
        OBVIOUS
      <3>2. Hashed(d)
        BY <1>0, <2>1, <2>3, <3>1, UpdatedIsHashed
      <3>3. state'.config = d
        BY <1>0, <2>3, <3>1
      <3>. QED  BY <1>0, <2>1, <3>2, <3>3 DEF MemoryHashed
    <2>. QED  BY <1>7, <2>2, <2>3 DEF BeginUpdate
  <1>8. ASSUME NEW s \in Sessions, Login(s) \/ LoadDocument(s) \/ WriteDocument(s)
        PROVE  MemoryHashed'
    BY <1>0, <1>8 DEF Login, LoadDocument, WriteDocument, MemoryHashed
  <1>9. CASE Crash
    BY <1>9 DEF Crash, Exit, Idle, MemoryHashed
  <1>10. CASE UNCHANGED vars
    BY <1>0, <1>10 DEF vars, MemoryHashed
  <1>. QED
    BY <1>0, <1>1, <1>2, <1>3, <1>4, <1>5, <1>6, <1>7, <1>8, <1>9, <1>10 DEF Next

(***************************************************************************)
(* Once migrate_bootstrap_passwords let the server serve, no bootstrap     *)
(* password is on disk until an administrator puts one there, whatever     *)
(* reloads, crashes and failed writes there were; and none is in memory    *)
(* unless, besides, a reload began before a migration was done.            *)
(***************************************************************************)
THEOREM ServedIsHashed == Spec => []ServingHashed
  <1>1. Spec => []Locked
    BY StoreInvariant, PTL DEF StoreInv
  <1>2. Init => (count["edits"] = 0 => Unedited) /\ MemoryHashed
    BY UneditedInit DEF Init, Idle, MemoryHashed
  <1>3. Locked /\ (count["edits"] = 0 => Unedited) /\ [Next]_vars => (count["edits"] = 0 => Unedited)'
    BY UneditedNext
  <1>4. Locked /\ (count["edits"] = 0 => Unedited) /\ MemoryHashed /\ [Next]_vars => MemoryHashed'
    BY MemoryNext
  <1>5. Locked /\ (count["edits"] = 0 => Unedited) /\ MemoryHashed => ServingHashed
    <2>1. Locked => config_toml \in ConfigFile /\ state.config \in ConfigFile
      BY DEF Locked, TypeOK
    <2>. QED  BY <2>1, HashedIsHashed DEF Unedited, MemoryHashed, ServingHashed
  <1>. QED  BY <1>1, <1>2, <1>3, <1>4, <1>5, PTL DEF Spec

=============================================================================
