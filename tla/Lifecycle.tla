----------------------------- MODULE Lifecycle -----------------------------
(***************************************************************************)
(* The process around the gateway's parts: main of src/main.rs from the    *)
(* seed configuration to the served socket, the SIGHUP listener of         *)
(* src/reload/mod.rs, and reload_on_signal_loop of src/app.rs, which makes *)
(* the configuration store and then the abuse tracker follow the files.    *)
(* The key files of KeyStore are made on the way; the process can be       *)
(* stopped anywhere and started again.                                     *)
(*                                                                         *)
(* config.toml is one document with a revision here: that it is read as    *)
(* two files, migrated and rewritten is in ConfigStore, and what the abuse *)
(* tracker does with its settings is in AbuseTracker.                      *)
(***************************************************************************)
EXTENDS KeyStore

CONSTANTS
    Documents,      \* what config.toml may hold
    Broken,         \* a config.toml that does not parse
    FirstDocument,
    MaxEdits, MaxSignals, MaxStops      \* bounds

Document ==
    [allowed : SUBSET Pairs,
     policies : {"none", "users", "tables"},    \* where the allow_* fields are
     per_user_per_server : BOOLEAN,             \* of [settings]
     fail2ban : BOOLEAN]                        \* whether there is a [fail2ban]

ASSUME DocumentsAssumption ==
    /\ Documents \subseteq Document
    /\ Broken \notin Documents
    /\ FirstDocument \in Documents

ASSUME EditsAssumption == MaxEdits \in Nat

Revisions == 1 .. MaxEdits + 1

NoDocument == [revision |-> 0, document |-> Broken]

ConfigFiles == [revision : Revisions, document : Documents \cup {Broken}]

VARIABLES
    phase,          \* of the process
    per_user_per_server,    \* of the paths, fixed by the seed configuration
    config_toml,    \* the file on disk
    whitelist,      \* whether settings.whitelist_path can be parsed
    active,         \* the configuration of the ConfigStore
    settings,       \* revision of the settings of the AbuseTracker
    hup,            \* a SIGHUP is pending for the listener
    loop,           \* where reload_on_signal_loop is
    provisioned,    \* history: the pairs the start made keys for
    audited,        \* history: the last config_reload event
    refused,        \* history: the tracker's last reload failed
    count           \* history: edits, signals and stops so far

process_vars ==
    <<phase, per_user_per_server, active, settings, hup, loop, provisioned, audited, refused>>
files == <<config_toml, whitelist>>
vars == <<process_vars, files, key_vars, count>>

Starting == {"seed", "chmod", "load", "tracker", "bootstrap", "keys"}

NoLoop == [pc |-> "none", config |-> NoDocument]

TypeOK ==
    /\ KeyTypeOK
    /\ phase \in {"down", "serving"} \cup Starting
    /\ per_user_per_server \in BOOLEAN
    /\ config_toml \in ConfigFiles
    /\ whitelist \in {"good", "bad"}
    /\ active \in ConfigFiles \cup {NoDocument}
    /\ settings \in Revisions \cup {0}
    /\ hup \in BOOLEAN
    /\ loop \in [pc : {"none", "spawned", "waiting", "woken", "install", "refresh", "success", "failure"},
                 config : ConfigFiles \cup {NoDocument}]
    /\ provisioned \subseteq Pairs
    /\ audited \in [revision : Revisions \cup {0}, success : BOOLEAN]
    /\ refused \in BOOLEAN
    /\ count \in [{"edits", "signals", "stops"} -> Nat]

NoProcess ==
    /\ phase' = "down"
    /\ per_user_per_server' = FALSE
    /\ active' = NoDocument
    /\ settings' = 0
    /\ hup' = FALSE
    /\ loop' = NoLoop
    /\ provisioned' = {}
    /\ audited' = [revision |-> 0, success |-> FALSE]
    /\ refused' = FALSE

Init ==
    /\ KeyInit
    /\ phase = "down"
    /\ per_user_per_server = FALSE
    /\ config_toml = [revision |-> 1, document |-> FirstDocument]
    /\ whitelist = "good"
    /\ active = NoDocument
    /\ settings = 0
    /\ hup = FALSE
    /\ loop = NoLoop
    /\ provisioned = {}
    /\ audited = [revision |-> 0, success |-> FALSE]
    /\ refused = FALSE
    /\ count = [k \in {"edits", "signals", "stops"} |-> 0]

Bump(k, bound) == count[k] < bound /\ count' = [count EXCEPT ![k] = @ + 1]

(* main returns an error, or the process is killed: the files remain.      *)
Exit ==
    /\ NoProcess
    /\ boot' = Off
    /\ UNCHANGED <<dirs, key_files, generated, files>>

-----------------------------------------------------------------------------
(* What validate_semantics says of a document whose settings were          *)
(* overwritten by apply_runtime_overrides.  Only a [fail2ban] section makes *)
(* it look at the whitelist.                                               *)

(* Fault: the settings of the document are not overwritten.                *)
ValidAsWritten(document, mode) ==
    /\ document # Broken
    /\ document.policies # IF document.per_user_per_server THEN "users" ELSE "tables"
    /\ document.fail2ban => whitelist = "good"

Valid(document, mode) ==
    /\ document # Broken
    /\ document.policies # IF mode THEN "users" ELSE "tables"
    /\ document.fail2ban => whitelist = "good"

-----------------------------------------------------------------------------
(* main.                                                                   *)

(* load_config_file of the seed, and resolve_paths.                        *)
Start ==
    /\ phase = "down"
    /\ config_toml.document # Broken
    /\ phase' = "seed"
    /\ per_user_per_server' = config_toml.document.per_user_per_server
    /\ UNCHANGED <<active, settings, hup, loop, provisioned, audited, refused, files,
                   key_vars, count>>

(* ensure_user_key_root_directory.                                         *)
EnsureKeyRoot ==
    /\ phase = "seed"
    /\ \/ MakeDirectory(Root) /\ phase' = "chmod"
       \/ dirs[Root] # "absent" /\ phase' = "load" /\ UNCHANGED dirs
    /\ UNCHANGED <<per_user_per_server, active, settings, hup, loop, provisioned, audited,
                   refused, files, key_files, boot, generated, count>>

SetKeyRootPermissions ==
    /\ phase = "chmod"
    /\ SetDirectoryMode(Root)
    /\ phase' = "load"
    /\ UNCHANGED <<per_user_per_server, active, settings, hup, loop, provisioned, audited,
                   refused, files, key_files, boot, generated, count>>

(* ConfigStore::load reads the file again.                                 *)
Load ==
    /\ phase = "load"
    /\ \/ /\ Valid(config_toml.document, per_user_per_server)
          /\ Strict => dirs[Root] = "private"
          /\ active' = config_toml
          /\ phase' = "tracker"
          /\ UNCHANGED <<per_user_per_server, settings, hup, loop, provisioned, audited,
                         refused, files, key_vars>>
       \/ /\ \/ ~Valid(config_toml.document, per_user_per_server)
             \/ Strict /\ dirs[Root] # "private"
          /\ Exit
    /\ UNCHANGED count

(* AbuseTracker::from_config, then install_sighup_reload_notifier and the  *)
(* spawn of the reload loop.                                               *)
LoadTracker ==
    /\ phase = "tracker"
    /\ \/ /\ whitelist = "good"
          /\ settings' = active.revision
          /\ loop' = [NoLoop EXCEPT !.pc = "spawned"]
          /\ phase' = "bootstrap"
          /\ UNCHANGED <<per_user_per_server, active, hup, provisioned, audited, refused,
                         files, key_vars>>
       \/ whitelist = "bad" /\ Exit
    /\ UNCHANGED count

(* bootstrap: the snapshot the keys are made for.                          *)
Bootstrap ==
    /\ phase = "bootstrap"
    /\ BeginKeys(active.document.allowed, per_user_per_server)
    /\ provisioned' = active.document.allowed
    /\ phase' = "keys"
    /\ UNCHANGED <<per_user_per_server, active, settings, hup, loop, audited, refused,
                   files, count>>

MakeKeys ==
    /\ phase = "keys"
    /\ KeyStep
    /\ UNCHANGED <<process_vars, files, count>>

RefuseKey ==
    /\ phase = "keys"
    /\ KeyRefused \/ HostKeyRefused
    /\ Exit
    /\ UNCHANGED count

Serve ==
    /\ phase = "keys"
    /\ HostKeyLoaded
    /\ phase' = "serving"
    /\ boot' = Off
    /\ UNCHANGED <<per_user_per_server, active, settings, hup, loop, provisioned, audited,
                   refused, files, dirs, key_files, generated, count>>

-----------------------------------------------------------------------------
(* reload_on_signal_loop.                                                  *)

StartWaiting ==
    /\ loop.pc = "spawned"
    /\ loop' = [loop EXCEPT !.pc = "waiting"]
    /\ UNCHANGED <<phase, per_user_per_server, active, settings, hup, provisioned, audited,
                   refused, files, key_vars, count>>

(* notify_waiters keeps nothing for a loop that does not wait.             *)
Notify ==
    /\ hup
    /\ hup' = FALSE
    /\ loop' = IF loop.pc = "waiting" THEN [loop EXCEPT !.pc = "woken"] ELSE loop
    /\ UNCHANGED <<phase, per_user_per_server, active, settings, provisioned, audited,
                   refused, files, key_vars, count>>

(* Fault: a reload that fails ends the loop.                               *)
ReadConfigOrEnd ==
    /\ loop.pc = "woken"
    /\ loop' = IF Valid(config_toml.document, per_user_per_server)
               THEN [pc |-> "install", config |-> config_toml]
               ELSE NoLoop
    /\ UNCHANGED <<phase, per_user_per_server, active, settings, hup, provisioned, audited,
                   refused, files, key_vars, count>>

(* ConfigStore::reload up to the write lock.                               *)
ReadConfig ==
    /\ loop.pc = "woken"
    /\ loop' = [pc |-> IF Valid(config_toml.document, per_user_per_server)
                       THEN "install" ELSE "failure",
                config |-> config_toml]
    /\ UNCHANGED <<phase, per_user_per_server, active, settings, hup, provisioned, audited,
                   refused, files, key_vars, count>>

InstallConfig ==
    /\ loop.pc = "install"
    /\ active' = loop.config
    /\ loop' = [loop EXCEPT !.pc = "refresh"]
    /\ UNCHANGED <<phase, per_user_per_server, settings, hup, provisioned, audited,
                   refused, files, key_vars, count>>

(* Fault: the tracker follows a [fail2ban] section only.                   *)
RefreshFromSection ==
    /\ loop.pc = "refresh"
    /\ settings' = IF whitelist = "good" /\ active.document.fail2ban
                   THEN active.revision ELSE settings
    /\ refused' = (whitelist = "bad")
    /\ loop' = [loop EXCEPT !.pc = "success"]
    /\ UNCHANGED <<phase, per_user_per_server, active, hup, provisioned, audited,
                   files, key_vars, count>>

(* AbuseTracker::reload_from_config: a whitelist that cannot be read       *)
(* leaves the settings as they are, and only the log tells.                *)
RefreshTracker ==
    /\ loop.pc = "refresh"
    /\ settings' = IF whitelist = "good" THEN active.revision ELSE settings
    /\ refused' = (whitelist = "bad")
    /\ loop' = [loop EXCEPT !.pc = "success"]
    /\ UNCHANGED <<phase, per_user_per_server, active, hup, provisioned, audited,
                   files, key_vars, count>>

(* The event tells how the reload of the configuration went.               *)
AuditReload ==
    /\ loop.pc \in {"success", "failure"}
    /\ audited' = [revision |-> loop.config.revision, success |-> loop.pc = "success"]
    /\ loop' = [NoLoop EXCEPT !.pc = "waiting"]
    /\ UNCHANGED <<phase, per_user_per_server, active, settings, hup, provisioned,
                   refused, files, key_vars, count>>

ReloadLoop ==
    \/ StartWaiting
    \/ ReadConfig
    \/ InstallConfig
    \/ RefreshTracker
    \/ AuditReload

-----------------------------------------------------------------------------
(* Outside.                                                                *)

EditConfig ==
    /\ Bump("edits", MaxEdits)
    /\ \E document \in (Documents \cup {Broken}) \ {config_toml.document} :
          config_toml' = [revision |-> config_toml.revision + 1, document |-> document]
    /\ UNCHANGED <<process_vars, whitelist, key_vars>>

EditWhitelist ==
    /\ Bump("edits", MaxEdits)
    /\ whitelist' = IF whitelist = "good" THEN "bad" ELSE "good"
    /\ UNCHANGED <<process_vars, config_toml, key_vars>>

(* Signals coalesce.                                                       *)
Hangup ==
    /\ loop.pc # "none"
    /\ Bump("signals", MaxSignals)
    /\ hup' = TRUE
    /\ UNCHANGED <<phase, per_user_per_server, active, settings, loop, provisioned, audited,
                   refused, files, key_vars>>

(* A crash, an operator's stop, or a SIGHUP before the listener is there.  *)
Stop ==
    /\ phase # "down"
    /\ Bump("stops", MaxStops)
    /\ Exit

(* The operator removes a private key the start refuses.                   *)
RemoveTornKey ==
    /\ phase = "down"
    /\ \/ \E d \in KeyDirs :
             /\ private_key[d] = Torn
             /\ private_key' = [private_key EXCEPT ![d] = NoFile]
             /\ UNCHANGED host_key
       \/ /\ host_key = Torn
          /\ host_key' = NoFile
          /\ UNCHANGED private_key
    /\ UNCHANGED <<process_vars, files, dirs, public_key, boot, generated, count>>

Next ==
    \/ EditConfig \/ EditWhitelist \/ Hangup \/ Stop \/ RemoveTornKey
    \/ Start \/ EnsureKeyRoot \/ SetKeyRootPermissions \/ Load \/ LoadTracker
    \/ Bootstrap \/ MakeKeys \/ RefuseKey \/ Serve
    \/ Notify \/ ReloadLoop

(* The listener and the loop are tasks of the runtime, which polls them    *)
(* when they can go on.                                                    *)
Spec == Init /\ [][Next]_vars /\ WF_vars(Notify) /\ WF_vars(ReloadLoop)

-----------------------------------------------------------------------------
(* Properties.                                                             *)

(* The configuration in force is one that is valid under the mode of the   *)
(* process, whatever mode the file names by now: the allow_* fields that   *)
(* count are those validate_authorization_policy looked at.                *)
ActiveFits ==
    phase \notin {"down", "seed", "chmod", "load"} =>
        active.document.policies # IF per_user_per_server THEN "users" ELSE "tables"

(* While the loop waits, the abuse tracker applies the settings of the     *)
(* configuration in force, unless its own last reload was refused.         *)
TrackerFollows ==
    loop.pc = "waiting" => settings = active.revision \/ refused

(* A key that was written is never replaced, over any number of starts.    *)
KeysKept ==
    [][ /\ \A d \in KeyDirs : private_key[d] \in Keys => private_key'[d] = private_key[d]
        /\ host_key \in Keys => host_key' = host_key ]_vars

(* A public key file that was written is that of the private key beside it. *)
PublicMatches ==
    \A d \in KeyDirs : public_key[d] \in Keys => public_key[d] = private_key[d]

(* While the gateway serves, each pair of the configuration in force whose *)
(* key the start was to make can log in at its target; but for a strict    *)
(* gateway with a directory that an earlier process was stopped in making. *)
KeysUsable ==
    phase = "serving" =>
        \A p \in active.document.allowed :
            (\E q \in provisioned :
                KeyDir(p, per_user_per_server) = KeyDir(q, per_user_per_server))
            => \/ Usable(p, per_user_per_server)
               \/ /\ Strict /\ count["stops"] > 0
                  /\ Exposed(KeyDir(p, per_user_per_server))

(* A SIGHUP that comes before the loop has read the files is answered: an  *)
(* event is written for files that are no older than the signal.  One that *)
(* comes later, while the loop is busy, is lost.                           *)
SignalServed ==
    \A n \in Revisions :
        hup /\ loop.pc \in {"waiting", "woken"} /\ config_toml.revision = n
        ~> phase = "down" \/ audited.revision >= n

=============================================================================
