---------------------------- MODULE AbuseTracker ----------------------------
(***************************************************************************)
(* The fail2ban-style tracker of src/abuse.rs: the table of remote         *)
(* addresses behind one mutex, the settings behind a read-write lock, the  *)
(* state file, and the tasks that use them.  Every connection task first   *)
(* asks check_ip and, when it is let through, may end its attempt with     *)
(* record_failure or record_success.  Each of those calls clones the       *)
(* settings under the read lock, gives that lock up, and only then takes   *)
(* the mutex: the two halves are two actions here.  A reload swaps the     *)
(* settings, reads the state file without the mutex, and only then takes   *)
(* the mutex to install what it read: three actions.                       *)
(*                                                                         *)
(* Time is Utc::now() in whole units; it is assumed not to step back.      *)
(***************************************************************************)
EXTENDS Integers, Sequences, FiniteSets

CONSTANTS
    IPs,            \* remote addresses
    Tasks,          \* connection tasks of the server
    Paths,          \* values of fail2ban.state_path
    Settings,       \* the effective settings the configuration can yield
    BanCountMax,    \* where ban_count saturates (u32::MAX in the code)
    DurationMax,    \* the longest std::time::Duration
    MaxTime,        \* bound on the clock
    MaxFailures,    \* bound on the failures recorded for one address
    MaxReloads,     \* bound on the SIGHUP reloads
    MaxCrashes,     \* bound on the times the process stops
    WriteMayFail,   \* whether write_state_file may return an error
    ReadMayFail     \* whether read_state_file may return an error

BanCounts == 0 .. BanCountMax

(***************************************************************************)
(* validate_fail2ban_settings.  scale[n] is backoff_multiplier.powi(n):    *)
(* a multiplier of at least 1.0 makes it positive and non-decreasing.  The *)
(* code converts n to an i32, which wraps from 2^31 on: this is the code   *)
(* for an address that was banned less often than that.                    *)
(* max_ban_time is assumed to stay within chrono's calendar too, so that   *)
(* TimeDelta::from_std never falls back to a ban of no length.             *)
(***************************************************************************)
ValidSettings(s) ==
    /\ s.enabled \in BOOLEAN
    /\ s.persist_state \in BOOLEAN
    /\ s.max_failures \in Nat \ {0}
    /\ s.find_time \in Nat \ {0}
    /\ s.ban_time \in Nat \ {0}
    /\ s.max_ban_time \in Nat
    /\ s.ban_time <= s.max_ban_time
    /\ s.max_ban_time <= DurationMax
    /\ s.scale \in [BanCounts -> Nat \ {0}]
    /\ \A m, n \in BanCounts : m <= n => s.scale[m] <= s.scale[n]
    /\ s.state_path \in Paths
    /\ s.whitelist \subseteq IPs

ASSUME BoundsAssumption ==
    /\ BanCountMax \in Nat \ {0}
    /\ DurationMax \in Nat
    /\ MaxTime \in Nat
    /\ MaxFailures \in Nat

ASSUME TasksAssumption == IsFiniteSet(Tasks)

ASSUME SettingsAssumption == \A s \in Settings : ValidSettings(s)

-----------------------------------------------------------------------------
(* Entries of the table.                                                   *)

NoBan == 0   \* ban_until = None; a real ban_until is at least ban_time > 0

(***************************************************************************)
(* AbuseEntry::default().  record_failure is the only operation that adds  *)
(* an address to the map and it sets last_failure, and read_state_file     *)
(* skips an entry without any of the fields IsActive looks at: an address  *)
(* that is not a key of the map is one whose entry is the default.  Of     *)
(* last_failure only "is it set" matters; last_success is only ever set on *)
(* an entry that has a last_failure, and nothing reads the recent user and *)
(* target names back: these are left out.                                  *)
(***************************************************************************)
DefaultEntry ==
    [recent_failures |-> << >>, total_failures |-> 0, ban_until |-> NoBan,
     ban_count |-> 0, last_failure |-> FALSE]

NoEntries == [ip \in IPs |-> DefaultEntry]

(* prune_failures: pop the front while it is older than the window.        *)
PruneFailures(q, t, window) ==
    LET stale == {i \in 1 .. Len(q) : \A j \in 1 .. i : q[j] + window < t}
    IN  SubSeq(q, Cardinality(stale) + 1, Len(q))

PruneEntry(e, t, window) ==
    [e EXCEPT !.recent_failures = PruneFailures(@, t, window)]

IsActive(e, t) ==
    \/ e.recent_failures # << >>
    \/ e.ban_until > t
    \/ e.ban_count > 0
    \/ e.last_failure

(* Fault: the snapshot keeps only the addresses with failures in the       *)
(* window, and drops one whose ban outlasts it.                            *)
SnapshotOfRecent(es, t, s) ==
    [ip \in IPs |->
        LET e == PruneEntry(es[ip], t, s.find_time)
        IN  IF e.recent_failures # << >> THEN e ELSE DefaultEntry]

(* snapshot_for_persistence: prunes the table in place, then copies it.    *)
SnapshotForPersistence(es, t, s) ==
    [ip \in IPs |->
        LET e == PruneEntry(es[ip], t, s.find_time)
        IN  IF IsActive(e, t) THEN e ELSE DefaultEntry]

(* read_state_file on a file with these entries; an absent file has none.  *)
ReadStateFile(es, t, s) ==
    [ip \in IPs |->
        LET p == PruneEntry(es[ip], t, s.find_time)
            e == IF p.ban_until <= t THEN [p EXCEPT !.ban_until = NoBan] ELSE p
        IN  IF IsActive(e, t) THEN e ELSE DefaultEntry]

(* compute_ban_duration.  mul_f64 panics when the product is no Duration,  *)
(* before the result is compared with max_ban_time.                        *)
ScaledBan(s, n) == s.ban_time * s.scale[n]

BanDurationPanics(s, n) == ScaledBan(s, n) > DurationMax

(* Fault: the cap is forgotten.                                            *)
UncappedBanDuration(s, n) == ScaledBan(s, n)

(* Fault: a duration beyond the cap falls back to none at all.             *)
BanDurationOrNone(s, n) == IF ScaledBan(s, n) <= s.max_ban_time THEN ScaledBan(s, n) ELSE 0

ComputeBanDuration(s, n) ==
    IF ScaledBan(s, n) <= s.max_ban_time THEN ScaledBan(s, n) ELSE s.max_ban_time

(* Fault: a plain addition.                                                *)
PlainInc(n) == n + 1

SaturatingInc(n) == IF n < BanCountMax THEN n + 1 ELSE n

Tracked(s, ip) == s.enabled /\ ip \notin s.whitelist

Banned(e, t) == e.ban_until > t

(* Fault: the comparison is the wrong way round.                           *)
ExpireActiveBan(e, t, s) ==
    LET p == PruneEntry(e, t, s.find_time)
    IN  IF p.ban_until > t THEN [p EXCEPT !.ban_until = NoBan] ELSE p

(* AbuseTrackerCore::check_ip on the entry of a tracked address.           *)
ExpireBan(e, t, s) ==
    LET p == PruneEntry(e, t, s.find_time)
    IN  IF p.ban_until <= t THEN [p EXCEPT !.ban_until = NoBan] ELSE p

BanExpires(e, t) == e.ban_until # NoBan /\ e.ban_until <= t

(* Fault: push_front.                                                      *)
CountFailureFront(e, t, s) ==
    [PruneEntry(e, t, s.find_time) EXCEPT
        !.recent_failures = << t >> \o @,
        !.total_failures = @ + 1,
        !.last_failure = TRUE]

(* Fault: the failure counts twice in the window.                          *)
CountFailureTwice(e, t, s) ==
    [PruneEntry(e, t, s.find_time) EXCEPT
        !.recent_failures = @ \o << t, t >>,
        !.total_failures = @ + 1,
        !.last_failure = TRUE]

(* AbuseTrackerCore::record_failure, up to the threshold test.             *)
CountFailure(e, t, s) ==
    [PruneEntry(e, t, s.find_time) EXCEPT
        !.recent_failures = Append(@, t),
        !.total_failures = @ + 1,
        !.last_failure = TRUE]

AtThreshold(e, s) == Len(e.recent_failures) >= s.max_failures

Ban(e, t, s) ==
    [e EXCEPT !.ban_until = t + ComputeBanDuration(s, e.ban_count),
              !.ban_count = SaturatingInc(@)]

(* Fault: a success removes the entry.                                     *)
ForgetEntry(e, t) == DefaultEntry

(* Fault: a success leaves the failures before it.                         *)
KeepFailures(e, t) == e

(* AbuseTrackerCore::record_success on an entry that exists.               *)
ForgetFailures(e, t) ==
    IF Banned(e, t) THEN e ELSE [e EXCEPT !.recent_failures = << >>]

-----------------------------------------------------------------------------
VARIABLES
    now,        \* Utc::now()
    up,         \* whether the process runs
    settings,   \* AbuseTracker.settings
    entries,    \* AbuseTrackerCore.entries
    files,      \* the entries in the state file at each path
    task,       \* where each connection task is
    reload,     \* where the reload is
    reloads,    \* how many reloads have begun
    crashes     \* how often the process stopped

bounds == <<reloads, crashes>>

vars == <<now, up, settings, entries, files, task, reload, bounds>>

IdleTask == [pc |-> "idle"]

(* check, fail, succeed: the call has cloned the settings and waits for    *)
(* the mutex; admitted: check_ip let the task through.                     *)
TaskStates ==
    {IdleTask}
    \cup [pc : {"admitted"}, ip : IPs]
    \cup [pc : {"check", "fail", "succeed"}, ip : IPs, settings : Settings]

AbuseEntry ==
    [recent_failures : Seq(Nat), total_failures : Nat, ban_until : Nat,
     ban_count : BanCounts, last_failure : BOOLEAN]

IdleReload == [pc |-> "idle"]

ReloadStates ==
    {IdleReload}
    \cup [pc : {"read"}, settings : Settings]
    \cup [pc : {"install"}, loaded : [IPs -> AbuseEntry]]

TypeOK ==
    /\ now \in Nat
    /\ up \in BOOLEAN
    /\ settings \in Settings
    /\ entries \in [IPs -> AbuseEntry]
    /\ files \in [Paths -> [IPs -> AbuseEntry]]
    /\ task \in [Tasks -> TaskStates]
    /\ reload \in ReloadStates
    /\ reloads \in Nat
    /\ crashes \in Nat

(* from_config at the first start: there is no state file yet.             *)
Init ==
    /\ now = 0
    /\ up = TRUE
    /\ settings \in Settings
    /\ entries = NoEntries
    /\ files = [p \in Paths |-> NoEntries]
    /\ task = [t \in Tasks |-> IdleTask]
    /\ reload = IdleReload
    /\ reloads = 0
    /\ crashes = 0

(* persist_if_enabled, still under the mutex: the prune of the snapshot    *)
(* stays in the table even when the write fails, which is only logged.     *)
PersistIfEnabled(es, s) ==
    IF s.persist_state
    THEN /\ entries' = SnapshotForPersistence(es, now, s)
         /\ \/ files' = [files EXCEPT ![s.state_path] = entries']
            \/ WriteMayFail /\ UNCHANGED files
    ELSE /\ entries' = es
         /\ UNCHANGED files

-----------------------------------------------------------------------------
(* The calls of a connection task.                                         *)

BeginCheck(t) ==
    /\ up
    /\ task[t] = IdleTask
    /\ \E ip \in IPs :
          task' = [task EXCEPT ![t] =
                      [pc |-> "check", ip |-> ip, settings |-> settings]]
    /\ UNCHANGED <<now, up, settings, entries, files, reload, bounds>>

CheckIp(t) ==
    /\ task[t].pc = "check"
    /\ LET ip == task[t].ip
           s  == task[t].settings
           e  == ExpireBan(entries[ip], now, s)
           es == [entries EXCEPT ![ip] = e]
       IN  IF ~Tracked(s, ip) \/ entries[ip] = DefaultEntry
           THEN /\ task' = [task EXCEPT ![t] = [pc |-> "admitted", ip |-> ip]]
                /\ UNCHANGED <<entries, files>>
           ELSE /\ task' = [task EXCEPT ![t] =
                               IF Banned(e, now) THEN IdleTask
                               ELSE [pc |-> "admitted", ip |-> ip]]
                /\ IF Banned(e, now) \/ BanExpires(entries[ip], now)
                   THEN PersistIfEnabled(es, s)
                   ELSE entries' = es /\ UNCHANGED files
    /\ UNCHANGED <<now, up, settings, reload, bounds>>

(* The attempt fails, succeeds, or ends its callback without either.       *)
BeginFailure(t) ==
    /\ task[t].pc = "admitted"
    /\ entries[task[t].ip].total_failures < MaxFailures
    /\ task' = [task EXCEPT ![t] =
                   [pc |-> "fail", ip |-> task[t].ip, settings |-> settings]]
    /\ UNCHANGED <<now, up, settings, entries, files, reload, bounds>>

BeginSuccess(t) ==
    /\ task[t].pc = "admitted"
    /\ task' = [task EXCEPT ![t] =
                   [pc |-> "succeed", ip |-> task[t].ip, settings |-> settings]]
    /\ UNCHANGED <<now, up, settings, entries, files, reload, bounds>>

Leave(t) ==
    /\ task[t].pc = "admitted"
    /\ task' = [task EXCEPT ![t] = IdleTask]
    /\ UNCHANGED <<now, up, settings, entries, files, reload, bounds>>

(* A panic of mul_f64 unwinds the task and drops the mutex guard: the      *)
(* failure is counted, no ban is set and nothing is written.               *)
RecordFailure(t) ==
    /\ task[t].pc = "fail"
    /\ task' = [task EXCEPT ![t] = IdleTask]
    /\ LET ip == task[t].ip
           s  == task[t].settings
           e  == CountFailure(entries[ip], now, s)
       IN  \/ /\ ~Tracked(s, ip)
              /\ PersistIfEnabled(entries, s)
           \/ /\ Tracked(s, ip) /\ ~AtThreshold(e, s)
              /\ PersistIfEnabled([entries EXCEPT ![ip] = e], s)
           \/ /\ Tracked(s, ip) /\ AtThreshold(e, s)
              /\ ~BanDurationPanics(s, e.ban_count)
              /\ PersistIfEnabled([entries EXCEPT ![ip] = Ban(e, now, s)], s)
           \/ /\ Tracked(s, ip) /\ AtThreshold(e, s)
              /\ BanDurationPanics(s, e.ban_count)
              /\ entries' = [entries EXCEPT ![ip] = e]
              /\ UNCHANGED files
    /\ UNCHANGED <<now, up, settings, reload, bounds>>

RecordSuccess(t) ==
    /\ task[t].pc = "succeed"
    /\ task' = [task EXCEPT ![t] = IdleTask]
    /\ LET ip == task[t].ip
           s  == task[t].settings
       IN  PersistIfEnabled(
              IF Tracked(s, ip) /\ entries[ip] # DefaultEntry
              THEN [entries EXCEPT ![ip] = ForgetFailures(@, now)]
              ELSE entries, s)
    /\ UNCHANGED <<now, up, settings, reload, bounds>>

-----------------------------------------------------------------------------
(* reload_from_config and load_persisted_state, on whatever settings the   *)
(* configuration file yields by then.                                      *)

ReloadSettings ==
    /\ up
    /\ reloads < MaxReloads
    /\ reloads' = reloads + 1
    /\ reload = IdleReload
    /\ settings' \in Settings
    /\ reload' = IF settings'.persist_state
                 THEN [pc |-> "read", settings |-> settings']
                 ELSE IdleReload
    /\ UNCHANGED <<now, up, entries, files, task, crashes>>

ReloadReadFile ==
    /\ reload.pc = "read"
    /\ LET s == reload.settings
       IN  \/ reload' = [pc |-> "install",
                         loaded |-> ReadStateFile(files[s.state_path], now, s)]
           \/ ReadMayFail /\ reload' = IdleReload
    /\ UNCHANGED <<now, up, settings, entries, files, task, bounds>>

ApplyLoadedState ==
    /\ reload.pc = "install"
    /\ entries' = reload.loaded
    /\ reload' = IdleReload
    /\ UNCHANGED <<now, up, settings, files, task, bounds>>

-----------------------------------------------------------------------------
(* The process and the clock.                                              *)

(* write_state_file renames a finished temporary file over the old one, so *)
(* a crash inside a call is a crash before it or after it.                 *)
Crash ==
    /\ up
    /\ crashes < MaxCrashes
    /\ crashes' = crashes + 1
    /\ up' = FALSE
    /\ entries' = NoEntries
    /\ task' = [t \in Tasks |-> IdleTask]
    /\ reload' = IdleReload
    /\ UNCHANGED <<now, settings, files, reloads>>

(* from_config, on whatever settings the configuration file yields by      *)
(* then: a state file that cannot be read leaves the table empty.          *)
Restart ==
    /\ ~up
    /\ up' = TRUE
    /\ settings' \in Settings
    /\ \/ /\ settings'.persist_state
          /\ entries' = ReadStateFile(files[settings'.state_path], now, settings')
       \/ /\ ~settings'.persist_state \/ ReadMayFail
          /\ entries' = NoEntries
    /\ UNCHANGED <<now, files, task, reload, bounds>>

Tick ==
    /\ now < MaxTime
    /\ now' = now + 1
    /\ UNCHANGED <<up, settings, entries, files, task, reload, bounds>>

Next ==
    \/ \E t \in Tasks :
          \/ BeginCheck(t) \/ CheckIp(t)
          \/ BeginFailure(t) \/ BeginSuccess(t) \/ Leave(t)
          \/ RecordFailure(t) \/ RecordSuccess(t)
    \/ ReloadSettings \/ ReloadReadFile \/ ApplyLoadedState
    \/ Crash \/ Restart \/ Tick

Spec == Init /\ [][Next]_vars

-----------------------------------------------------------------------------
(* Properties.                                                             *)

(* Every copy of an entry: in the table, in a state file, in a reload.     *)
Copies ==
    {entries[ip] : ip \in IPs}
    \cup {files[p][ip] : p \in Paths, ip \in IPs}
    \cup IF reload.pc = "install" THEN {reload.loaded[ip] : ip \in IPs} ELSE {}

WithinCap(e, t) ==
    e.ban_until = NoBan \/ \E s \in Settings : e.ban_until <= t + s.max_ban_time

InOrder(q, t) ==
    \A i \in 1 .. Len(q) : q[i] <= t /\ \A j \in i .. Len(q) : q[i] <= q[j]

Earned(e) ==
    /\ Len(e.recent_failures) <= e.total_failures
    /\ e.ban_count <= e.total_failures

(***************************************************************************)
(* README.md:357: repeated bans stop growing at max_ban_time.  No ban, not *)
(* one from a state file written under other settings either, ends later   *)
(* than a configured max_ban_time from now.                                *)
(***************************************************************************)
BansWithinCap == \A e \in Copies : WithinCap(e, now)

(***************************************************************************)
(* prune_failures pops from the front only, which finds every stale        *)
(* failure because the calls of different tasks append in time order:      *)
(* Utc::now() is read with the mutex held.                                 *)
(***************************************************************************)
FailuresInOrder == \A e \in Copies : InOrder(e.recent_failures, now)

(***************************************************************************)
(* No ban and no place in the window without a recorded failure, over      *)
(* restarts, loaded snapshots and calls in flight.                         *)
(***************************************************************************)
BansEarned == \A e \in Copies : Earned(e)

(***************************************************************************)
(* Every call of a task and every action but the installation of a loaded  *)
(* file and the end of the process leaves an active ban active: neither a  *)
(* success, nor a failure with a shorter ban time, nor a prune lifts it.   *)
(***************************************************************************)
BanHeld ==
    \A ip \in IPs : Banned(entries[ip], now') => Banned(entries'[ip], now')

BansEndByTime ==
    [][(up' /\ up /\ reload.pc # "install") => BanHeld]_vars

(***************************************************************************)
(* With one configuration, a working disk and no reload, no step of any    *)
(* task and no restart makes a ban shorter or forgets how often an address *)
(* was banned, so that the next ban is at least as long.                   *)
(***************************************************************************)
Durable(ip) == IF up THEN entries[ip] ELSE files[settings.state_path][ip]

BackoffRemembered ==
    [][\A ip \in IPs :
          /\ Durable(ip)'.ban_count >= Durable(ip).ban_count
          /\ Banned(Durable(ip), now') => Durable(ip)'.ban_until >= Durable(ip).ban_until]_vars

(***************************************************************************)
(* Under one configuration the tracker is a durable register of bans,      *)
(* without tasks, files or crashes: a crash, the time until the restart    *)
(* and the restart itself are stutters of it.                              *)
(***************************************************************************)
BanEnd(e, t) == IF Banned(e, t) THEN e.ban_until ELSE NoBan

Register == INSTANCE BanRegister WITH
    MaxBan <- (CHOOSE s \in Settings : TRUE).max_ban_time,
    until <- [ip \in IPs |-> BanEnd(Durable(ip), now)]

ImplementsRegister == Register!Spec

(***************************************************************************)
(* Attempts that passed check_ip before a ban still count their failure    *)
(* after it, one for each task and no more: when bans outlast the window,  *)
(* the window never holds more than max_failures - 1 failures and one for  *)
(* each task.  That is so until an address was banned so often that        *)
(* compute_ban_duration panics on its next ban.                            *)
(***************************************************************************)
OvershootBounded ==
    \A ip \in IPs :
        ~BanDurationPanics(settings, entries[ip].ban_count) =>
            Len(entries[ip].recent_failures) <
                settings.max_failures + Cardinality(Tasks)

(***************************************************************************)
(* README.md:360: "If persistence is enabled, ban state is atomically      *)
(* saved and reloaded".  Installing a loaded file keeps the active bans.   *)
(***************************************************************************)
ReloadKeepsBans == [][ApplyLoadedState => BanHeld]_vars

(***************************************************************************)
(* README.md:356: "max_failures inside find_time creates a ban".           *)
(***************************************************************************)
Reached(t) ==
    LET ip == task[t].ip
        s  == task[t].settings
    IN  RecordFailure(t) /\ Tracked(s, ip) /\ AtThreshold(entries'[ip], s)

ThresholdAlwaysBans ==
    [][\A t \in Tasks : Reached(t) => Banned(entries'[task[t].ip], now)]_vars

(***************************************************************************)
(* It does, over failed writes, reloads and restarts, unless the address   *)
(* was banned so often before that compute_ban_duration panics.            *)
(***************************************************************************)
ThresholdBans ==
    [][\A t \in Tasks : Reached(t) =>
          \/ Banned(entries'[task[t].ip], now)
          \/ BanDurationPanics(task[t].settings, entries[task[t].ip].ban_count)]_vars

=============================================================================
