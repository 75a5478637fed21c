# CentralSSH in TLA+

CentralSSH (`src/`) is an SSH gateway in Rust. A client connects to the
gateway, authenticates there with a password and a TOTP code, chooses a target
server from a menu, and is relayed to it over a second SSH connection that the
gateway opens with its own key. This directory models the gateway's core in
TLA+, checks it with TLC and proves part of it with TLAPS.

Paths below are relative to `src/`; Rust sources are in `src/src/`.

## 1. Inventory

| Component | State | Operations | Talks to |
|---|---|---|---|
| **Abuse tracker** `src/abuse.rs` | settings (RwLock), table of addresses (Mutex), state file | `check_ip`, `record_failure`, `record_success`, `reload_from_config`, `load_persisted_state` | called by every keyboard-interactive callback; reloaded by the reload loop |
| **Config store** `src/config/mod.rs` | active configuration (RwLock), `config.toml`, `servers.toml` | `load`, `reload`, `migrate_bootstrap_passwords`, `update_user_credentials`, `snapshot` | snapshot for every callback; updates from enrollment; reload loop; administrators' editors |
| **Gateway authentication** `src/ssh/mod.rs` | the fields of one `GatewayHandler` | `auth_keyboard_interactive` and what it dispatches to, `connect_selected_target`, inline menu | abuse tracker, rate limiter, config store, proxy session |
| **Gateway session requests** `src/ssh/mod.rs` 1828-2340 | `session_channel_state`, active policy | channel open, PTY, shell, exec, subsystem, forwarding; replay after the menu | proxy session |
| **Rate limiter** `src/auth/mod.rs` | two tables of token buckets, a Mutex each | `consume_rate_limit_token`, refill, pruning | password and TOTP verification |
| **Password and TOTP verification** `src/auth/mod.rs` | none | `verify_password`, `verify_totp_code`, dummy hash for unknown users | gateway authentication |
| **Proxy session** `src/ssh/proxy.rs` | channel map, raw channels, abort state | connect, relay, bridge, menu after a finished shell | gateway, target |
| **Reload signal** `src/reload/mod.rs`, `src/app.rs` | a `Notify` | SIGHUP listener, `reload_on_signal_loop` | config store, abuse tracker, audit |
| **Start-up** `src/main.rs` | the paths and the mode of the seed configuration | seed, load, spawn the reload loop, migrate, make keys, serve | all |
| **Key bootstrap** `src/keys/mod.rs`, `ensure_server_host_key` | key files | create, write, check | start-up |
| **Authorization policy** `src/config/mod.rs` 574-603 | none (pure) | `resolve_effective_authorization_policy` | gateway |
| **Crypto policy** `src/crypto_policy.rs` | none (pure); the server keeps the offer of its start | `validate_kex_policy`, `resolve_preferred_kex` | start-up, reload, proxy |
| **Audit log** `src/audit/mod.rs` | a file behind a Mutex | append a line | all, results ignored |
| **Menu rendering, versions, errors** `src/ui`, ... | none | formatting | gateway |

### What is hard, and what makes each part correct

* *Abuse tracker.* Settings are cloned under one lock and used under another;
  the reload reads the state file outside the mutex and swaps the whole table.
  Bans should come from bursts of failures since the last success only, grow
  with repetition up to `max_ban_time`, end only by time, survive restarts, and
  be overshot by no more than the attempts in flight.
* *Config store.* Two files read one after the other; a document read, changed
  and rewritten as a whole while an administrator may save it; memory changed
  before the disk. What is active must be valid as a whole, and an update that
  was reported must be durable and served.
* *Gateway authentication.* The dialogue spans callbacks, each of which takes
  its own snapshot; a request without an answer starts over in any state.
  Nobody may select a target who has not, in this dialogue and under this name,
  given password and second factor, and credentials must change only for one
  who has.
* *Rate limiter.* The time a call prunes by has passed when it gets the mutex;
  buckets are dropped and made anew. The rate must hold over any stretch of
  time and the tables must not outgrow their limit.
* *Proxy session.* EOF, exit status and close are relayed by tasks of their
  own; several bridges abort at once; menu input replaces the relay, and a
  target may be silent for ever. Outputs must not mix, a channel must be told
  its exit, have a target or a menu, and the session must end with its client.
* *Reload signal and start-up.* `notify_waiters` wakes only a loop that is
  waiting; a reload can install the configuration and fail at the tracker; the
  mode (`per_user_per_server`) is that of the first document for as long as the
  process lives, whatever later ones say. What is in force must be valid under
  that mode, the tracker must follow it, and a signal the loop can hear must be
  answered.
* *Key bootstrap.* Files are made and then written, directories made and then
  closed to others; the start can be stopped in between. A key must survive any
  number of starts, match its public key, and open the way to its target.
* *Policies.* What is validated at one time and under one mode is resolved at
  another, from up to three snapshots for one selection. What was accepted must
  resolve, be offered as listed and decide requests as written.

The single hazards, each at its line, are in `PROJECT.json` under `hazards`.

## 2. Plan

Modelled and checked so far, in the order of their importance: the abuse
tracker, the config store, gateway authentication, the rate limiter, the proxy
session with the channel callbacks that use it, the life of the process with
its reload loop and key files, and the policies. Next:

1. Composition: `GatewayAuth` with the bans of `BanRegister` instead of its
   free `banned`, with the `CredentialRegister` that `ConfigStore` implements
   instead of its atomic store, with `Terminal` instead of its `menu`, and with
   `Policies` instead of its policy.
2. The bytes of the inline menu as operators, checked against a reference
   definition.

Three components are shown to implement an abstract specification: the abuse
tracker `BanRegister`, the config store `CredentialRegister`, the proxy session
`Terminal`. Theorems to come, with the composition: that each detailed module
implements what `GatewayAuth` has in its place. Of what is modelled now, every
safety and action property of the passing runs and each of the three refinements
is proved (section 5).

## 3. Modules

### AbuseTracker (src/src/abuse.rs)

State: `settings` and `entries` are the fields of the tracker, `files` the state
file at each configured path, `now` is `Utc::now()`. An address that is not a
key of the map is one whose entry is `DefaultEntry`; the comment at that
definition says why the two cannot be told apart.

Each call of a task is two actions, because the settings are cloned under the
read lock and the table is locked afterwards: `BeginCheck`/`CheckIp`,
`BeginFailure`/`RecordFailure`, `BeginSuccess`/`RecordSuccess`. A reload is
three: `ReloadSettings`, `ReloadReadFile` (outside the mutex),
`ApplyLoadedState`. Everything done under the mutex (prune, count, ban,
snapshot, write) is one action. `Crash` and `Restart` lose all but the
files. A panic of `mul_f64` unwinds the task after the failure was counted, and
is a disjunct of `RecordFailure`.

`scale[n]` stands for `backoff_multiplier.powi(n)`; `BanCountMax` and
`DurationMax` for `u32::MAX` and the longest `Duration`. The code casts `n` to an
`i32`, so that from 2^31 bans of one address on the scale would shrink; the model,
whose scale does not decrease, is that of fewer bans.

`AbuseHistory` extends the tracker by one history variable, `since`: when each
address failed since its last success that found it not banned. A success
during a ban, of an attempt that was in flight when another was banned, clears
nothing (`record_success` returns early), and a reload may install a window that
was cleared meanwhile; so `BansNeedBurst`, which is about these failures, is a
property of one configuration without reloads.

`BanRegister` is the abstract specification: a map from addresses to the end
of their ban which only time clears. `ImplementsRegister` states that the
tracker of one configuration implements it, with `until` read off the table while
the process runs and off the file while it is down (`Durable`).

### ConfigStore (src/src/config/mod.rs, main.rs)

State: `state` is the `RuntimeState`, `lock` the write lock, `config_toml` and
`servers_toml` the files. A file is the records of its users and an *edition*
that stands for the rest of it; which editions fit each other is the constant
`Compatible`, and `Broken` is a file that does not parse. Passwords are hashes
or `Plain`. A load is three actions (read one file, read the other and
validate, install under the lock), an update three under the lock (memory,
read of the document, one rename), the migration two. Administrators edit
either file at any time; a write may fail before or after its rename.

`CredentialRegister` is the abstract specification until an administrator edits
a file: a record for each user, which one step hashes for all and one
step replaces for one. `ImplementsRegister` reads its variables off the file and
off what was reported; memory, lock, loads, reloads and crashes are not in it. It
says of every step before the first edit that it is one of the register or a
stutter; of what the server does after an edit it says nothing.

### GatewayAuth (src/src/ssh/mod.rs)

State: the fields of one `GatewayHandler` per connection. russh runs one
callback of a connection at a time; a callback is cut where it touches what
others may change. `AnswerX` takes the pending state and the client's answer,
the `Handle...` and `CommitPendingUpdates` actions look at the served users.
The store is one table that changes at once (its steps are ConfigStore), any
failure may ban and a ban may end at any time (AbuseTracker), and any attempt
may be refused (RateLimit): each is an over-approximation of its module, so a
safety property that holds here holds of the composition. `auth_none`,
`auth_publickey` and `auth_password` only reject. A connection whose handler
returns an error is `Closed`. When the target cannot be reached,
`connect_selected_target` clears `active_policy`, keeps the `proxy_session` it may
have, asks for the end of the connection and returns: so does
`ConnectSelectedTarget`, after which callbacks may still run until `HangUp`. The
replay which the handler then tries on the old session is in `ProxySession`.
`proven` and `screen` are history.

### RateLimit (src/src/auth/mod.rs)

State: the two tables. An attempt is `Begin` (which reads the clock),
`TakeIpToken` and `TakeUserToken`, one per mutex. Tokens are counted in units
of 1/period, so that a unit of time refills one of them; the rounding of `f64`
is left out. `LimitsAssumption` holds what the constants of the code satisfy
and the rate rests on: a bucket idle for `RATE_LIMIT_IDLE_TTL` (30 min) would be
full again (after 30 s and 5 min).

### ProxySession (src/src/ssh/proxy.rs, channel callbacks of src/src/ssh/mod.rs)

One authenticated connection. `proxy_session` and `channel_state` are the
handler's fields; `session_channels`, `raw_channels`, `last_error`, `target` and
`drop` belong to each `ProxySession` the connection has had, of which a
selection from the inline menu makes a new one and drops the old. `bridge` says
where the task of `spawn_session_bridge` or `spawn_raw_backend_bridge` is, one row
for each session. The row `Again` is for the one case in which a session gets
two bridges on a channel: a target chosen from the menu cannot be reached, and
`handle_menu_channel_input` replays the channel on the session it still has.

A callback (`call`) is cut where it takes another lock or awaits a target:
`Data` looks at `menu_active`, `RelayData` for the backend; `MenuSelect`,
`ConnectSelectedTarget`, `Reopen` and `Replay` are the four parts of a selection.
A bridge is cut between the removal of its backend (`RelayClose`, `RelayEnd`), the
activation of the menu, the menu text (`ShowMenu`) and the close
(`BridgeCloses`). `abort_proxy_session` is one step: of what it does only the
end of the two connections matters to others, and each end takes effect at a
step of its own (`EndConnection`, `RelayEnd`).

What the model takes from russh and SSH: one callback runs at a time; after a
`disconnect` a few more callbacks may run; a sender to the client's connection
fails only once that connection is over; data of a channel the gateway has closed
is not handed to the handler. A target sends an exit only after a shell, exec or
subsystem request. A client may make more than one, against RFC 4254: the code
keeps the last (`ssh/mod.rs:1974`, `:2010`, `:2056`), and that one decides about the
menu and is replayed. Whether the policy allows an exec is a free choice.
Relaying what changes no state here is no action, so `ChannelEof` is only there
for its failure. `told` is history: the channels whose target's exit was relayed,
or whose client asked again after it was withheld. A close is the moment the
gateway hands it to the library; `ExitTold` excepts a channel whose second request
came between the withheld exit and the close.

`Terminal` is the abstract specification of a session channel as its client
sees it: who writes to it (`writer`: a target, the menu, nobody), which targets
have (`served`) and what was asked for on it. In `ImplementsTerminal` a target
writes while a bridge of the channel is `Running`, and the menu has the channel
from its activation until a chosen target has it or the choice came to nothing
(`InMenu`), although `menu_active` is cleared as soon as the choice is made.

Two things the model shows that no property states, because no document says
what should happen: a shell whose exit was withheld, but for which there is no
server to offer any more, is closed without an exit status; and output that is
under way while the client hangs up makes `proxy_end` a failure.

### KeyStore and Lifecycle (src/src/keys/mod.rs, main.rs, app.rs, reload/mod.rs)

`KeyStore` has the key directories, the two files of each and the host key, and
`boot`, which says where the start is in making them: `dirs` tells a directory
that `create_dir` made from one whose mode was set, a file that was made and not
written is `Torn`. The steps are those between which a stop leaves something
else on disk. The order of users and servers is any.

`Lifecycle` extends it with the process. `phase` follows `main` from the seed
configuration (`Start` fixes the mode) over `ConfigStore::load`,
`AbuseTracker::from_config` and `bootstrap` to the served socket; an error is an
`Exit`, and `Stop` can happen anywhere. `loop` is where `reload_on_signal_loop` is:
`ReadConfig` reads and validates, `InstallConfig` takes the write lock,
`RefreshTracker` is `reload_from_config`, `AuditReload` the event. `hup` is a
signal the listener has not seen yet; signals coalesce. `config.toml` is one
document with a revision: the two files, their rewriting and the races of a
reload with updates are in `ConfigStore`. `active` and `settings` are what the
store and the tracker have of it. `provisioned`, `audited`, `refused` and `count`
are history.

An operator removes a key file that the start refuses (`RemoveTornKey`) and no
other; a torn public key is never looked at by the code and stays.

### Policies (src/src/crypto_policy.rs, config/mod.rs, ssh/mod.rs)

The `[kex_policy]` section and the `allow_*` fields, with the code's functions as
operators: `ResolvePreferredKex`, `ValidAuthorizationPolicy`, `EffectivePolicy`,
`Permitted`. A field that is not set is not in the domain of its entry. The
machine around them has one connection: `SelectTarget`, `ResolveTargetPolicy` and
`ConnectTarget` look at one snapshot each, `Reload` may come between them, and
requests are answered by the policy kept. The server's own offer is fixed by
`Serve`. Of a command line there are the executable and the letters of its
options; how it is split into words is left out.

`OffersListed`, `Written` and `Governs` are the reference definitions: they say
what a list or an entry means without following the code. `ResolvePreferredKex`
does follow it: `ResolveNext` is the body of its loop and `Resolving` the recursive
function of what the loop has done after some of the entries.

### MC modules and proofs

`MCAbuseTracker`, `MCAbuseHistory`, `MCConfigStore`, `MCGatewayAuth`, `MCRateLimit`, `MCProxySession`,
`MCLifecycle` and `MCPolicies` give the constants values. `AbuseTrackerProofs`,
`RateLimitProofs`, `PoliciesProofs`, `GatewayAuthProofs`, `ConfigStoreProofs`,
`ProxySessionProofs`, `LifecycleProofs` and `StartUpProofs` (which builds on it) hold
the theorems.
Operators whose comment begins with "Fault" are not part of a specification:
they are the plausible bugs against which `PROJECT.json` (`mutants`) shows that
each property can fail.

## 4. Runs

| Run | Instance | Shows |
|---|---|---|
| `abuse_reliable` | 1 address, 3 tasks, time to 6, 5 failures, 2 crashes, ban counts saturating at 2, one configuration | bans take a burst of failures since the last success, are overshot by at most the tasks in flight, grow, survive restarts; the tracker implements `BanRegister` |
| `abuse_reload` | 1 address, 2 tasks, 3 configurations, 2 paths, time to 2, 2 failures, `DurationMax` 4, 1 reload, 1 crash, failing reads and writes | bans are earned, and caps, order of windows and the end of bans hold through a reload and a restart; a full window bans unless its backoff panics |
| `abuse_reload_race` | 1 reload | **violated**: a ban set between the reload's read and its installation is lost |
| `abuse_backoff` | `DurationMax` 2 | **violated**: once the scaled ban is no `Duration`, a burst bans nobody |
| `config_store` | 2 users, 2 sessions, 3 updates, 1 reload, 1 edit, 1 failing write, 2 crashes | no invalid mix of files is active; no reported update is lost; undisturbed, memory and disk agree once an update is reported; until the edit, `config.toml` of a serving gateway has no plaintext, and the credentials in `config.toml` are the register of `CredentialRegister` |
| `config_reload_race` | 1 user, 1 reload, 2 updates | **violated**: a reload installs what it read before an update |
| `rate_limit` | 2 addresses, 2 spellings of one name, 2 tasks, capacities 2 and 1, periods 1 and 2, 1 entry, time to 5 | the rate and the table limit hold, and nobody pays for another's attempts |
| `gateway_login` | 2 connections, 2 names (one unknown), 3 passwords, 4 secrets, 2 targets, 5 tables of users, 1 reload, targets that cannot be reached | selection, commits and menu are right |
| `proxy_menu` | 1 session channel, 1 raw channel, 2 targets, failing and silent targets, repeated requests, 1 reload | menu and target exclude each other, outputs are not mixed, only a shell is replayed, exits are told; a channel is a `Terminal`; a channel whose target is gone gets its menu or is closed; sessions end |
| `proxy_abort` | 1 session channel | **violated**: what a client types while its shell is replaced by the menu aborts the session |
| `lifecycle` | 2 users, 2 servers, 3 documents in both modes, strict, 2 edits, 2 signals, 1 stop, 8 keys | what is in force is valid under the mode of the process; the tracker follows it; keys are kept, match and open the way to the targets; a signal the loop can hear is answered |
| `policies` | lists of up to 4 of 4 key exchanges, 5 entries for 2 users and 3 tables, both modes, 4 documents to reload, 6 commands | what is accepted resolves, is offered as listed and decides requests as written |

The violations are disagreements between the code and its documentation;
`findings` quotes both sides.

The runs take from a second to about two minutes; the largest are `config_store`
(9,885,837 distinct states), `gateway_login` (5,395,411), `abuse_reload` (4,038,067),
`proxy_menu` (959,860, with liveness) and `abuse_reliable` (738,170).

*Why the bounds are enough.* Two tasks or two sessions are what it takes for a
race of two; a third adds no lock and no file. `abuse_reliable` has three, so
that two failures in flight can come between a success and its ban. One address suffices where
entries are independent of one another, two where they compete for a table's
limit. `MaxTime` is at least a window, a first ban and an idle time in
the instance, so that each expires within a run. `MaxFailures` is at
least twice the lowest threshold where repeated bans matter. One reload suffices to race with one
call; two crashes let a start-up fail halfway and be repeated. One session
channel and one raw channel are the two kinds the proxy treats apart, the raw
one also stands for another channel of a connection whose target is replaced;
two sessions are an old one and its successor. Two session channels were too
many states for a run. Client and task names are interchangeable and reduced by
symmetry; `proxy_menu`, the run with liveness properties, uses none.

`AckedServedUndisturbed` and `ServingHashed` say in their own text what must not
have happened. Without that condition the first is `AckedServed`, which
`config_reload_race` refutes. `ServingHashed` says of `config.toml` that it has no
plaintext left, with reloads at any time; of the memory it leaves out the starts
in which a reload began before the migration was done (`count["early"]`): the
reload loop is spawned before it (`main.rs:241`), so that a SIGHUP during the
start may read the plaintext and install it after the migration. Without that
exemption TLC finds exactly this.

`ThresholdBans` excepts an address whose backoff panics, which `abuse_reload`
reaches, and `OvershootBounded` one whose next ban would; `ThresholdAlwaysBans`
is the same without the exception and `abuse_backoff` refutes it. Other
exemptions are noted with the hazards they leave open: a ban that outlives a
lowered cap, what is lost by a failed write of the state file, a selection with a
reload since its screen was shown.

In `lifecycle`, the document that starts is one with tables and without a
`[fail2ban]` section, so that a single edit leads to each of the others. One stop
is enough for each window of the start; a second one repeats it on files that
`RemoveTornKey` or the first start have made whole. `policies` starts from every
accepted document of its set and reloads only four, which change the lists, the
place of the entries, the mode they are written for, and remove a user; one of
them must be refused.

`TypeOK` of `Policies` and `RateLimit` and `OneWriter` of `ProxySession` are proved
and no run checks them. A bucket above its capacity shows in `RateBounded`, two
bridges that write to one channel in `ImplementsTerminal`.

`KeysUsable` excepts a strict gateway with a directory whose mode an interrupted
start did not set: the next start takes the directory as it is
(`keys/mod.rs:138`) and every selection of its targets is refused. `SignalServed`
is about signals that come before the loop has read the files; a later one is
lost with `notify_waiters` (`reload/mod.rs:13`), and no document promises more.

Disagreements that the models show or follow, and that have no run:

* `op-guide.md:371` says that a user who already has TOTP gives a code on the
  first login, `disection.md:447` and `should_prompt_existing_totp`
  (`ssh/mod.rs:224`) leave it out for a user who must change the password.
  `GatewayAuth` follows the code.
* The commit of a first TOTP secret clears `must_change_password`
  (`ssh/mod.rs:1012`), also that of a bootstrap password which an administrator
  set since the login. `disection.md:183` allows such a password only with the
  flag, so that the server has stored a `config.toml` which it refuses at the
  next load.
* A target chosen from the inline menu is not stored in `pending_target`
  (`ssh/mod.rs:1389`), by which denials are logged: they name the first target.
* Without a `[fail2ban]` section `validate_semantics` does not look at the
  whitelist, which the tracker then reads: such a reload installs the
  configuration, keeps the old abuse settings, and its event says success
  (`app.rs:60`), while `disection.md:159` calls reload all-or-nothing.
  `TrackerFollows` has this case as `refused`.

*Deadlock* is checked for the gateway. In the other modules the bounded clock
or counters end a behaviour, and a proxied connection that is over has nothing
left to do; a process that is down does not start with a `config.toml` that
does not parse, and a denied connection of `Policies` is over: their runs say
`CHECK_DEADLOCK FALSE`.

*Fairness.* `proxy_menu` and `lifecycle` need it. `FairSpec` is weak fairness of the
tasks that `Drop` spawns and of what a bridge does without a message: the
runtime polls every task that can go on, and none of these waits for anyone.
Nothing is assumed of the callbacks of a connection: connecting to a target,
authenticating there and opening a channel have no timeout, and the client
configuration sets neither an inactivity limit nor keepalives (`proxy.rs:372`,
`:387`, `:438`, `crypto_policy.rs:111`), so a silent target leaves the callback, its
channel and the end of the client's connection waiting for ever, and no property
excludes that. `NoLimbo` is about the other channels: when the target of a
channel has closed it, the channel of an open connection gets a menu that is
shown, or is closed, unless it is the one a callback waits for. `SessionsEnd` is
about a client's connection that is over. Nothing is assumed of clients and targets:
no hang-up, message, exit or failure has to happen. `Lifecycle` assumes weak fairness of `Notify`, the
listener task, and of `ReloadLoop`, the task of the loop, which the runtime polls
whenever they can go on; signals, edits, stops and the start need not happen.
All other specifications are `Init /\ [][Next]_vars`.

## 5. Proofs

TLAPS proves, for every number of addresses, names, tasks, clients, channels and
targets and for every setting that satisfies the named assumptions of the modules:

| Module | Theorems |
|---|---|
| `AbuseTrackerProofs` | `TypeCorrect`, `BansAreCapped`, `FailuresAreInOrder`, `BansAreEarned`, `BansEnd`, `ThresholdsBan`; under `Dependable`: `BackoffIsRemembered`, `TrackerIsRegister`, `BansTakeABurst`; under `Steady`: `OvershootIsBounded` |
| `RateLimitProofs` | `TypeCorrect`, `RateIsBounded`, `TablesAreBounded`, `RefusalsAreEarned` |
| `GatewayAuthProofs` | `TypeCorrect`, `SelectionIsEarned`, `CommitsAreEarned`, `MenuIsHonest` |
| `ConfigStoreProofs` | `TypeCorrect`, `ActiveConfigurationFits`, `AcknowledgedIsDurable`, `AcknowledgedIsServed`, `ServedIsHashed`, `StoreIsRegister` |
| `ProxySessionProofs` | `TypeCorrect`, `MenuIsExclusive`, `OneBridgeWrites`, `ExitIsTold`, `ReplaysAreShells`, `ChannelIsTerminal` |
| `LifecycleProofs` | `ConfigurationFitsMode`, `PublicKeysMatch`, `WrittenKeysAreKept` |
| `StartUpProofs` | `TypeCorrect`, `TrackerFollowsConfiguration`, `KeysAreUsable` |
| `PoliciesProofs` | `TypeCorrect`, `AcceptedConfigurationsResolve`, `OffersAreAsPreferred`, `DecisionsAreAsWritten` |

Each rests on an inductive invariant: it holds initially, every action keeps it
(one lemma or step per action), and it implies the property. TLC checked each
invariant on the instance of its run before it was proved.

*Abuse tracker.* `BansWithinCap` and the others speak of the table; they are
not inductive because a reload installs what a file held, and the file holds
what the table was. The inductive invariant says the same of every copy of an
entry: in the table, in each file, in what a reload has loaded. The lemmas on
`PruneFailures`, `Ban`, `SnapshotForPersistence` and `ReadStateFile` say that
each keeps an entry good. `BansEnd`, an action property, needs only the types.
`ThresholdsBan` has no hypothesis: a reload or a failing disk may come at any
time, and its one exception, the panic of `compute_ban_duration`, is in its text.

What outlives the process is true only under conditions, which two runs and two
findings show to be needed; the theorems state them as hypotheses.
`Dependable`: one configuration, with `persist_state`, no reload, a disk that
works. `RegisterInv` then adds what relates table and file: they agree on every
ban (`Mirrored`), whatever failures a call has pruned or counted since, and no
ban ends later than one set now would (`Scheduled`), so that the next ban, or a
ban by another task, makes none shorter. Each step is shown to leave a durable
entry as it is, to expire bans, or to ban one address for longer; the first two
are stutters of `BanRegister` or its `Tick`, the third is its `Ban`.
`BansTakeABurst` adds `HistoryInv`: each failure in the window of the table, and of
the file, has one of its own in `since` that is no older (`Covers`). A success
clears all three at once, and a panic that leaves the file behind only makes
it shorter than `since`. It also needs the order of the failures:
`prune_failures` pops from the front, and only in a sorted window is what it
leaves within `find_time`.

`Steady`: one configuration in which a ban lasts longer than the window, no reload;
the disk may fail. Both `OvershootBounded` and `OvershootInv` speak of an address
whose next ban does not panic (`Calm`); once it would, no ban comes any more and
the window grows without limit, and since backoff does not decrease that address
stays so until a start without its entry. `OvershootInv` says
that a full window whose last failure still counts belongs to a banned address
(`Outlasts`), and that failures and calls in flight together stay below the
limit: `check_ip` admits a call only while the window is not full, and a
call that fails turns from one in flight into a failure. A file may hold a full
window without a call in flight, but a start begins with no calls.

*Rate limiter.* The inductive invariant is an accounting: for each key and each
grant in its history, the tokens granted since then and those left in the bucket
are covered by a full bucket and the time since. Where the bucket was dropped,
the accounting says instead that a full bucket is affordable, which follows
from `LimitsAssumption`: a bucket is dropped after an idle time in which it
would have filled up. The time a call prunes by is not later than the clock, which
is why `call` is in the invariant. `RefusalsAreEarned` is the other direction: a
bucket that is not full was full at some grant of its history, and the tokens
granted from there on and those left make up a full bucket and what was refilled
since. So a bucket without a token was emptied by its own key, by as many
grants as it holds within the time that fills it.

*Gateway authentication.* All state but the served users and the ban belongs to one
connection, so `GatewayInv` is a predicate on the values of one connection,
`GoodClient`. `SelectionEarned` speaks of the moment of selecting; the invariant says
at each place of the dialogue what must be established by then:
`ContextsProven` of a pending new password or enrollment, `SelectionProven` of the
selection and of a user who is past it. `NothingProven` says that a dialogue
that starts over leaves nothing behind: the password that one user proved is
no part of the next dialogue. `ScreenCurrent` ties the menu shown to the served
users by the number of reloads, which is what `MenuIsHonest` needs.

*Config store.* `StoreInv` is built in layers, each inductive given those before it.
`LockHeld` says who holds the write lock; `LoadedFits` that what a load is about to
install was validated. `AckedKept` follows an acknowledged record through every
document that may yet be written to `config.toml`: that of an update under way,
the one a start has read, the one the migration is going to write; the migration
leaves such a record alone because it is hashed or need not be changed.
`UntouchedHashed` and `UndisturbedTogether` are the two conditional layers, for a
store that nobody reloads or edits: then only one party at a time reads and
writes, and memory is ahead of the disk only by the update that holds the lock.
`StoreIsRegister` needs less: reloads and failing writes may happen, and it speaks
of what comes before the first edit. `Unedited` says what holds until then: the document that a load, a migration or an
update has read is still the one in the file, since only one of them writes at a
time, and from the migration on all of its passwords are hashed. So what memory
has become meanwhile does not matter to the file, each rename is one step of the
register, and everything else is a stutter. After an edit it is false: the rename
of an update takes back what was saved since its read. `ServedIsHashed` takes the file from
`Unedited`; for the memory `MemoryHashed` adds that a reload which begins once the
migration is done reads what is hashed already.

*Proxy session.* Neither `MenuExclusive` nor `OneWriter` is inductive: a bridge of a
session that was replaced still runs and may remove its backend at any time.
`ProxyInv` therefore speaks of every bridge a channel has had. A channel
has at most one that is `Live`; the menu is active only without one; a live
bridge whose session was replaced belongs to a channel the new session does not
have, so it does not matter which session it removes the channel from; and a
callback that waits for a target finds its channel without bridge and menu
when it goes on (`CallbackInv`). `ReplayInv` says that a channel with an active menu had
a shell as its last request, but while the callback of another one runs: that
finds no backend, and closes the channel or ends the connection, so that no
choice can follow it.
`ChannelIsTerminal` adds `Shown`: a session that
is not connected yet has no bridges, a channel that is open or in the menu has had
a target, and nothing was asked for on one that is still being opened. Each step is
then shown to change the screen of no channel (most of them), or of one: it is
asked for, attached, left, or given to the menu.

*Policies.* A configuration is validated when it is installed and resolved later,
so the inductive invariant `PolicyInv` keeps three facts: what is active was
validated under the mode of the process; what the connection holds was resolved
from a document validated under that mode; an answer is that of the policy it
was given by. What an accepted list is offered as goes through a loop,
`resolve_preferred_kex`: the position of the first entry that is not resolved
would be a least number of a set, and there is none (`SetInduction`, from the
well-foundedness of the naturals), so that after every entry the loop has what
the reference definition says of the entries before it (`ResolvingIsOf`), and
`Offered` keeps that for what was installed. `WrittenIsEffective` and `PermittedByField` then say, field by
field, that the code's functions mean what the reference definitions do.

*Life of the process.* `KeyInv` says that a file that is being written is `Torn`: the
write replaces no key, and no public key can be beside it that would cease to
match. `ConfigInv` says that what the loop is about to install was validated under
the mode of the process, which changes only while there is no loop.
`StartUpInv` adds `Following`, that between the two halves of a reload is the only
time at which the settings may lag behind, and the progress of the start:
`Above`, the directories over the one it is at exist; `Progress`, each key of
the snapshot it began with is written or still to do; `Private`, a directory has
the mode of the umask only until the next step, unless a stop came between.
From the last follows the one exception of `KeysUsable`.

*Assumptions on constants.* All are named and evaluated by TLC. Most say that a
bound is a number, that a marker such as `None`, `Free` or `Torn` is not
a name or a key, or that the settings are those the code accepts
(`SettingsAssumption`, `FilesAssumption`, `DocumentsAssumption`,
`PoliciesAssumption`, `LimitsAssumption`). `TargetsAssumption` and
`TasksAssumption` say that targets and tasks are finitely many. The proofs are about
the specifications as they are checked: the bounds of the runs are constants
like the others. One bound is a guard: a key is generated only while `KeysLast`,
that is, while `Keys` has one that was not used; without it `TypeOK` would be
false once they are used up.

*Only model-checked.* The liveness properties `SessionsEnd`, `NoLimbo` and
`SignalServed`, since liveness under fairness and `ENABLED` are beyond TLAPS as
installed; and what the four runs that expect a violation refute. The induction
theorems of the library take an operator as a parameter, which no backend here can
instantiate; where an induction was needed (`SetInduction`) it goes by the least
element of a set of numbers. No RECURSIVE operator is used.

## 6. Not modelled, and why

* The composition of the modules and the bytes of the inline menu, for now: items
  1 and 2 of the plan.
* Two processes on the same directories, loss of power and errors of the file
  system while keys are made. A torn key is removed by an operator; what else
  an operator may do to key files is left out.
* Ciphers, MACs and rekey limits, whose lists are fixed or passed on as they are,
  and the splitting of a command line into words.
* Argon2, TOTP arithmetic, SSH transport and cryptography: external libraries;
  what they decide is a choice in `GatewayAuth`.
* A clock that steps back, and the rounding of `f64`.
* File modes, symlinks, ownership, the grammar of names and of TOML.
* The audit log, whose result every caller ignores, and all formatting.
