# Wireforge: TLA+ verification project

Wireforge is a WireGuard server manager: one Rust process (axum, tokio, sqlx) with a web
UI and a REST API that keeps interfaces, peers, users and settings in SQLite and pushes
them to the host: WireGuard links over netlink, `ip_forward` sysctls, iptables rules. This
directory models the parts of it where several requests, background tasks, system calls
that fail, and restarts meet. It contains TLA+ modules, the TLC configurations that check
them on small instances, and TLAPS proofs. `PROJECT.json` maps every definition to the
lines it models; paths below are relative to `src/crates/`.

## 1. Inventory

| Component | State | Operations | Talks to | What is hard | What makes it correct |
|---|---|---|---|---|---|
| NAT adapter, `wireforge-infra/src/nat/mod.rs` | two sysctls, iptables tables, `forward_state` map behind a mutex | `apply`, `remove` | kernel; called by the interface service on blocking threads | every line is a system call that may fail; two calls overlap; the map is lost on restart | forwarding that was on before us stays on, if it could be read; what we switched on is switched off; rules do not pile up; a failed call leaves a prefix of its effects |
| Interface service, `wireforge-core/.../services/interface.rs` | `interfaces` table, kernel links | create, start, stop, update, delete | repository, WireGuard port, NAT port | read, several awaits, whole-row write; ignored errors; requests dropped at an await | unique names; deleted rows stay deleted; "up" means up and masqueraded; nothing is left behind |
| Peer service, `.../services/peer.rs` | `peers` table, kernel peer entries | create, update, set_enabled, delete | repository, WireGuard port, interface service | save and push are two awaits; move, key change and disable in one form | kernel = enabled rows; key pairs match; addresses unique; no orphan or revived rows |
| Address allocation, `.../services/peer.rs` | allowed_ips of the peers | `next_free_ipv4`, `ensure_no_conflict` | peer service | /31, /32, full pools, host bits | in order, disjoint, exhausted only when full |
| Schedule enforcer, `wireforge-bin/src/scheduler.rs` | rows and clock read at the start of a round | `run_once` every 60 s | peers table, WireGuard port | works on old rows next to requests | peers follow the window in the end |
| Traffic poller, `wireforge-bin/src/poller.rs` | `traffic_snapshots`, `bandwidth_used_bytes` | `poll_once`, `disable_peer` | peers table, WireGuard port | kernel counters restart at 0; counters, rows and the row to disable are read at three different times | a peer at its quota is disabled in the end, while metering is on; nobody is charged for more than they moved; deleted rows stay deleted |
| Login lockout, `wireforge-infra/src/persistence/bans.rs`, `wireforge-web/src/routes/auth.rs` | `ip_bans` | `record_failure`, `clear`, `get` | login handler | read-modify-write in a deferred transaction; clock read before it | exact count; the limit locks; locks are not shortened |
| Runtime settings, `.../services/settings.rs` | `settings` table, in-memory copy, log filter | load, `set_many`, save | web form, main | ten separate writes, then a refresh | memory is committed data; a save alone lands |
| Users, sessions, first setup, `wireforge-web/src/routes/{auth,profile}.rs`, `.../services/auth.rs` | `users`, sessions in memory | setup, login, TOTP, enrolment, logout | all handlers, the command line tool | each request stores its own copy of the session when it ends; flags read before an await | setup closes; whoever is logged in gave both factors; an enrolled secret works; logouts last |
| API tokens, `wireforge-api/src/{auth,v1/tokens}.rs` | `api_tokens` | create, revoke, authenticate | REST handlers | revocation racing use | spent tokens are refused |
| Backup and restore, `wireforge-cli/src/backup.rs` | database file, write-ahead log, `.restore.tmp`, backup files | `create`, `restore` | the database of the server, the master key | copying a WAL database under a writer; a kill or an ignored error between two file operations; a log that belongs to another file | a backup is a state the database was in while the command ran; no kill loses a commit or leaves a blend |
| Audit log, roles | `audit_log` | record | all handlers | nothing reads it back | - |
| Event streams, dashboard, metrics, templates, client `.conf` files, host interfaces, cryptography | none of their own | read and format | tables | nothing concurrent | - |

Interaction. The web and REST routers call the services from tokio tasks; the web router has a
30 s `TimeoutLayer` that drops a request at whatever await it is in. The services call the
repositories (each call is one SQL statement or transaction), the WireGuard port (netlink)
and the NAT port (blocking threads). The enforcer and the poller are two more tasks that
write the same rows and the same kernel state without going through the services' reads.
No lock orders any of this; only SQLite's constraints and the mutex of the NAT adapter do.

## 2. Modules

| Module | Models |
|---|---|
| `NatHost` | the host state and the effect of one whole `apply` / `remove` (operators only) |
| `NatPort` | abstract specification of the `NatPort` trait: each call is one step |
| `NatAdapter` | the adapter, one action per system call or critical section |
| `NatAdapterSerial` | `NatAdapter` plus a history variable and the refinement mapping to `NatPort` |
| `InterfaceService` | service, table, links; NAT by the operators of `NatHost` |
| `PeerService` | service, table, kernel entries; the enforcer; what starting, stopping and deleting an interface does to peers |
| `TrafficPoller` | extends `PeerService`: the kernel's counters, the poller, and the fairness of both background tasks |
| `IpPool` | allocation and conflict check on networks |
| `Accounts` | users, sessions, first setup, login, TOTP, API tokens |
| `SettingsService` | settings form, table, memory, log filter |
| `Lockout` | extends `SettingsService`: login attempts of one address, judged by the live limit |
| `Backup` | `backup create` and `backup restore` on the files of the database |
| `MC*` | constant values, fault sets and symmetry for TLC |
| `NatAdapterProofs`, `InterfaceServiceProofs`, `PeerServiceProofs`, `TrafficPollerProofs`, `IpPoolProofs`, `LockoutProofs`, `AccountsProofs`, `BackupProofs` | TLAPS proofs (section 4). `TrafficPollerProofs` extends `PeerServiceProofs`; `LockoutProofs` covers `SettingsService` too |

Definitions marked `Mutant:` are not part of the model. Each is the version of the
definition after it with one plausible bug; `PROJECT.json` pairs each with a property that
must fail when it is used instead, which is the evidence that the property depends on the
code.

### NAT (`NatHost`, `NatPort`, `NatAdapter`, `NatAdapterSerial`)

`host` has the sysctl of each family (`fwd`), the number of copies of each rule
(`rules`; iptables allows several) and the map (`snap`). `apply` is
`read_forward`, `write_forward` for v4 and then v6, `InsertSnapshot` under the mutex,
and `Probe` (`-C`) and `Insert` (`-I`) per rule; `remove` is `Delete` (`-D`) per rule,
`TakeSnapshot`, `TurnOff` per family with the mutex held. The read or write of a sysctl, an iptables
process and a probe can fail (`Faults`); `Restart` ends all calls and empties the map. A read
that fails counts as "off" and is remembered so (`Snapshots`): `misread` is the history of such
reads of a sysctl that was on at boot. Dry run is `Skip`. `run_hook` runs commands of the
administrator and is left out, as is a poisoned mutex.
`MaxCopies` and `Doubted` bound how often, and for which rules, a probe denies a rule that
is there.

### Interface service

`rows` is the table, `link` the kernel's WireGuard links, `host` the NAT state. Every port
call of a request is one action; `req[r]` holds the request's copy of the row and the
next call. `Update` writes the whole copy where the row still exists. `env` describes the
surroundings of a behaviour and never changes: which calls may fail, which mishaps happen,
how many requests run at once, what a form may contain. Properties name the environment
they need, so one run answers all of them.

*abandon* stands for all ways in which a request ends at an await without cleaning up: the
timeout layer, a closed connection, a failing repository or key call, an `interface_up` that
configured the link and failed on the routes. Dropping the future does not stop the call it waits for:
NAT and netlink calls are `spawn_blocking` closures, and a statement that the database's thread has taken up is
executed. So an abandoned request either ends, or is `gone`: its call takes its effect at any later time, perhaps after
whole requests of others, and is its last (`Goto`). It occupies no task (`Admitted`), so in the
environments with one request at a time it meets the next one. `alone` is history: no such call was left when the
request came. Bringing up a link that is gone may succeed or
fail; taking one down may fail. A restart reconciles nothing with the table, as in `main.rs`, and ends the calls with the process.
NAT calls are atomic here. `PortSpec`, proved in `NatAdapterProofs`, justifies this for calls that do not overlap. Where
they do (two requests, or one and the call of a dropped one), their system calls may mix, which is the
subject of `NatAdapter` and not of this module: `UniqueNames` and `NoResurrection`, which are
checked there, do not depend on NAT, and `StartedIsServed` is about a start that no other call accompanies.

### Peer service and enforcer

`peers` is the table and `kern` the entries of each link by public key. A key is a key pair:
`key` is the pair whose public half the row has, `sealed` the pair whose private half the
server keeps, so BYOK edits can mix pairs if the code lets them. allowed_ips is one network.
`PlanCreate` and `PlanUpdate` merge consecutive reads of one request; save, removal of the
stale kernel entry and push are separate. `interface_up` replaces the kernel's peers
(external, from how the code uses the netlink library). The enforcer takes rows and clock
once per round and then saves and pushes row by row. No form sets `schedule`;
`SetSchedule` is a hand-written or restored row. All scheduled peers share one window.

`up` are the interfaces whose row has status Up, which is what the poller goes by, while `kern` is
what the kernel has; start and stop change them one after the other. As in the interface service,
`env` holds the surroundings: which operations happen, how many tasks at once (`width`), the keys
a form may hold (`typed`), whether it may repeat the key of another peer (`reuse`).

Netlink calls may fail on a link that is there (`"wg"`). The services and the background tasks discard the result of
`apply_peer` and `remove_peer` (`let _ =`), so `EntryFails` changes nothing in the kernel and the caller goes on; a
failed `interface_up` (`UpFails`, or after the peers are replaced) ends a start, a failed
`interface_down` (`DownFails`) ends a stop and not a delete. `missed` is history: the entries whose last
call failed. A request that is dropped counts as under way until the call it left behind has ended.

With repeated keys two rows share one kernel entry. `KernelMatchesTable` then claims what the code
keeps: every entry belongs to an enabled row of its key. That every enabled row has its entry is
claimed where forms do not repeat keys: removing one of two rows with one key takes the entry of both.
Nothing retries a failed call, so an entry in `missed` may be anything; the property says that a failure
spoils no other entry, and that the next call for the entry, or `interface_up` for the whole link, mends it.

### Traffic poller (`TrafficPoller`)

`bytes` is the kernel's counter of each entry. It lives and dies with the entry, and
`interface_up` makes all entries of a link anew (`BringUp`), so it starts at 0 again. A round is
`ListIfaces` (rows that are up), then per interface `peer_stats` (the counters, or nothing if the
link is gone), `list_for_interface` (the rows), and `Record` per entry of the stats: snapshot,
`record_bandwidth`, the quota. `disable_peer` is `find_by_id` (the row is read again), `SaveDisabled`
(the whole row, if its interface still exists) and `RemoveDisabled`. Everything of `PeerService` can
happen between any two of them (`Beside`). `Transfer` is traffic of an admitted key. `carried` is history:
what a peer really moved. `SetQuota` is, like `SetSchedule`, a hand-written or
restored row: no form sets a quota. Between two rounds the poller reads `traffic_enabled`, sleeps, and skips the round
if the setting was off (`skip`; `on` is what it has read); `SwitchMetering` is the settings form. A round that a
repository error cuts short is left out, the next round starts from the beginning anyway, and so is a
`peer_stats` that fails on a link that exists.

### Users, sessions and tokens (`Accounts`)

`sess` is the session store, three keys per session. A request takes its copy of the session
the first time it looks at it (the `load` steps) and the session layer stores the whole copy
when the request ends (`Save`), if it was changed and the request neither failed nor was
dropped (`Abandon`): this is the behaviour of tower-sessions, which is external. `MemoryStore`
forgets everything in a `Restart`. Reads, checks and writes of the tables that an await
separates are separate steps: `CheckSetup` and `register_initial_admin`;
`authenticate_password`, which reads the TOTP flag, and `StoreLogin`; `totp_confirm`, which
compares the code with the secret in the copy, and `EnableTotp`. The two counts that a setup
makes one after the other are one step. A password is right or wrong, and a TOTP code is right
for exactly one secret. `SetFlash` stands for every other form: it changes the session without
touching these three keys. The command line tool is another process on the same database.
Password changes, the time of the last login, roles (which nothing changes) and audit records
are left out; so is the lockout, which has its own module. `proven`, `out`, `given` and the fields
`barred` and `alone` of a request are history that only the properties read. `given` is who gave
which factor in which session: a right password, and a right code; where TOTP is off when the password is
checked, and in the first setup, the password (or the setup) stands for both. It is forgotten with a logout that ran alone and with a restart.
`SecondFactor` compares the user that the session store has with it, so whatever puts a user into a session, or brings one back in
an old copy, is covered. As in the other modules, a request that is dropped counts as under way
until the statement it left behind has ended.

### The smaller ones

`IpPool` has networks with host bits and prefix length over addresses of a given width,
`hosts()` as the sequence it is, and the exact comparison of `ensure_no_conflict`. `skip(1)` and
`find` choose a position of that sequence: `Candidates` are the positions after the first whose host
nobody uses, and `Allocate` takes the least of them.
`SettingsService` writes the rows of a form one by one,
then refreshes memory under the lock, then the log filter. A value is a word and the
number of escapings it has gone through, because `strip_quotes` removes the quotes of the
JSON text and not its escapes; the free text is stored without the blanks around it (`trim`). A save that is
dropped counts as under way until the write it left behind has ended. The limits of the baseline come from the TOML file,
which nothing validates, so 0 is one of them. `Lockout` takes the clock and the limit (`BeginFailure`), the
snapshot (`Select`) and the write apart; a transaction whose snapshot has become stale fails with
SQLITE_BUSY, and `login_submit` drops the error. The two share the database and the memory: every row a
save writes makes the snapshot of a failure under way stale, and the limit may change between
two failures that are under way at once.

### Backup and restore (`Backup`)

The contents of the database are a version number; every commit makes a new one. `main` is the database
file with an identity (a rename puts another file in its place), `wal` the log with the
identity of the file it was written for. Whoever opens the database replays the log over whatever
main file is there; if it was written for another file the result is a blend (`Torn` in
`Contents`). `create` is `vacuum_into`, `Truncate`, `WriteBackup`; `restore` is `ReadBackup`,
`wal_checkpoint`, `WriteTmp`, `Rename`, `Unlink`, each a file operation after which the command
may be killed (`Crash`). The results of the checkpoint and of the unlink are ignored by the code and
may be failures here. Two `create`s may write one file: from the moment the second empties it, each leaves its blob or a
mixture (`"blend"`), and so does a kill. The server commits, checkpoints, is killed and started, and the operator changes the
master key. As `docs/src/ops/backup.md` demands, a restore runs while the server is stopped, and no other
command runs beside it. A restore meets at most one fault: see the gaps below.
`newest` and `seen` are history.

## 3. Runs

All runs use two workers. Deadlock is checked in every one.

| Run | Instance | Shows |
|---|---|---|
| `nat_concurrent` | 2 interfaces, 1 gateway, 2 calls, sysctls that cannot be read or written, restarts, IPv4 rows | `TypeOK`; `BootForwardingKept`; `RuleCopiesBounded`: overlapping calls duplicate a rule at most once per call, over any number of rounds |
| `nat_port` | 1 interface, calls one at a time, both families, every fault, restart inside a call, up to 2 copies of the masquerade rule; states that differ only in `bootFwd` and `misread`, which neither the steps nor the port read, count as one (`PortView`) | `PortSpec`: `NatAdapter` implements `NatPort` |
| `nat_restored` | no faults, no restart | **violation** of `ForwardingRestored` |
| `iface` | 1 name, 2 row ids; one request at a time: `Calm` with 2 gateways, `Stormy`: every call to the host may fail, restarts, reboots, 1 gateway, `Dropping`: dropped requests whose call runs on, restarts, 1 gateway, IPv4 rows; `Crowded`: 2 racing requests that may be dropped and leave a call behind. `Bounds`: of the two ids a fixed one is stored first, and where no row has IPv6 its sysctl is off at boot | `UpIsServed`, `NoLeftoversV4` (`Calm`); `StartedIsServed` (one at a time); `UniqueNames`, `NoResurrection`, `TypeOK` (all) |
| `iface_shared` | 2 names, 1 gateway, nothing fails | **violation** of `NeverUpUnmasqueraded` |
| `peers` | `Serial`: 2 interfaces, 2 peers, 2 keys, 2 addresses, one request or round at a time; `Repeated`: the same, and forms may repeat a key; `Failing`: one at a time, and netlink calls may fail; `Racing`: 1 peer, 2 requests that may be dropped, keys may be repeated | `KernelMatchesTable` and `UniqueAddresses` (`Serial`, `Repeated`, `Failing`); `KeyPairsMatch`, `NoOrphans`, `NoResurrection`, `TypeOK` (all) |
| `background` | 1 interface, 2 keys, quota 2, 3 bytes; `Enforced`: 2 peers, the enforcer beside one request; `Metered`: 1 peer, the poller beside one request; `Scheduled`: 1 peer, the poller beside the enforcer; `Shared`: 2 peers, each with a key of its own, the poller while links restart; `Paused`: 1 peer, the poller while the setting is switched and netlink calls may fail | `QuotaEnforced` and `ScheduleEnforced` (liveness), `NotOvercounted`, `NoResurrection`, `PollerTypeOK` |
| `peer_race` | 1 peer, 2 requests | **violation** of `NoStaleAccess` |
| `policy` | `OnlyLogins`: 3 logins, limit 3, lock of 2 ticks, clock to 3; `OnlySaves`: 2 administrators, 4 words (one needs escaping, one is another with blanks around it); `NewLimit`: 2 logins while the limit goes from 3 to 2 or back | `CountIsExact`, `LocksAtMax`, `LockNotShortened`, `SoloSaveLands`, `LiveWasCommitted`, `LockoutTypeOK` |
| `accounts` | 2 requests, 2 users, 2 secrets, 2 browsers, 2 tokens; five environments: one browser with everything, two browsers, a shared browser, API tokens, first setup | `TotpUsable`, `SetupClosed`, `SecondFactor`, `SpentTokenRefused`, `LogoutSticks`, `TypeOK` |
| `pool` | 4-bit addresses, every prefix length from 1, with CIDRs at the bottom, middle and top, 3 peers, hosts typed by hand | `AllocatesInOrder`, `Disjoint`, `ExhaustedWhenFull` |
| `backup` | 2 commands, 2 backup files, 2 master keys, 2 commits, 2 restores | `NothingLost`, `BackupIsCurrent`, `TypeOK` |

Why the bounds are enough to be interesting. Races in this code are between two tasks (read
/ write / push), so two requests reach them; three logins are needed for one to be under way
while two others reach the limit. Two row ids let a name be created again after a deletion or by a
rival. Two gateways let update move NAT from one to another, and `NoGw` from and to
none. Two peers and two addresses make a full pool and a conflict. Four address bits
contain every prefix length that is special (/31 and /32 are `len` 3 and 4). The clock of
`OnlyLogins` covers one lock from beginning to end and what follows it. With quota 2 and 3 bytes
a counter can reach the quota, restart at 0, and be below it again. Two restores and two commits
allow a log to outlive a killed restore, and two files and two keys a backup that the key of the day
does not open.

A dropped request and the one that comes after it are two tasks, so `Dropping` needs two even though it runs one request at a time.

Symmetry is used over tasks, in `accounts` over secrets and tokens as well, in `policy`
over logins and administrators, in `backup` over commands, files and keys; no
definition chooses among them, and the run with liveness properties has none.

Fairness: `FairSpec` of `TrafficPoller` has weak fairness of `Enforce` and of the poller's loop, `skip \/ poll_once`, that is:
tokio polls the two tasks, the enforcer's 60 s interval keeps ticking, and the poller sleeps
`traffic_poller_interval_secs.max(1)` and then runs a round or, if `traffic_enabled` was off, skips it and reads the setting again; `main.rs` spawns both for the life of the
process, and an error ends a round, not the task. Requests, traffic, the clock, the administrator and the setting get none.
`ScheduleEnforced` says that a scheduled peer is at some time as its window asks, unless the window
turns or the peer is deleted first. `QuotaEnforced` says that a peer whose counter has reached the
quota is disabled at some time, unless it loses the entry, the key or the interface first, or `traffic_enabled` is
off at some time after: with the setting off no quota is enforced, and once it stays on they are again.

### What the violations show

1. `nat_restored`: `apply` overwrites the snapshot of an interface that is already up with
   the state its first `apply` made; after `remove` forwarding stays on.
2. `iface_shared`: the masquerade rule names only the gateway. Stopping one of two interfaces
   with the same gateway takes the rule, and possibly forwarding, from the other.
3. `peer_race`: rows are saved in one order and pushed in another; a disabled peer can keep
   its kernel entry.

### Gaps the models made visible that have no run of their own

- `read_forward` takes a sysctl that cannot be read for off (`unwrap_or(false)`, `nat/mod.rs:299-301`). If forwarding was on at
  that moment, `apply` remembers that it was off and `remove` turns it off, although the comment on the snapshot (`nat/mod.rs:28-29`)
  says only what Wireforge turned on is restored. `BootForwardingKept` excepts these (`misread`) and nothing else.
- The lock of `set_many` covers the refresh and not the writes. Two saves that overlap and both report success can leave the memory
  with one form and the table with the other, although `settings.rs:12-13` says that they stay consistent, until a save
  that runs alone (`SoloSaveLands`) or a restart.
- With `login_max_attempts` 1 (or 0, which only the TOML file can hold) the first failure of an address does not lock
  (`None => (1, now)`); `LocksAtMax` excludes both. The comment "keep extending"
  (`bans.rs:53`) describes a branch that only counts; what it counted is still there when
  the lock ends. A failure that meets SQLITE_BUSY is not recorded.
- Text with quotes or backslashes grows at each save of the settings (`strip_quotes`).
- A `set_enabled(false)` whose `remove_peer` fails returns Ok, saves the row as disabled and leaves the peer in the
  kernel, with nobody else around; so does the poller, and likewise for every other discarded result
  (`peer.rs:136,224,227,232,234,250,252,264`, `scheduler.rs:81,83`, `poller.rs:126`). The next toggle of the peer or start of
  the interface mends it. `KernelMatchesTable` excepts the entries whose own last call failed.
- A dropped stop, update or delete leaves its `nat.remove` or `interface_down` running
  (`nat/mod.rs:86,127`, `wireguard/mod.rs:155,174`). It may land while a later start is under way or after it has reported success, and take
  the masquerade, forwarding or the link from an interface whose row is up. `StartedIsServed` is therefore about a
  start that no call of a dropped request accompanies.
- While `traffic_enabled` is off no quota is enforced.
- Overlapping creates can give two peers one address; overlapping ranges typed by hand are
  no conflict; two rows with one BYOK key share a kernel entry.
- Turning off IPv6 on a running interface leaves its ip6tables rules (hence
  `NoLeftoversV4`). A request that is dropped after `interface_up` leaves the link up and
  unmasqueraded.
- `register_initial_admin` says "Fails if any user already exists"; two first setups with
  different names that overlap both count 0 and both create an administrator (`SetupClosed`
  speaks of a form that arrives when an account exists).
- A request that overlaps a logout of its session and changes the session (any form with a
  flash message) stores the copy in which the user is still logged in. `LogoutSticks` speaks
  of a logout that ran alone. The secret of an unfinished enrolment outlives a logout and can
  be confirmed by the next user of the browser. A login whose password was checked before TOTP was switched on ends
  without a code.
- A request admitted with a token completes after the token is revoked, and may create a new one.
- `set_enabled` writes the whole row and can undo a concurrent edit.
- The quota is compared with the kernel's counter, which starts at 0 with every `interface_up` and every
  time the peer is disabled and enabled again. `bandwidth_used_bytes` follows it back to 0, while
  `docs/src/ops/metrics.md:12` calls the metric made from it a counter of "Lifetime TX+RX bytes across all peers".
  `NotOvercounted` is therefore only an upper bound.
- The enforcer enables again, inside its window, a peer that the poller has disabled for its quota. The
  poller may disable a peer whose key was changed after the counters were read: the new key pays for the
  old one.
- A schedule window that goes past midnight tests the weekday of the moment, not of its beginning.
- Two faults in one restore (checkpoint and unlink both fail, or a kill after a failed checkpoint) leave
  the old log next to the new file. Overlapping restores share `.restore.tmp`. The checkpoint replaces
  the `PRAGMA journal_mode = DELETE; VACUUM;` of the comment on `restore`. `create` empties an
  older backup of the same name before it writes the new one, and two to one file may leave parts of both, which does not open. Nothing calls fsync.
- `docs/src/config.md:38` describes a rotation of the master key by way of a backup; a backup is sealed
  with the old key and the restore opens it with the one in the configuration.
- Audit: "every mutation persisted" (`docs/src/introduction.md:16`); the REST handlers, the command line tool and the
  web form that edits a peer record nothing, and creating a peer with only a public key fails
  while its `.conf` is rendered, after the row is saved and before the record.

## 4. Proofs

Every theorem is about the specification that the runs check, with no bound on the sets of interfaces,
gateways, peers, keys, users, tokens, files or requests. Each proof has the same shape: `Init` implies an
inductive invariant, one lemma per action (or group of actions) shows that a step keeps it, and PTL
concludes. The invariants were checked with TLC, or their parts were, before they were proved.

### NAT adapter (`NatAdapterProofs`)

- `TypeCorrect`: `Spec => []TypeOK`. `TypeOK` alone is not inductive: the index of the
  current invocation must be within the list, whose length depends on the call's family
  flag. The invariant is `TypeInv == TypeOK /\ IndexOK`.
- `BootForwarding`: `Spec => []BootForwardingKept`. `TurnOff` may only be trusted not to
  switch off a sysctl that was on at boot because the snapshot it carries says so.
  `SnapshotsHonest` says this of every snapshot in the map or carried by a call, for sysctls that were never misread,
  and holds because a snapshot is read while the sysctl is still on. Without the exception the theorem is false (see the gaps).
- `CopiesStayBounded`: `RuleCopiesBounded` is inductive itself: it counts, next to the copies that are
  there, the calls that have found a rule missing and are about to insert it (`Inserting`). A probe adds a
  call only when there is no copy, and an insert moves one from the second count to the first. Hypothesis
  `ProbesHonest`: `iptables -C` finds the rules that are there. With probes that deny them (fault
  `"probe"`, bounded by `MaxCopies`) no bound by the number of calls exists.
- `PortImplemented`: `HSpec => PortSpec`, the refinement of `NatPort`, if one thread makes all the calls (`Single`).
  The invariant `PortInv` says of each point of a call what it has done to the host it began with (`before`), in
  the terms of the port's outcomes: `Looking` and `SwitchedOn` for the sysctls of `apply`, `Installing` for its rules
  (those `Behind` the index are installed, but for the ones whose probe was denied), `Deleting` and
  `SwitchingOff` for `remove`. A lemma per step keeps it, and shows of a step that returns that the host is
  among `ApplyOutcomes` or `RemoveOutcomes`; `CrashStep` shows that a crash at any point is among `CrashOutcomes`. A
  call that begins, and every step inside it, is a stutter of the port.

### Interface service (`InterfaceServiceProofs`)

NAT calls are the operators of `NatHost`, so the proofs begin with what `ApplyOutcomes` and `RemoveOutcomes`
can leave behind (`ApplyEffect`, `RemoveEffect`): success of `apply` means masqueraded, and without faults
`remove` takes one copy of the three rules.

- `InterfaceTypes`: `[]TypeOK`.
- `NamesAreUnique` and `RowsStayDeleted`, with any number of requests that race and are dropped. `ServiceInv` adds:
  ids in hand were given out once, and a whole row that a request is to write back has the name that the row
  still has (nobody changes a name).
- `StartServes`: `StartedIsServed` needs that a `start` before its NAT call has the link up (`LinkFirst`) and
  that with one place a request that began alone, and has not been dropped, is the only one under way (`Unmixed`): what a dropped request before it
  did, and whatever failed or restarted, is covered; a call that it left running is not.
- `NothingLeftOver`: `NoLeftoversV4` speaks of quiet states; in between, every link, chain rule and masquerade
  belongs to a row that is up or to a request that will see to it. `Tidy` names these owners: a `start` that has
  brought the link up, an `update` that has stored its form and not yet removed the NAT of the old gateway. It also
  says that no rule has two copies, since `remove` deletes one.
- `OneTunnelServed`: `UpIsServed` under `Solo` (one interface name). The hypothesis is the finding of
  `iface_shared`: with two tunnels the first to stop takes the masquerade, or forwarding, from the other, and the
  theorem would be false. The proof reuses `Tidy`.

### Peer service (`PeerServiceProofs`)

- `PeerTypes`: `[]TypeOK`; `TypeInv` adds that there is an id left for every create under way, and that a round
  of the enforcer that goes on has a peer left.
- `NoOrphan`, `DeletedStays`: `RowSteps` says what any step, of a request or of the enforcer, can do to one row: insert
  it under a new id, overwrite it where it is there and the copy's interface is, delete it. Both follow from it.
- `PairsMatch`: whole rows are written from copies, so every copy under way must hold a pair too (`PairsInv`).
- `AddressesUnique` and `KernelMatches` are claimed where requests do not overlap. `SerialInv` says what the one request under
  way knows: its copy has the place and the address of the row (`CopyKept`), the list that `start` will push is the
  table's (`ListKept`), and the copies of the enforcer's round agree with the rows (`TodoKept`). `KernelInv` then says that
  every place in the kernel, an interface and a key, is right (`Right`) or will be visited by the
  request that put it out of step (`Loose`), unless its last call failed (`missed`); when nothing is under way, no place is loose.

### Traffic poller (`TrafficPollerProofs`)

- `PollerTypes`, `PollerRevivesNone`, `PollerOrphansNone`, `PollerPairsMatch`: the poller beside all of `PeerService`,
  reusing its step lemmas. A step of `PollerNext` is either one of `Next` or one of the poller's own.
- `NeverOvercounted`: `NotOvercounted` for any number of peers, interfaces, keys and requests, through creates, toggles,
  deletes and restarts of links. Two hypotheses, about the surroundings in which there is traffic (`"quota"`). `HeldBy(owner)`: a
  key that one peer had is never another's, which is so for the pairs the server generates. Counters are found by public key,
  so a key that is typed in again for a second peer, between the poller's two reads, brings its old counter along, and
  the claim would be false. `Unedited`: rows are not edited there, since `Transfer` attributes a packet to the
  row that has the entry's key and interface when it passes, and an edit changes the row before the entry. Creates, toggles and
  deletes may still overlap in any way. The proof: `Placed` says that every copy of a row, in whosever hands, and
  every admitted entry of the kernel is at a place, an interface and a key, where the owner of the key has its row, or had it
  before it was deleted (`Settled`). So what passes an entry is the owner's, and
  `Counted` bounds the kernel's counters, those in the poller's hands and those stored by what the owner has carried.
- `AloneNotOvercounted`: the same under `OneMetered` (one peer where there is traffic), without `HeldBy`, for then every
  key has one owner: whatever keys are typed in, and when. The environments of `background` satisfy `Unedited`,
  `Metered`, `Scheduled` and `Paused` have the one peer, `Shared` has two whose keys stay theirs.

### Address allocation (`IpPoolProofs`)

For every width of an address, every CIDR and any number of peers. The sizes of networks are powers of two, of which
the provers know nothing: `PowerCounts` reads 2^n as the number of subsets of 1..n, which the library counts, and
`PowerDoubles` and `PowerAdds` follow, the second because there is no least exponent for which it fails. From these come
where `network()` and `broadcast()` lie (`NetworkAround`, `BlockFits`) and which hosts there are (`HostPlaces`).

- `PoolTypes`: `[]TypeOK`; no allocated address is outside the width.
- `LowestFirst`: `AllocatesInOrder`. The least candidate leaves no gap below it (`LowestLeavesNoGap`).
- `ExhaustedOnlyWhenFull`: after a report, `FullMeansNone` holds: every host but the first is the network address of a peer.
- `PeersApart`: `Disjoint`. Invariant `Apart`: all networks are single hosts and no two are the same. A new address is in nobody's
  network because it is none's network address (`MovesApart`), which is enough only for single hosts: that is the
  premise `ManualLens = {max_prefix}` of `Disjoint`. With ranges typed by hand it is false (see the gaps above).

### Login lockout and settings (`LockoutProofs`)

- `ExactCount`, `LimitLocks`: a transaction that is not stale has read the row as it is (`Current`), and its limit is one that
  `validate` lets pass (`Judged`). `streak`, the failures recorded in a row, is never more than the counted ones.
- `LockKept`: a failure that finds a lock in force was judged by a clock that is not ahead, and keeps its end.
- `LiveCommitted`, `SoloSaves`: `Sound`, `Recorded` and `AloneInTable` say that a save at its n-th field has its first
  n - 1 values in the set of committed ones and, if it is alone, in the table.
- `LockoutTypes`: `[]LockoutTypeOK`.

`LockoutSpec` implies the theorems about the settings because each of its steps is a step or a stutter of
`SettingsService` (`LockoutExtends`).

### Users, sessions and tokens (`AccountsProofs`)

`AccountsInv` says of each request what it has established by the time it is at its step (`Fit`), and what must not be undone (`Kept`): a
form that came too late has not passed the count, a token that was spent has not passed its check,
a confirmation that is about to store a secret has seen its code, and a copy of a session that is logged out for good has no user. `Apart`
says that a request that is alone shares its session with none. `FactorInv` says of the store, of every copy of a session and of every request that is about to put a
user into its copy that the factors were given in that session: a pending user has given the password, a user both; and when a
logout that ran alone is stored, nobody holds an older copy of its session (`Apart`). From it follow `AccountsTypes`, `TotpAlwaysUsable`,
`SetupStaysClosed`, `SecondFactorAsked`, `TokensStaySpent` and `LogoutsStick`.

### Backup and restore (`BackupProofs`)

`NothingIsLost` needs `Faithful`: until a restore has moved its file into place the database, log included, holds the newest version; between
`Rename` and `Unlink` the main file does, and a log that is still there is the one fault of this restore. `Exclusive` says that a restore
has the database for itself. `BackupsAreCurrent` needs `Seen`: a backup in the making has noted the newest version since it
began. `BackupTypes` includes that nobody moves a log into a file it was not written for.

### Assumptions

All are named in the modules that declare the constants, and TLC evaluates them in the runs. Most say that a sentinel is
not a value of the type whose absence it marks (`NoSnapAssumption`, `FreeAssumption`, `NoRowTypeAssumption`, `BlankAssumption`,
`NoneAssumption`, `NoBanAssumption`, `UnsetAssumption`, `FilesAssumption`), that sets a request chooses from are not empty (`NamesAssumption`,
`SomeAssumption`, `TasksAssumption`), or that there are finitely many requests, peers or users
(`FiniteAssumption`, `CallsAssumption`, `UsersAssumption`), which cardinalities need. `LimitAssumption` says only that
the limits are natural numbers up to a bound (`MaxLimit`): the form keeps them within 1 to 50, the TOML file does not.

### Only model-checked

- Liveness: `QuotaEnforced`, `ScheduleEnforced`. The prover has no rule for fairness that reaches them.
  Every other property of a passing run is the conclusion of a theorem, under the hypotheses given above.
- `UpIsServed` for more than one tunnel is not checked either, because it is false.

## 5. Not modelled

- The audit log appears only as a writer of the database (`OtherCommit` of `Lockout`): no code reads its
  records back, and which handler writes one is a list, given among the gaps above. Roles never
  change after a user is created, and the checks compare one field.
- `is_in_window` is arithmetic on one clock value; the enforcer is modelled with its result.
- Password changes write one column and keep the sessions as they are; the time of the last login is only shown.
- `sysnet` reads the host's interfaces and changes nothing; a gateway that is gone is a mishap of
  `InterfaceService`. Dashboard, event streams, metrics, templates, translations, the DTOs of the REST API
  and `peer_conf` read one state and format it.
- The webhook dispatcher is never started by the server; its table has no reader.
- Cryptography, the netlink library, the session layer and SQLite itself are external: they appear by what
  the code relies on.
- Power loss (as opposed to a killed process) and a restore under a running server, which the documentation
  forbids.

## 6. What is left

1. `NotOvercounted` where rows are edited: traffic would have to be attributed to the peer whose key the entry has,
   not to the row of the moment.
2. `RuleCopiesBounded` with probes that deny a rule: a bound by the number of denials.
3. A restore that meets two faults, and NAT calls of two requests (or of one and a dropped one) that mix, are described among the gaps and
   would each be a run of their own, with the weaker claims that hold there.
