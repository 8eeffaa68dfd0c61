# AntiZapret VPN: a TLA+ verification project

AntiZapret VPN turns a host into a VPN server with split tunnelling. Knot
Resolver hands blocked names to a DNS proxy that answers with *fake* addresses
and installs a DNAT rule for each; OpenVPN and WireGuard/AmneziaWG carry the
clients; `setup.sh` installs and upgrades all of it as a transaction; a Flask
panel (AdminAntizapret) manages clients, blocks, limits and statistics, helped
by cron jobs that work on the same database, files and kernel state.

This directory models the parts of that system whose correctness depends on
interleavings, failures and order, checks them with TLC on small instances, and
proves the most important results with TLAPS for every instance.

1. [Inventory](#1-inventory)
2. [Modules and how they correspond to the code](#2-modules-and-how-they-correspond-to-the-code)
3. [Runs](#3-runs)
4. [Fairness](#4-fairness)
5. [Proofs](#5-proofs)
6. [What the code does not do as stated](#6-what-the-code-does-not-do-as-stated)
7. [Not modelled](#7-not-modelled)
8. [Plan](#8-plan)

## 1. Inventory

Paths are relative to the repository; `panel/` stands for
`setup/opt/AdminAntizapret/`, `az/` for `setup/root/antizapret/`.

| Component | State it keeps | Operations | Interacts through | What makes it correct |
|---|---|---|---|---|
| Fake-IP proxy (`az/proxy.py`) | address pools, table real → fake, last access; DNAT chains in the kernel, which survive it | resolve, allocate, cleanup, flush, start from the chains | Knot's cache, `iptables`, systemd, `up.sh` | one fake address per real one; table = firewall; what a client was told is routed as long as it may be used |
| Installation transaction (`setup.sh`) | managed tree, snapshot, saved unit states, guard rules, markers | snapshot, packages, publish, cutover, commit, rollback | systemd units, `up.sh`/`down.sh`, marker and lock files | never loses the committed tree, never leaves listeners without a firewall, rolls back completely |
| Firewall unit (`az/up.sh`, `az/down.sh`, `antizapret.service`) | rules, hook marker | start, stop, crash, restart | marker file, hook lock | every `custom-up` is undone once by `custom-down` |
| OpenVPN policies (`panel/core/services/openvpn_access_policy.py`, `openvpn_banlist.py`) | policy rows, `banned_clients` file | block, unblock, limits, reconcile, import | database, file read by `client-connect.sh` | the file says what the rows say; only an administrator undoes what an administrator did |
| WireGuard policies (`panel/core/services/wg_access_policy.py`, `panel/utils/wg_*`) | policy rows, peer cache, kernel peers | the same, applied by subprocesses; cron sync | database, `wg`, configuration written by `client.sh` | the kernel admits exactly the clients the policies admit |
| Traffic accounting (`panel/core/services/traffic_*.py`, `panel/utils/traffic_sync.py`) | session rows, totals, samples | snapshot (panel and cron), backfill, reset, delete | status logs, `wg show`, database | no byte twice; totals are what the samples add up to |
| Scanner bans and whitelist (`panel/utils/scanner_firewall_store.py`, `ip_restriction.py`, `temporary_whitelist_store.py`, `panel_port_firewall.py`) | a JSON file of bans, ipsets, `ALLOWED_IPS` in `.env` and a temporary whitelist, each with a copy in memory, port rules | count visits, ban, unban, pause, whitelist, synchronise | flock, `ipset`, `iptables`, threads, the command line tool | a whitelisted address is not banned, an unbanned one not at once again; file, kernel and memory agree; the port stays open to the administrator |
| Backup and restore (`panel/core/services/backup_manager.py`, `restore_manager.py`, `backup_job.py`) | archives, job status, lock, snapshot | create, delete, queue, publish, migrate, start, roll back | systemd, database and its journal, `backup_cli.py` | a restore happens completely or not at all, and its report is true |
| CIDR lists (`panel/core/services/cidr/`, `panel/ips/ip_manager.py`) | provider pools and status, list files and baselines, game blocks, copies in the configuration | refresh, clear, publish, roll back, enable, synchronise games | database, network, files | a bad download never empties a pool or list; limits are kept and used up; games are routed or excluded exactly |
| List scripts (`az/doall.sh`, `update.sh`, `parse.sh`, `bgp-update.py`, `firewall6-*`) | list files, generations | download, check, publish, restart | files, systemd | all or nothing publication |
| Background tasks and schedules (`panel/core/services/background_tasks.py`, `maintenance_scheduler.py`, `feature_toggles.py`, `logs_dashboard/cache.py`, `panel/utils/nightly_idle_restart.py`) | task rows, queue and executor, cached dashboard, crontab, settings | enqueue, run, recover, refresh, edit the crontab, restart at night | database, subprocesses, `crontab` | every task ends; a stale page is refreshed; the crontab becomes what the settings say and keeps foreign lines |
| Client management (`az/client.sh`, `wireguard-ipv6.py`, `openvpn-ipv6.py`) | keys, configuration, profiles | create, delete, re-render, migrate | files, `wg syncconf` | no two clients share an address, no deleted key stays |
| Settings, authentication, web interface | `.env`, sessions, tokens | edit, sign in, download | files, database | limits and expiry of tokens, port changes keep the panel reachable |

**What is hard here.** Several processes share state without a common lock:
gunicorn threads, cron jobs, shell scripts run from the terminal, and kernel
state that outlives all of them. Decisions are taken on rows, files or counters
read earlier, sometimes minutes earlier. Steps fail one at a time (one address
family, one client, one subprocess), and programs are killed between any two
steps. `PROJECT.json` lists each such hazard at its line, with the properties
aimed at it.

## 2. Modules and how they correspond to the code

Every definition that models code is listed with its lines under `map` in
`PROJECT.json`. A definition whose comment begins with *Mutant* is not part of
the model: it is a plausible bug, used to show that a property would notice it.

### FakeIPPool, FakeIPProxy (MCFakeIPProxy, FakeIPProxyProofs)

`FakeIPPool` is class `FakeIPPool` as operators on a record `[used, released,
next_offset]`. `FakeIPProxy` extends it to the process: one DNS thread per
element of `Thread` inside `resolve()`/`get_fake_ip()`, the cleanup thread, and
the host (chains, Knot's cache, setup file). `self.lock` is not a variable: it
is held exactly while a thread is between `allocate()` and the table entry or a
sweep is under way (`LockFree`).

* Time is kept as ages, which keeps the state finite: `idle[r]` is the age of
  `last_access`, `req[t].age` that of the `current_time` captured by `resolve`.
* `CleanupFamily` is one `iptables-restore`: atomic per family, fails when a
  rule is missing.
* `CleanupFails`, `FlushFamily`, `Exit` are the worker's `except` branch, which
  runs *without* the lock. `raced` records that a DNS thread acted in it.
* `Die` loses the memory and keeps chains and cache. `PreStart` is what `up.sh`
  does before the proxy is started again.
* Numbers of addresses are not limited to 32 or 128 bits: a network is its base
  and its size.

### InstallCutover (InstallCutoverProofs)

One variable `step` is the position of `setup.sh`; each action is the block of
the script between two points at which the outside world can be observed to
have changed. The unit `antizapret.service` moves on its own (`pre`, `pre2`,
`tail`, `active`, `dying`, `dying2`, `inactive`); before `dying` it may `Crash`,
and the `down.sh` of `dying` and `dying2` may end early (`DownCutShort`:
`handle_cutover_hook_state` fails, no default interface, killed), which leaves
`custom-up` in effect or its deferral unhandled. `cutShort` remembers that until a
later `down.sh` has cleaned up; a second loss on top of the first is not
modelled. `HandleHookState` is `handle_cutover_hook_state` of `down.sh`. A tree
is the number of the run that published it, `Mixed` a mixture.

Two kinds of writers exist. `maint` are the timers, updaters and the BGP writer,
which every run stops; `panel` is the panel's service and traffic timer, which a
run stops only if it installs the panel (`asked`, `INSTALL_PANEL`), and which the
nightly job of root's crontab may start at any time (`NightlyRestart`). What a
process of `setup.sh` remembers (`saved`, `asked`, `began`) ends with it (`Exit`).

Any step may fail (`Fail`, the EXIT trap), any step of the rollback may fail
(`RollbackFails`), and `setup.sh` may be killed anywhere (`Kill`), after which
it may be run again up to `MaxRuns` times. VPN units are one unit, so are the
maintenance units. Loss of power is not modelled: guards and markers in `/run`
and in the kernel disappear with it, and so do the listeners they protect.

### OpenVpnAccessPolicy (OpenVpnAccessPolicyProofs)

Rows are records of the columns that decide (`temp`, `perm`, `reason`, `limit`,
`by` = the row has an author); time and traffic are what they decide. A thread
goes through `PageLoad`/`Post`/`TrafficPersisted`, `Import`, `SyncLoad`,
`SyncCommit`, `SyncTruncate`, `SyncWrite`. `Merged` is SQLAlchemy's unit of
work: only the columns that differ from what was loaded are written.
`SyncWrite` writes from offset 0 of a file another thread may have written
since the truncation: an arbitrary part of the other content may remain.
Abstractions: a torn line is not a client name, and the load and commit of a
POST handler are one step.

### WgAccessPolicy (WgAccessPolicyProofs)

Adds to the rows the configuration (`conf`: the key of each client), the peer
cache, and the kernel's peers. A process is the sequence of jobs it has still to
do; a job is a subprocess (`Collect`, then `Block` or `Unblock`), so that other
processes interleave between and inside them. `Unblock` of a client without
configuration reloads the whole interface, which is why the code applies the
other blocks again. `CommandFails` (an error of `wg` is only counted) and
`ProcessFails` (a timeout or exception ends the request) can hit anywhere.
`drift` records that something happened only the next sync can repair: a
failure, a tunnel restart, a client created or deleted by `client.sh`.
The two interfaces are one.

### TrafficAccounting (TrafficAccountingProofs)

One client with an OpenVPN and a WireGuard session beside the statistics of
others that are not connected (`others`). A process collects the
counters (`Collect`), loads the rows and stores deltas in one transaction, or
finds that another process has inserted the rows meanwhile (the panel retries
once). The panel and `traffic_sync.py` have readers and writers of their own:
`StatusLogRows`, `WireGuardRows`, `PanelSessions`, `PanelTotal` beside
`SyncStatusLogRows`, `SyncWireGuardRows`, `SyncSessions`, `SyncTotal`. The panel
writes totals as it computed them, the cron job adds in SQL. `ResetCollect`,
`ResetStore` and `DeleteClient` are the administrator's operations. What follows
a stored snapshot in the panel (the reconcile of the limit policies) is
`TrafficPersisted` of the policy modules. `truth` is a history variable: the
bytes a session really carried since its statistics were reset; it is kept until
operations overlap, because no claim uses it afterwards.

Rows are loaded before the transaction that updates them by id. A reset, a
deletion or a rebuild in between frees the ids (`gone`), and SQLite gives them
again: the updates then hit the rows that have the ids now, of whichever session
or client, or none (`StoreAstray`), and the panel may end with `StaleDataError`
(`StoreStale`). `Backfill` is what the code does: it compares the sums over all
clients, tolerates a thousandth, and rebuilds the totals of everybody (`TooLow`,
`RebuildTotals`).

Abstractions: received and sent bytes, and the two networks, are one counter; a
WireGuard peer the peer cache cannot name is not seen; two operations run at a
time, and `MaxRaces` of them begin beside another.

### ScannerFirewall (MCScannerFirewall, ScannerFirewallProofs)

The record of each address (`entries`), the kernel's sets, rules and the sets of
an earlier version (`kset`, `rule`, `legacy`), the port rules (`port`), both
whitelists as files (`env`, `tfile`) and as copies in memory (`perm`, `temp`).
Threads of the panel share memory and `_scanner_lock`; a call of
`ip_whitelist_cli.py` is a process that loads the files, changes them, exits and
has the panel restarted. A thread stops between any two calls of the store; each
call is one step, because it holds the `flock`. `SyncFamily` builds the staging
set and swaps it; `LegacyLeft` removes what an older version left. `Kill` may
fall between the change of the kernel and the save of the file (`dirty` says so
until the next start), `Reboot` empties the kernel.

### AtomicRestore, RestoreJob (PanelProofs)

`AtomicRestore` is the promise: one step from the old data to the data of the
archive, and only with the report `completed`; `failed` has changed nothing.
`RestoreJob` is the code: stage, stop the panel, snapshot, publish file by file,
remove the journal of the database, migrate, start, check health, and the
rollback that any exception leads to; the lock and the status file;
creation, retention and deletion of archives by panel, cron and `backup_cli.py`.
The refinement mapping takes `data` to the snapshot while a job has published
and not yet ended, and to the files otherwise (`Data`); `result` to the status
file, with `broken` for a job that was killed or whose rollback failed
(`Result`). The last status write can raise too - in the except clause, in `queue`
and when the lock cannot be taken: the job is then over (`mute`), with `running` or
`queued` left in `status.json`. The refinement counts it as `failed`, so it has
changed nothing unless its rollback had errors. Two processes that open the data in the middle of a restore are
recorded in `mixed`.

### RouteNets, GameRoutes (MCGameRoutes, CidrProofs)

`RouteNets` is the network arithmetic of `cidr/games.py`,
`cidr/route_limits.py` and `cidr/parsers.py`: a network is the set of its
addresses, so that collapsing, covering, cutting out and compressing to a limit
have one-line definitions. `GameRoutes` is the game filter and the enabling of
provider lists: `_collect_item_cidrs`, the trimming of what other files already
route, the budget (a fold over the games, each served in the order of the
catalogue with what those before it left), the exclusion that cuts its networks
out of the include files one by one and writes its own file last. A step may fail
between any two files. `notes` are the
networks named in comments of the exclude file, which matter because the next
synchronisation reads them as lines.

### CidrBudget, CidrPipeline (MCCidrPipeline, CidrProofs)

`CidrBudget` is `_apply_total_route_limit` (`Budgets`): one route each when there
are fewer routes than providers, reserved routes for mandatory and preferred
providers, proportional shares, and the remainders. The preview has its own copy,
which is translated on its own (`EstimateBudgets`).
`CidrPipeline` is the database (refresh with fallback, clearing, the antifilter
and its cached index) and the publication (baseline, plan, file by file,
rollback, from the database or from the sources). A refresh counts the pools,
downloads for minutes and stores in one transaction; `job[r].stale` are the
pools others changed meanwhile. What a download returns is any combination of
answering and failing sources. The list of Russian networks is asked for at
the turn of every provider and may be missing at some of them (`RuLists`); what is
written is the collapsed list (`Rendered`), and a process may die in the middle of
the copy that becomes the baseline (`SnapshotDies`).

### PanelJobs (MCPanelJobs, PanelProofs)

Rows of `background_task` and the callables in the memory of the process are
separate: a kill loses the second only. `recover_stale_background_tasks` selects
rows (`doomed`) and marks them in a later step (`MarkStale`). The dashboard cache has one
refresh at a time, guarded by the row of its task. An edit of the crontab reads
it, changes one line and writes the whole; boot and settings requests overlap,
`Undone` puts settings back after a failure. The traffic's line is left out
where the systemd timer is enabled (`timer`; `TimerChanges` enables or disables it,
`EnsureReadUntimed` is a `systemctl` that fails and counts as "no timer"). The form
of the nightly restart keeps any five fields of digits (`SetNightly`, times of `Times`
that are no `TimeOfDay`), and `crontab` refuses a table that holds one (`Accepted`):
the stored time is then tried again, and refused, at every start. Gunicorn replaces a process
after `max_requests` (`Recycled`): the old one finishes beside the new one.
`NightlyRestart` runs when no session was seen for its time to live.

## 3. Runs

A passing run finishes without error; the violation run checks one statement of
the code that the code does not keep (section 6).

| Run | Instance | States | Shows |
|---|---|---|---|
| `fakeip_config` | 2 threads, 2 IPv4 + 1 IPv6 addresses, pools of one address, a movable IPv4 range | 0.73 M | table, chains and Knot's cache stay consistent under failures, crashes and reconfiguration (`MappingOneToOne`, `FirewallMatchesTable`, `CacheRouted`) |
| `fakeip_live` | 1 thread, a pool of two addresses | 0.13 M | no address is lost (`PoolExact`); cleanup and service make progress (`ExpiredReclaimed`, `ServiceRecovers`) |
| `install_cutover` | 2 runs of `setup.sh` | 0.8 M | hooks, guards, writers and trees (`HookPaired`, `NoUnguardedListener`, `WritersQuiet`, `TreeRecoverable`), true reports (`OutcomeHonest`), termination (`InstallEnds`) |
| `openvpn` | 2 clients, 2 threads, 2 operations, 1 failure | 0.51 M | the file is right after an undisturbed sync (`BanlistExact`); manual blocks stay (`ManualBlockKept`); everything converges (`Converges`) |
| `wg` | 2 clients, 2 processes, 2 keys, 2 operations, 1 failure | 0.54 M | the kernel admits whom the policies admit and nobody else (`PolicyEnforced`, `Converges`) |
| `traffic` | 2 panel threads and cron, 2 sessions beside other clients' statistics, counters to 2 and 1 event (1 and none once operations overlap), 2 overlaps | 0.92 M | every byte once (`CountedOnce`), totals are the samples (`TotalsMatchSamples`); after overlaps the sums over all clients come back to within a thousandth (`TotalsHeal`) |
| `scanner` | 1 address, 2 threads, the command line tool, 2 changes, 2 requests, 1 failure, 4 of these together | 2.8 M | `CopiesAgree`, `NoOrphanBan`, `WhitelistReleased`, `GraceKept`, `PortOpenToWhitelist` |
| `restore` | 2 jobs, 2 archives at the start, 2 failures or kills, 1 other operation | 0.45 M | `RestoreAtomic` (the refinement), `JournalFits`, `JobEnds` |
| `game_routes` | 8 addresses, 2 games, 4 operations | 0.17 M | `TrimExact`, `PunchExact`, `ExclusionComplete` against definitions by addresses |
| `cidr` | 3 providers, 2 refreshes, 8 settings, 3 operations | 0.19 M | `MetaHonest`, `PoolFloor`, `BudgetSound`, `EstimateHonest`, `ListKept` |
| `jobs` | 2 tasks, 2 requests, 3 jobs in the crontab, 5 loads, of which 1 of the host (timer, `crontab -e`, `systemctl` failing), 2 times (4:99 is none) | 0.17 M | `TaskEnds`, `CacheRefreshes`, `CronHeals`, `ForeignKept` |
| `game_routes_resync` | as `game_routes` | — | violation of `ExcludeFileHoldsBlock` |

**Why the bounds are enough.** *Fake-IP*: a pool with fewer addresses than
requests makes exhaustion, reuse and the race of two threads for one address
happen; the two-address pool adds a scan that passes claimed addresses after a
restart; `Expiry = MaxTtl + 2·MaxDelay` is the tightest value the assumption
allows. *Install*: with two runs every leftover of a first run (marker, guard,
rollback directory, running hook) meets a second one; the proofs drop the
bound. *Policies*: two clients are needed because a request about one must not
harm the other, two threads because every race found needs two; two operations
(a request, an expiry, a change of traffic) beside an unbounded number of page
loads, syncs and cache refreshes; the initial states contain what older versions
left (`Legacy`, `MaxOld`). *Traffic*: counters to 2 let a counter restart and
stop below, at and above its last value; the event is a restart, a failed read,
a reset or a deletion, and the theorems cover more of them. Once two operations
overlap the claim is only that the totals heal, and smaller bounds suffice for
that: the first overlap loses bytes of the totals, the second meets the rebuild
that the deficit causes.
*Scanner*: four events make a ban (two visits), a release or whitelisting, and a
failure, kill or reboot between; the address has one strike less than a ban for
a year, so both ban times occur. Addresses do not influence each other except
through the port rules, so one of them beside two networks is enough.
*Restore*: one archive is bad, so health fails; two failures hit a rollback as
well; two jobs meet at the lock. *Games*: 8 addresses hold a list network that
contains, equals, lies inside and is disjoint from a game's; `MaxFragments = 2`
and `MinPunchSize = 1` make all refusals to cut happen. *CIDR*: pools of 1, 2, 3
and 6 networks lie on both sides of `MinCandidate` and of the drop ratio; the
eight settings make the limit larger than, equal to and smaller than pools,
promises and the number of providers. *Jobs*: one worker makes tasks wait; the
loads keep tasks, dashboard and settings apart where they meet only in a start
of the process.

**Excused overlaps.** `BanlistExact`, `ManualBlockKept`, `PolicyEnforced`,
`CountedOnce` and `TotalsMatchSamples` are claims about operations that do not
overlap: with overlap they fail (section 6). The history variable `overlap`
records it. By `Converges` the same runs check that overlaps do no lasting harm
to who may connect, and by `TotalsHeal` that the totals of all clients together
come back to within a thousandth of the samples. In the OpenVPN module an undisturbed later sync
ends the excuse; in the WireGuard module a whole policy sync that ran alone does
for `PolicyEnforced`. In the same spirit `MetaHonest` excepts pools whose status
an overtaken refresh has stored (`mixed`), `PortOpenToWhitelist` speaks of
updates of the port rules that did not overlap (`alone`), `NoOrphanBan` of the
time outside a failure and the next start (`dirty`).

**Deadlock** is checked in the Fake-IP, policy and jobs runs. Elsewhere the
bounds are used up in the end, or nothing is left to do (no run of `setup.sh`,
no restore).

## 4. Fairness

* Fake-IP: every `subprocess.run` returns (weak fairness inside the critical
  sections). The cleanup thread eventually wins the lock and systemd eventually
  restarts the unit (strong fairness: both are only intermittently enabled).
  `iptables -F` does not fail for ever. Nothing is assumed of clients, crashes,
  the clock or the setup file.
* Install: `setup.sh` takes its next step when what that step waits for has come,
  and gives up only where the code tests for a condition and misses it (`Refuse`:
  the deadline of `wait_install_unit_active`, the marker that `--complete-cutover`
  and the commit require, the firewall the listeners had). The arbitrary failures
  of `Fail` and `RollbackFails`, crashes, kills and a `down.sh` cut short by a
  timeout of systemd are possible but never counted on, so the two waits without
  a limit (the hook lock of the rollback, `systemctl stop`) have to be shown to
  end. The unit's scripts go on, and a custom hook returns.
* OpenVPN: a thread that has begun goes on; the page is opened again and again
  (`SF` because a thread is idle only at times).
* WireGuard: the same; cron runs the policy sync and the collector refreshes the
  cache.
* Traffic: operations go on (weak) and the dashboard is opened again and again
  (strong: at most two operations run at a time, which is a bound of the model and
  no lock that could starve a request).
* Restore: a job is a process that systemd or a shell runs to its end, and
  `backup_cli.py` starts the panel again after it has stopped it. Kills need no
  fairness.
* Jobs: the commands of a task end by their timeouts and threads go on; a
  waiting task gets the worker (strong, because a restart empties the
  queue); sessions begin and expire; the dashboard is looked at again and again.
  The nightly restart finds an idle panel and a working crontab in infinitely
  many nights, and it does not hit every single refresh of the dashboard. A
  session lives longer than a view takes. `TaskEnds` is promised only while the
  nightly line is in the crontab: without restarts nothing recovers a lost task.
  `CronHeals` asks it of every job whose stored time `crontab` accepts.

`Converges` needs requests to end eventually; the bound on operations provides
that, so no fairness is assumed of administrators.

## 5. Proofs

| Theorem | Module | Statement |
|---|---|---|
| `TypeCorrect` | FakeIPProxyProofs | `Spec => []TypeOK` for any addresses, networks, threads, TTLs |
| `MappingInvariant` | FakeIPProxyProofs | `Spec => []MInv` |
| `Mapping`, `Firewall`, `Pool`, `Cache` | FakeIPProxyProofs | `Spec => []…` for `MappingOneToOne`, `FirewallMatchesTable`, `PoolExact`, `CacheRouted` |
| `Invariance` | InstallCutoverProofs | `Spec => []IInv` for any `MaxRuns` |
| `TypeCorrect`, `HooksPaired`, `ListenersGuarded`, `WritersStopped`, `CommittedTreeKept` | InstallCutoverProofs | `Spec => []…` for `TypeOK` and the invariants the run checks |
| `ReportsAreTrue` | InstallCutoverProofs | `Spec => OutcomeHonest` |
| `Invariance`, `FileIsExact`, `BlockIsKept` | OpenVpnAccessPolicyProofs | `Spec => []BInv`, `Spec => []BanlistExact`, `Spec => ManualBlockKept` for any clients, threads and bounds |
| `PolicyInvariance`, `EnforcedTheorem` | WgAccessPolicyProofs | `Spec => []PInv`, `Spec => []PolicyEnforced` for any clients, processes and bounds |
| `AccountingInvariant`, `CountedTheorem`, `TotalsTheorem` | TrafficAccountingProofs | `Spec => []AInv`, `Spec => []CountedOnce`, `Spec => []TotalsMatchSamples` for any sessions, processes and bounds |
| `Invariance` | ScannerFirewallProofs | `Spec => []SInv` for any addresses, networks, threads, durations |
| `OrphanTheorem`, `ReleaseTheorem`, `GraceTheorem`, `PortTheorem`, `CopiesTheorem` | ScannerFirewallProofs | `Spec => []…` for `NoOrphanBan`, `WhitelistReleased`, `GraceKept`, `PortOpenToWhitelist`, `CopiesAgree` |
| `RestoreInvariance`, `JournalInvariance` | PanelProofs | `Spec => []RInv`, `Spec => []JInv` for any jobs, retention and number of failures |
| `JournalTheorem` | PanelProofs | `Spec => []JournalFits` |
| `Refinement` | PanelProofs | `Spec => RestoreAtomic`: the restore job implements AtomicRestore |
| `CrontabInvariance` | PanelProofs | `JobsSpec => []CronInv` |
| `ForeignLinesAreKept` | PanelProofs | `JobsSpec => ForeignKept` for any tasks, requests, settings and deaths of the process |
| `Invariance` | CidrProofs | `Spec => []IInv` for any providers, sources, selections and number of refreshes |
| `MetaIsHonest`, `FloorIsKept` | CidrProofs | `Spec => []MetaHonest`, `Spec => PoolFloor` |
| `BudgetIsSound`, `EstimateIsHonest`, `ListIsKept` | CidrProofs | `Spec => []BudgetSound`, `Spec => []EstimateHonest`, `Spec => ListKept` for any options, pools and antifilters |
| `RouteInvariance` | CidrProofs | `GamesSpec => []RouteInv` |
| `PunchIsExact`, `ExclusionIsComplete`, `TrimIsExact` | CidrProofs | `GamesSpec => []…` for `PunchExact`, `ExclusionComplete`, `TrimExact`, for any games, lists, limits and width of addresses |

GameRoutes and PanelJobs have names of their own for what every specification
has (`GamesSpec`, `gameVars`, `JobsSpec`, `jobsVars`), so that CidrProofs can extend
CidrPipeline and GameRoutes, which share RouteNets, and PanelProofs RestoreJob and
PanelJobs.

**Assumptions.** Each proof uses the named assumption of the module it is about,
which TLC evaluates on the runs. FakeIPProxy: families, networks and TTLs have
their types, `MinTtl <= MaxTtl`, and `ExpiryAssumption`, by which a mapping lives
longer than an answer and two reply delays (only `Cache` needs it).
InstallCutover, OpenVpnAccessPolicy: bounds are numbers. WgAccessPolicy: there are
finitely many clients. TrafficAccounting: the session keys of the two kinds are
disjoint and finitely many, panel and cron are different processes, the other
clients' sums are numbers. ScannerFirewall:
durations and thresholds are positive, networks are not addresses, the command
line tool is no thread of the panel. RestoreJob: `NoJob` is no job and
`Retention` is at least 1 (the code enforces it). CidrPipeline: sources are sets
of networks, selections are sets of providers, options have the types of the
fields of a request, providers are finitely many and ordered. That the networks
of an address width are finitely many is proved, not assumed. GameRoutes: games
are finitely many with ranks of their own, their networks and those of the lists
are networks, limits are numbers. `ForeignLinesAreKept` needs no assumption.

**Fake-IP types.** `TypeOK` is not inductive alone: that `InstallRule` adds a
pair of an address and a real address needs `ReqOK`, which says that a thread in
its critical section holds exactly one record and an address of a pool, and
that a dead process flushes nothing. `AllocationsType` shows that whatever
`allocate` returns is an address of the network.

**Fake-IP mapping.** An address lives in five places: pool, table, the hand of a
thread, the chains, and the resolver's cache. `MInv` says how they agree in each
state of the process: one holder of the lock (`LockOK`); what a sweep still has
to remove is in the table and expired (`SweepOK`); a dead process has no memory
(`DownOK`); no address stands for two, the one in hand included (`DistinctOK`);
the pool's `used` is exactly what table and hand hold, and below `next_offset`
nothing is lost (`PoolOK`); chains never say more than the memory and no less
while the process is up (`ChainOK`); a reply in the making names entries younger
than its own age plus a delay (`GotOK`), so that what the resolver caches expires
before the entry does (`CacheOK`). None of the four invariants is inductive
without the others: an entry may be removed only because it is older than every
cached answer, and an address may be reused only because the rule is gone.
`allocate` searches a free offset; that its result is the first one is a minimum
of a set of numbers, taken from the well-foundedness of `<`.

**Installation.** `IInv` has five parts, each preserved by every action:
`TreeInv` (the snapshot of a run is the tree it found, and the committed tree is
that snapshot, or live, or was left by an earlier run), `HookInv` (what lock and
marker mean whatever happens, `LockInv`, and when `custom-up` can be in effect for
each state of unit and marker while no `down.sh` was cut short, `PairInv`), `GuardInv`
(a unit that is not active and did not crash has its listeners guarded),
`WriterInv` (the steps during which writers are down) and `EndInv` (what
rollback and commit rely on: a restored tree has no marker, an `applied` marker
means `custom-up` has run and no `down.sh` since). `HookPaired` alone is not
inductive: that `down.sh` may skip `custom-down` with marker `stopped` is
right only because in that state no `custom-up` is in effect, which is
`PairInv`'s third and fifth conjunct.

**OpenVPN policies.** `BanlistExact` speaks of the file after a sync; the reason
it holds lies in the steps before. While requests have not overlapped, one thread
is at work (`OneThread`); the rows it has loaded differ from the database only by
what time and traffic did (`Drift`), the list it has computed fits the rows, and
after the truncation the file is empty (`SyncOK`). `FileOK` is `BanlistExact`
row by row. `BlockIsKept` follows from what each writer of a row may change:
an import, a sync and a commit of other columns never clear `perm`.

**WireGuard policies.** The code keeps no list of what is still to be done: what
makes `PolicyEnforced` true at the end is what the queues hold before. In a calm
state (no disturbance since a whole sync, no overlap) `JobsOK` says that blocks are
about blocked and unblocks about unblocked clients, that a subprocess has the keys
of the configuration, and that every unblock, which may load the whole interface,
is followed by a job that blocks each blocked client again (`Covers`). `PeersOK`
says that a client is where its policy wants it or a job of a queue will bring it
there. `Splice` and `SyncQueue` state what happens to a queue; `SetToSeqFacts`, that
the sequence of a set of clients misses none, is counted from the cardinality.
The part about old keys needs only `KeysOK`: what an unblock has collected is the
configuration as it is, since nobody else has run.

**Traffic.** That the samples are no more than what was carried is not inductive:
what a session has *still to add* has to fit as well. `Open` is what the next
snapshot will count of a session, `Due` the same by way of the snapshot under way
(first up to what it has read, then from there), and `Balance` says that samples
and `Due` together are within the bytes carried. A unit of traffic raises both
sides, a restart or an end only lowers what is due, and a store moves it from due
to sampled, session by session (`RoomMove`, `RoomStore`, `RoomFresh`). `ResetFits`
says of a reset between its two halves that what it will forget leaves room for
what its baseline will count. `Grows` says that an OpenVPN counter, its row and a
snapshot of it only go up, which makes the samples exactly the sum of the rows.
`NoConflict` shows that the retry after an `IntegrityError` needs an overlap, and
`AllThere` that nobody's loaded rows are deleted without one. The
sums come first in the module: a sum is a fold, hence a recursive function on the
subsets of a finite set; that the function exists, that a sum may be taken in any
order, and that sums of functions that compare at every element compare, is shown
on a smallest counterexample (`Smallest`, from the well-foundedness of strict
inclusion), which replaces the induction.

**Scanner.** `SInv` holds the invariants in inductive form: `LockOK` (who is
about to ban holds `_scanner_lock`), `CopiesOK` (memory and files differ in
expired entries at most), `OrphanOK`, `GraceOK` (the promised pause is on record,
and the kernel does not know the address), `PortOK` (updates are one at a time
and the last one saw the whitelist as it is, unless another is due). The
interesting one is `GrantedOK`: no thread *has already decided* to ban an
address that was released, which holds because decision and ban are made under
one lock and the release checks the list after taking it.

**Restore.** `RInv` relates lock, status file and phase of every job (`PhaseOK`)
and says of each file of a running restore what it may be (`FilesOK`): the one of
the snapshot, the one of the archive, or that one migrated, and which of these
at each phase. The refinement maps `data` to the snapshot while a job has
published; so every step of a restore and of its rollback is invisible, except
the migration of a database the archive does not hold, until the step that
reports. `LeftComplete`, `LeftUndone` and `LeftBehind` say what is on the disk
then: the whole archive, nothing new, or of each file one or the other.
`JInv` adds the journal: while it may belong to another database the panel is
down and the journal is still on the list of what will be removed or put back
(`JournalAt`); errors, kills and starts by others are the excuses, and they are
never forgotten (`Calm`).

**Provider database.** `MetaHonest` is not inductive: a refresh that preserves a
pool writes the count it read before its downloads. `CountFresh` says that this
count is that of the pool, for every pool no other operation has changed since;
a store and a clearing keep it because they put what they change on the `stale`
lists of all other refreshes. `StoreEffect` states once what a store makes of
one provider, by cases: not selected, failed, kept, replaced. `FloorIsKept`
uses `CountFresh` again: the preservation rule was evaluated on the old count
and is claimed of the pool.

**Budgets.** `Budgets` divides the limit in three passes. `Spread` is the fact
behind the last one: what is handed out in an order, each taking what it asks for
as long as there is any, is all there is or all that was asked for. It is shown
for the prefixes of the order, last provider first (`AheadOfLast`); the order by
remainder, ties broken by position, is a strict linear one (`KeyOrder`). Shares
rounded down never exceed what is left, and what rounding leaves is no more than
the room of the providers, so the remainders use the limit up. The passes before
it reserve one route for each mandatory provider and the promises of preferred
ones, and the sums of the three are taken apart with the lemmas about sums.

**Preview.** Without a filter the preview computes from the counters alone.
`CountsAgree` takes them to the pools, by `MetaHonest`, so that both computations
divide the limit by the same numbers. `BudgetsAgree` proves that the two algorithms
return the same budgets, stage by stage (`OneEachAgrees`, `ReservedAgrees`,
`SharesAgree`): the extra branches of the preview's copy are never taken, and a
sorted line cut off at the limit is the set of the firsts. Then `CutSize`:
compressing a pool to a budget below its size leaves at most as many networks. Last
comes the collapse on writing, which is defined by addresses: networks nest
(`BlocksNest`), so that collapsing never makes a list longer (`CollapseSize`), and a
part of a list that collapsing leaves alone is left alone too (`CollapsePart`).

**Publication.** `ListKept` is a property of steps, but what a step writes was
planned earlier. `PubInv` says of the plan under way what it was made from: every
planned list has routes, unless the limit was exceeded when it was planned, and
a mandatory one unless the limit was smaller than the number of mandatory
providers.

**Game routes.** `Files` says that all files hold networks, and their copies and
sources too; `JobShape` what a job is at each step. The interesting part is
`Planned`: every patch that a job has still to apply takes addresses of the
excluded networks and no others (`Cuts`), which gives `PunchExact` whatever became
of the file; and while nobody touched the lists and no network was given up, the
patches *still to come* clear each include file of the excluded addresses
(`WillClear`). A step applies one patch and hands on the rest; after the last one
the files are clear, which is `ExclusionComplete`. For `TrimExact`,
`TrimmedSpace` and `SummarizeFacts` say of trimming and of compressing which
addresses they keep, and `ServedRight` follows the fold of the budget game by
game: what is left is never negative, and each game gets at most what is left.
Folds over sets are recursive functions on subsets, whose existence is shown by
well-founded recursion once for all folds (`Folded`, `FoldTyped`).
`CanonicalSpace` is the arithmetic underneath: the canonical networks of a set of
addresses hold exactly these addresses.

**Crontab.** An edit writes back the whole crontab it has read. `CronInv` says
that what it has read holds the lines of others as they are now, unless `late`
records that somebody changed them since; so a write that changes them is a late
one.

**Only model-checked**: liveness (`InstallEnds`, `ExpiredReclaimed`,
`ServiceRecovers`, both `Converges`, `TotalsHeal`, `JobEnds`, `TaskEnds`,
`CacheRefreshes`, `CronHeals`), because fairness and ENABLED are out of the
prover's reach. Every safety property that a passing run checks is stated by a
theorem.

## 6. What the code does not do as stated

`game_routes_resync` is a run with expected result *violation*; the finding in
`PROJECT.json` quotes the line. `_iter_overlap_source_files` skips the include
files of the game filter but not its exclude file (`games.py:955`), which thus
counts as an include file: the second synchronisation cuts the networks of the
exclude file out of the exclude file itself. The third one with the same selection
compares its text with the text read before these cuts, finds them equal and
does not write it: success is reported and the networks are gone. The same
happens when `games.py` itself is run with its downloads replaced.

The following is what overlapping or unlucky operations really do. Each was
found by TLC, or while modelling, and is the reason for an excuse or abstraction
above.

* *Proxy*: between `flush_mappings` in the cleanup worker, which holds no lock,
  and `os._exit(1)` DNS threads answer with addresses that have no DNAT rule
  (`proxy.py:176`).
* *Installation*: a rolled-back run that found `antizapret.service` inactive
  keeps its own guard rules. A `down.sh` that ends before `custom-down`
  (`down.sh:102`, `:106`) loses it for good if the marker is `stopped` by then:
  `HookPaired` and `OutcomeHonest` excuse a run that met one. With
  `INSTALL_PANEL=n` an existing panel, its timer and its cron jobs go on writing
  while the tree is replaced (`setup.sh:348`), and cron may wake the panel of a
  run that stopped it; other jobs of the crontab (`wg_awg_policy_sync.py` writes
  the WireGuard configuration) are never stopped. `WritersQuiet` claims only what
  the code stops.
* *OpenVPN*: a page load that read the banlist before an unblock imports the
  client again as permanently blocked (`openvpn_access_policy.py:282`), and so
  does a crash between the commit of an unblock and the write of the file; of
  two requests the one that loads first and writes last drops the other's ban
  until the next reconcile (`:264`); a row may mix columns of two requests
  (`:201`); between truncation and write a banned client may connect.
* *WireGuard*: a policy sync that decided before a block restores the peer after
  it, until the next sync (`wg_access_policy.py:359`); one failing unblock keeps
  all blocks of that sync from being applied (`:361`); the policy row of a
  deleted client makes every sync reload the interface and raise all blocked
  peers for a moment.
* *Traffic*: a snapshot collected before another one and stored after it counts
  the whole session again (`traffic_persistence.py:147`), or brings back what a
  reset or deletion removed (`traffic_maintenance.py:390`); bytes between the
  last snapshot and a disconnect are lost; a reset while an OpenVPN log cannot
  be read makes its session count from the beginning. The backfill looks at sums
  over all clients (`traffic_persistence.py:240`): a deficit of one client stays
  as long as it is within a thousandth of everybody's bytes or another client has
  as much too many. A dashboard request whose rows a reset or rebuild has
  replaced adds its bytes to whichever rows have the ids now, or fails
  (`traffic_sync.py:784` does the former).
* *Scanner*: the bulk entry of addresses to the whitelist does not release those
  that are banned; the moment since when an address watches the blocked page is
  never cleared; a change by the command line tool reaches the panel by its
  restart only.
* *Restore*: a job whose last status cannot be written (`restore_manager.py:208`,
  `69`, `694`) is shown as `running` or `queued` for ever, which `JobEnds` excepts by
  name (`mute`), as it does a signal between the try blocks of the except clause,
  which ends the job as a kill does; `systemctl start --no-block` that times out
  after it was heard (reported as failed, and run all the same) and a signal inside
  `os.replace` are below the grain of the model; `backup_cli.py create`, the cron backup and `traffic_sync.py` do
  not take the restore lock; a killed job that is started again fails on its
  existing staging directory and deletes the snapshot (`restore_manager.py:223`).
* *Games*: the comments of the exclude file name covering networks, and the next
  synchronisation reads them as entries; overlaps beyond the 32nd are not looked
  at; routes
  trimmed because a list held them stay away after that list is disabled; a copy
  in the configuration that was cut is taken for the list itself when it is
  enabled again (`ip_manager.py:63`).
* *CIDR*: a provider without shipped baseline takes whatever list exists, even a
  torn one, as its baseline, and a process that dies in the middle of that copy
  leaves a torn baseline for good (`file_pipeline.py:33-41`); the collapse comes
  after the limit was divided, so the report and the preview may name more routes
  than the file has; Russian networks stay in the lists written while the list of
  them cannot be had (`geo.py:303`); a list the limit reduces to nothing is written
  empty; the preview ignores the antifilter when no list is loaded while the
  publication refuses; failing direct sources never trigger the fallback, and if
  all of them fail the provider fails although its autonomous systems answered;
  a dying refresh leaves its log `running`; a clearing of everything during a
  refresh makes it fail.
* *Jobs*: the recovery marks the rows it selected without looking at them again;
  `run_doall` counts as stale after 300 s although its two commands may take
  900 s each; a row marked failed while queued runs all the same; the task that
  restarts the service never reports its end; a feature toggle that fails leaves
  the lines it has written; if the nightly line is lost, nothing restores lost
  tasks before the next start; a cron expression such as `99 4 * * *` passes the
  form (`app.py:194`), is stored, and is refused by `crontab` for ever
  (`maintenance.py:68-101`); a `systemctl` that fails brings the traffic's line
  back beside the timer until the next start (`maintenance_scheduler.py:145`);
  the time of the panel's backup is entered as
  hours and minutes and read as minutes and hours
  (`maintenance_scheduler.py:224`).

## 7. Not modelled

`PROJECT.json` gives the reason for each component. In short: contents of
firewall rules and lists, parsing of logs and DNS messages, packages and
questions of the installer, templates, styles and browser code, password
hashing and captcha images are data or other programs. Of the modelled parts:
presets and retired providers, the display of archives and bans, the aggregation
of the dashboard's figures, the change of the panel's port and the settings file
of AntiZapret. List scripts, the generations of BGP routes, client files and
download tokens have state and failures worth modelling and are in the plan.

## 8. Plan

In this order; the first eight items are done.

1. FakeIPPool, FakeIPProxy — the data path of every client. *All safety properties proved.*
2. InstallCutover — everything can be lost here. *All safety properties proved.*
3. OpenVpnAccessPolicy, WgAccessPolicy — who may connect. *All safety
   properties proved.*
4. TrafficAccounting — what limits are decided on. *All safety properties proved.*
5. ScannerFirewall — who reaches the panel. *All safety properties proved.*
6. AtomicRestore, RestoreJob — the refinement. *Proved, with the journal.*
7. CidrBudget, CidrPipeline, RouteNets, GameRoutes — what is routed.
   *All safety properties proved.*
8. PanelJobs — what runs outside requests. *The safety property is proved.*
9. ListUpdate: `doall.sh`, `update.sh`, `parse.sh`, BGP generations.
10. ClientManagement: keys and addresses of `client.sh` and the IPv6 migrations.
