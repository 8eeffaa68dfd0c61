-------------------------- MODULE ScannerFirewall --------------------------
(***************************************************************************)
(* Access control of the panel: the scanner bans (ScannerFirewallStore: a  *)
(* JSON file under flock, an ipset with timeouts and a DROP rule per       *)
(* address family), the whitelist of IPRestriction (permanent entries in   *)
(* .env, temporary ones in a JSON file of their own, both copied into the  *)
(* memory of each process) and the rules that open the panel's port to the *)
(* whitelist only (PanelPortFirewall).                                     *)
(*                                                                         *)
(* The panel's threads share the memory and the _scanner_lock of one       *)
(* process; the command line tool ip_whitelist_cli.py is a process that    *)
(* loads both files, changes them and exits.  A thread stops between any   *)
(* two store calls, whose own lock makes each of them one step.  The flag  *)
(* firewall_applied and the events of a record are only displayed.         *)
(***************************************************************************)
EXTENDS Integers, FiniteSets, Sequences

CONSTANTS
    IPs,            \* addresses of clients
    V6,             \* those of them that are IPv6
    Net,            \* a network that holds all of them
    Office,         \* a network that holds none of them
    Panel,          \* threads of the panel
    Cli,            \* the thread of a command line call
    NoThread,       \* nobody holds the lock
    BanTime, YearBan, Grace, DwellTime, Window, TempTime,   \* durations
    MaxAttempts, StrikesForYear,
    MaxTime,        \* bound: the clock
    MaxOps,         \* bound: changes made by the administrator
    MaxRequests,    \* bound: requests of clients
    MaxFails,       \* bound: failing ipset calls, deaths and reboots
    MaxEvents       \* bound: the three together

ASSUME ScannerAssumption ==
    /\ V6 \subseteq IPs /\ Net # Office /\ {Net, Office} \cap IPs = {} /\ Cli \notin Panel /\ NoThread \notin Panel \cup {Cli}
    /\ {BanTime, YearBan, Grace, DwellTime, Window, TempTime, MaxAttempts, StrikesForYear} \subseteq Nat \ {0}
    /\ {MaxTime, MaxOps, MaxRequests, MaxFails, MaxEvents} \subseteq Nat

VARIABLES
    entries,    \* scanner_blocks.json: the record of each address
    kset,       \* kernel: when the address leaves the ipset, 0 = not a member
    rule,       \* kernel: families whose DROP rule and set exist
    legacy,     \* kernel: addresses in the sets of an earlier version
    port,       \* kernel: is the panel's port restricted, and to whom
    env, tfile, \* ALLOWED_IPS in .env; temporary_whitelist.json
    prot,       \* scanner settings (memory and .env change together)
    direct,     \* the panel is published without a reverse proxy
    perm, temp, \* allowed_ips and temporary entries in each process
    lock,       \* who holds _scanner_lock of each process
    th,         \* what each thread is doing
    up,         \* the panel runs
    clock, ops, reqs, fails,
    dirty,      \* history: the kernel may hold what the store does not know
    granted,    \* history: addresses released for a whitelist entry of the panel
    promised,   \* history: until when an unbanned address was promised no ban
    alone       \* history: no two updates of the port rules have overlapped

kernel == <<kset, rule, legacy>>
files == <<env, tfile>>
memory == <<perm, temp>>
bounds == <<clock, ops, reqs, fails>>
history == <<dirty, granted, promised, alone>>
vars == <<entries, kernel, port, files, prot, direct, memory, lock, th, up, bounds, history>>

Threads == Panel \cup {Cli}
Entries == IPs \cup {Net, Office}
Procs == {"panel", "cli"}
Proc(t) == IF t = Cli THEN "cli" ELSE "panel"

Few == ops + reqs + fails < MaxEvents

\* The families of _FIREWALL_FAMILIES and _ip_version.
Families == {4, 6}
Family(ip) == IF ip \in V6 THEN 6 ELSE 4

\* _entry_unlocked: an address without a record behaves like this one.
NoRecord == [strikes |-> 0, ban |-> 0, att |-> << >>, since |-> 0, grace |-> 0]

Idle == [pc |-> "idle", ip |-> Net, now |-> 0, then |-> "idle", snap |-> {}, on |-> FALSE]
Goto(t, pc) == th' = [th EXCEPT ![t].pc = pc]
Done(t) == th' = [th EXCEPT ![t] = Idle]
\* Mutant: the panel is not restarted.
ContinueAlways(t) == th' = [th EXCEPT ![t] = IF @.then # "idle" THEN [Idle EXCEPT !.pc = th[t].then, !.ip = th[t].ip] ELSE Idle]

\* The command line tool ends with a restart of the panel (ip_whitelist_apply).
Continue(t) ==
    th' = [th EXCEPT ![t] = IF @.then # "idle" THEN [Idle EXCEPT !.pc = th[t].then, !.ip = th[t].ip]
                            ELSE IF t = Cli THEN [Idle EXCEPT !.pc = "restart"] ELSE Idle]

-----------------------------------------------------------------------------
(* The store *)

\* _state_lock, _load_unlocked, _save_unlocked: a call reads the file, changes the
\* record of one address and replaces the file.
Save(ip, r) == entries' = [entries EXCEPT ![ip] = r]

\* _firewall_contains, _family_infrastructure_present: what the kernel drops.
InSet(ip) == kset[ip] > clock
Dropped(ip) == (Family(ip) \in rule /\ InSet(ip)) \/ ip \in legacy

\* An ipset or iptables call that fails (_run_command).
Fails(b) == /\ b => fails < MaxFails /\ Few
            /\ fails' = IF b THEN fails + 1 ELSE fails

\* _create_family_ipset, _ensure_family_infrastructure, _firewall_add
FirewallAdd(ip, seconds, fail) ==
    IF fail THEN UNCHANGED kernel
    ELSE /\ kset' = [kset EXCEPT ![ip] = clock + seconds]
         /\ rule' = rule \cup {Family(ip)}
         /\ UNCHANGED legacy

\* _firewall_remove: both the set and its predecessor.
FirewallRemove(ip) ==
    /\ kset' = [kset EXCEPT ![ip] = 0]
    /\ legacy' = legacy \ {ip}
    /\ UNCHANGED rule

InGrace(ip, now) == entries[ip].grace > now

\* is_banned: a ban that has run out is taken out of the store, and out of the
\* kernel unless ipset fails.
Expired(ip, now) == entries[ip].ban > 0 /\ entries[ip].ban <= now

\* _prune_attempts, record_attempt
Attempts(r, now) == Append(SelectSeq(r.att, LAMBDA s : s >= now - Window), now)

\* register_ban: nothing during the pause after an unban; the fifth strike bans for
\* a year.
RegisterBan(ip, now, fail) ==
    LET s == entries[ip].strikes + 1
        seconds == IF s >= StrikesForYear THEN YearBan ELSE BanTime
    IN IF InGrace(ip, now) THEN UNCHANGED <<entries, kernel>>
       ELSE /\ Save(ip, [entries[ip] EXCEPT !.strikes = s, !.since = 0, !.att = << >>, !.ban = now + seconds])
            /\ FirewallAdd(ip, seconds, fail)

\* release_firewall_only: the strikes and the pause stay.
Released(r) == [r EXCEPT !.ban = 0, !.att = << >>, !.since = 0]

\* Mutant: no pause after an unban.
UnbannedNoPause(r) == [Released(r) EXCEPT !.strikes = 0]

\* unban_ip
Unbanned(r) == [Released(r) EXCEPT !.strikes = 0, !.grace = clock + Grace]

\* Mutant: the new set is filled in place, members that the store does not know stay.
SyncFamilyInPlace(f, ok) ==
    [ip \in IPs |-> IF Family(ip) = f /\ ok /\ entries[ip].ban > clock THEN entries[ip].ban ELSE kset[ip]]

\* _sync_family_ipset: a second set is filled and swapped with the first.
SyncFamily(f, ok) ==
    [ip \in IPs |-> IF Family(ip) = f /\ ok
                    THEN IF entries[ip].ban > clock THEN entries[ip].ban ELSE 0
                    ELSE kset[ip]]

\* sync_firewall_from_store: family by family, good are those that worked.
SyncFromStore(good) == [ip \in IPs |-> SyncFamily(Family(ip), Family(ip) \in good)[ip]]

\* _remove_legacy_family: the predecessor of a set goes when the set is in place.
LegacyLeft(good) == {ip \in legacy : Family(ip) \notin good}

-----------------------------------------------------------------------------
(* The whitelist *)

\* TemporaryWhitelistStore.purge_expired: runs before every answer; when it removes
\* anything it writes the memory of this process over the file.
Live(p) == {ip \in IPs : temp[p][ip] > clock}
Purge(p) ==
    LET left == [ip \in IPs |-> IF ip \in Live(p) THEN temp[p][ip] ELSE 0]
    IN /\ temp' = [temp EXCEPT ![p] = left]
       /\ tfile' = IF left = temp[p] THEN tfile ELSE left

Enabled(p) == perm[p] # {}

\* Mutant: temporary entries are not looked at.
AllowedPermanent(p, ip) == ~Enabled(p) \/ ip \in perm[p] \/ Net \in perm[p]

\* is_ip_allowed
Allowed(p, ip) == ~Enabled(p) \/ ip \in perm[p] \/ Net \in perm[p] \/ ip \in Live(p)

\* is_whitelist_port_firewall_active
PortActive(p) == Enabled(p) /\ prot.port /\ direct

\* Threads between the decision about the port rules and their change.
Syncing == {t \in Threads : th[t].pc = "papply"}

\* sync_whitelist_port_firewall: what to allow is read ...
PortRead(t) ==
    /\ th[t].pc = "psync"
    /\ Purge(Proc(t))
    /\ prot' = IF direct THEN prot ELSE [prot EXCEPT !.port = FALSE]
    /\ th' = [th EXCEPT ![t].pc = "papply", ![t].on = PortActive(Proc(t)),
                        ![t].snap = perm[Proc(t)] \cup Live(Proc(t))]
    /\ alone' = (Syncing = {})
    /\ UNCHANGED <<entries, kernel, port, env, direct, perm, lock, up, bounds, dirty, granted, promised>>

\* Nothing of the command line tool's memory is used after this.
Forget(t) == IF t = Cli THEN /\ perm' = [perm EXCEPT !["cli"] = {}]
                             /\ temp' = [temp EXCEPT !["cli"] = [ip \in IPs |-> 0]]
             ELSE UNCHANGED memory

\* Mutant: entries leave the set, new ones are not added.
PortRulesShrink(t) == [on |-> th[t].on, allow |-> port.allow \cap th[t].snap]

\* PanelPortFirewall.sync and disable
PortRules(t) == IF th[t].on THEN [on |-> TRUE, allow |-> th[t].snap] ELSE [on |-> FALSE, allow |-> {}]

\* ... and the set and the chain are filled.  Nothing locks them; a failed call is
\* only logged.
PortApply(t) ==
    /\ th[t].pc = "papply"
    /\ \E fail \in BOOLEAN :
          /\ Fails(fail)
          /\ IF fail THEN \E S \in SUBSET th[t].snap : port' = [PortRules(t) EXCEPT !.allow = S]
                     ELSE port' = PortRules(t)
          /\ alone' = (alone /\ ~fail)
    /\ Continue(t)
    /\ Forget(t)
    /\ UNCHANGED <<entries, kernel, files, prot, direct, lock, up, clock, ops, reqs, dirty, granted, promised>>

-----------------------------------------------------------------------------
(* Administration: each operation ends with an update of the port rules *)

Admin(t) ==
    /\ th[t].pc = "idle" /\ (t \in Panel => up) /\ ops < MaxOps /\ Few
    /\ ops' = ops + 1
    /\ UNCHANGED <<port, direct, lock, up, clock, reqs>>

Then(t, pc, ip, then) == th' = [th EXCEPT ![t] = [Idle EXCEPT !.pc = pc, !.ip = ip, !.then = then]]

\* The command line tool loads both files before it does anything.
PermOf(t) == IF t = Cli THEN env ELSE perm["panel"]
TempOf(t) == IF t = Cli THEN tfile ELSE temp["panel"]

\* save_to_env: the set of this process replaces the one in the file.
SetPerm(t, S) == perm' = [perm EXCEPT ![Proc(t)] = S] /\ env' = S
SetTemp(t, f) == temp' = [temp EXCEPT ![Proc(t)] = f] /\ tfile' = f
LoadTemp(t) == temp' = [temp EXCEPT ![Proc(t)] = TempOf(t)] /\ UNCHANGED tfile
LoadPerm(t) == perm' = [perm EXCEPT ![Proc(t)] = PermOf(t)] /\ UNCHANGED env

\* add_ip: a single address is released from the firewall at the end.
AddIp(t, e) ==
    /\ Admin(t)
    /\ SetPerm(t, PermOf(t) \cup {e}) /\ LoadTemp(t)
    /\ granted' = granted \ {e}
    /\ Then(t, "psync", e, IF e \in IPs THEN "release" ELSE "idle")
    /\ UNCHANGED <<entries, kernel, prot, fails, dirty, promised, alone>>

\* add_temporary_ip
AddTemporaryIp(t, ip) ==
    /\ Admin(t)
    /\ PermOf(t) # {}
    /\ LoadPerm(t) /\ SetTemp(t, [TempOf(t) EXCEPT ![ip] = clock + TempTime])
    /\ granted' = granted \ {ip}
    /\ Then(t, "release", ip, "psync")
    /\ UNCHANGED <<entries, kernel, prot, fails, dirty, promised, alone>>

\* remove_ip, remove_temporary_ip, remove_ip_any
RemoveIpAny(t, e) ==
    /\ e \in PermOf(t) \/ (e \in IPs /\ TempOf(t)[e] > 0)
    /\ Admin(t)
    /\ SetPerm(t, PermOf(t) \ {e})
    /\ SetTemp(t, [ip \in IPs |-> IF ip = e THEN 0 ELSE TempOf(t)[ip]])
    /\ granted' = granted \ {e}
    /\ Then(t, "psync", Net, "idle")
    /\ UNCHANGED <<entries, kernel, prot, fails, dirty, promised, alone>>

\* enable_ips of handle_security_settings and clear_all of IPRestriction: nobody is
\* released from the firewall.
ReplaceWhitelist(t, S) ==
    /\ t \in Panel /\ Admin(t)
    /\ SetPerm(t, S)
    /\ IF S = {} THEN SetTemp(t, [ip \in IPs |-> 0]) ELSE LoadTemp(t)
    /\ granted' = granted \cap S \cap (perm["panel"] \cup Live("panel"))
    /\ Then(t, "psync", Net, "idle")
    /\ UNCHANGED <<entries, kernel, prot, fails, dirty, promised, alone>>

\* save_scanner_block, set_scanner_protection
SetProtection(t, new) ==
    /\ t \in Panel /\ Admin(t) /\ Enabled("panel")
    /\ prot' = [new EXCEPT !.port = @ /\ direct]
    /\ Then(t, "psync", Net, "idle")
    /\ UNCHANGED <<entries, kernel, files, memory, fails, history>>

\* unban_scanner_ip
Unban(t, ip) ==
    /\ t \in Panel /\ lock["panel"] = NoThread /\ Admin(t)
    /\ \E fail \in BOOLEAN :
          /\ Fails(fail)
          /\ IF fail THEN UNCHANGED <<entries, kernel, promised>>
             ELSE /\ FirewallRemove(ip) /\ Save(ip, Unbanned(entries[ip]))
                  /\ promised' = [promised EXCEPT ![ip] = clock + Grace]
    /\ UNCHANGED <<files, prot, memory, th, dirty, granted, alone>>

\* flush_firewall_sets, clear_all of the store: when a family fails the records stay.
ClearBans(t) ==
    /\ t \in Panel /\ lock["panel"] = NoThread /\ Admin(t)
    /\ \E bad \in SUBSET Families :
          /\ Fails(bad # {})
          /\ kset' = [ip \in IPs |-> IF Family(ip) \in bad THEN kset[ip] ELSE 0]
          /\ legacy' = {ip \in legacy : Family(ip) \in bad}
          /\ entries' = IF bad = {} THEN [ip \in IPs |-> NoRecord] ELSE entries
    /\ promised' = [ip \in IPs |-> 0]
    /\ UNCHANGED <<rule, files, prot, memory, th, dirty, granted, alone>>

\* get_display_state, get_active_bans: the settings page clears what has run out.
ViewSettings(t) ==
    /\ t \in Panel /\ Admin(t)
    /\ LET over == {ip \in IPs : Expired(ip, clock)}
       IN \E bad \in SUBSET {ip \in over : InSet(ip)} :
             /\ Fails(bad # {})
             /\ entries' = [ip \in IPs |-> IF ip \in over THEN [entries[ip] EXCEPT !.ban = 0] ELSE entries[ip]]
             /\ kset' = [ip \in IPs |-> IF ip \in over \ bad THEN 0 ELSE kset[ip]]
             /\ legacy' = legacy \ over
             /\ dirty' = (dirty \/ bad # {})
    /\ Purge("panel")
    /\ UNCHANGED <<rule, env, prot, perm, th, granted, promised, alone>>

-----------------------------------------------------------------------------
(* Requests of clients *)

\* What becomes of a request: a visit of the pages of ip_blocked is watched, any other
\* one is counted, or the ban is only looked up (should_hard_deny).
Verdict(ip, page) ==
    IF Allowed("panel", ip) THEN "release"
    ELSE IF page /\ prot.dwell THEN "touch"
    ELSE IF ~page /\ prot.scan /\ ~InGrace(ip, clock) THEN "count" ELSE "look"

\* check_ip_access: an address on the whitelist is released.  The time is read before
\* the lock is taken.
Request(t, ip, page) ==
    /\ t \in Panel /\ up /\ th[t].pc = "idle" /\ reqs < MaxRequests /\ Few /\ ~Dropped(ip)
    /\ Enabled("panel")
    /\ Purge("panel")
    /\ th' = [th EXCEPT ![t] = [Idle EXCEPT !.pc = Verdict(ip, page), !.ip = ip, !.now = clock]]
    /\ reqs' = reqs + 1
    /\ UNCHANGED <<entries, kernel, port, env, prot, direct, perm, lock, up, clock, ops, fails, history>>

\* The beginning of touch_ip_blocked_presence and record_denied_access under
\* _scanner_lock: is_banned, then the visit is recorded.
Recorded(t, r) ==
    LET now == th[t].now IN
    IF th[t].pc = "count" THEN [r EXCEPT !.att = Attempts(r, now)]
    ELSE IF th[t].pc = "touch" /\ r.since = 0 THEN [r EXCEPT !.since = now] ELSE r

\* Has the address tried too often, or stayed on the page for too long?
Exceeds(t, r) ==
    IF th[t].pc = "count" THEN Len(r.att) >= MaxAttempts
    ELSE th[t].pc = "touch" /\ r.grace <= th[t].now /\ th[t].now - r.since >= DwellTime

Watch(t) ==
    LET ip == th[t].ip  now == th[t].now  p == Proc(t) IN
    /\ th[t].pc = "look" \/ (th[t].pc \in {"count", "touch"} /\ lock[p] = NoThread)
    /\ IF entries[ip].ban > now THEN Done(t) /\ UNCHANGED <<entries, kernel, lock, fails, dirty>>
       ELSE \E fail \in BOOLEAN :
              LET r == Recorded(t, [entries[ip] EXCEPT !.ban = 0]) IN
              /\ Fails(fail) /\ (fail => Expired(ip, now) /\ InSet(ip))
              /\ IF Expired(ip, now) /\ ~fail THEN FirewallRemove(ip) ELSE UNCHANGED kernel
              /\ dirty' = (dirty \/ fail)
              /\ Save(ip, r)
              /\ IF Exceeds(t, r) THEN Goto(t, "check") /\ lock' = [lock EXCEPT ![p] = t]
                                  ELSE Done(t) /\ UNCHANGED lock
    /\ UNCHANGED <<port, files, prot, direct, memory, up, clock, ops, reqs, granted, promised, alone>>

\* _apply_ban_locked: the whitelist is asked once more ...
CheckAgain(t) ==
    /\ th[t].pc = "check"
    /\ Purge(Proc(t))
    /\ IF Allowed(Proc(t), th[t].ip)
       THEN Done(t) /\ lock' = [lock EXCEPT ![Proc(t)] = NoThread]
       ELSE Goto(t, "ban") /\ UNCHANGED lock
    /\ UNCHANGED <<entries, kernel, port, env, prot, direct, perm, up, bounds, history>>

\* ... and the ban is registered.
Ban(t) ==
    /\ th[t].pc = "ban"
    /\ \E fail \in BOOLEAN : Fails(fail) /\ RegisterBan(th[t].ip, th[t].now, fail)
    /\ Done(t)
    /\ lock' = [lock EXCEPT ![Proc(t)] = NoThread]
    /\ UNCHANGED <<port, files, prot, direct, memory, up, clock, ops, reqs, history>>

\* release_firewall_for_ip, release_firewall_only: the record stays when ipset fails.
Release(t) ==
    LET ip == th[t].ip IN
    /\ th[t].pc = "release" /\ lock[Proc(t)] = NoThread
    /\ \E fail \in BOOLEAN :
          /\ Fails(fail)
          /\ IF fail THEN UNCHANGED <<entries, kernel, granted>>
             ELSE /\ FirewallRemove(ip) /\ Save(ip, Released(entries[ip]))
                  /\ granted' = IF t \in Panel /\ (ip \in perm["panel"] \/ ip \in Live("panel"))
                                THEN granted \cup {ip} ELSE granted
    /\ Continue(t)
    /\ UNCHANGED <<port, files, prot, direct, memory, lock, up, clock, ops, reqs, dirty, promised, alone>>

-----------------------------------------------------------------------------
(* Start and end of the panel *)

\* The process is killed: a store call may have reached the kernel and not the file.
Kill ==
    /\ up /\ fails < MaxFails /\ Few /\ fails' = fails + 1
    /\ up' = FALSE
    /\ \/ UNCHANGED kernel
       \/ \E t \in Panel : th[t].pc = "ban" /\ ~InGrace(th[t].ip, th[t].now) /\ FirewallAdd(th[t].ip, BanTime, FALSE)
       \/ \E t \in Panel : th[t].pc = "release" /\ lock["panel"] = NoThread /\ FirewallRemove(th[t].ip)
    /\ th' = [t \in Threads |-> IF t \in Panel THEN Idle ELSE th[t]]
    /\ lock' = [lock EXCEPT !["panel"] = NoThread]
    /\ dirty' = TRUE /\ alone' = FALSE
    /\ UNCHANGED <<entries, port, files, prot, direct, memory, clock, ops, reqs, granted, promised>>

\* systemctl restart after a command line call: requests that run are finished.
Restart ==
    /\ th[Cli].pc = "restart" /\ \A t \in Panel : th[t].pc = "idle"
    /\ up' = FALSE
    /\ Done(Cli)
    /\ UNCHANGED <<entries, kernel, port, files, prot, direct, memory, lock, bounds, history>>

\* The machine is restarted: sets and rules are gone.
Reboot ==
    /\ fails < MaxFails /\ Few /\ fails' = fails + 1
    /\ up' = FALSE
    /\ kset' = [ip \in IPs |-> 0] /\ rule' = {} /\ legacy' = {}
    /\ port' = [on |-> FALSE, allow |-> {}]
    /\ th' = [t \in Threads |-> Idle] /\ lock' = [p \in Procs |-> NoThread]
    /\ alone' = FALSE
    /\ UNCHANGED <<entries, files, prot, direct, memory, clock, ops, reqs, dirty, granted, promised>>

\* _release_whitelist_from_firewall: networks are passed over.
Freed(left) == {ip \in IPs : ip \in env \/ left[ip] > 0}

\* init_app: the files are loaded, the kernel is brought in line with the store, the
\* single addresses of the whitelist are released, the port rules follow.  Only
\* families that the sync reached are known to be exact.
Start(pub) ==
    /\ ~up /\ up' = TRUE
    /\ direct' = pub
    /\ LET left == [ip \in IPs |-> IF tfile[ip] > clock THEN tfile[ip] ELSE 0]
           free == Freed(left)
       IN \E good \in SUBSET Families :
          /\ Fails(good # Families)
          /\ perm' = [perm EXCEPT !["panel"] = env]
          /\ temp' = [temp EXCEPT !["panel"] = left] /\ tfile' = left
          /\ entries' = [ip \in IPs |-> IF ip \in free THEN Released(entries[ip]) ELSE entries[ip]]
          /\ kset' = [ip \in IPs |-> IF ip \in free THEN 0 ELSE SyncFromStore(good)[ip]]
          /\ rule' = rule \cup good
          /\ legacy' = LegacyLeft(good) \ free
          /\ dirty' = (dirty /\ good # Families)
          /\ granted' = free
    /\ \E t \in Panel : Then(t, "psync", Net, "idle")
    /\ UNCHANGED <<port, env, prot, lock, clock, ops, reqs, promised, alone>>

\* The kernel drops members whose time is over by itself.
Tick ==
    /\ clock < MaxTime /\ clock' = clock + 1
    /\ UNCHANGED <<entries, kernel, port, files, prot, direct, memory, lock, th, up, ops, reqs, fails, history>>

-----------------------------------------------------------------------------

Init ==
    /\ entries = [ip \in IPs |-> [NoRecord EXCEPT !.strikes = StrikesForYear - 1]]
    /\ kset = [ip \in IPs |-> 0] /\ rule = {} /\ legacy = V6
    /\ port = [on |-> FALSE, allow |-> {}]
    /\ env = {Office}
    /\ tfile = [ip \in IPs |-> 0]
    /\ prot = [scan |-> FALSE, dwell |-> TRUE, port |-> FALSE]
    /\ direct = TRUE
    /\ perm = [p \in Procs |-> {}] /\ temp = [p \in Procs |-> tfile]
    /\ lock = [p \in Procs |-> NoThread]
    /\ th = [t \in Threads |-> Idle]
    /\ up = FALSE
    /\ clock = 1 /\ ops = 0 /\ reqs = 0 /\ fails = 0
    /\ dirty = TRUE /\ granted = {} /\ promised = [ip \in IPs |-> 0] /\ alone = TRUE

\* The commands of ip_whitelist_cli.py, which the settings page offers too.
Whitelisting(t) ==
    \/ \E e \in IPs \cup {Net} : AddIp(t, e)
    \/ \E e \in Entries : RemoveIpAny(t, e)
    \/ \E ip \in IPs : AddTemporaryIp(t, ip)

\* The other actions of handle_security_settings.
Administration(t) ==
    \/ \E ip \in IPs : Unban(t, ip)
    \/ \E S \in {{}, IPs, {Office}} : ReplaceWhitelist(t, S)
    \/ \E on \in BOOLEAN : SetProtection(t, [scan |-> on, dwell |-> ~on, port |-> on])
    \/ ClearBans(t)
    \/ ViewSettings(t)

Serve(t) == PortRead(t) \/ PortApply(t) \/ Watch(t) \/ CheckAgain(t) \/ Ban(t) \/ Release(t)

Next ==
    \/ \E t \in Threads : Whitelisting(t) \/ Administration(t) \/ Serve(t)
    \/ \E t \in Panel, ip \in IPs, page \in BOOLEAN : Request(t, ip, page)
    \/ Kill \/ Restart \/ Reboot \/ Tick
    \/ \E pub \in BOOLEAN : Start(pub)

Spec == Init /\ [][Next]_vars

-----------------------------------------------------------------------------
(* Properties *)

\* Every address that the kernel drops has a ban in scanner_blocks.json, so that the
\* settings page lists it and unban_scanner_ip can end it - except after a death of the
\* process or a failed removal, until a start has brought both families in line again.
NoOrphanBan == ~dirty => \A ip \in IPs : Dropped(ip) => entries[ip].ban > 0

\* An address that add_ip, add_temporary_ip or a start has put through release_firewall_only
\* is never banned while its entry lasts, whatever requests were being counted at that time.
WhitelistReleased ==
    \A ip \in granted : up /\ (ip \in perm["panel"] \/ ip \in Live("panel")) => ~Dropped(ip) /\ entries[ip].ban <= clock

\* After a successful unban the address stays free for the pause that the panel promises,
\* against counters, visits recorded before the unban, and restarts.
GraceKept == \A ip \in IPs : clock < promised[ip] => entries[ip].ban <= clock /\ ~Dropped(ip)

\* When nobody is at work and updates of the port rules have not overlapped, the restricted
\* port is open to every entry of .env: nobody whom the administrator entered is locked out.
PortOpenToWhitelist ==
    (up /\ alone /\ port.on /\ \A t \in Threads : th[t].pc = "idle") => env \subseteq port.allow

\* Outside a call of the command line tool and its restart, the panel decides by what .env
\* and temporary_whitelist.json say, although it never reads them again after its start.
CopiesAgree ==
    (up /\ th[Cli].pc = "idle") => perm["panel"] = env /\ Live("panel") = {ip \in IPs : tfile[ip] > clock}
=============================================================================
