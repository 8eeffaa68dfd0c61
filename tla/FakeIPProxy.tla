---------------------------- MODULE FakeIPProxy ----------------------------
(***************************************************************************)
(* The fake-IP DNS proxy (setup/root/antizapret/proxy.py) with what it     *)
(* shares with the host: the DNAT rules of the two MAPPING chains, which   *)
(* survive the process, and the cache of the Knot resolver in front of it. *)
(*                                                                         *)
(* Threads of the DNS server run resolve(); one daemon thread runs the     *)
(* cleanup worker.  Both hold self.lock around their critical sections.    *)
(* The process may die at any point (kill, os._exit) and is started again  *)
(* by systemd through up.sh.                                               *)
(*                                                                         *)
(* time.time() values are kept as ages, "now minus the stored time", which *)
(* keeps the state finite: idle[r] is the age of last_access (no further   *)
(* than one past cleanup_expiry), req[t].age that of current_time.         *)
(***************************************************************************)
EXTENDS FakeIPPool, FiniteSets

CONSTANTS
    Thread,         \* threads of the UDP and TCP servers
    Real,           \* real addresses upstream answers with
    FamilyOf,       \* [Real -> {4, 6}]: ip_address(real_ip).version
    NetChoices,     \* [{4, 6} -> set of networks] the setup file may name
    UpstreamTtl,    \* TTLs upstream answers with
    MinTtl, MaxTtl, \* --min-ttl, --max-ttl
    Expiry,         \* --cleanup-expiry
    MaxDelay        \* bound: time from time.time() in resolve to its reply

Family == {4, 6}
Network == [base : Nat, size : Nat]

ASSUME ConstantsAssumption ==
    /\ FamilyOf \in [Real -> Family]
    /\ NetChoices \in [Family -> SUBSET Network]
    /\ UpstreamTtl \subseteq Nat
    /\ MinTtl \in Nat /\ MaxTtl \in Nat /\ MinTtl <= MaxTtl
    /\ Expiry \in Nat /\ MaxDelay \in Nat

\* An answer outlives its mapping unless the expiry covers the longest TTL and
\* twice the reply delay; the defaults are 7200 >= 3600 + 2 * delay.
ASSUME ExpiryAssumption == Expiry >= MaxTtl + 2 * MaxDelay

VARIABLES
    proc,       \* "down", "up", or "failing": the worker is past its except
    families,   \* keys of self.pools: {4}, or {4, 6}
    nets,       \* the network of each pool, from the setup file
    pools,      \* self.pools
    fake_ip,    \* [Real -> address or None]: self.ip_map[r]["fake_ip"]
    idle,       \* [Real -> age of self.ip_map[r]["last_access"]]
    req,        \* the resolve() call each thread runs
    sweep,      \* cleanup_fake_ips: the expired reals and the families left
    flushing,   \* families flush_mappings has still to flush
    chain,      \* DNAT rules <<fake, real>> of each MAPPING chain
    cache,      \* Knot: the TTL left of each answered pair
    stale,      \* the setup file changed since the chains were last loaded
    raced       \* a thread appended a rule or replied while "failing"

memory == <<pools, fake_ip, idle, req, sweep, flushing>>
host == <<chain, cache, raced>>
config == <<families, nets, stale>>
vars == <<proc, memory, host, config>>

Idle == [pc |-> "idle", todo |-> {}, got |-> {}, age |-> 0, ttl |-> 0,
         cur |-> {}, fake |-> None]
NoSweep == [doomed |-> {}, rest |-> {}]
RealsOf(f) == {r \in Real : FamilyOf[r] = f}
Address == UNION {Hosts(n) : n \in UNION {NetChoices[f] : f \in Family}}
NoAnswers == [p \in Address \X Real |-> 0]

First(F) == CHOOSE f \in F : \A g \in F : f <= g

-----------------------------------------------------------------------------
(* resolve() and get_fake_ip() *)

\* with self.lock: nobody is inside a critical section.
LockFree ==
    /\ sweep = NoSweep
    /\ \A t \in Thread : req[t].pc \notin {"install", "record"}

Clamp(ttl) == IF ttl < MinTtl THEN MinTtl ELSE IF ttl > MaxTtl THEN MaxTtl ELSE ttl

\* Upstream's answer arrived: resolve takes the time and starts on its records.
\* An error, another type, or AAAA without a v6 pool changes no state.
Upstream(t) ==
    /\ proc # "down" /\ req[t].pc = "idle"
    /\ \E f \in families : \E S \in SUBSET RealsOf(f) : \E ttl \in UpstreamTtl :
         /\ S # {}
         /\ req' = [req EXCEPT ![t] = [Idle EXCEPT !.pc = "loop", !.todo = S, !.ttl = Clamp(ttl)]]
    /\ UNCHANGED <<proc, pools, fake_ip, idle, sweep, flushing, host, config>>

\* The record's address is in the table: its last_access becomes the time
\* resolve captured, which may be older than the one it replaces.
Hit(t, r) ==
    /\ req[t].pc = "loop" /\ r \in req[t].todo
    /\ LockFree /\ fake_ip[r] # None
    /\ idle' = [idle EXCEPT ![r] = req[t].age]
    /\ req' = [req EXCEPT ![t].todo = @ \ {r}, ![t].got = @ \cup {<<fake_ip[r], r>>}]
    /\ UNCHANGED <<proc, pools, fake_ip, sweep, flushing, host, config>>

\* A new address: the lock stays held until the rule is in place.
Allocate(t, r) ==
    LET f == FamilyOf[r] IN
    /\ req[t].pc = "loop" /\ r \in req[t].todo
    /\ LockFree /\ fake_ip[r] = None
    /\ \E a \in Allocations(pools[f], nets[f]) :
         /\ pools' = [pools EXCEPT ![f] = Allocated(@, nets[f], a)]
         /\ req' = [req EXCEPT ![t].pc = "install", ![t].cur = {r}, ![t].fake = a]
    /\ UNCHANGED <<proc, fake_ip, idle, sweep, flushing, host, config>>

\* "No fake IP left": the whole reply becomes SERVFAIL.
Exhausted(t, r) ==
    LET f == FamilyOf[r] IN
    /\ req[t].pc = "loop" /\ r \in req[t].todo
    /\ LockFree /\ fake_ip[r] = None
    /\ Allocations(pools[f], nets[f]) = {}
    /\ pools' = [pools EXCEPT ![f] = Allocated(@, nets[f], None)]
    /\ req' = [req EXCEPT ![t] = Idle]
    /\ UNCHANGED <<proc, fake_ip, idle, sweep, flushing, host, config>>

\* iptables -A succeeds.
InstallRule(t) ==
    /\ req[t].pc = "install"
    /\ \E r \in req[t].cur :
         chain' = [chain EXCEPT ![FamilyOf[r]] = @ \cup {<<req[t].fake, r>>}]
    /\ req' = [req EXCEPT ![t].pc = "record"]
    /\ raced' = (raced \/ proc = "failing")
    /\ UNCHANGED <<proc, pools, fake_ip, idle, sweep, flushing, cache, config>>

\* iptables -A fails: the address goes back to the pool, the reply is SERVFAIL.
InstallFailed(t) ==
    /\ req[t].pc = "install"
    /\ \E r \in req[t].cur :
         pools' = [pools EXCEPT ![FamilyOf[r]] = Released(@, {req[t].fake})]
    /\ req' = [req EXCEPT ![t] = Idle]
    /\ UNCHANGED <<proc, fake_ip, idle, sweep, flushing, host, config>>

\* The table entry, and the end of the critical section.
RecordMapping(t) ==
    /\ req[t].pc = "record"
    /\ \E r \in req[t].cur :
         /\ fake_ip' = [fake_ip EXCEPT ![r] = req[t].fake]
         /\ idle' = [idle EXCEPT ![r] = req[t].age]
         /\ req' = [req EXCEPT ![t].pc = "loop", ![t].todo = @ \ {r},
                ![t].got = @ \cup {<<req[t].fake, r>>}, ![t].cur = {}, ![t].fake = None]
    /\ UNCHANGED <<proc, pools, sweep, flushing, host, config>>

\* Every record is rewritten: the reply leaves, and Knot caches it.
Reply(t) ==
    /\ req[t].pc = "loop" /\ req[t].todo = {}
    /\ cache' = [p \in DOMAIN cache |->
                    IF p \in req[t].got /\ cache[p] < req[t].ttl THEN req[t].ttl ELSE cache[p]]
    /\ req' = [req EXCEPT ![t] = Idle]
    /\ raced' = (raced \/ proc = "failing")
    /\ UNCHANGED <<proc, pools, fake_ip, idle, sweep, flushing, chain, config>>

-----------------------------------------------------------------------------
(* cleanup_fake_ips() and its worker *)

Expired(r) == fake_ip[r] # None /\ idle[r] > Expiry

\* Mutant: the IPv6 entries are never collected.
CleanupStartV4 ==
    LET D == {r \in Real : Expired(r) /\ FamilyOf[r] = 4} IN
    /\ proc = "up" /\ LockFree /\ D # {}
    /\ sweep' = [doomed |-> D, rest |-> {4}]
    /\ UNCHANGED <<proc, pools, fake_ip, idle, req, flushing, host, config>>

\* Under the lock, the expired entries are collected (nothing happens when
\* there are none).
CleanupStart ==
    LET D == {r \in Real : Expired(r)} IN
    /\ proc = "up" /\ LockFree /\ D # {}
    /\ sweep' = [doomed |-> D, rest |-> {FamilyOf[r] : r \in D}]
    /\ UNCHANGED <<proc, pools, fake_ip, idle, req, flushing, host, config>>

\* Mutant: the first family's success removes the entries of both.
CleanupFamilyBoth ==
    LET f == First(sweep.rest)
        rules == {<<fake_ip[r], r>> : r \in {s \in sweep.doomed : FamilyOf[s] = f}}
    IN
    /\ sweep.rest # {}
    /\ chain' = [chain EXCEPT ![f] = @ \ rules]
    /\ pools' = [g \in Family |->
                    Released(pools[g], {fake_ip[r] : r \in {s \in sweep.doomed : FamilyOf[s] = g}})]
    /\ fake_ip' = [r \in Real |-> IF r \in sweep.doomed THEN None ELSE fake_ip[r]]
    /\ sweep' = NoSweep
    /\ UNCHANGED <<proc, idle, req, flushing, cache, raced, config>>

\* One iptables-restore deletes a family's rules; it is all or nothing and
\* fails when a rule is not there.  Then the entries leave the memory, and
\* after the last family the lock is released.
CleanupFamily ==
    LET f == First(sweep.rest)
        D == {r \in sweep.doomed : FamilyOf[r] = f}
        rules == {<<fake_ip[r], r>> : r \in D}
        rest == sweep.rest \ {f}
    IN
    /\ sweep.rest # {}
    /\ rules \subseteq chain[f]
    /\ chain' = [chain EXCEPT ![f] = @ \ rules]
    /\ pools' = [pools EXCEPT ![f] = Released(@, {fake_ip[r] : r \in D})]
    /\ fake_ip' = [r \in Real |-> IF r \in D THEN None ELSE fake_ip[r]]
    /\ idle' = [r \in Real |-> IF r \in D THEN 0 ELSE idle[r]]
    /\ sweep' = IF rest = {} THEN NoSweep ELSE [sweep EXCEPT !.rest = rest]
    /\ UNCHANGED <<proc, req, flushing, cache, raced, config>>

\* iptables-restore fails: the exception leaves the with block, so the lock is
\* free again, and the worker goes on to flush_mappings.
CleanupFails ==
    /\ sweep.rest # {}
    /\ proc' = "failing"
    /\ sweep' = NoSweep
    /\ flushing' = families
    /\ UNCHANGED <<pools, fake_ip, idle, req, host, config>>

\* flush_mappings in the worker, one family at a time, without the lock.
FlushFamily ==
    /\ proc = "failing" /\ flushing # {}
    /\ chain' = [chain EXCEPT ![First(flushing)] = {}]
    /\ flushing' = flushing \ {First(flushing)}
    /\ UNCHANGED <<proc, pools, fake_ip, idle, req, sweep, cache, raced, config>>

-----------------------------------------------------------------------------
(* The process and the host *)

NoPools == [f \in Family |-> NewPool]
NoEntries == [r \in Real |-> None]
ZeroAges == [r \in Real |-> 0]
NoRequests == [t \in Thread |-> Idle]

\* The memory is gone; the rules and the cache stay.
Die ==
    /\ proc' = "down"
    /\ pools' = NoPools /\ fake_ip' = NoEntries /\ idle' = ZeroAges
    /\ req' = NoRequests /\ sweep' = NoSweep /\ flushing' = {}
    /\ UNCHANGED <<host, config>>

\* os._exit(1) after flush_mappings, or after it raised.
Exit == proc = "failing" /\ Die

\* systemd stops the unit, or the process is killed.
Crash == proc # "down" /\ Die

\* up.sh: an empty IPv4 mapping chain makes it clear Knot's cache.
\* (Mutant: it never does.)
ClearsNever == FALSE
ClearsCache == chain[4] = {}
PreStart ==
    /\ cache' = IF ClearsCache THEN NoAnswers ELSE cache
    /\ raced' = (raced /\ ~ClearsCache)

OneToOne(C) == \A p, q \in C : p[1] = q[1] <=> p[2] = q[2]
Fakes(C) == {p[1] : p \in C}
Reals(C) == {p[2] : p \in C}

\* mapping_ip accepts every rule of the chains the process loads.
LoadOk == \A f \in families : OneToOne(chain[f]) /\ Fakes(chain[f]) \subseteq Hosts(nets[f])

FakeFor(C, r) == IF r \in Reals(C) THEN CHOOSE a \in Fakes(C) : <<a, r>> \in C ELSE None

\* up.sh, then __init__ with valid chains: the table is rebuilt from them with
\* a fresh last_access, and the threads start.
Start ==
    /\ proc = "down" /\ LoadOk
    /\ PreStart
    /\ proc' = "up"
    /\ pools' = [f \in Family |-> IF f \in families THEN Claimed(Fakes(chain[f])) ELSE NewPool]
    /\ fake_ip' = [r \in Real |->
                     IF FamilyOf[r] \in families THEN FakeFor(chain[FamilyOf[r]], r) ELSE None]
    /\ stale' = FALSE
    /\ UNCHANGED <<idle, req, sweep, flushing, chain, families, nets>>

\* Mutant: no flush before the exit.
StartInvalidKeeps ==
    /\ proc = "down" /\ ~LoadOk
    /\ PreStart
    /\ UNCHANGED <<proc, memory, config, chain>>

\* up.sh, then __init__ with a rule mapping_ip refuses: flush_mappings, which
\* may fail at either family, and os._exit(1).
StartInvalid ==
    /\ proc = "down" /\ ~LoadOk
    /\ PreStart
    /\ \E F \in {{}, {4}, families} :
         chain' = [f \in Family |-> IF f \in F THEN {} ELSE chain[f]]
    /\ UNCHANGED <<proc, memory, config>>

\* Another range, prefix or DISABLE_IPV6 in the setup file.
Reconfigure ==
    /\ proc = "down"
    /\ families' \in {{4}, {4, 6}}
    /\ nets' \in {n \in [Family -> UNION {NetChoices[f] : f \in Family}] :
                    \A f \in Family : n[f] \in NetChoices[f]}
    /\ stale' = TRUE
    /\ UNCHANGED <<proc, memory, host>>

\* flush_proxy_mappings of up.sh during an installation, IPv4 first.
CutoverFlush ==
    /\ proc = "down"
    /\ \E f \in Family : chain[f] # {}
    /\ \E F \in {{4}, Family} :
         chain' = [f \in Family |-> IF f \in F THEN {} ELSE chain[f]]
    /\ UNCHANGED <<proc, memory, cache, raced, config>>

Older(a) == IF a > Expiry THEN a ELSE a + 1

\* Time passes; a reply in the making is never older than MaxDelay.
Tick ==
    /\ \A t \in Thread : req[t].pc # "idle" => req[t].age < MaxDelay
    /\ idle' = [r \in Real |-> IF fake_ip[r] = None THEN 0 ELSE Older(idle[r])]
    /\ req' = [t \in Thread |->
                 IF req[t].pc = "idle" THEN req[t] ELSE [req[t] EXCEPT !.age = @ + 1]]
    /\ cache' = [p \in DOMAIN cache |-> IF cache[p] = 0 THEN 0 ELSE cache[p] - 1]
    /\ UNCHANGED <<proc, pools, fake_ip, sweep, flushing, chain, raced, config>>

-----------------------------------------------------------------------------
Init ==
    /\ proc = "down"
    /\ families \in {{4}, {4, 6}}
    /\ nets \in {n \in [Family -> UNION {NetChoices[f] : f \in Family}] :
                   \A f \in Family : n[f] \in NetChoices[f]}
    /\ pools = NoPools /\ fake_ip = NoEntries /\ idle = ZeroAges
    /\ req = NoRequests /\ sweep = NoSweep /\ flushing = {}
    /\ chain = [f \in Family |-> {}]
    /\ cache = NoAnswers
    /\ stale = FALSE
    /\ raced = FALSE

Resolve(t) ==
    \/ Upstream(t)
    \/ \E r \in Real : Hit(t, r) \/ Allocate(t, r) \/ Exhausted(t, r)
    \/ InstallRule(t) \/ InstallFailed(t) \/ RecordMapping(t)
    \/ Reply(t)

Cleanup == CleanupStart \/ CleanupFamily \/ CleanupFails \/ FlushFamily

Service == Exit \/ Crash \/ Start \/ StartInvalid \/ Reconfigure \/ CutoverFlush

Next == (\E t \in Thread : Resolve(t)) \/ Cleanup \/ Service \/ Tick

Spec == Init /\ [][Next]_vars

\* Every subprocess.run returns, so a thread inside its critical section leaves
\* it; the cleanup thread wakes up every cleanup_interval and eventually wins
\* the lock; systemd restarts the unit (Restart=on-failure), and iptables -F
\* does not fail for ever.  Nothing is assumed of clients, upstream, crashes,
\* the setup file or the clock.
Fairness ==
    /\ \A t \in Thread : WF_vars(InstallRule(t) \/ InstallFailed(t)) /\ WF_vars(RecordMapping(t))
    /\ SF_vars(CleanupStart) /\ WF_vars(CleanupFamily \/ CleanupFails)
    /\ WF_vars(Exit)
    /\ SF_vars(Start) /\ SF_vars(StartInvalid /\ LoadOk')

FairSpec == Spec /\ Fairness

-----------------------------------------------------------------------------
(* Properties *)

PoolType == [used : SUBSET Address, released : SUBSET Address, next_offset : Nat]
ReqType == [pc : {"idle", "loop", "install", "record"}, todo : SUBSET Real,
            got : SUBSET (Address \X Real), age : 0 .. MaxDelay, ttl : 0 .. MaxTtl,
            cur : SUBSET Real, fake : Address \cup {None}]

\* The types of the state.
TypeOK ==
    /\ proc \in {"down", "up", "failing"}
    /\ families \in {{4}, {4, 6}} /\ flushing \subseteq families
    /\ nets \in [Family -> Network]
    /\ \A f \in Family : nets[f] \in NetChoices[f]
    /\ pools \in [Family -> PoolType]
    /\ fake_ip \in [Real -> Address \cup {None}]
    /\ idle \in [Real -> 0 .. Expiry + 1]
    /\ req \in [Thread -> ReqType]
    /\ sweep \in [doomed : SUBSET Real, rest : SUBSET Family]
    /\ chain \in [Family -> SUBSET (Address \X Real)]
    /\ cache \in [Address \X Real -> 0 .. MaxTtl]
    /\ stale \in BOOLEAN /\ raced \in BOOLEAN

\* The fake address a thread holds between allocate() and the table entry.
InHand(f) == {req[t].fake : t \in {u \in Thread : \E r \in req[u].cur : FamilyOf[r] = f}}
Mapped(f) == {r \in Real : FamilyOf[r] = f /\ fake_ip[r] # None}
Entries(f) == {<<fake_ip[r], r>> : r \in Mapped(f)}
RuleInHand(f) ==
    {p \in Address \X Real : \E t \in Thread :
        req[t].pc = "record" /\ p[2] \in req[t].cur /\ FamilyOf[p[2]] = f /\ p[1] = req[t].fake}

\* The pool never offers an address twice and never loses one: an address is
\* used exactly when the table or a thread holds it, and every address the scan
\* has passed is either used or released (allocate, release, claim).
PoolExact ==
    proc # "down" => \A f \in families :
        LET p == pools[f] IN
        /\ p.used = Fakes(Entries(f)) \cup InHand(f)
        /\ p.used \cap p.released = {}
        /\ p.used \cup p.released \subseteq Hosts(nets[f])
        /\ \A a \in Hosts(nets[f]) : a < nets[f].base + p.next_offset => a \in p.used \cup p.released

\* Two real addresses never share a fake one and no real address has two, in
\* the chains as in the table, in every state: during an installation of a
\* rule, a cleanup that fails half-way, a flush, a crash and a restart.  The rules
\* a process leaves behind, however it died, are accepted by the next one unless
\* the setup file changed: "Invalid loaded fake IPs mappings" is never the result
\* of the proxy's own steps.
MappingOneToOne ==
    /\ \A f \in Family : OneToOne(chain[f]) /\ OneToOne(Entries(f))
    /\ ~stale => LoadOk

\* While the process is healthy the firewall and the table agree: every entry
\* has its rule and every rule its entry (but for the rule a thread has just
\* installed and is about to record).
FirewallMatchesTable ==
    proc = "up" => \A f \in families : chain[f] = Entries(f) \cup RuleInHand(f)

\* An answer that Knot may still serve is routed to the address it was given
\* for: neither the cleanup nor a reuse of the address overtakes its TTL, and
\* after a flush up.sh has cleared the cache before the proxy runs again.
CacheRouted ==
    proc = "up" /\ ~raced =>
        \A p \in DOMAIN cache : cache[p] > 0 => p \in chain[FamilyOf[p[2]]]

\* An entry nobody asks for is reclaimed: its address returns to the pool, or it
\* is used again, or the process restarts.
ExpiredReclaimed == \A r \in Real : Expired(r) ~> ~Expired(r)

\* After a failed cleanup, a crash, or chains it refuses to load, the proxy
\* serves again; refusing the chains does not repeat for ever.
ServiceRecovers == proc # "up" ~> proc = "up"
=============================================================================
