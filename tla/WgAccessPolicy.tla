--------------------------- MODULE WgAccessPolicy ---------------------------
(***************************************************************************)
(* WgAccessPolicyService: the policy rows of the WireGuard/AmneziaWG       *)
(* clients, the peers in the kernel, and what brings the second in line    *)
(* with the first: the requests of the panel, the snapshot of the traffic, *)
(* the periodic wg_awg_policy_sync.py, and client.sh, which edits the      *)
(* server configuration and loads it with `wg syncconf`.                   *)
(*                                                                         *)
(* A process works through a queue of jobs.  An unblock or a block is a    *)
(* subprocess that first collects the keys and then runs `wg`.  The two    *)
(* interfaces, antizapret and vpn, are one; a key is its generation.       *)
(***************************************************************************)
EXTENDS Integers, Sequences, FiniteSets, SequencesExt

CONSTANTS
    Clients,    \* client names
    Procs,      \* panel threads and cron jobs that may run at the same time
    MaxKeys,    \* bound: keys that client.sh generates
    MaxOps,     \* bound: requests, runs of client.sh, events
    MaxFails    \* bound: failed commands and processes

ASSUME ConstantsAssumption ==
    IsFiniteSet(Clients) /\ MaxKeys \in Nat /\ MaxOps \in Nat /\ MaxFails \in Nat

VARIABLES
    rows,       \* wg_access_policy, committed
    conf,       \* the client's key in /etc/wireguard/*.conf, 0: none
    cache,      \* the client's key in wireguard_peer_cache, 0: none
    peers,      \* peers of the interface: pairs of client and key
    jobs,       \* what each process has still to do
    got,        \* the keys that its subprocess has collected, or NoKeys
    keys, ops, fails,
    drift,      \* history: has the runtime met every change since a whole sync?
    overlap     \* history: work began beside other work: never, and then not, since
                \* a sync that was to run alone

bounds == <<keys, ops, fails>>
vars == <<rows, conf, cache, peers, jobs, got, bounds, drift, overlap>>

NoRow == [known |-> FALSE, temp |-> "none", perm |-> FALSE, reason |-> "none",
          limit |-> "none", exp |-> "none"]
NoKeys == [c \in Clients |-> -1]

J(op, c) == [op |-> op, c |-> c]
JobsFor(op, S) == LET s == SetToSeq(S) IN [i \in DOMAIN s |-> J(op, s[i])]

Exceeded(r) == r.limit = "over"

\* _resolve_effective_state
IsBlocked(r) == r.exp = "expired" \/ r.perm \/ r.temp = "live" \/ Exceeded(r)

Reason(r) == IF r.exp = "expired" THEN "expired"
             ELSE IF r.perm THEN "manual_permanent"
             ELSE IF r.temp = "live" THEN "manual_temp"
             ELSE IF Exceeded(r) THEN "traffic_limit" ELSE "none"

\* _cleanup_expired_temp_block and the reason that reconcile_* stores.
Cleaned(r) ==
    LET s == IF r.temp = "over" THEN [r EXCEPT !.temp = "none"] ELSE r IN
    IF r.known THEN [s EXCEPT !.reason = Reason(s)] ELSE r

Blocked == {c \in Clients : rows[c].known /\ IsBlocked(rows[c])}
Unblocked == {c \in Clients : rows[c].known /\ ~IsBlocked(rows[c])}

\* What `wg syncconf` loads.
PeersOf(cf) == {<<c, cf[c]>> : c \in {d \in Clients : cf[d] # 0}}

Idle(p) == jobs[p] = <<>>
Beside(p) == \E q \in Procs \ {p} : ~Idle(q)
Starts(p, q) == Idle(p) /\ jobs' = [jobs EXCEPT ![p] = q]
Overlaps(p) == overlap' = IF Beside(p) THEN "yes" ELSE overlap
Head1(p, op) == ~Idle(p) /\ Head(jobs[p]).op = op
Continues(p, q) == jobs' = [jobs EXCEPT ![p] = q \o Tail(@)]

\* Something happened that the next policy sync has to bring to the runtime.
Disturbs == drift' = "yes"

\* The last job of a sync that began with a true cache.
Settles(p, q) == drift' = IF drift = "healing" /\ q \o Tail(jobs[p]) = <<>> THEN "no" ELSE drift

-----------------------------------------------------------------------------
(* Requests *)

\* The five setters and clear_block, up to the commit.
Posted(r, op) ==
    LET k == [r EXCEPT !.known = TRUE] IN
    CASE op = "expiry" -> [k EXCEPT !.exp = "valid"]
      [] op = "temp"   -> [k EXCEPT !.temp = "live", !.perm = FALSE, !.reason = "manual_temp"]
      [] op = "perm"   -> [k EXCEPT !.temp = "none", !.perm = TRUE, !.reason = "manual_permanent"]
      [] op = "clear"  -> [k EXCEPT !.temp = "none", !.perm = FALSE,
                              !.reason = IF @ \in {"manual_temp", "manual_permanent"} THEN "none" ELSE @]
      [] op = "limit_under" -> [k EXCEPT !.limit = "under"]
      [] op = "limit_over"  -> [k EXCEPT !.limit = "over"]
      [] op = "unlimit"     -> [k EXCEPT !.limit = "none"]

PostOps == {"expiry", "temp", "perm", "clear", "limit_under", "limit_over", "unlimit"}

\* The service method reconciles the client, then the route does it once more.
\* An expired client, or one over its limit, cannot be unblocked.
Post(p, c, op) ==
    /\ ops < MaxOps /\ ops' = ops + 1
    /\ op = "clear" => rows[c].exp # "expired" /\ ~Exceeded(rows[c])
    /\ rows' = [rows EXCEPT ![c] = Posted(@, op)]
    /\ Starts(p, <<J("reconcile", c), J("reconcile", c)>>) /\ Overlaps(p)
    /\ UNCHANGED <<conf, cache, peers, got, keys, fails, drift>>

\* addWireGuard, then the forced sync of the cache and the expiry of a new client
\* (a run from the terminal does neither).  The script loads the configuration.
CreateClient(p, c, tail) ==
    /\ ops < MaxOps /\ ops' = ops + 1
    /\ conf[c] = 0 /\ keys < MaxKeys /\ keys' = keys + 1
    /\ conf' = [conf EXCEPT ![c] = keys']
    /\ peers' = PeersOf(conf')
    /\ Starts(p, tail) /\ Overlaps(p) /\ Disturbs
    /\ UNCHANGED <<rows, cache, got, fails>>

\* deleteWireGuard: the policy row stays.
DeleteClient(p, c, tail) ==
    /\ ops < MaxOps /\ ops' = ops + 1
    /\ conf[c] # 0
    /\ conf' = [conf EXCEPT ![c] = 0]
    /\ peers' = PeersOf(conf')
    /\ Starts(p, tail) /\ Overlaps(p) /\ Disturbs
    /\ UNCHANGED <<rows, cache, got, keys, fails>>

\* set_expiry_days of a client that the panel has just created.
SetExpiry(p) ==
    LET c == Head(jobs[p]).c IN
    /\ Head1(p, "set_expiry")
    /\ rows' = [rows EXCEPT ![c] = Posted(@, "expiry")]
    /\ Continues(p, <<J("reconcile", c)>>)
    /\ UNCHANGED <<conf, cache, peers, got, bounds, drift, overlap>>

\* sync_wireguard_peer_cache_from_configs, forced by the panel ...
CacheForced(p) ==
    /\ Head1(p, "cache")
    /\ cache' = conf
    /\ Continues(p, <<>>)
    /\ UNCHANGED <<rows, conf, peers, got, bounds, drift, overlap>>

\* ... and by the collector and traffic_sync.py from time to time.
CacheRefresh ==
    /\ cache' = conf
    /\ UNCHANGED <<rows, conf, peers, jobs, got, bounds, drift, overlap>>

\* A page load cleans the rows; the sync that it triggers is a process of its own.
PageLoad ==
    /\ rows' = [c \in Clients |-> Cleaned(rows[c])]
    /\ UNCHANGED <<conf, cache, peers, jobs, got, bounds, drift, overlap>>

\* _reconcile_traffic_limit_policies, after a snapshot of the traffic.
TrafficPersisted(p) ==
    /\ \E c \in Clients : rows[c].limit # "none"
    /\ Starts(p, JobsFor("reconcile", {c \in Clients : rows[c].limit # "none"})) /\ Overlaps(p)
    /\ UNCHANGED <<rows, conf, cache, peers, got, bounds, drift>>

TrueCache == \A c \in Clients : cache[c] \in {0, conf[c]}

\* reconcile_all with apply_runtime: whom to unblock and whom to block is decided here.
PolicySync(p) ==
    /\ \E c \in Clients : rows[c].known
    /\ rows' = [c \in Clients |-> Cleaned(rows[c])]
    /\ Starts(p, JobsFor("unblock", Unblocked) \o JobsFor("block", Blocked))
    /\ drift' = IF drift = "yes" /\ TrueCache THEN "healing" ELSE drift
    /\ overlap' = IF Beside(p) THEN "yes" ELSE IF overlap = "yes" /\ TrueCache THEN "healed" ELSE overlap
    /\ UNCHANGED <<conf, cache, peers, got, bounds>>

-----------------------------------------------------------------------------
(* Jobs *)

\* Mutant: the other blocks are not applied again after an unblock.
ReconcileAlone(p) ==
    LET c == Head(jobs[p]).c IN
    /\ Head1(p, "reconcile")
    /\ rows' = [rows EXCEPT ![c] = Cleaned(@)]
    /\ Continues(p, <<J(IF c \in Blocked THEN "block" ELSE "unblock", c)>>)
    /\ UNCHANGED <<conf, cache, peers, got, bounds, drift, overlap>>

\* reconcile_client_policy
Reconcile(p) ==
    LET c == Head(jobs[p]).c IN
    /\ Head1(p, "reconcile")
    /\ rows' = [rows EXCEPT ![c] = Cleaned(@)]
    /\ Continues(p, CASE c \in Blocked   -> <<J("block", c)>>
                      [] c \in Unblocked -> <<J("unblock", c), J("reapply", c)>>
                      [] OTHER           -> <<>>)
    /\ UNCHANGED <<conf, cache, peers, got, bounds, drift, overlap>>

\* _reapply_all_blocked_runtime
Reapply(p) ==
    /\ Head1(p, "reapply")
    /\ Continues(p, JobsFor("block", Blocked))
    /\ UNCHANGED <<rows, conf, cache, peers, got, bounds, drift, overlap>>

\* The subprocess has started and reads the configuration, for a block the cache first.
Collect(p) ==
    LET c == Head(jobs[p]).c IN
    /\ Head1(p, "unblock") \/ Head1(p, "block")
    /\ got[p] = NoKeys
    /\ got' = [got EXCEPT ![p] =
                  IF Head(jobs[p]).op = "block" /\ cache[c] # 0 THEN [conf EXCEPT ![c] = cache[c]] ELSE conf]
    /\ UNCHANGED <<rows, conf, cache, peers, jobs, bounds, drift, overlap>>

Ends(p) ==
    /\ got' = [got EXCEPT ![p] = NoKeys]
    /\ Continues(p, <<>>) /\ Settles(p, <<>>)
    /\ UNCHANGED <<rows, conf, cache, bounds, overlap>>

\* unblock_client_runtime: the client's peer is set again; without an entry in the
\* configuration the whole interface is loaded.
Unblock(p) ==
    LET c == Head(jobs[p]).c IN
    /\ Head1(p, "unblock") /\ got[p] # NoKeys
    /\ peers' = IF got[p][c] # 0 THEN peers \cup {<<c, got[p][c]>>} ELSE PeersOf(got[p])
    /\ Ends(p)

\* Mutant: a client that is in the configuration keeps its peer.
BlockNothing(p) ==
    /\ Head1(p, "block") /\ got[p] # NoKeys
    /\ peers' = peers
    /\ Ends(p)

\* block_client_runtime
Block(p) ==
    LET c == Head(jobs[p]).c IN
    /\ Head1(p, "block") /\ got[p] # NoKeys
    /\ peers' = peers \ {<<c, got[p][c]>>}
    /\ Ends(p)

\* `wg` returns an error, which is only counted: the next job follows.
CommandFails(p) ==
    /\ got[p] # NoKeys /\ fails < MaxFails
    /\ fails' = fails + 1
    /\ got' = [got EXCEPT ![p] = NoKeys]
    /\ Continues(p, <<>>) /\ Disturbs
    /\ UNCHANGED <<rows, conf, cache, peers, keys, ops, overlap>>

\* A timeout, an exception or the death of the process: nothing follows.
ProcessFails(p) ==
    /\ ~Idle(p) /\ fails < MaxFails
    /\ fails' = fails + 1
    /\ got' = [got EXCEPT ![p] = NoKeys]
    /\ jobs' = [jobs EXCEPT ![p] = <<>>] /\ Disturbs
    /\ UNCHANGED <<rows, conf, cache, peers, keys, ops, overlap>>

-----------------------------------------------------------------------------
(* The environment *)

\* expires_at or block_until passes, or the traffic crosses the limit, up or down.
TimePasses(c) ==
    /\ ops < MaxOps /\ ops' = ops + 1
    /\ \/ rows[c].exp = "valid" /\ rows' = [rows EXCEPT ![c].exp = "expired"]
       \/ rows[c].temp = "live" /\ rows' = [rows EXCEPT ![c].temp = "over"]
       \/ rows[c].limit = "under" /\ rows' = [rows EXCEPT ![c].limit = "over"]
       \/ rows[c].limit = "over" /\ rows' = [rows EXCEPT ![c].limit = "under"]
    /\ Disturbs
    /\ UNCHANGED <<conf, cache, peers, jobs, got, keys, fails, overlap>>

\* wg-quick brings the interface up with what the configuration says.
TunnelRestart ==
    /\ ops < MaxOps /\ ops' = ops + 1
    /\ peers' = PeersOf(conf) /\ Disturbs
    /\ UNCHANGED <<rows, conf, cache, jobs, got, keys, fails, overlap>>

Init ==
    /\ rows = [c \in Clients |-> NoRow]
    /\ conf \in {[c \in Clients |-> IF c \in S THEN 1 ELSE 0] : S \in SUBSET Clients}
    /\ cache = conf /\ peers = PeersOf(conf)
    /\ jobs = [p \in Procs |-> <<>>] /\ got = [p \in Procs |-> NoKeys]
    /\ keys = 1 /\ ops = 0 /\ fails = 0 /\ drift = "no" /\ overlap = "never"

Step(p) == \/ SetExpiry(p) \/ CacheForced(p) \/ Reconcile(p) \/ Reapply(p)
           \/ Collect(p) \/ Unblock(p) \/ Block(p)

Tails(c) == {<<>>, <<J("cache", c)>>}
NewTails(c) == Tails(c) \cup {<<J("cache", c), J("set_expiry", c)>>}

Next ==
    \/ \E p \in Procs : \/ Step(p) \/ TrafficPersisted(p) \/ PolicySync(p)
                        \/ CommandFails(p) \/ ProcessFails(p)
    \/ \E p \in Procs, c \in Clients :
          \/ \E op \in PostOps : Post(p, c, op)
          \/ \E q \in NewTails(c) : CreateClient(p, c, q)
          \/ \E q \in Tails(c) : DeleteClient(p, c, q)
    \/ \E c \in Clients : TimePasses(c)
    \/ CacheRefresh \/ PageLoad \/ TunnelRestart

Spec == Init /\ [][Next]_vars

\* Processes go on, cron runs the policy sync every two minutes, and the collector
\* refreshes the cache.
FairSpec == /\ Spec /\ WF_vars(CacheRefresh)
            /\ \A p \in Procs : WF_vars(Step(p)) /\ SF_vars(PolicySync(p))

-----------------------------------------------------------------------------
Quiet == \A p \in Procs : Idle(p)

\* The kernel admits exactly the clients that their policy admits.
Admits(c) == rows[c].known /\ conf[c] # 0 => (<<c, conf[c]>> \in peers <=> ~IsBlocked(rows[c]))

\* Whatever sequence of requests follows a sync, as long as they do not overlap, at
\* its end every blocked client is down and every other client up, also when a
\* request about one client had to reload the whole interface; and no peer outlives
\* its entry in the configuration: a client that was deleted, or deleted and created
\* anew, is never let in with its old key.
PolicyEnforced ==
    /\ Quiet /\ drift = "no" /\ overlap # "yes" => \A c \in Clients : Admits(c)
    /\ Quiet /\ overlap = "never" => \A pr \in peers : pr[2] = conf[pr[1]]

\* Once requests and failures end, the periodic sync leaves the peers as the
\* policies say, for good.
Converges == <>[](Quiet => \A c \in Clients : Admits(c))

=============================================================================
