------------------------ MODULE OpenVpnAccessPolicy ------------------------
(***************************************************************************)
(* OpenVpnAccessPolicyService and OpenVPNBanlistService: the policy rows   *)
(* in the database, the file of banned clients that client-connect.sh      *)
(* reads, and the panel threads that bring the file in line with the rows. *)
(* A thread answers a POST (block, unblock, limit), a page load            *)
(* (reconcile_all) or the end of a traffic snapshot                        *)
(* (_reconcile_traffic_limit_policies).                                    *)
(*                                                                         *)
(* Time and traffic are what they decide: a temporary block is live or     *)
(* over, the consumption is under or over the limit.                       *)
(***************************************************************************)
EXTENDS Integers, FiniteSets

CONSTANTS
    Clients,    \* client names
    Procs,      \* threads that may serve a request at the same time
    MaxOld,     \* bound: clients that are banned when the panel starts
    MaxOps,     \* bound: POSTs, expiries, traffic changes
    MaxFails    \* bound: exceptions and process deaths

ASSUME ConstantsAssumption == MaxOld \in Nat /\ MaxOps \in Nat /\ MaxFails \in Nat

VARIABLES
    rows,       \* openvpn_access_policy, committed
    ban,        \* banned_clients file
    pc,         \* where each thread is
    chg,        \* traffic_limit_changed_clients of the thread's sync
    seen,       \* what its reconcile_all read from the file
    mem,        \* the rows its session loaded
    blocked,    \* blocked_clients it will write
    ops, fails,
    torn,       \* history: a sync was cut short and none has completed since
    overlap     \* history: a request began beside another, none has begun alone since

local == <<pc, chg, seen, mem, blocked>>
bounds == <<ops, fails>>
vars == <<rows, ban, local, bounds, torn, overlap>>

NoBlock == [temp |-> "none", perm |-> FALSE, reason |-> "none", limit |-> "none", by |-> FALSE]
Exceeded(r) == r.limit = "over"

\* Mutant: temporary blocks are forgotten.
IsBlockedNoTemp(r) == r.perm \/ Exceeded(r)

\* _resolve_effective_state
IsBlocked(r) == r.perm \/ r.temp = "live" \/ Exceeded(r)
Reason(r) == IF r.perm THEN "manual_permanent"
             ELSE IF r.temp = "live" THEN "manual_temp"
             ELSE IF Exceeded(r) THEN "traffic_limit" ELSE "none"

\* _cleanup_expired_temp_block
ExpireTemp(r) == IF r.temp = "over" THEN [r EXCEPT !.temp = "none", !.reason = "none"] ELSE r

\* Mutant: a changed or exceeded limit lifts any permanent block.
LiftPermanentAll(r, changed) == IF r.perm THEN [r EXCEPT !.perm = FALSE] ELSE r

\* _cleanup_traffic_limit_reconcile: an imported block gives way to the limit that
\* explains it, and a changed limit lifts a permanent block.
LiftPermanent(r, changed) ==
    IF r.perm /\ r.temp = "none" /\ (IF Exceeded(r) THEN ~r.by ELSE changed)
    THEN [r EXCEPT !.perm = FALSE] ELSE r

\* One row of the loop in _sync_banlist_from_policy.
Cleaned(r, changed) == LET s == LiftPermanent(ExpireTemp(r), changed) IN [s EXCEPT !.reason = Reason(s)]

\* The columns that the session changed since it loaded the row are written.
Merged(cur, loaded, new) ==
    [f \in DOMAIN cur |-> IF new[f] = loaded[f] THEN cur[f] ELSE new[f]]

Becomes(p, to) == pc' = [pc EXCEPT ![p] = to]
Idle == \A p \in Procs : pc[p] = "idle"
Starts(p, at) == pc[p] = "idle" /\ Becomes(p, at) /\ overlap' = ~Idle

-----------------------------------------------------------------------------
(* Requests *)

\* set_temp_block_days, set_permanent_block, clear_block, set_traffic_limit_bytes
\* and clear_traffic_limit, up to the commit.  clear_block refuses a client over
\* its limit.
Posted(r, op) ==
    CASE op = "temp"  -> [r EXCEPT !.temp = "live", !.perm = FALSE, !.reason = "manual_temp", !.by = TRUE]
      [] op = "perm"  -> [r EXCEPT !.temp = "none", !.perm = TRUE, !.reason = "manual_permanent", !.by = TRUE]
      [] op = "clear" -> [r EXCEPT !.temp = "none", !.perm = FALSE, !.reason = "none", !.by = TRUE]
      [] op = "limit_under" -> [r EXCEPT !.limit = "under", !.by = TRUE]
      [] op = "limit_over"  -> [r EXCEPT !.limit = "over", !.by = TRUE]
      [] op = "unlimit"     -> [r EXCEPT !.limit = "none", !.by = TRUE]

LimitOps == {"limit_under", "limit_over", "unlimit"}

Post(p, c, op) ==
    /\ ops < MaxOps
    /\ op = "clear" => ~Exceeded(rows[c])
    /\ rows' = [rows EXCEPT ![c] = Posted(@, op)]
    /\ chg' = [chg EXCEPT ![p] = IF op \in LimitOps THEN {c} ELSE {}]
    /\ Starts(p, "sync")
    /\ ops' = ops + 1
    /\ UNCHANGED <<ban, seen, mem, blocked, fails, torn>>

\* reconcile_all: the file is read ...
PageLoad(p) ==
    /\ seen' = [seen EXCEPT ![p] = ban]
    /\ chg' = [chg EXCEPT ![p] = {}]
    /\ Starts(p, "import")
    /\ UNCHANGED <<rows, ban, mem, blocked, bounds, torn>>

\* ... and an entry that no block of its row explains becomes a permanent block.
Imports(r) == /\ ~Exceeded(r) /\ r.reason # "traffic_limit" /\ r.limit = "none"
              /\ r.temp = "none" /\ ~r.perm

Import(p) ==
    /\ pc[p] = "import"
    /\ rows' = [c \in Clients |-> IF c \in seen[p] /\ Imports(rows[c])
                                  THEN [rows[c] EXCEPT !.perm = TRUE, !.reason = "manual_permanent"]
                                  ELSE rows[c]]
    /\ seen' = [seen EXCEPT ![p] = {}]
    /\ Becomes(p, "sync")
    /\ UNCHANGED <<ban, chg, mem, blocked, bounds, torn, overlap>>

\* _reconcile_traffic_limit_policies: one sync for each client with a limit.
TrafficPersisted(p) ==
    /\ \E c \in Clients : rows[c].limit # "none"
    /\ chg' = [chg EXCEPT ![p] = {}]
    /\ Starts(p, "sync")
    /\ UNCHANGED <<rows, ban, seen, mem, blocked, bounds, torn>>

-----------------------------------------------------------------------------
(* _sync_banlist_from_policy *)

SyncLoad(p) ==
    /\ pc[p] = "sync"
    /\ mem' = [mem EXCEPT ![p] = rows]
    /\ Becomes(p, "commit")
    /\ UNCHANGED <<rows, ban, chg, seen, blocked, bounds, torn, overlap>>

SyncCommit(p) ==
    LET new == [c \in Clients |-> Cleaned(mem[p][c], c \in chg[p])] IN
    /\ pc[p] = "commit"
    /\ rows' = [c \in Clients |-> Merged(rows[c], mem[p][c], new[c])]
    /\ blocked' = [blocked EXCEPT ![p] = {c \in Clients : IsBlocked(new[c])}]
    /\ mem' = [mem EXCEPT ![p] = [c \in Clients |-> NoBlock]]
    /\ chg' = [chg EXCEPT ![p] = {}]
    /\ Becomes(p, "open")
    /\ UNCHANGED <<ban, seen, bounds, torn, overlap>>

\* Mutant: the file is opened for update.
SyncTruncateNot(p) ==
    /\ pc[p] = "open"
    /\ Becomes(p, "write")
    /\ UNCHANGED <<rows, ban, chg, seen, mem, blocked, bounds, torn, overlap>>

\* open(..., "w") truncates the file.
SyncTruncate(p) ==
    /\ pc[p] = "open"
    /\ ban' = {}
    /\ Becomes(p, "write")
    /\ UNCHANGED <<rows, chg, seen, mem, blocked, bounds, torn, overlap>>

\* The new content from offset 0; when another thread wrote since the truncation,
\* the end of its content may stay behind.
SyncWrite(p) ==
    /\ pc[p] = "write"
    /\ \E rest \in SUBSET ban : ban' = blocked[p] \cup rest
    /\ blocked' = [blocked EXCEPT ![p] = {}]
    /\ torn' = FALSE
    /\ Becomes(p, "idle")
    /\ UNCHANGED <<rows, chg, seen, mem, bounds, overlap>>

\* An exception (a locked database, an unwritable file) or the death of the process.
Fail(p) ==
    /\ pc[p] # "idle" /\ fails < MaxFails
    /\ fails' = fails + 1 /\ torn' = TRUE
    /\ chg' = [chg EXCEPT ![p] = {}] /\ seen' = [seen EXCEPT ![p] = {}]
    /\ mem' = [mem EXCEPT ![p] = [c \in Clients |-> NoBlock]]
    /\ blocked' = [blocked EXCEPT ![p] = {}]
    /\ Becomes(p, "idle")
    /\ UNCHANGED <<rows, ban, ops, overlap>>

-----------------------------------------------------------------------------
(* The environment *)

\* block_until passes.
TempEnds(c) ==
    /\ ops < MaxOps /\ ops' = ops + 1
    /\ rows[c].temp = "live" /\ rows' = [rows EXCEPT ![c].temp = "over"]
    /\ UNCHANGED <<ban, local, fails, torn, overlap>>

\* More traffic is counted, or a period ends or the statistics are cleared.
TrafficChanges(c) ==
    /\ ops < MaxOps /\ ops' = ops + 1
    /\ \/ rows[c].limit = "under" /\ rows' = [rows EXCEPT ![c].limit = "over"]
       \/ rows[c].limit = "over" /\ rows' = [rows EXCEPT ![c].limit = "under"]
    /\ UNCHANGED <<ban, local, fails, torn, overlap>>

\* An upgraded panel may find banned clients that it has no row for, or a row of a
\* version that imported a client over its limit as permanently blocked.
Legacy == [NoBlock EXCEPT !.perm = TRUE, !.reason = "manual_permanent", !.limit = "over"]

Init ==
    /\ ban \in SUBSET Clients /\ Cardinality(ban) <= MaxOld
    /\ \E old \in SUBSET ban : rows = [c \in Clients |-> IF c \in old THEN Legacy ELSE NoBlock]
    /\ pc = [p \in Procs |-> "idle"]
    /\ chg = [p \in Procs |-> {}] /\ seen = [p \in Procs |-> {}] /\ blocked = [p \in Procs |-> {}]
    /\ mem = [p \in Procs |-> [c \in Clients |-> NoBlock]]
    /\ ops = 0 /\ fails = 0
    /\ torn = TRUE      \* the reconcile_all at the start may have failed
    /\ overlap = FALSE

Step(p) == Import(p) \/ SyncLoad(p) \/ SyncCommit(p) \/ SyncTruncate(p) \/ SyncWrite(p)

Next ==
    \/ \E p \in Procs : Step(p) \/ PageLoad(p) \/ TrafficPersisted(p) \/ Fail(p)
    \/ \E p \in Procs, c \in Clients, op \in {"temp", "perm", "clear"} \cup LimitOps : Post(p, c, op)
    \/ \E c \in Clients : TempEnds(c) \/ TrafficChanges(c)

Spec == Init /\ [][Next]_vars

\* A thread that has started goes on, and somebody keeps opening the page.
FairSpec == Spec /\ \A p \in Procs : WF_vars(Step(p)) /\ SF_vars(PageLoad(p))

-----------------------------------------------------------------------------
\* The file is right whenever no request is under way, the last sync was not cut
\* short and ran alone: it holds every client under a manual block, and no client
\* whose row gives no reason - whatever overlapping requests did before.
BanlistExact ==
    Idle /\ ~torn /\ ~overlap => \A c \in Clients :
        /\ rows[c].perm \/ rows[c].temp = "live" => c \in ban
        /\ c \in ban => rows[c].perm \/ rows[c].temp # "none" \/ rows[c].limit # "none"

\* A permanent block that an administrator has set stays until a request about
\* that client: no reconcile for another client, of the traffic or after a failure
\* lifts it, unless it overlaps another.
ManualBlockKept ==
    [][\A c \in Clients : rows[c].perm /\ rows[c].by /\ ~rows'[c].perm /\ ~overlap =>
          \/ \E p \in Procs : c \in chg[p]
          \/ \E p \in Procs, op \in {"temp", "clear"} : Post(p, c, op)]_vars

\* Whatever the threads and failures did to the file, once the requests end the
\* page loads bring file and policy together for good.
Converges == <>[](Idle => ban = {c \in Clients : IsBlocked(rows[c])})

=============================================================================
