-------------------------- MODULE TrafficAccounting --------------------------
(***************************************************************************)
(* How the bytes of VPN sessions become the stored statistics of a client: *)
(* TrafficPersistenceService of the panel (a refresh of the dashboard) and *)
(* traffic_sync.py (cron) both take a snapshot of the counters, load the   *)
(* session rows and store the deltas; an administrator resets or deletes   *)
(* the statistics.                                                         *)
(*                                                                         *)
(* One client with OpenVPN and WireGuard sessions beside others that are   *)
(* not connected; received and sent bytes are one counter, the networks    *)
(* antizapret and vpn are one; is_active and the times of a row are only   *)
(* written and are left out.                                               *)
(***************************************************************************)
EXTENDS Integers, FiniteSets, FiniteSetsExt

CONSTANTS
    OpenVpn, WireGuard, \* session keys of the two kinds
    Web, Cron,          \* panel threads, and runs of traffic_sync.py
    OtherSamples, OtherTotal, \* what the other clients' statistics add up to at first
    MaxCount,           \* bound: value of a session's counter
    MaxEvents,          \* bound: tunnel restarts, failed reads of a log, resets and deletions
    MaxRaces,           \* bound: operations that begin beside another one
    MaxRaceCount,       \* bounds: counters and events, once operations have overlapped
    MaxRaceEvents

ASSUME ConstantsAssumption ==
    /\ OpenVpn \cap WireGuard = {} /\ Web \cap Cron = {}
    /\ IsFiniteSet(OpenVpn) /\ IsFiniteSet(WireGuard)
    /\ OtherSamples \in Nat /\ OtherTotal \in Nat
    /\ MaxCount \in Nat /\ MaxEvents \in Nat /\ MaxRaceCount \in Nat /\ MaxRaceEvents \in Nat /\ MaxRaces \in Nat

Session == OpenVpn \cup WireGuard
Proc == Web \cup Cron
Kind == {"openvpn", "wireguard"}
KindOf(s) == IF s \in WireGuard THEN "wireguard" ELSE "openvpn"
None == -1
NoShot == [s \in Session |-> None]

VARIABLES
    ctr,        \* the counter the status log or `wg show` gives, None: no such session
    ended,      \* sessions that have ended: their keys do not come back
    rows,       \* traffic_session_state: last bytes, None: no row
    total,      \* user_traffic_stat_protocol: the client's bytes, None: no row
    samples,    \* user_traffic_sample: the sum of the client's deltas
    others,     \* samples and totals of the other clients, which use OpenVPN
    pc,         \* where each process is
    shot,       \* the counters it has collected
    mem,        \* the rows it has loaded: sessions and totals
    again,      \* it has not used its retry yet
    gone,       \* the tables from which rows were deleted since it loaded them
    events,     \* how many of the bounded events there were
    races,      \* how many operations have begun beside another one
    admin,      \* history: there was a reset or deletion of the statistics
    truth,      \* history, until operations overlap: bytes each session carried since its
                \* statistics were reset
    mark,       \* history: of these, the bytes the reset under way will forget
    overlap     \* history: an operation has begun beside another

db == <<rows, total, samples, others>>
net == <<ctr, ended, truth>>
local == <<pc, shot, mem, again, gone>>
bounds == <<events, races, admin>>
history == <<mark, overlap>>
vars == <<net, db, local, bounds, history>>

NoMem == [rows |-> NoShot, total |-> [k \in Kind |-> None]]
OfKind(k) == {s \in Session : KindOf(s) = k}
Sum(f, S) == MapThenSumSet(LAMBDA s : f[s], S)
AtLeast0(n) == IF n > 0 THEN n ELSE 0
Becomes(p, to) == pc' = [pc EXCEPT ![p] = to]
Event == events < (IF overlap THEN MaxRaceEvents ELSE MaxEvents) /\ events' = events + 1

\* Bounds: two operations at a time; which of the idle threads serves a request makes no
\* difference.
Starts(p) ==
    /\ pc[p] = "idle" /\ (p \in Web => p = CHOOSE q \in Web : pc[q] = "idle")
    /\ overlap' = (overlap \/ \E q \in Proc : pc[q] # "idle")
    /\ IF \A q \in Proc : pc[q] = "idle" THEN UNCHANGED races
       ELSE /\ Cardinality({q \in Proc : pc[q] # "idle"}) = 1
            /\ races < MaxRaces /\ races' = races + 1
            /\ ~overlap => events <= MaxRaceEvents /\ \A s \in Session : truth[s] <= MaxRaceCount

NoBytes == [s \in Session |-> 0]
KeepTruth == truth' = IF overlap' THEN NoBytes ELSE truth

\* Rows are deleted of which others may have loaded the ids.
Delete(p, tables) ==
    gone' = [q \in Proc |-> IF q # p /\ pc[q] = "store" THEN gone[q] \cup tables ELSE gone[q]]

-----------------------------------------------------------------------------
(* The sessions *)

Connect(s) ==
    /\ ctr[s] = None /\ s \notin ended
    /\ ctr' = [ctr EXCEPT ![s] = 0]
    /\ UNCHANGED <<ended, truth, db, local, bounds, history>>

Traffic(s) ==
    /\ ctr[s] \in 0..(IF overlap THEN MaxRaceCount ELSE MaxCount) - 1
    /\ ctr' = [ctr EXCEPT ![s] = @ + 1] /\ truth' = [truth EXCEPT ![s] = IF overlap THEN 0 ELSE @ + 1]
    /\ UNCHANGED <<ended, db, local, bounds, history>>

\* An OpenVPN session ends, or the peer of a WireGuard client is deleted ...
Disconnect(s) ==
    /\ ctr[s] # None
    /\ ctr' = [ctr EXCEPT ![s] = None] /\ ended' = ended \cup {s}
    /\ UNCHANGED <<truth, db, local, bounds, history>>

\* ... a WireGuard counter starts again with its tunnel.
TunnelRestart(s) ==
    /\ s \in WireGuard /\ ctr[s] # None
    /\ Event
    /\ ctr' = [ctr EXCEPT ![s] = 0]
    /\ UNCHANGED <<ended, truth, db, local, races, admin, history>>

-----------------------------------------------------------------------------
(* A snapshot *)

\* parse_status_log: an OpenVPN session is in the status of its instance, taken from
\* the management socket or else from the file; `logs` are those that could be read.
StatusLogRows(logs) == [s \in OpenVpn |-> IF s \in logs THEN ctr[s] ELSE None]

\* collect_wireguard_status_rows: every peer of `wg show`, whether it is active or not,
\* under the name the peer cache has for it (`named`, none when the command fails).  A
\* peer the cache does not know, not even after it was read from the configuration
\* again, is a session of another name.
WireGuardRows(named) == [s \in WireGuard |-> IF s \in named THEN ctr[s] ELSE None]

\* The same two of traffic_sync.py, which imports nothing of the panel.
SyncStatusLogRows(logs) == [s \in OpenVpn |-> IF s \in logs THEN ctr[s] ELSE None]
SyncWireGuardRows(named) == [s \in WireGuard |-> IF s \in named THEN ctr[s] ELSE None]

\* collect_status_rows_for_snapshot of either.
StatusRows(p, read) ==
    LET ovpn == IF p \in Web THEN StatusLogRows(read) ELSE SyncStatusLogRows(read)
        wg   == IF p \in Web THEN WireGuardRows(read) ELSE SyncWireGuardRows(read)
    IN  [s \in Session |-> IF s \in OpenVpn THEN ovpn[s] ELSE wg[s]]

Collected(p, read) == shot' = [shot EXCEPT ![p] = StatusRows(p, read)]

\* Bound: one session is missed at a time.
Collect(p) ==
    /\ Starts(p)
    /\ \/ Collected(p, Session) /\ UNCHANGED events
       \/ Event /\ \E s \in Session : Collected(p, Session \ {s})
    /\ again' = [again EXCEPT ![p] = p \in Web]
    /\ Becomes(p, "load") /\ KeepTruth
    /\ UNCHANGED <<ctr, ended, db, mem, gone, admin, mark>>

\* The session and statistics rows, read before the transaction begins.
Loaded == [rows |-> rows, total |-> total]

Load(p) ==
    /\ pc[p] = "load"
    /\ mem' = [mem EXCEPT ![p] = Loaded]
    /\ Becomes(p, "store")
    /\ UNCHANGED <<net, db, shot, again, gone, bounds, history>>

\* The bytes of a session since the row was stored.  A counter that went back has
\* started again; a new WireGuard key starts from what the interface shows.
Delta(s, last, cur) ==
    IF last = None THEN IF s \in WireGuard THEN 0 ELSE cur
    ELSE IF cur < last THEN cur ELSE cur - last

Seen(p) == {s \in Session : shot[p][s] # None}
Deltas(p, k) == Sum([s \in Session |-> Delta(s, mem[p].rows[s], shot[p][s])], Seen(p) \cap OfKind(k))
SeenKinds(p) == {KindOf(s) : s \in Seen(p)}

\* A row it has to insert was inserted by another process since it looked.
Conflict(p) == \/ \E s \in Seen(p) : mem[p].rows[s] = None /\ rows[s] # None
               \/ \E k \in SeenKinds(p) : mem[p].total[k] = None /\ total[k] # None

\* The session rows of a snapshot: the panel writes the columns that differ from what
\* it loaded, traffic_sync.py inserts or updates every row ...
PanelSessions(p) == {s \in Seen(p) : shot[p][s] # mem[p].rows[s]}
SyncSessions(p) == Seen(p)
Written(p) == IF p \in Web THEN PanelSessions(p) ELSE SyncSessions(p)
StoreSessions(p) == rows' = [s \in Session |-> IF s \in Written(p) THEN shot[p][s] ELSE rows[s]]
StoreSamples(p) == samples' = [k \in Kind |-> samples[k] + Deltas(p, k)]

\* ... the panel writes the totals as it computed them from the rows it loaded, if they
\* changed, and traffic_sync.py adds to what is there.
PanelTotal(p, k) ==
    IF Deltas(p, k) = 0 /\ mem[p].total[k] # None THEN total[k]
    ELSE AtLeast0(mem[p].total[k]) + Deltas(p, k)
SyncTotal(p, k) == AtLeast0(total[k]) + Deltas(p, k)
NewTotal(p, k) == IF p \in Web THEN PanelTotal(p, k) ELSE SyncTotal(p, k)

Done(p, to) ==
    /\ Becomes(p, to)
    /\ shot' = [shot EXCEPT ![p] = NoShot] /\ mem' = [mem EXCEPT ![p] = NoMem]
    /\ again' = [again EXCEPT ![p] = FALSE]
Forget(p) == gone' = [gone EXCEPT ![p] = {}]
Stored(p) == IF p \in Web THEN "backfill" ELSE "idle"
StoreTotals(p) == total' = [k \in Kind |-> IF k \in SeenKinds(p) THEN NewTotal(p, k) ELSE total[k]]

\* persist_traffic_snapshot, one transaction.
Store(p) ==
    /\ pc[p] = "store" /\ ~Conflict(p) /\ gone[p] = {}
    /\ StoreSessions(p) /\ StoreSamples(p) /\ StoreTotals(p)
    /\ Done(p, Stored(p))
    /\ UNCHANGED <<net, others, gone, bounds, history>>

\* Rows are updated by their ids, which SQLite gives again once they are free: after a
\* deletion an update hits the row that has the id now, or none.
HitSessions(p) == {shot[p][s] : s \in {x \in Written(p) : mem[p].rows[x] # None}}
HitTotals(p, n) ==
    {IF p \in Web THEN mem[p].total[k] + Deltas(p, k) ELSE n + Deltas(p, k) :
        k \in {j \in SeenKinds(p) : mem[p].total[j] # None /\ Deltas(p, j) > 0}}

SessionsAstray(p, s) ==
    IF "sessions" \notin gone[p] \/ (s \in Seen(p) /\ mem[p].rows[s] = None)
    THEN {IF s \in Written(p) THEN shot[p][s] ELSE rows[s]}
    ELSE {rows[s]} \cup IF rows[s] = None THEN {} ELSE HitSessions(p)
TotalsAstray(p, k) ==
    IF "totals" \notin gone[p] \/ (k \in SeenKinds(p) /\ mem[p].total[k] = None)
    THEN {IF k \in SeenKinds(p) THEN NewTotal(p, k) ELSE total[k]}
    ELSE {total[k]} \cup IF total[k] = None THEN {} ELSE HitTotals(p, total[k])
OthersAstray(p) ==
    {others.total} \cup IF "totals" \in gone[p] /\ others.samples > 0 THEN HitTotals(p, others.total) ELSE {}

\* One value of each set.
OneOf(S) == {f \in [DOMAIN S -> UNION {S[x] : x \in DOMAIN S}] : \A x \in DOMAIN S : f[x] \in S[x]}

StoreAstray(p) ==
    /\ pc[p] = "store" /\ ~Conflict(p) /\ gone[p] # {}
    /\ rows' \in OneOf([s \in Session |-> SessionsAstray(p, s)])
    /\ total' \in OneOf([k \in Kind |-> TotalsAstray(p, k)])
    /\ \E n \in OthersAstray(p) : others' = [others EXCEPT !.total = n]
    /\ StoreSamples(p)
    /\ Done(p, Stored(p)) /\ Forget(p)
    /\ UNCHANGED <<net, bounds, history>>

\* ... or the panel finds no row to update and ends with StaleDataError.
StoreStale(p) ==
    /\ pc[p] = "store" /\ p \in Web /\ gone[p] # {}
    /\ Done(p, "idle") /\ Forget(p)
    /\ UNCHANGED <<net, db, bounds, history>>

\* IntegrityError: the panel rolls back, loads and tries once more; traffic_sync.py
\* and the second failure end with the exception.
Collide(p) ==
    /\ pc[p] = "store" /\ Conflict(p) /\ Forget(p)
    /\ IF again[p]
       THEN /\ Becomes(p, "load") /\ UNCHANGED shot
            /\ mem' = [mem EXCEPT ![p] = NoMem] /\ again' = [again EXCEPT ![p] = FALSE]
       ELSE Done(p, "idle")
    /\ UNCHANGED <<net, db, bounds, history>>

-----------------------------------------------------------------------------
(* Maintenance *)

\* Mutant: a seeded client starts at zero whatever samples it has left.
RebuiltFromZero(smp, rws, seeded) ==
    [k \in Kind |-> IF seeded THEN 0 ELSE IF smp[k] > 0 THEN smp[k] ELSE None]

\* rebuild_user_traffic_stats_from_samples: rows for what has samples, or, of a
\* client without any that is to be seeded, for the kinds of its sessions.
Rebuilt(smp, rws, seeded) ==
    [k \in Kind |->
        IF smp[k] > 0 THEN smp[k]
        ELSE IF seeded /\ (\A j \in Kind : smp[j] = 0) /\ \E s \in OfKind(k) : rws[s] # None THEN 0
        ELSE None]

HasRow(table) == \E x \in DOMAIN table : table[x] # None
AllTotals == AtLeast0(total["openvpn"]) + AtLeast0(total["wireguard"]) + others.total
AllSamples == samples["openvpn"] + samples["wireguard"] + others.samples
Tolerated(n) == (999 * n) \div 1000

\* The other clients' totals are rebuilt too.
OthersRebuilt(smp) == others' = [samples |-> smp, total |-> smp]

RebuildTotals(p) ==
    /\ total' = Rebuilt(samples, rows, HasRow(rows)) /\ OthersRebuilt(others.samples)
    /\ Delete(p, {"totals"})

\* Mutant: only totals that are not there at all are rebuilt.
TooLowEmpty == AllSamples > 0 /\ ~HasRow(total) /\ others.samples = 0

\* What ensure_protocol_traffic_stats_backfilled looks at: the sums over all clients.
TooLow == AllSamples > 0 /\ (AllTotals < Tolerated(AllSamples) \/ (~HasRow(total) /\ others.samples = 0))

\* Later in the same request.
Backfill(p) ==
    /\ pc[p] = "backfill"
    /\ IF TooLow THEN RebuildTotals(p) ELSE UNCHANGED <<total, others, gone>>
    /\ Becomes(p, "idle")
    /\ UNCHANGED <<net, rows, samples, shot, mem, again, bounds, history>>

\* The scopes of a reset, which is where a process that resets them is.
Scope == {"all", "openvpn", "wireguard"}
KindsIn(scope) == IF scope = "all" THEN Kind ELSE {scope}
Within(scope) == {s \in Session : KindOf(s) \in KindsIn(scope)}

\* reset_persisted_traffic_data collects the counters first.  What it finds and what
\* is not there any more will be forgotten; an OpenVPN session whose log it could
\* not read will count from its beginning.
ResetCollect(p, scope) ==
    /\ Starts(p) /\ p \in Web /\ Event /\ admin' = TRUE
    /\ Collected(p, Session) \/ \E s \in Session : Collected(p, Session \ {s})
    /\ Becomes(p, scope) /\ KeepTruth
    /\ mark' = [s \in Session |-> IF overlap' \/ s \notin Within(scope) THEN 0
                                  ELSE IF shot'[p][s] = ctr[s] THEN truth[s]
                                  ELSE IF s \in OpenVpn THEN truth[s] - ctr[s] ELSE 0]
    /\ UNCHANGED <<ctr, ended, db, mem, again, gone>>

\* Mutant: no baseline for the running sessions.
Baseline0(p, scope) == [s \in Session |-> IF s \in Within(scope) THEN None ELSE rows[s]]

\* delete_persisted_traffic_rows_by_scope and seed_traffic_session_baseline_for_scope:
\* the rows of the scope become the counters of the running sessions.
Baseline(p, scope) == [s \in Session |-> IF s \in Within(scope) THEN shot[p][s] ELSE rows[s]]

\* ... then all totals are rebuilt, in the same transaction.
ResetStore(p, scope) ==
    /\ pc[p] = scope /\ Delete(p, {"sessions", "totals"})
    /\ rows' = Baseline(p, scope)
    /\ samples' = [k \in Kind |-> IF k \in KindsIn(scope) THEN 0 ELSE samples[k]]
    /\ total' = Rebuilt(samples', rows', Within(scope) \cap Seen(p) # {})
    /\ OthersRebuilt(IF "openvpn" \in KindsIn(scope) THEN 0 ELSE others.samples)
    /\ truth' = [s \in Session |-> IF overlap THEN 0 ELSE truth[s] - mark[s]]
    /\ mark' = NoBytes
    /\ Done(p, "idle")
    /\ UNCHANGED <<ctr, ended, bounds, overlap>>

\* delete_client_traffic_stats, offered for clients that have no configuration any
\* more: session rows, samples and totals go.
DeleteClient(p) ==
    /\ Starts(p) /\ p \in Web /\ Event /\ admin' = TRUE
    /\ HasRow(rows) \/ HasRow(total)
    /\ ~HasRow(ctr)
    /\ rows' = NoShot
    /\ samples' = [k \in Kind |-> 0] /\ total' = [k \in Kind |-> None]
    /\ truth' = NoBytes /\ Delete(p, {"sessions", "totals"})
    /\ UNCHANGED <<ctr, ended, others, pc, shot, mem, again, mark>>

-----------------------------------------------------------------------------
Init ==
    /\ ctr = NoShot /\ ended = {} /\ truth = NoBytes
    /\ rows = NoShot /\ total = [k \in Kind |-> None] /\ samples = [k \in Kind |-> 0]
    /\ pc = [p \in Proc |-> "idle"] /\ shot = [p \in Proc |-> NoShot] /\ mem = [p \in Proc |-> NoMem]
    /\ others = [samples |-> OtherSamples, total |-> OtherTotal]
    /\ again = [p \in Proc |-> FALSE] /\ gone = [p \in Proc |-> {}]
    /\ events = 0 /\ races = 0 /\ admin = FALSE /\ mark = NoBytes /\ overlap = FALSE

Snapshot(p) == Load(p) \/ Store(p) \/ StoreAstray(p) \/ StoreStale(p) \/ Collide(p) \/ Backfill(p)

Next ==
    \/ \E s \in Session : Connect(s) \/ Traffic(s) \/ Disconnect(s) \/ TunnelRestart(s)
    \/ \E p \in Proc : Collect(p) \/ Snapshot(p)
    \/ \E p \in Web : DeleteClient(p)
    \/ \E p \in Web, scope \in Scope : ResetCollect(p, scope) \/ ResetStore(p, scope)

Spec == Init /\ [][Next]_vars

\* Operations that have begun go on, and the dashboard is opened again and again: strong
\* fairness, because the bound of Starts is no lock that could starve a request.
FairSpec ==
    /\ Spec
    /\ \A p \in Proc : WF_vars(Snapshot(p) \/ \E scope \in Scope : ResetStore(p, scope))
    /\ SF_vars(\E p \in Web : Collect(p))

-----------------------------------------------------------------------------
\* While operations do not overlap the statistics never show more than the client
\* transferred since they were last reset, however sessions start, end, restart
\* their counters or drop out of a snapshot.
\* Every byte of an OpenVPN session that a snapshot has seen is in one sample: until a
\* reset the samples are what the session rows add up to.
CountedOnce ==
    ~overlap =>
        /\ \A k \in Kind : total[k] <= Sum(truth, OfKind(k)) /\ samples[k] <= Sum(truth, OfKind(k))
        /\ ~admin => samples["openvpn"] = Sum([s \in OpenVpn |-> AtLeast0(rows[s])], OpenVpn)

\* While operations do not overlap the totals are the sum of the samples from which they
\* can be rebuilt.
TotalsMatchSamples ==
    ~overlap /\ (\A p \in Proc : pc[p] = "idle") => \A k \in Kind : AtLeast0(total[k]) = samples[k]

\* Whatever dashboard requests and cron overwrote in each other's totals, also with ids
\* that a reset, a deletion or a rebuild had freed: the totals of all clients together
\* come back to the samples, but for a thousandth.
TotalsHeal == []<>(AllTotals >= Tolerated(AllSamples))

=============================================================================
