---------------------------- MODULE CidrPipeline ----------------------------
(***************************************************************************)
(* Provider route lists: the database that cidr/db_service.py refreshes    *)
(* from the network, the lists in ips/list that cidr/db_pipeline.py and    *)
(* cidr/file_pipeline.py publish within the total route limit, and the     *)
(* baseline copies a rollback returns to.                                  *)
(*                                                                         *)
(* A refresh reads the size of every pool, downloads for minutes and       *)
(* stores its result in one transaction; other refreshes, clearings and    *)
(* publications run meanwhile.  A publication reads status and routes in   *)
(* two queries and then writes file by file.  Downloads are arbitrary.     *)
(* Left out: names and links of presets, the ASN tables (they follow the   *)
(* pools), the copies in ips/runtime_backups (nothing reads them), and the *)
(* second download that _optimize_cidrs_for_openvpn_routes tries for long  *)
(* regional lists.  One publication runs at a time.                        *)
(***************************************************************************)
EXTENDS CidrBudget, RouteNets

CONSTANTS
    Region,         \* networks inside the wanted region, by geo data
    StrictRegion,   \* networks inside it and in no other region
    NoRegion,       \* networks without geo data
    Ru,             \* networks inside Russian address space
    Sources,        \* direct sources of each provider: networks, and whether with geo data
    Hinted,         \* those of each ASN that the list of sources names
    Scanned,        \* those of each ASN that is found on a page
    Blocked,        \* what antifilter.download may return
    Shipped,        \* baseline lists of the repository
    Options,        \* settings of a request
    Published,      \* settings with which lists are published from the database
    Direct,         \* settings with which lists are published from the sources
    Selections,     \* files a request may name
    Refresher,      \* processes that refresh the database
    MinCandidate,   \* CIDR_FALLBACK_MIN_CANDIDATE
    DropPercent,    \* CIDR_FALLBACK_DROP_RATIO_WITH_ERRORS
    MaxOps          \* bound: operations, clearings apart

ASSUME PipelineAssumption ==
    /\ {Region, StrictRegion, NoRegion, Ru} \subseteq SUBSET Nets
    /\ \A p \in Provider :
          /\ Sources[p] \subseteq [nets : (SUBSET Nets) \ {{}}, geo : BOOLEAN]
          /\ Hinted[p] \cup Scanned[p] \subseteq (SUBSET Nets) \ {{}}
    /\ Blocked \subseteq SUBSET Nets
    /\ DOMAIN Shipped \subseteq Provider
    /\ Options \subseteq [limit : Nat, enforced : BOOLEAN, mandatory : SUBSET Provider,
                         priority : SUBSET Provider, promise : Nat, scope : {"all", "some"},
                         strict : BOOLEAN, fallback : BOOLEAN, ru : BOOLEAN, af : BOOLEAN]
    /\ Selections \subseteq SUBSET Provider /\ Published \subseteq Options /\ Direct \subseteq Options
    /\ {MinCandidate, DropPercent, MaxOps} \subseteq Nat

VARIABLES
    rows,       \* ProviderCidr
    meta,       \* ProviderMeta
    af,         \* AntifilterCidr, AntifilterMeta
    cache,      \* _ANTIFILTER_INDEX_CACHE
    job,        \* the refreshes
    mixed,      \* history: pools whose status was stored by a refresh that had been overtaken
    list,       \* ips/list
    base,       \* ips/list/_baseline
    pub,        \* a publication or rollback in progress
    ops

db == <<rows, meta, af, cache, job, mixed>>
files == <<list, base, pub>>
vars == <<db, files, ops>>

Status == {"none", "ok", "partial", "error"}
NoMeta == [status |-> "none", count |-> 0]
NoFile == [on |-> FALSE, whole |-> TRUE, nets |-> {}]
File(ns) == [on |-> TRUE, whole |-> TRUE, nets |-> ns]
TornFile == [on |-> TRUE, whole |-> FALSE, nets |-> {}]
NoIndex == [on |-> FALSE, nets |-> {}]
IdleJob == [pc |-> "idle", sel |-> {}, prev |-> [p \in Provider |-> 0], log |-> "none", stale |-> {}]
IdlePub == [pc |-> "idle", op |-> "none", opt |-> CHOOSE o \in Options : TRUE, meta |-> << >>,
            index |-> NoIndex, plan |-> << >>, total |-> 0]

Init ==
    /\ rows = [p \in Provider |-> {}] /\ meta = [p \in Provider |-> NoMeta]
    /\ af = [status |-> "none", nets |-> {}] /\ cache = NoIndex
    /\ job = [r \in Refresher |-> IdleJob] /\ mixed = {}
    /\ list = [p \in Provider |-> NoFile]
    /\ base = [p \in Provider |-> IF p \in DOMAIN Shipped THEN File(Shipped[p]) ELSE NoFile]
    /\ pub = IdlePub /\ ops = 0

Operation == ops < MaxOps /\ ops' = ops + 1

-----------------------------------------------------------------------------
\* The database

\* _download_cidrs_with_meta: what the direct sources that answer, one at least, return.
\* One that fails beside another leaves no trace.
DirectItems(p) == {UNION {s.nets : s \in S} : S \in (SUBSET Sources[p]) \ {{}}}

\* _download_asn_cidrs_with_meta: H and S answer; the failure of one that the list of
\* sources names counts as an error.
AsnItem(p, H, S) == [nets |-> UNION (H \cup S), errs |-> H # Hinted[p]]

\* _discover_provider_asns: the page itself may fail, and then its systems are unknown.
AsnItems(p) ==
    {AsnItem(p, H, S) : H \in SUBSET Hinted[p], S \in SUBSET Scanned[p]}
    \cup {[nets |-> UNION H, errs |-> TRUE] : H \in IF Scanned[p] = {} THEN {} ELSE SUBSET Hinted[p]}

\* _process_provider_refresh_context: without a direct answer the provider fails, whatever
\* its autonomous systems returned.
Failed == [ok |-> FALSE, nets |-> {}, errs |-> TRUE]
Outcome(p) == {Failed} \cup {[ok |-> TRUE, nets |-> d \cup a.nets, errs |-> a.errs] :
                                 d \in DirectItems(p), a \in AsnItems(p)}

Downloads(sel) == {got \in [sel -> UNION {Outcome(p) : p \in sel}] : \A p \in sel : got[p] \in Outcome(p)}

\* Mutant: a small pool is stored although the old one was large.
PreserveDropOnly(prev, new, errs) == prev > 0 /\ errs /\ 100 * (prev - new) >= DropPercent * prev

\* _should_preserve_previous_pool
Preserve(prev, new, errs) ==
    /\ prev > 0
    /\ \/ new = 0
       \/ new < MinCandidate /\ (errs \/ (prev >= MinCandidate /\ new # prev))
       \/ errs /\ 100 * (prev - new) >= DropPercent * prev

\* The row of the log is committed and the pools are counted before the downloads.
RefreshStart(r, sel) ==
    /\ job[r].pc = "idle" /\ Operation
    /\ job' = [job EXCEPT ![r] = [pc |-> "fetch", sel |-> sel, log |-> "running", stale |-> {},
                                  prev |-> [p \in Provider |-> Cardinality(rows[p])]]]
    /\ UNCHANGED <<rows, meta, af, cache, mixed, files>>

Kept(r, got) == {p \in job[r].sel : got[p].ok /\ Preserve(job[r].prev[p], Cardinality(got[p].nets), got[p].errs)}
Replaced(r, got) == {p \in job[r].sel : got[p].ok} \ Kept(r, got)

\* _upsert_provider_cidrs
NewRows(r, got) == [p \in Provider |-> IF p \in Replaced(r, got) THEN got[p].nets ELSE rows[p]]

\* Mutant: a preserved pool is described by what was downloaded.
NewMetaCandidate(r, got) ==
    [p \in Provider |->
        IF p \notin job[r].sel THEN meta[p]
        ELSE IF ~got[p].ok THEN [meta[p] EXCEPT !.status = "error"]
        ELSE [status |-> IF got[p].errs \/ p \in Kept(r, got) THEN "partial" ELSE "ok",
              count |-> Cardinality(got[p].nets)]]

\* _update_provider_meta
NewMeta(r, got) ==
    [p \in Provider |->
        IF p \notin job[r].sel THEN meta[p]
        ELSE IF ~got[p].ok THEN [meta[p] EXCEPT !.status = "error"]
        ELSE IF p \in Kept(r, got) THEN [status |-> "partial", count |-> job[r].prev[p]]
        ELSE [status |-> IF got[p].errs THEN "partial" ELSE "ok", count |-> Cardinality(got[p].nets)]]

Overtaken(r, S) == [q \in Refresher |-> IF q # r /\ job[q].pc = "fetch"
                                        THEN [job[q] EXCEPT !.stale = @ \cup S] ELSE job[q]]

\* The second half of refresh_all_providers: one transaction.
RefreshStore(r, got) ==
    /\ job[r].pc = "fetch" /\ job[r].log = "running"
    /\ rows' = NewRows(r, got) /\ meta' = NewMeta(r, got)
    /\ mixed' = (mixed \ Replaced(r, got)) \cup (Kept(r, got) \cap job[r].stale)
    /\ job' = [Overtaken(r, job[r].sel) EXCEPT ![r] = IdleJob]
    /\ UNCHANGED <<af, cache, files, ops>>

\* An exception, the end of the process, or a log row that is gone: nothing is stored.
RefreshLost(r) ==
    /\ job[r].pc = "fetch"
    /\ IF job[r].log = "deleted" THEN UNCHANGED ops ELSE Operation
    /\ job' = [job EXCEPT ![r] = IdleJob]
    /\ UNCHANGED <<rows, meta, af, cache, mixed, files>>

\* clear_provider_data: all providers at once take the log with them.
Clear(sel) ==
    /\ sel # {}
    /\ rows' = [p \in Provider |-> IF p \in sel THEN {} ELSE rows[p]]
    /\ meta' = [p \in Provider |-> IF p \in sel THEN NoMeta ELSE meta[p]]
    /\ mixed' = mixed \ sel
    /\ job' = [q \in Refresher |->
                  IF job[q].pc # "fetch" THEN job[q]
                  ELSE [job[q] EXCEPT !.stale = @ \cup sel,
                                      !.log = IF sel = Provider THEN "deleted" ELSE @]]
    /\ UNCHANGED <<af, cache, files, ops>>

\* refresh_antifilter: a failed download only changes the status.
Antifilter(new) ==
    /\ Operation
    /\ af' = IF new.ok THEN [status |-> "ok", nets |-> new.nets] ELSE [af EXCEPT !.status = "error"]
    /\ UNCHANGED <<rows, meta, cache, job, mixed, files>>

\* _load_antifilter_index: five minutes in memory, from any list that was not empty then.
AfIndex == IF cache.on THEN cache
           ELSE IF af.status = "ok" /\ af.nets # {} THEN [on |-> TRUE, nets |-> af.nets] ELSE NoIndex

IndexFor(o) == IF o.af THEN AfIndex ELSE NoIndex

CacheExpires == cache.on /\ cache' = NoIndex /\ UNCHANGED <<rows, meta, af, job, mixed, files, ops>>

-----------------------------------------------------------------------------
\* Publication

Overlaps(n, ns) == \E m \in ns : n \cap m # {}

\* _matches_region_scope, _matches_country_scope and their strict forms
InRegion(ns, o) == ns \cap IF o.strict THEN StrictRegion ELSE Region

\* The region a row must lie in; rows without geo data count only with the fallback.
Scoped(ns, o) == IF o.scope = "all" THEN ns
                 ELSE InRegion(ns, o) \cup (IF o.fallback THEN ns \cap NoRegion ELSE {})

\* _exclude_ru_country_cidrs: nothing is removed when the list of Russian networks cannot
\* be had.  It is asked for at the turn of every provider; ru is the set of those at whose
\* turn it was there.
WithoutRu(ns, o, known) == IF o.ru /\ known THEN ns \ Ru ELSE ns
RuLists(o) == IF o.ru THEN SUBSET Provider ELSE {Provider}

Filtered(ns, o, index, known) ==
    {n \in WithoutRu(Scoped(ns, o), o, known) : index.on => Overlaps(n, index.nets)}

\* Mutant: a pool that has become empty is published.
UsableEmpty(m, rs, o, index, ru) == {p \in DOMAIN m : m[p].status \in {"ok", "partial"} /\ m[p].count # 0}

\* Providers without data, with a failed refresh or with nothing left are skipped.
Usable(m, rs, o, index, ru) ==
    {p \in DOMAIN m : /\ m[p].status \in {"ok", "partial"} /\ m[p].count # 0
                      /\ Filtered(rs[p], o, index, p \in ru) # {}}

Wanted(m, rs, o, index, ru) ==
    [p \in Usable(m, rs, o, index, ru) |-> Filtered(rs[p], o, index, p \in ru)]

Sizes(w) == [p \in DOMAIN w |-> Cardinality(w[p])]

\* The lists within the limit.
Limited(w, o) ==
    LET c == Sizes(w)
    IN  IF ~o.enforced \/ Total(c) <= o.limit THEN w
        ELSE [p \in DOMAIN w |-> CompressToLimit(w[p], Budgets(c, o)[p])]

\* _render_file_content: a list is collapsed when it is written.
Rendered(ns) == File(Collapse(ns))

\* _snapshot_baseline_if_missing
Snapshot == [p \in Provider |-> IF base[p].on \/ ~list[p].on THEN base[p] ELSE list[p]]

\* The process ends between two copies or in one, and what is there then is the baseline.
SnapshotDies ==
    /\ pub.pc = "idle" /\ Operation
    /\ \E p \in Provider, copy \in {NoFile, TornFile} :
          /\ ~base[p].on /\ list[p].on
          /\ base' = [q \in Provider |-> IF Order[q] < Order[p] THEN Snapshot[q]
                                         ELSE IF q = p THEN copy ELSE base[q]]
    /\ UNCHANGED <<db, list, pub>>

\* update_cidr_files_from_db up to the first query.  It gives up without an antifilter
\* index, and when the game filter cannot be synchronised.
PublishStart(o, sel) ==
    /\ pub.pc = "idle" /\ Operation /\ base' = Snapshot
    /\ cache' = IF o.af THEN AfIndex ELSE cache
    /\ \/ pub' = pub
       \/ /\ o.af => AfIndex.on
          /\ pub' = [IdlePub EXCEPT !.pc = "read", !.op = "db", !.opt = o, !.index = IndexFor(o),
                                    !.meta = [p \in sel |-> meta[p]]]
    /\ UNCHANGED <<rows, meta, af, job, mixed, list>>

Plan(w) == [pub EXCEPT !.pc = "write", !.total = Total(Sizes(w)),
                       !.plan = [p \in DOMAIN w |-> Rendered(Limited(w, pub.opt)[p])]]

\* The rows are a second query.
PublishRead ==
    /\ pub.pc = "read"
    /\ \E ru \in RuLists(pub.opt) : pub' = Plan(Wanted(pub.meta, rows, pub.opt, pub.index, ru))
    /\ UNCHANGED <<db, list, base, ops>>

\* update_cidr_files: the same from the sources, without the database.
FetchStart(o, sel) ==
    /\ pub.pc = "idle" /\ Operation /\ base' = Snapshot
    /\ \/ pub' = pub
       \/ pub' = [IdlePub EXCEPT !.pc = "fetch", !.op = "net", !.opt = o, !.meta = [p \in sel |-> NoMeta]]
    /\ UNCHANGED <<db, list>>

\* _extract_cidrs: a source without geo data has nothing to say about a region.
Extracted(source, o) == IF o.scope = "all" THEN source.nets
                        ELSE IF source.geo THEN InRegion(source.nets, o) ELSE {}

\* A provider of which no source has geo data is skipped, or taken whole with the fallback.
Scope(p, o) == IF (\A s \in Sources[p] : ~s.geo) /\ o.fallback THEN [o EXCEPT !.scope = "all"] ELSE o

\* _collect_cidrs_from_sources: any part of the sources answers.  Russian networks are
\* removed from whole lists only.
Collected(p, o) ==
    {LET ns == UNION {Extracted(s, Scope(p, o)) : s \in S}
     IN  IF Scope(p, o).scope = "all" THEN WithoutRu(ns, o, known) ELSE ns :
         S \in SUBSET Sources[p], known \in BOOLEAN}

Fetched(sel, o) == {got \in [sel -> UNION {Collected(p, o) : p \in sel}] : \A p \in sel : got[p] \in Collected(p, o)}

FetchPlan(got) ==
    /\ pub.pc = "fetch"
    /\ pub' = Plan([p \in {q \in DOMAIN got : got[q] # {}} |-> got[p]])
    /\ UNCHANGED <<db, list, base, ops>>

\* rollback_to_baseline writes what the baseline holds, also what it has just taken there.
Rollback(sel) ==
    /\ pub.pc = "idle" /\ Operation /\ base' = Snapshot
    /\ pub' = [IdlePub EXCEPT !.pc = "write", !.op = "rollback",
                              !.plan = [p \in {q \in sel : Snapshot[q].on} |-> Snapshot[p]]]
    /\ UNCHANGED <<db, list>>

NextFile(p) == p \in DOMAIN pub.plan /\ \A q \in DOMAIN pub.plan : Order[p] <= Order[q]

WriteFile(p) ==
    /\ pub.pc = "write" /\ NextFile(p)
    /\ list' = [list EXCEPT ![p] = pub.plan[p]]
    /\ pub' = [pub EXCEPT !.plan = [q \in DOMAIN pub.plan \ {p} |-> pub.plan[q]]]
    /\ UNCHANGED <<db, base, ops>>

Done == pub.pc = "write" /\ pub.plan = << >> /\ pub' = IdlePub /\ UNCHANGED <<db, list, base, ops>>

\* The process ends, perhaps in the middle of a file.
PublishDies ==
    /\ pub.pc # "idle" /\ Operation
    /\ \/ list' = list
       \/ \E p \in Provider : pub.pc = "write" /\ NextFile(p) /\ list' = [list EXCEPT ![p] = TornFile]
    /\ pub' = IdlePub
    /\ UNCHANGED <<db, base>>

Next ==
    \/ \E r \in Refresher : \/ \E sel \in Selections : RefreshStart(r, sel)
                            \/ \E got \in Downloads(job[r].sel) : RefreshStore(r, got)
                            \/ RefreshLost(r)
    \/ \E sel \in Selections : Clear(sel) \/ Rollback(sel)
    \/ \E ok \in BOOLEAN, ns \in Blocked : Antifilter([ok |-> ok, nets |-> ns])
    \/ CacheExpires \/ SnapshotDies
    \/ \E sel \in Selections : \/ \E o \in Published : PublishStart(o, sel)
                              \/ \E o \in Direct : FetchStart(o, sel)
    \/ PublishRead
    \/ pub.pc = "fetch" /\ \E got \in Fetched(DOMAIN pub.meta, pub.opt) : FetchPlan(got)
    \/ \E p \in Provider : WriteFile(p)
    \/ Done \/ PublishDies

Spec == Init /\ [][Next]_vars

-----------------------------------------------------------------------------
\* The preview, estimate_cidr_matches_from_db: from the counters alone if no filter
\* applies, else from the rows.
EstimateCounts(o) ==
    LET known == {p \in Provider : meta[p].status \in {"ok", "partial"} /\ meta[p].count # 0}
        c == [p \in known |-> meta[p].count]
    IN  IF ~o.enforced \/ Total(c) <= o.limit THEN c ELSE EstimateBudgets(c, o)

EstimateRows(o, ru) == Sizes(Limited(Wanted(meta, rows, o, IndexFor(o), ru), o))

Estimate(o, ru) ==
    IF o.scope = "all" /\ ~o.ru /\ ~IndexFor(o).on THEN EstimateCounts(o) ELSE EstimateRows(o, ru)

\* The status of a provider counts the routes stored for it, whatever failed, was
\* preserved or cleared, unless the pool was preserved by a refresh that others had
\* overtaken (_process_provider_refresh_context uses counts read before the downloads).
MetaHonest ==
    \A p \in Provider \ mixed :
        /\ meta[p].count = Cardinality(rows[p])
        /\ meta[p].status = "none" => rows[p] = {}

\* A refresh that was not overtaken never replaces a large pool by a tiny one, nor, when ASN
\* sources failed, by one that is smaller by the given ratio (_should_preserve_previous_pool).
FloorKept ==
    \A r \in Refresher, p \in Provider :
        /\ job[r].pc = "fetch" /\ job'[r].pc = "idle" /\ p \notin job[r].stale
        /\ rows'[p] # rows[p] /\ Cardinality(rows[p]) >= MinCandidate
        => /\ Cardinality(rows'[p]) >= MinCandidate
           /\ meta'[p].status = "partial" =>
                 100 * (Cardinality(rows[p]) - Cardinality(rows'[p])) < DropPercent * Cardinality(rows[p])

PoolFloor == [][FloorKept]_vars

\* Whatever the database holds, a limit that is exceeded is used up to the last route,
\* mandatory providers are served before others, and preferred ones get what they were
\* promised if the promises fit (_apply_total_route_limit).
BudgetSound ==
    pub.pc = "idle" => \A o \in Options : \A ru \in RuLists(o) :
        LET c == Sizes(Wanted(meta, rows, o, IndexFor(o), ru))
            b == Budgets(c, o)
            must == o.mandatory \cap DOMAIN c
            promised == Sum([p \in DOMAIN c |-> Larger(Smaller(c[p], o.promise), 1)],
                            Favoured(o) \cap DOMAIN c)
        IN  o.limit > 0 /\ Total(c) > o.limit =>
               /\ Total(b) = o.limit
               /\ \A p \in DOMAIN c : b[p] <= c[p]
               /\ \A p \in must : b[p] > 0 \/ Cardinality({q \in must : b[q] > 0}) = o.limit
               /\ promised <= o.limit /\ Cardinality(DOMAIN c) <= o.limit =>
                     \A p \in Favoured(o) \cap DOMAIN c : b[p] >= Smaller(c[p], o.promise)

\* The preview names the files that a publication would write now, with no fewer routes
\* than the file then has, and with exactly as many if the pool of the provider has nothing
\* to collapse, as long as both find the list of Russian networks at the same turns.
\* (Without an antifilter list the preview ignores the filter and the publication refuses.)
EstimateHonest ==
    pub.pc = "idle" => \A o \in Options : \A ru \in RuLists(o) :
        (o.af => AfIndex.on) /\ mixed = {} =>
            LET e == Estimate(o, ru)
                w == Limited(Wanted(meta, rows, o, IndexFor(o), ru), o)
            IN  /\ DOMAIN e = DOMAIN w
                /\ \A p \in DOMAIN w :
                      LET n == Cardinality(Rendered(w[p]).nets)
                      IN  n <= e[p] /\ (Collapse(rows[p]) = rows[p] => n = e[p])

\* A list with routes is never published empty, unless the limit was exceeded and other
\* providers came first: missing data, failed sources and a clearing between the two
\* queries leave the old list in place.
ListKept ==
    [][\A p \in Provider :
          /\ list[p].nets # {} /\ list'[p].whole /\ list'[p].nets = {}
          => \/ pub.op = "rollback"
             \/ /\ pub.opt.limit < pub.total
                /\ p \in pub.opt.mandatory => pub.opt.limit < Cardinality(pub.opt.mandatory)]_vars
=============================================================================
