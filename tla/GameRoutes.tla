----------------------------- MODULE GameRoutes -----------------------------
(***************************************************************************)
(* The route files of /root/antizapret/config that the panel writes: the   *)
(* copies of provider lists (ips/ip_manager.py) and the game filter        *)
(* (cidr/games.py).  The game filter adds the networks of selected games   *)
(* to AZ-Game-include-ips.txt, without what the other files route already  *)
(* and within a budget of routes, or puts them into                        *)
(* AZ-Game-exclude-ips.txt and cuts them out of the include files.  An     *)
(* exclusion reads the files, patches them one by one and writes its own   *)
(* file last; nothing locks the files, and any step may fail.              *)
(*                                                                         *)
(* A file is the set of its lines; a file that lists one network twice is  *)
(* not modelled, nor are lines written by hand into the two game files.    *)
(***************************************************************************)
EXTENDS RouteNets

CONSTANTS
    MinPunchSize,   \* widest include network that may be split: 2^MinPunchSize addresses
    MaxFragments,   \* EXCLUDE_PUNCH_MAX_RESULT_CIDRS
    MaxOverlaps,    \* EXCLUDE_PUNCH_MAX_OVERLAP_ENTRIES
    Described,      \* how many covering networks a comment names
    Games,          \* provider keys of the game filter
    Rank,           \* their order in the catalogue
    Static,         \* server_ips of each one
    Asn,            \* what RIPE announces for its ASNs
    Dns,            \* addresses its domains resolve to
    Lists,          \* contents a provider list may get
    UserLines,      \* include-ips.txt at the start
    Domains,        \* include_game_domains
    RouteLimit,     \* _get_config_include_ips_route_limit
    MaxGameOps      \* bound: operations and failures

ASSUME GamesAssumption ==
    /\ IsFiniteSet(Games)
    /\ Rank \in [Games -> Nat] /\ \A g, h \in Games : Rank[g] = Rank[h] => g = h
    /\ {Static, Asn, Dns} \subseteq [Games -> SUBSET Nets]
    /\ Lists \subseteq SUBSET Nets /\ UserLines \subseteq Nets
    /\ Domains \in BOOLEAN /\ {RouteLimit, MaxGameOps, MinPunchSize} \subseteq Nat
    /\ {MaxFragments, MaxOverlaps, Described} \subseteq Nat \ {0}

VARIABLES
    source,     \* ips/list/<provider>-ips.txt
    ap,         \* config/AP-<provider>-include-ips.txt
    user,       \* config/include-ips.txt
    hosts,      \* the two AZ-Game-*-hosts.txt
    inc,        \* the block of AZ-Game-include-ips.txt
    exc,        \* the block of AZ-Game-exclude-ips.txt
    exclusion,  \* an exclusion in progress
    gameOps,
    last        \* history: what the last step was about

gameVars == <<source, ap, user, hosts, inc, exc, exclusion, gameOps, last>>

Absent == [on |-> FALSE, nets |-> {}]
Present(ns) == [on |-> TRUE, nets |-> ns]
NoBlock == [keys |-> {}, lines |-> {}, notes |-> {}, splits |-> 0]
NoLines == [g \in Games |-> {}]
NoExclusion == [pc |-> "idle", todo |-> << >>, next |-> NoBlock, cur |-> NoBlock,
                want |-> {}, skipped |-> FALSE, touched |-> FALSE]
Other == [op |-> "other"]

GamesInit ==
    /\ source \in {Absent} \cup {Present(ns) : ns \in Lists}
    /\ ap = Absent /\ user = UserLines
    /\ hosts = [include |-> {}, exclude |-> {}]
    /\ inc = [keys |-> {}, lines |-> NoLines] /\ exc = NoBlock
    /\ exclusion = NoExclusion /\ gameOps = 0 /\ last = Other

\* A request names keys of the catalogue; others are dropped.
GameKeys == SUBSET Games

AsnCidrs(g, ripe) == IF ripe THEN Asn[g] ELSE {}
DnsCidrs(g, dns) == IF dns THEN Dns[g] ELSE {}

\* _collect_item_cidrs: domains are resolved only for a game without other data.
ItemCidrs(g, ripe, dns) ==
    LET data == Static[g] \cup AsnCidrs(g, ripe)
    IN  IF data # {} THEN data ELSE DnsCidrs(g, dns)

Gathered(sel, ripe, dns) == [g \in Games |-> IF g \in sel THEN ItemCidrs(g, ripe, dns) ELSE {}]

Entries(ns, f) == {[net |-> n, file |-> f] : n \in ns}

\* Mutant: the deployed lists are not looked at.
OverlapIndexUserOnly == Entries(user, "user") \cup Entries(exc.lines \cup exc.notes, "exc")

\* _iter_overlap_source_files, _build_overlap_index: every .txt file of the directory but
\* the two include files of the game filter, comments included.
OverlapIndex ==
    Entries(ap.nets, "ap") \cup Entries(user, "user") \cup Entries(exc.lines \cup exc.notes, "exc")

Count(per, S) == MapThenFoldSet(+, 0, LAMBDA g : Cardinality(per[g]),
                                LAMBDA s : CHOOSE g \in s : TRUE, S)

\* get_config_include_ips_route_stats
NonGameRoutes == Cardinality(ap.nets) + Cardinality(user)
GameBudget == IF RouteLimit > NonGameRoutes THEN RouteLimit - NonGameRoutes ELSE 0

\* The games get what is left of the budget in the order of the catalogue.
SequentialBudget(per, S) ==
    MapThenFoldSet(LAMBDA g, got : [got EXCEPT ![g] = Summarize(per[g], GameBudget - Count(got, Games))],
                   NoLines, LAMBDA g : g,
                   LAMBDA s : CHOOSE g \in s : \A h \in s : Rank[h] <= Rank[g], S)

\* _apply_config_route_budget_to_providers
WithBudget(per, S, enforced) ==
    LET merged == [g \in Games |-> Collapse(per[g])]
    IN  IF ~enforced \/ Count(per, S) <= GameBudget THEN per
        ELSE IF Count(merged, S) <= GameBudget THEN merged
        ELSE SequentialBudget(merged, S)

\* _apply_vpn_overlap_trim
Trimmed(got) == [g \in Games |-> UNION {TrimCidr(c, OverlapIndex) : c \in got[g]}]

\* _render_games_ips_block: nothing to route, no block.
IncludeBlock(got, sel, enforced) ==
    IF UNION {got[g] : g \in Games} = {} THEN [keys |-> {}, lines |-> NoLines]
    ELSE [keys |-> sel, lines |-> WithBudget(Trimmed(got), sel, enforced)]

IncludeHosts(sel) == [hosts EXCEPT !.include = IF Domains THEN sel ELSE {}]
ExcludeHosts(sel) == [hosts EXCEPT !.exclude = IF Domains THEN sel ELSE {}]

\* _sync_games_include_ips
IncludeIps(got, block, enforced) ==
    /\ inc' = block
    /\ last' = [op |-> "include", want |-> UNION {Space(got[g]) : g \in Games},
                enforced |-> enforced, cut |-> block.lines # Trimmed(got)]

\* sync_game_hosts_filter: the hosts file first, then the networks; either may fail.
SyncInclude(sel, ripe, dns, enforced, fail) ==
    LET got == Gathered(sel, ripe, dns)
    IN  /\ gameOps < MaxGameOps /\ gameOps' = gameOps + 1
        /\ hosts' = IF fail = "hosts" THEN hosts ELSE IncludeHosts(sel)
        /\ IF fail = "none" THEN IncludeIps(got, IncludeBlock(got, sel, enforced), enforced)
           ELSE inc' = inc /\ last' = Other
        /\ UNCHANGED <<source, ap, user, exc, exclusion>>

-----------------------------------------------------------------------------
\* Exclusion

Punchable(n) == Cardinality(n) <= 2^MinPunchSize

TooMany == [ok |-> FALSE, nets |-> {}]

\* One round of _subtract_cidrs: a hole is cut out of every network left so far.
CutHole(h, acc) ==
    LET left == UNION {Canonical(n \ h) : n \in acc.nets}
    IN  IF ~acc.ok \/ Cardinality(left) > MaxFragments THEN TooMany
        ELSE [ok |-> TRUE, nets |-> left]

SubtractCidrs(base, holes) ==
    MapThenFoldSet(CutHole, [ok |-> TRUE, nets |-> {base}], LAMBDA h : h,
                   LAMBDA s : CHOOSE h \in s : \A g \in s : Address(h) <= Address(g), holes)

\* _find_overlapping_entries walks down from the highest address, files in reverse order.
Nearest(e) ==
    LET place == CASE e.file = "ap" -> 0 [] e.file = "exc" -> 1 [] e.file = "user" -> 2
    IN  0 - ((First(e.net) * 3 + place) * 2^(Bits + 1) + Cardinality(e.net))

\* _trim_exclude_cidr_against_include_routes for one network: the overlapping entries it
\* looks at, what it writes, the entries to be split, and whether it gave one up.
Exclude1(c) ==
    LET over == Leading(Overlapping(c, OverlapIndex), MaxOverlaps, Nearest)
        rest == SubtractCidrs(c, {e.net : e \in over})
        full == \/ \E e \in over : c \subseteq e.net
                \/ rest.ok /\ rest.nets = {}
        write == IF over = {} \/ full \/ ~rest.ok THEN {c} ELSE rest.nets
        fits == {e \in over : Punchable(e.net) /\ SubtractCidrs(e.net, {c}).ok}
    IN  [write |-> write,
         notes |-> IF over = {} THEN {}
                   ELSE {c} \cup write \cup {e.net : e \in Leading(over, Described, Nearest)},
         split |-> fits,
         skipped |-> fits # over \/ over # Overlapping(c, OverlapIndex) \/ ~(full \/ rest.ok)]

\* _merge_include_patch_maps, _finalize_include_patches: every entry is split once, by all
\* networks that asked for it.
Holes(e, want) == {c \in want : e \in Exclude1(c).split}
Patchable(want) == {e \in UNION {Exclude1(c).split : c \in want} : SubtractCidrs(e.net, Holes(e, want)).ok}

\* Mutant: an entry is replaced by what the first network leaves of it.
PatchesOnce(want) ==
    LET es == Patchable(want)
    IN  [f \in {e.file : e \in es} |->
            {[old |-> e.net, new |-> SubtractCidrs(e.net, {CHOOSE c \in Holes(e, want) : TRUE}).nets] :
                e \in {x \in es : x.file = f}}]

Patches(want) ==
    LET es == Patchable(want)
    IN  [f \in {e.file : e \in es} |->
            {[old |-> e.net, new |-> SubtractCidrs(e.net, Holes(e, want)).nets] :
                e \in {x \in es : x.file = f}}]

\* _apply_exclude_include_punch
ExcludeBlock(sel, want) ==
    IF want = {} THEN NoBlock
    ELSE [keys |-> sel, lines |-> UNION {Exclude1(c).write : c \in want},
          notes |-> UNION {Exclude1(c).notes : c \in want}, splits |-> Cardinality(Patchable(want))]

\* sync_game_exclude_filter up to the patches: hosts file, networks, plan.
PlanExclude(sel, ripe, dns) ==
    LET want == UNION {Gathered(sel, ripe, dns)[g] : g \in Games}
        found == UNION {Exclude1(c).split : c \in want}
    IN  /\ exclusion.pc = "idle" /\ gameOps < MaxGameOps /\ gameOps' = gameOps + 1
        /\ hosts' = ExcludeHosts(sel)
        /\ exclusion' =
             [pc |-> "patch", todo |-> Patches(want), next |-> ExcludeBlock(sel, want),
              cur |-> exc, want |-> Space(want), touched |-> FALSE,
              skipped |-> Patchable(want) # found \/ \E c \in want : Exclude1(c).skipped]
        /\ last' = Other
        /\ UNCHANGED <<source, ap, user, inc, exc>>

\* Mutant: the split line is removed, its remainder not written.
PatchedDrop(ns, ps) == ns \ {p.old : p \in ps}

\* _replace_exact_cidr_line for every patch of a file
Patched(ns, ps) == (ns \ {p.old : p \in ps}) \cup UNION {p.new : p \in ps}

LinesOf(f) == CASE f = "ap" -> ap.nets [] f = "user" -> user [] f = "exc" -> exc.lines

\* _apply_include_patches_to_files: a line that is not found ends the exclusion; files
\* patched before stay as they are.
PatchFile(f) ==
    LET ps == exclusion.todo[f]
        found == \A p \in ps : p.old \in LinesOf(f)
        now == Patched(LinesOf(f), ps)
    IN  /\ exclusion.pc = "patch" /\ f \in DOMAIN exclusion.todo
        /\ IF found
           THEN /\ ap' = IF f = "ap" THEN [ap EXCEPT !.nets = now] ELSE ap
                /\ user' = IF f = "user" THEN now ELSE user
                /\ exc' = IF f = "exc" THEN [exc EXCEPT !.lines = now] ELSE exc
                /\ exclusion' = [exclusion EXCEPT !.todo = [x \in DOMAIN @ \ {f} |-> @[x]]]
                /\ last' = [op |-> "patch", want |-> exclusion.want,
                            lost |-> Space(LinesOf(f)) \ Space(now),
                            gained |-> Space(now) \ Space(LinesOf(f))]
           ELSE /\ exclusion' = NoExclusion /\ last' = Other
                /\ UNCHANGED <<ap, user, exc>>
        /\ UNCHANGED <<source, hosts, inc, gameOps>>

\* The file is written unless its text is what was read before the patches.
WriteExclude ==
    /\ exclusion.pc = "patch" /\ exclusion.todo = << >>
    /\ exc' = IF exclusion.next = exclusion.cur THEN exc ELSE exclusion.next
    /\ last' = [op |-> "exclude", want |-> exclusion.want, block |-> exclusion.next,
                clean |-> ~exclusion.skipped /\ ~exclusion.touched]
    /\ exclusion' = NoExclusion
    /\ UNCHANGED <<source, ap, user, hosts, inc, gameOps>>

\* An I/O error or the end of the process.
ExcludeFails ==
    /\ exclusion.pc = "patch" /\ gameOps < MaxGameOps /\ gameOps' = gameOps + 1
    /\ exclusion' = NoExclusion /\ last' = Other
    /\ UNCHANGED <<source, ap, user, hosts, inc, exc>>

-----------------------------------------------------------------------------
\* ips/ip_manager.py: one provider list

ListStep(l, a, u) ==
    /\ gameOps < MaxGameOps /\ gameOps' = gameOps + 1
    /\ source' = l /\ ap' = a /\ user' = u
    /\ exclusion' = [exclusion EXCEPT !.touched = (exclusion.pc = "patch")]
    /\ last' = Other
    /\ UNCHANGED <<hosts, inc, exc>>

\* enable_file copies the list.
EnableFile == source.on /\ ListStep(source, source, user)

\* sync_enabled_from_list copies the lists of enabled providers; a copy without its list stays.
SyncEnabled == ap.on /\ source.on /\ ap # source /\ ListStep(source, source, user)

\* disable_file also removes the lines of the list from include-ips.txt.
DisableFile == ap.on /\ ListStep(source, Absent, user \ source.nets)

\* An update of the lists writes the file, or it is lost.
PublishList == \E ns \in Lists : source # Present(ns) /\ ListStep(Present(ns), ap, user)
LoseList == source.on /\ ListStep(Absent, ap, user)

\* restore_source_from_config
RestoreSource == ~source.on /\ ap.on /\ ListStep(ap, ap, user)

GamesNext ==
    \/ \E sel \in GameKeys, ripe, dns, enforced \in BOOLEAN, fail \in {"none", "hosts", "ips"} :
          SyncInclude(sel, ripe, dns, enforced, fail)
    \/ \E sel \in GameKeys, ripe, dns \in BOOLEAN : PlanExclude(sel, ripe, dns)
    \/ \E f \in {"ap", "user", "exc"} : PatchFile(f)
    \/ WriteExclude \/ ExcludeFails
    \/ EnableFile \/ SyncEnabled \/ DisableFile \/ PublishList \/ LoseList \/ RestoreSource

GamesSpec == GamesInit /\ [][GamesNext]_gameVars

-----------------------------------------------------------------------------
GameSpace == UNION {Space(inc.lines[g]) : g \in Games}
OtherSpace == Space(ap.nets) \cup Space(user) \cup Space(exc.lines) \cup Space(exc.notes)

\* After the game filter is synchronised, its routes (lines 1320-1365 of games.py) repeat
\* nothing that another file holds, add nothing that was not asked for, and leave nothing
\* out that no other file holds, unless the budget made them shorter.  With the limit in
\* force they never take the include files over it: they get what the other files leave,
\* and nothing if those are over it already.
TrimExact ==
    last.op = "include" =>
        /\ GameSpace \subseteq last.want \ OtherSpace
        /\ ~last.cut => last.want \subseteq GameSpace \cup OtherSpace
        /\ last.enforced => Count(inc.lines, Games) \in {0} \cup 0 .. RouteLimit - NonGameRoutes

\* A patch takes exactly addresses of the excluded networks out of a file, whatever has
\* happened to the files since the plan was made.
PunchExact == last.op = "patch" => last.lost \subseteq last.want /\ last.gained = {}

\* When an exclusion succeeds without giving up a network and nobody touched the lists in
\* between, no include route leads to an excluded address.
ExclusionComplete ==
    last.op = "exclude" /\ last.clean => (Space(ap.nets) \cup Space(user)) \cap last.want = {}

\* After a successful synchronisation the exclude file holds the block it rendered.
ExcludeFileHoldsBlock == last.op = "exclude" /\ last.clean => exc = last.block
=============================================================================
