--------------------- MODULE OpenVpnAccessPolicyProofs ---------------------
(***************************************************************************)
(* The file of banned clients and the manual blocks of OpenVpnAccessPolicy,*)
(* proved for any clients, threads and bounds.                             *)
(***************************************************************************)
EXTENDS OpenVpnAccessPolicy, TLAPS

Columns == {"temp", "perm", "reason", "limit", "by"}
IsRow(r) ==
    /\ DOMAIN r = Columns
    /\ r.temp \in {"none", "live", "over"} /\ r.limit \in {"none", "under", "over"}
    /\ r.perm \in BOOLEAN /\ r.by \in BOOLEAN

TypeOK ==
    /\ DOMAIN rows = Clients /\ \A c \in Clients : IsRow(rows[c])
    /\ DOMAIN mem = Procs
    /\ \A p \in Procs : DOMAIN mem[p] = Clients /\ \A c \in Clients : IsRow(mem[p][c])
    /\ pc \in [Procs -> {"idle", "import", "sync", "commit", "open", "write"}]
    /\ ban \subseteq Clients /\ blocked \in [Procs -> SUBSET Clients]
    /\ chg \in [Procs -> SUBSET Clients] /\ seen \in [Procs -> SUBSET Clients]
    /\ torn \in BOOLEAN /\ overlap \in BOOLEAN

\* How far a row may move while one thread has it loaded and no other is at work:
\* a block runs out, traffic is counted.
Drift(m, r) ==
    /\ m.perm = r.perm /\ m.by = r.by
    /\ m.temp = r.temp \/ (m.temp = "live" /\ r.temp = "over")
    /\ m.limit = "none" <=> r.limit = "none"

\* What a list of banned clients says of one row.
Fits(c, B, r) ==
    /\ r.perm \/ r.temp = "live" => c \in B
    /\ c \in B => r.perm \/ r.temp # "none" \/ r.limit # "none"

\* Requests that have not overlapped are served by one thread at a time ...
OneThread == ~overlap => \A p, q \in Procs : pc[p] # "idle" /\ pc[q] # "idle" => p = q

\* ... whose session is current, whose list fits the rows, and who has truncated
\* the file.
SyncOK ==
    ~overlap => \A p \in Procs :
        /\ pc[p] = "commit" => \A c \in Clients : Drift(mem[p][c], rows[c])
        /\ pc[p] \in {"open", "write"} => \A c \in Clients : Fits(c, blocked[p], rows[c])
        /\ pc[p] = "write" => ban = {}

FileOK == Idle /\ ~torn /\ ~overlap => \A c \in Clients : Fits(c, ban, rows[c])

BInv == TypeOK /\ OneThread /\ SyncOK /\ FileOK

-----------------------------------------------------------------------------
(* Rows *)

Ops == {"temp", "perm", "clear"} \cup LimitOps

\* A row without a block, and one of an earlier version.
LEMMA FirstRows == IsRow(NoBlock) /\ IsRow(Legacy)
  BY DEF IsRow, NoBlock, Legacy, Columns

\* Only set_temp_block_days and clear_block lift a permanent block.
LEMMA PostedFacts ==
  ASSUME NEW r, IsRow(r), NEW op \in Ops
  PROVE  IsRow(Posted(r, op)) /\ (r.perm /\ ~Posted(r, op).perm => op \in {"temp", "clear"})
<1>1. CASE op = "temp"
  <2>1. Posted(r, op) = [r EXCEPT !.temp = "live", !.perm = FALSE, !.reason = "manual_temp", !.by = TRUE]
    BY <1>1 DEF Posted
  <2> QED BY <1>1, <2>1 DEF IsRow, Columns
<1>2. CASE op = "perm"
  <2>1. Posted(r, op) = [r EXCEPT !.temp = "none", !.perm = TRUE, !.reason = "manual_permanent", !.by = TRUE]
    BY <1>2 DEF Posted
  <2> QED BY <1>2, <2>1 DEF IsRow, Columns
<1>3. CASE op = "clear"
  <2>1. Posted(r, op) = [r EXCEPT !.temp = "none", !.perm = FALSE, !.reason = "none", !.by = TRUE]
    BY <1>3 DEF Posted
  <2> QED BY <1>3, <2>1 DEF IsRow, Columns
<1>4. CASE op = "limit_under"
  <2>1. Posted(r, op) = [r EXCEPT !.limit = "under", !.by = TRUE]
    BY <1>4 DEF Posted
  <2> QED BY <2>1 DEF IsRow, Columns
<1>5. CASE op = "limit_over"
  <2>1. Posted(r, op) = [r EXCEPT !.limit = "over", !.by = TRUE]
    BY <1>5 DEF Posted
  <2> QED BY <2>1 DEF IsRow, Columns
<1>6. CASE op = "unlimit"
  <2>1. Posted(r, op) = [r EXCEPT !.limit = "none", !.by = TRUE]
    BY <1>6 DEF Posted
  <2> QED BY <2>1 DEF IsRow, Columns
<1> QED BY <1>1, <1>2, <1>3, <1>4, <1>5, <1>6 DEF Ops, LimitOps

\* What one row of the sync's loop becomes.
LEMMA CleanedFacts ==
  ASSUME NEW m, IsRow(m), NEW ch \in BOOLEAN
  PROVE  LET n == Cleaned(m, ch) IN
         /\ IsRow(n) /\ n.limit = m.limit /\ n.by = m.by
         /\ n.temp = IF m.temp = "over" THEN "none" ELSE m.temp
         /\ n.perm => m.perm
         /\ m.perm /\ m.by /\ ~n.perm => ch
<1> DEFINE e == ExpireTemp(m)
<1> DEFINE s == LiftPermanent(e, ch)
<1> DEFINE n == [s EXCEPT !.reason = Reason(s)]
<1>1. /\ IsRow(e) /\ e.limit = m.limit /\ e.by = m.by /\ e.perm = m.perm
      /\ e.temp = IF m.temp = "over" THEN "none" ELSE m.temp
  BY DEF ExpireTemp, IsRow, Columns
<1> HIDE DEF e
<1>2. /\ IsRow(s) /\ s.limit = e.limit /\ s.by = e.by /\ s.temp = e.temp
      /\ s.perm => e.perm
      /\ e.perm /\ e.by /\ ~s.perm => ch
  <2>1. CASE e.perm /\ e.temp = "none" /\ (IF Exceeded(e) THEN ~e.by ELSE ch)
    <3>1. s = [e EXCEPT !.perm = FALSE]
      BY <2>1 DEF LiftPermanent
    <3>2. e.by => ch
      BY <2>1
    <3> QED BY <1>1, <3>1, <3>2 DEF IsRow, Columns
  <2>2. CASE ~(e.perm /\ e.temp = "none" /\ (IF Exceeded(e) THEN ~e.by ELSE ch))
    <3>1. s = e
      BY <2>2 DEF LiftPermanent
    <3> QED BY <1>1, <3>1 DEF IsRow
  <2> QED BY <2>1, <2>2
<1> HIDE DEF s
<1>3. IsRow(n) /\ n.limit = s.limit /\ n.by = s.by /\ n.temp = s.temp /\ n.perm = s.perm
  BY <1>2 DEF IsRow, Columns
<1>4. Cleaned(m, ch) = n
  BY DEF Cleaned, s, e
<1> HIDE DEF n
<1> QED BY <1>1, <1>2, <1>3, <1>4

\* Only the columns that the session changed are written.
LEMMA MergedFacts ==
  ASSUME NEW r, NEW m, NEW n, IsRow(r), IsRow(m), IsRow(n)
  PROVE  LET x == Merged(r, m, n) IN
         /\ IsRow(x)
         /\ x.perm = IF n.perm = m.perm THEN r.perm ELSE n.perm
         /\ x.temp = IF n.temp = m.temp THEN r.temp ELSE n.temp
         /\ x.limit = IF n.limit = m.limit THEN r.limit ELSE n.limit
<1> DEFINE x == Merged(r, m, n)
<1>1. DOMAIN x = Columns /\ \A f \in Columns : x[f] = IF n[f] = m[f] THEN r[f] ELSE n[f]
  BY DEF Merged, IsRow
<1> HIDE DEF x
<1>2. /\ x.perm = IF n.perm = m.perm THEN r.perm ELSE n.perm
      /\ x.temp = IF n.temp = m.temp THEN r.temp ELSE n.temp
      /\ x.limit = IF n.limit = m.limit THEN r.limit ELSE n.limit
      /\ x.by = IF n.by = m.by THEN r.by ELSE n.by
  BY <1>1 DEF Columns
<1>3. IsRow(x)
  BY <1>1, <1>2 DEF IsRow
<1> QED BY <1>2, <1>3 DEF x

\* The row that a sync commits, when nobody else changed it since it was loaded:
\* it fits the list of banned clients, and lost no manual block of a client whose
\* limit did not change.
LEMMA CommitRow ==
  ASSUME NEW r, NEW m, IsRow(r), IsRow(m), NEW ch \in BOOLEAN
  PROVE  LET n == Cleaned(m, ch)
             x == Merged(r, m, n)
         IN /\ IsRow(x)
            /\ Drift(m, r) =>
                 /\ x.perm \/ x.temp = "live" => IsBlocked(n)
                 /\ IsBlocked(n) => x.perm \/ x.temp # "none" \/ x.limit # "none"
                 /\ r.perm /\ r.by /\ ~x.perm => ch
<1> DEFINE n == Cleaned(m, ch)
<1>1. /\ IsRow(n) /\ n.limit = m.limit /\ n.by = m.by
      /\ n.temp = IF m.temp = "over" THEN "none" ELSE m.temp
      /\ n.perm => m.perm
      /\ m.perm /\ m.by /\ ~n.perm => ch
  BY CleanedFacts
<1> HIDE DEF n
<1> DEFINE x == Merged(r, m, n)
<1>2. /\ IsRow(x)
      /\ x.perm = IF n.perm = m.perm THEN r.perm ELSE n.perm
      /\ x.temp = IF n.temp = m.temp THEN r.temp ELSE n.temp
      /\ x.limit = IF n.limit = m.limit THEN r.limit ELSE n.limit
  BY <1>1, MergedFacts
<1> HIDE DEF x
<1>3. ASSUME Drift(m, r)
      PROVE  /\ x.perm \/ x.temp = "live" => IsBlocked(n)
             /\ IsBlocked(n) => x.perm \/ x.temp # "none" \/ x.limit # "none"
             /\ r.perm /\ r.by /\ ~x.perm => ch
  <2>1. x.perm = n.perm
    BY <1>1, <1>2, <1>3 DEF Drift, IsRow
  <2>2. x.temp = "live" => n.temp = "live"
    BY <1>1, <1>2, <1>3 DEF Drift, IsRow
  <2>3. n.temp = "live" => x.temp # "none"
    BY <1>1, <1>2, <1>3 DEF Drift, IsRow
  <2>4. n.limit = "over" => x.limit # "none"
    BY <1>1, <1>2, <1>3 DEF Drift, IsRow
  <2>5. r.perm /\ r.by /\ ~x.perm => ch
    BY <1>1, <1>3, <2>1 DEF Drift, IsRow
  <2> QED BY <2>1, <2>2, <2>3, <2>4, <2>5 DEF IsBlocked, Exceeded
<1> QED BY <1>2, <1>3 DEF x, n

-----------------------------------------------------------------------------
(* Steps *)

\* A request begins: alone it has everything ahead of it, beside another one nothing
\* is claimed.
LEMMA StartsFrame ==
  ASSUME TypeOK, NEW p \in Procs, NEW at \in {"sync", "import"}, Starts(p, at)
  PROVE  /\ OneThread' /\ SyncOK' /\ FileOK'
         /\ pc' \in [Procs -> {"idle", "import", "sync", "commit", "open", "write"}] /\ overlap' \in BOOLEAN
<1>1. pc' = [pc EXCEPT ![p] = at] /\ overlap' = ~Idle
  BY DEF Starts, Becomes
<1>2. pc' \in [Procs -> {"idle", "import", "sync", "commit", "open", "write"}] /\ overlap' \in BOOLEAN
  BY <1>1 DEF TypeOK
<1>3. pc'[p] = at /\ \A q \in Procs : q # p => pc'[q] = pc[q]
  BY <1>1 DEF TypeOK
<1>4. ~overlap' => \A q \in Procs : q # p => pc'[q] = "idle"
  BY <1>1, <1>3 DEF Idle
<1>5. OneThread' /\ SyncOK'
  BY <1>3, <1>4 DEF OneThread, SyncOK
<1>6. ~Idle'
  BY <1>3 DEF Idle
<1> QED BY <1>2, <1>5, <1>6 DEF FileOK

\* A POST changes the row and starts a sync.
LEMMA PostBInv ==
  ASSUME BInv, NEW p \in Procs, NEW c \in Clients, NEW op \in Ops, Post(p, c, op)
  PROVE  BInv'
<1>1. TypeOK /\ Starts(p, "sync") /\ UNCHANGED <<ban, seen, mem, blocked, torn>>
  BY DEF Post, BInv
<1>2. DOMAIN rows' = Clients /\ \A d \in Clients : IsRow(rows'[d])
  <2>1. IsRow(Posted(rows[c], op))
    BY <1>1, PostedFacts DEF TypeOK
  <2>2. rows' = [rows EXCEPT ![c] = Posted(rows[c], op)]
    BY DEF Post
  <2> QED BY <1>1, <2>1, <2>2 DEF TypeOK
<1>3. chg' \in [Procs -> SUBSET Clients]
  BY <1>1 DEF Post, TypeOK
<1>4. /\ OneThread' /\ SyncOK' /\ FileOK'
      /\ pc' \in [Procs -> {"idle", "import", "sync", "commit", "open", "write"}] /\ overlap' \in BOOLEAN
  BY <1>1, StartsFrame
<1>5. TypeOK'
  BY <1>1, <1>2, <1>3, <1>4 DEF TypeOK
<1> QED BY <1>4, <1>5 DEF BInv

\* reconcile_all reads the file.
LEMMA PageLoadBInv ==
  ASSUME BInv, NEW p \in Procs, PageLoad(p)
  PROVE  BInv'
<1>1. TypeOK /\ Starts(p, "import") /\ UNCHANGED <<rows, ban, mem, blocked, torn>>
  BY DEF PageLoad, BInv
<1>2. chg' \in [Procs -> SUBSET Clients] /\ seen' \in [Procs -> SUBSET Clients]
  BY <1>1 DEF PageLoad, TypeOK
<1>3. /\ OneThread' /\ SyncOK' /\ FileOK'
      /\ pc' \in [Procs -> {"idle", "import", "sync", "commit", "open", "write"}] /\ overlap' \in BOOLEAN
  BY <1>1, StartsFrame
<1>4. TypeOK'
  BY <1>1, <1>2, <1>3 DEF TypeOK
<1> QED BY <1>3, <1>4 DEF BInv

\* The traffic of clients with a limit was counted.
LEMMA TrafficPersistedBInv ==
  ASSUME BInv, NEW p \in Procs, TrafficPersisted(p)
  PROVE  BInv'
<1>1. TypeOK /\ Starts(p, "sync") /\ UNCHANGED <<rows, ban, seen, mem, blocked, torn>>
  BY DEF TrafficPersisted, BInv
<1>2. chg' \in [Procs -> SUBSET Clients]
  BY <1>1 DEF TrafficPersisted, TypeOK
<1>3. /\ OneThread' /\ SyncOK' /\ FileOK'
      /\ pc' \in [Procs -> {"idle", "import", "sync", "commit", "open", "write"}] /\ overlap' \in BOOLEAN
  BY <1>1, StartsFrame
<1>4. TypeOK'
  BY <1>1, <1>2, <1>3 DEF TypeOK
<1> QED BY <1>3, <1>4 DEF BInv

\* A thread goes on: while requests have not overlapped every other thread is idle.
LEMMA GoesOn ==
  ASSUME TypeOK, OneThread, NEW p \in Procs, pc[p] # "idle", UNCHANGED overlap,
         NEW to \in {"idle", "import", "sync", "commit", "open", "write"}, Becomes(p, to)
  PROVE  /\ pc' \in [Procs -> {"idle", "import", "sync", "commit", "open", "write"}]
         /\ OneThread' /\ pc'[p] = to
         /\ ~overlap' => ~overlap /\ \A q \in Procs : q # p => pc'[q] = "idle"
<1>1. pc' = [pc EXCEPT ![p] = to]
  BY DEF Becomes
<1>2. pc' \in [Procs -> {"idle", "import", "sync", "commit", "open", "write"}]
  BY <1>1 DEF TypeOK
<1>3. pc'[p] = to /\ \A q \in Procs : q # p => pc'[q] = pc[q]
  BY <1>1 DEF TypeOK
<1>4. ~overlap => \A q \in Procs : q # p => pc'[q] = "idle"
  BY <1>3 DEF OneThread
<1>5. OneThread'
  BY <1>4 DEF OneThread
<1> QED BY <1>2, <1>3, <1>4, <1>5

\* reconcile_all imports entries of the file.
LEMMA ImportBInv ==
  ASSUME BInv, NEW p \in Procs, Import(p)
  PROVE  BInv'
<1>1. /\ TypeOK /\ OneThread /\ pc[p] = "import" /\ Becomes(p, "sync")
      /\ UNCHANGED <<ban, chg, mem, blocked, torn, overlap>>
  BY DEF Import, BInv
<1>2. /\ pc' \in [Procs -> {"idle", "import", "sync", "commit", "open", "write"}]
      /\ OneThread' /\ pc'[p] = "sync"
      /\ ~overlap' => ~overlap /\ \A q \in Procs : q # p => pc'[q] = "idle"
  BY <1>1, GoesOn
<1>3. DOMAIN rows' = Clients /\ \A d \in Clients : IsRow(rows'[d])
  <2>1. DOMAIN rows' = Clients
    BY DEF Import
  <2>2. ASSUME NEW d \in Clients PROVE IsRow(rows'[d])
    <3>1. IsRow(rows[d])
      BY <1>1 DEF TypeOK
    <3>2. rows'[d] = rows[d] \/ rows'[d] = [rows[d] EXCEPT !.perm = TRUE, !.reason = "manual_permanent"]
      BY DEF Import
    <3> QED BY <3>1, <3>2 DEF IsRow, Columns
  <2> QED BY <2>1, <2>2
<1>4. seen' \in [Procs -> SUBSET Clients]
  BY <1>1 DEF Import, TypeOK
<1>5. TypeOK'
  BY <1>1, <1>2, <1>3, <1>4 DEF TypeOK
<1>6. SyncOK' /\ FileOK'
  BY <1>2 DEF SyncOK, FileOK, Idle
<1> QED BY <1>2, <1>5, <1>6 DEF BInv

\* The sync loads the rows.
LEMMA SyncLoadBInv ==
  ASSUME BInv, NEW p \in Procs, SyncLoad(p)
  PROVE  BInv'
<1>1. /\ TypeOK /\ OneThread /\ pc[p] = "sync" /\ Becomes(p, "commit") /\ mem' = [mem EXCEPT ![p] = rows]
      /\ UNCHANGED <<rows, ban, chg, seen, blocked, torn, overlap>>
  BY DEF SyncLoad, BInv
<1>2. /\ pc' \in [Procs -> {"idle", "import", "sync", "commit", "open", "write"}]
      /\ OneThread' /\ pc'[p] = "commit"
      /\ ~overlap' => ~overlap /\ \A q \in Procs : q # p => pc'[q] = "idle"
  BY <1>1, GoesOn
<1>3. DOMAIN mem' = Procs /\ mem'[p] = rows /\ \A q \in Procs : q # p => mem'[q] = mem[q]
  BY <1>1 DEF TypeOK
<1>4. TypeOK'
  BY <1>1, <1>2, <1>3 DEF TypeOK
<1>5. \A c \in Clients : Drift(mem'[p][c], rows'[c])
  BY <1>1, <1>3 DEF Drift
<1>6. SyncOK' /\ FileOK'
  BY <1>2, <1>5 DEF SyncOK, FileOK, Idle
<1> QED BY <1>2, <1>4, <1>6 DEF BInv

\* What the sync's commit makes of a row.
LEMMA SyncCommitRow ==
  ASSUME TypeOK, NEW p \in Procs, SyncCommit(p), NEW c \in Clients
  PROVE  LET n == Cleaned(mem[p][c], c \in chg[p]) IN
         /\ IsRow(rows'[c])
         /\ Drift(mem[p][c], rows[c]) =>
              /\ rows'[c].perm \/ rows'[c].temp = "live" => IsBlocked(n)
              /\ IsBlocked(n) => rows'[c].perm \/ rows'[c].temp # "none" \/ rows'[c].limit # "none"
              /\ rows[c].perm /\ rows[c].by /\ ~rows'[c].perm => c \in chg[p]
<1> DEFINE n == Cleaned(mem[p][c], c \in chg[p])
<1> DEFINE m == mem[p][c]
<1>1. PICK ch \in BOOLEAN : ch <=> c \in chg[p]
  OBVIOUS
<1>2. IsRow(rows[c]) /\ IsRow(m) /\ n = Cleaned(m, ch) /\ rows'[c] = Merged(rows[c], m, n)
  BY <1>1 DEF TypeOK, Cleaned, LiftPermanent, SyncCommit
<1> HIDE DEF m, n
<1>3. LET x == Merged(rows[c], m, Cleaned(m, ch)) IN
      /\ IsRow(x)
      /\ Drift(m, rows[c]) =>
           /\ x.perm \/ x.temp = "live" => IsBlocked(Cleaned(m, ch))
           /\ IsBlocked(Cleaned(m, ch)) => x.perm \/ x.temp # "none" \/ x.limit # "none"
           /\ rows[c].perm /\ rows[c].by /\ ~x.perm => ch
  BY <1>2, CommitRow
<1>4. /\ IsRow(rows'[c])
      /\ Drift(m, rows[c]) =>
           /\ rows'[c].perm \/ rows'[c].temp = "live" => IsBlocked(n)
           /\ IsBlocked(n) => rows'[c].perm \/ rows'[c].temp # "none" \/ rows'[c].limit # "none"
           /\ rows[c].perm /\ rows[c].by /\ ~rows'[c].perm => c \in chg[p]
  BY <1>1, <1>2, <1>3
<1> QED BY <1>4 DEF m, n

\* The sync's list and the rows it commits fit together.
LEMMA SyncCommitBInv ==
  ASSUME BInv, NEW p \in Procs, SyncCommit(p)
  PROVE  BInv'
<1> DEFINE new == [c \in Clients |-> Cleaned(mem[p][c], c \in chg[p])]
<1> DEFINE empty == [c \in Clients |-> NoBlock]
<1>1. /\ TypeOK /\ OneThread /\ pc[p] = "commit" /\ Becomes(p, "open")
      /\ rows' = [c \in Clients |-> Merged(rows[c], mem[p][c], new[c])]
      /\ blocked' = [blocked EXCEPT ![p] = {c \in Clients : IsBlocked(new[c])}]
      /\ mem' = [mem EXCEPT ![p] = empty] /\ chg' = [chg EXCEPT ![p] = {}]
      /\ UNCHANGED <<ban, seen, torn, overlap>>
  BY DEF SyncCommit, BInv
<1>2. /\ pc' \in [Procs -> {"idle", "import", "sync", "commit", "open", "write"}]
      /\ OneThread' /\ pc'[p] = "open"
      /\ ~overlap' => ~overlap /\ \A q \in Procs : q # p => pc'[q] = "idle"
  BY <1>1, GoesOn
<1>3. DOMAIN empty = Clients /\ \A c \in Clients : IsRow(empty[c])
  BY FirstRows
<1>4. \A c \in Clients : new[c] = Cleaned(mem[p][c], c \in chg[p])
  OBVIOUS
<1> HIDE DEF empty, new
<1>5. DOMAIN mem' = Procs /\ mem'[p] = empty /\ \A q \in Procs : q # p => mem'[q] = mem[q]
  BY <1>1 DEF TypeOK
<1>6. ASSUME NEW c \in Clients
      PROVE  /\ IsRow(rows'[c])
             /\ Drift(mem[p][c], rows[c]) =>
                  /\ rows'[c].perm \/ rows'[c].temp = "live" => IsBlocked(new[c])
                  /\ IsBlocked(new[c]) => rows'[c].perm \/ rows'[c].temp # "none" \/ rows'[c].limit # "none"
  BY <1>1, <1>4, SyncCommitRow
<1>7. DOMAIN rows' = Clients
  BY <1>1
<1>8. /\ blocked' \in [Procs -> SUBSET Clients] /\ blocked'[p] = {c \in Clients : IsBlocked(new[c])}
      /\ chg' \in [Procs -> SUBSET Clients]
  BY <1>1 DEF TypeOK
<1>9. TypeOK'
  BY <1>1, <1>2, <1>3, <1>5, <1>6, <1>7, <1>8 DEF TypeOK
<1>10. ~overlap' => \A c \in Clients : Fits(c, blocked'[p], rows'[c])
  <2>1. ASSUME ~overlap', NEW c \in Clients PROVE Fits(c, blocked'[p], rows'[c])
    <3>1. Drift(mem[p][c], rows[c])
      BY <1>1, <1>2, <2>1 DEF BInv, SyncOK
    <3>2. c \in blocked'[p] <=> IsBlocked(new[c])
      BY <1>8
    <3> QED BY <1>6, <3>1, <3>2 DEF Fits
  <2> QED BY <2>1
<1>11. SyncOK' /\ FileOK'
  BY <1>2, <1>10 DEF SyncOK, FileOK, Idle
<1> QED BY <1>2, <1>9, <1>11 DEF BInv

\* The file is truncated.
LEMMA SyncTruncateBInv ==
  ASSUME BInv, NEW p \in Procs, SyncTruncate(p)
  PROVE  BInv'
<1>1. /\ TypeOK /\ OneThread /\ pc[p] = "open" /\ Becomes(p, "write") /\ ban' = {}
      /\ UNCHANGED <<rows, chg, seen, mem, blocked, torn, overlap>>
  BY DEF SyncTruncate, BInv
<1>2. /\ pc' \in [Procs -> {"idle", "import", "sync", "commit", "open", "write"}]
      /\ OneThread' /\ pc'[p] = "write"
      /\ ~overlap' => ~overlap /\ \A q \in Procs : q # p => pc'[q] = "idle"
  BY <1>1, GoesOn
<1>3. TypeOK'
  BY <1>1, <1>2 DEF TypeOK
<1>4. SyncOK' /\ FileOK'
  BY <1>1, <1>2 DEF BInv, SyncOK, FileOK, Idle
<1> QED BY <1>2, <1>3, <1>4 DEF BInv

\* Alone, the thread writes its own list and nothing stays behind.
LEMMA SyncWriteBInv ==
  ASSUME BInv, NEW p \in Procs, SyncWrite(p)
  PROVE  BInv'
<1>1. /\ TypeOK /\ OneThread /\ pc[p] = "write" /\ Becomes(p, "idle")
      /\ \E rest \in SUBSET ban : ban' = blocked[p] \cup rest
      /\ blocked' = [blocked EXCEPT ![p] = {}] /\ torn' = FALSE
      /\ UNCHANGED <<rows, chg, seen, mem, overlap>>
  BY DEF SyncWrite, BInv
<1>2. /\ pc' \in [Procs -> {"idle", "import", "sync", "commit", "open", "write"}]
      /\ OneThread' /\ pc'[p] = "idle"
      /\ ~overlap' => ~overlap /\ \A q \in Procs : q # p => pc'[q] = "idle"
  BY <1>1, GoesOn
<1>3. TypeOK'
  <2>1. blocked[p] \subseteq Clients /\ blocked' \in [Procs -> SUBSET Clients]
    BY <1>1 DEF TypeOK
  <2> QED BY <1>1, <1>2, <2>1 DEF TypeOK
<1>4. ~overlap' => ban' = blocked[p] /\ \A c \in Clients : Fits(c, blocked[p], rows[c])
  BY <1>1, <1>2 DEF BInv, SyncOK
<1>5. SyncOK'
  BY <1>2 DEF SyncOK
<1>6. FileOK'
  BY <1>1, <1>4 DEF FileOK
<1> QED BY <1>2, <1>3, <1>5, <1>6 DEF BInv

\* A sync that was cut short claims nothing.
LEMMA FailBInv ==
  ASSUME BInv, NEW p \in Procs, Fail(p)
  PROVE  BInv'
<1> DEFINE empty == [c \in Clients |-> NoBlock]
<1>1. /\ TypeOK /\ OneThread /\ pc[p] # "idle" /\ Becomes(p, "idle") /\ torn' = TRUE
      /\ chg' = [chg EXCEPT ![p] = {}] /\ seen' = [seen EXCEPT ![p] = {}]
      /\ mem' = [mem EXCEPT ![p] = empty] /\ blocked' = [blocked EXCEPT ![p] = {}]
      /\ UNCHANGED <<rows, ban, overlap>>
  BY DEF Fail, BInv
<1>2. /\ pc' \in [Procs -> {"idle", "import", "sync", "commit", "open", "write"}]
      /\ OneThread' /\ pc'[p] = "idle"
      /\ ~overlap' => ~overlap /\ \A q \in Procs : q # p => pc'[q] = "idle"
  BY <1>1, GoesOn
<1>3. DOMAIN empty = Clients /\ \A c \in Clients : IsRow(empty[c])
  BY FirstRows
<1> HIDE DEF empty
<1>4. TypeOK'
  <2>1. DOMAIN mem' = Procs /\ mem'[p] = empty /\ \A q \in Procs : q # p => mem'[q] = mem[q]
    BY <1>1 DEF TypeOK
  <2>2. blocked' \in [Procs -> SUBSET Clients] /\ chg' \in [Procs -> SUBSET Clients] /\ seen' \in [Procs -> SUBSET Clients]
    BY <1>1 DEF TypeOK
  <2> QED BY <1>1, <1>2, <1>3, <2>1, <2>2 DEF TypeOK
<1>5. SyncOK' /\ FileOK'
  BY <1>1, <1>2 DEF SyncOK, FileOK
<1> QED BY <1>2, <1>4, <1>5 DEF BInv

\* Time and traffic keep what a session and a list of banned clients say of a row.
Passes(r, s) == /\ IsRow(s) /\ s.perm = r.perm /\ s.by = r.by
                /\ s.temp = r.temp \/ (r.temp = "live" /\ s.temp = "over")
                /\ s.limit = "none" <=> r.limit = "none"

\* Time and traffic disturb nothing.
LEMMA EnvironmentBInv ==
  ASSUME BInv, NEW c \in Clients, UNCHANGED <<ban, local, torn, overlap>>,
         DOMAIN rows' = Clients, \A d \in Clients : d # c => rows'[d] = rows[d],
         Passes(rows[c], rows'[c])
  PROVE  BInv'
<1>1. TypeOK /\ UNCHANGED <<pc, chg, seen, mem, blocked>>
  BY DEF BInv, local
<1>2. TypeOK'
  BY <1>1 DEF TypeOK, Passes
<1>3. \A d \in Clients : \A B : Fits(d, B, rows[d]) => Fits(d, B, rows'[d])
  BY DEF Fits, Passes
<1>4. \A d \in Clients : \A m : IsRow(m) /\ Drift(m, rows[d]) => Drift(m, rows'[d])
  BY DEF Drift, Passes
<1>5. OneThread'
  BY <1>1 DEF BInv, OneThread
<1>6. SyncOK'
  <2>1. \A p \in Procs, d \in Clients : IsRow(mem[p][d])
    BY <1>1 DEF TypeOK
  <2> QED BY <1>1, <1>3, <1>4, <2>1 DEF BInv, SyncOK
<1>7. FileOK'
  BY <1>1, <1>3 DEF BInv, FileOK, Idle
<1> QED BY <1>2, <1>5, <1>6, <1>7 DEF BInv

\* block_until passes, traffic is counted.
LEMMA RowPasses ==
  ASSUME TypeOK, NEW c \in Clients, TempEnds(c) \/ TrafficChanges(c)
  PROVE  /\ DOMAIN rows' = Clients /\ \A d \in Clients : d # c => rows'[d] = rows[d]
         /\ Passes(rows[c], rows'[c]) /\ UNCHANGED <<ban, local, torn, overlap>>
<1>0. IsRow(rows[c]) /\ UNCHANGED <<ban, local, torn, overlap>>
  BY DEF TempEnds, TrafficChanges, TypeOK
<1>1. CASE TempEnds(c)
  <2>1. rows[c].temp = "live" /\ rows' = [rows EXCEPT ![c].temp = "over"]
    BY <1>1 DEF TempEnds
  <2>2. DOMAIN rows' = Clients /\ (\A d \in Clients : d # c => rows'[d] = rows[d]) /\ rows'[c] = [rows[c] EXCEPT !.temp = "over"]
    BY <2>1 DEF TypeOK
  <2>3. Passes(rows[c], rows'[c])
    BY <1>0, <2>1, <2>2 DEF Passes, IsRow, Columns
  <2> QED BY <1>0, <2>2, <2>3
<1>2. ASSUME NEW a \in {"under", "over"}, NEW b \in {"under", "over"}, rows[c].limit = a, rows' = [rows EXCEPT ![c].limit = b]
      PROVE  /\ DOMAIN rows' = Clients /\ \A d \in Clients : d # c => rows'[d] = rows[d]
             /\ Passes(rows[c], rows'[c])
  <2>2. DOMAIN rows' = Clients /\ (\A d \in Clients : d # c => rows'[d] = rows[d]) /\ rows'[c] = [rows[c] EXCEPT !.limit = b]
    BY <1>2 DEF TypeOK
  <2>3. Passes(rows[c], rows'[c])
    BY <1>0, <1>2, <2>2 DEF Passes, IsRow, Columns
  <2> QED BY <2>2, <2>3
<1>3. CASE TrafficChanges(c)
  <2>1. \E a \in {"under", "over"}, b \in {"under", "over"} : rows[c].limit = a /\ rows' = [rows EXCEPT ![c].limit = b]
    BY <1>3 DEF TrafficChanges
  <2> QED BY <1>0, <1>2, <2>1
<1> QED BY <1>1, <1>3

-----------------------------------------------------------------------------
(* The theorems *)

\* The invariant holds at the start of the panel.
LEMMA InitBInv == Init => BInv
<1> SUFFICES ASSUME Init PROVE BInv
  OBVIOUS
<1>1. PICK old \in SUBSET ban : rows = [c \in Clients |-> IF c \in old THEN Legacy ELSE NoBlock]
  BY DEF Init
<1>2. DOMAIN rows = Clients /\ \A c \in Clients : IsRow(rows[c])
  BY <1>1, FirstRows
<1> DEFINE empty == [c \in Clients |-> NoBlock]
<1>3. DOMAIN empty = Clients /\ \A c \in Clients : IsRow(empty[c])
  BY FirstRows
<1>4. mem = [p \in Procs |-> empty]
  BY DEF Init
<1> HIDE DEF empty
<1>5. TypeOK
  BY <1>2, <1>3, <1>4 DEF Init, TypeOK
<1>6. OneThread /\ SyncOK /\ FileOK
  BY DEF Init, OneThread, SyncOK, FileOK
<1> QED BY <1>5, <1>6 DEF BInv

\* Every step keeps the invariant.
LEMMA NextBInv ==
  ASSUME BInv, [Next]_vars
  PROVE  BInv'
<1>1. CASE UNCHANGED vars
  BY <1>1 DEF BInv, TypeOK, OneThread, SyncOK, FileOK, Idle, vars, local
<1>2. ASSUME NEW p \in Procs, Step(p) \/ PageLoad(p) \/ TrafficPersisted(p) \/ Fail(p) PROVE BInv'
  BY <1>2, ImportBInv, SyncLoadBInv, SyncCommitBInv, SyncTruncateBInv, SyncWriteBInv,
     PageLoadBInv, TrafficPersistedBInv, FailBInv DEF Step
<1>3. ASSUME NEW p \in Procs, NEW c \in Clients, NEW op \in Ops, Post(p, c, op) PROVE BInv'
  BY <1>3, PostBInv
<1>4. ASSUME NEW c \in Clients, TempEnds(c) \/ TrafficChanges(c) PROVE BInv'
  BY <1>4, RowPasses, EnvironmentBInv DEF BInv
<1> QED BY <1>1, <1>2, <1>3, <1>4 DEF Next, Ops

\* Sessions, lists of banned clients and file fit the rows while requests have not
\* overlapped: the invariant behind BanlistExact and ManualBlockKept.
THEOREM Invariance == Spec => []BInv
<1>1. Init => BInv
  BY InitBInv
<1>2. BInv /\ [Next]_vars => BInv'
  BY NextBInv
<1> QED BY <1>1, <1>2, PTL DEF Spec

\* The banned_clients file is right whenever the last sync was complete and alone,
\* for any number of clients and threads and whatever happened before.
THEOREM FileIsExact == Spec => []BanlistExact
<1>1. BInv => BanlistExact
  BY DEF BInv, FileOK, Fits, BanlistExact
<1> QED BY <1>1, Invariance, PTL

\* Only a request about the client lifts the permanent block an administrator set:
\* no reconcile on behalf of another client, of the traffic or after a failure does.
THEOREM BlockIsKept == Spec => ManualBlockKept
<1> DEFINE Kept == \A c \in Clients : rows[c].perm /\ rows[c].by /\ ~rows'[c].perm /\ ~overlap =>
                     \/ \E p \in Procs : c \in chg[p]
                     \/ \E p \in Procs, op \in {"temp", "clear"} : Post(p, c, op)
<1>1. ASSUME BInv, [Next]_vars PROVE [Kept]_vars
  <2>1. SUFFICES ASSUME Next, NEW c \in Clients, rows[c].perm, rows[c].by, ~rows'[c].perm, ~overlap
                 PROVE  \/ \E p \in Procs : c \in chg[p]
                        \/ \E p \in Procs, op \in {"temp", "clear"} : Post(p, c, op)
    BY <1>1
  <2>2. TypeOK /\ IsRow(rows[c])
    BY <1>1 DEF BInv, TypeOK
  <2>3. ASSUME NEW p \in Procs, SyncCommit(p) PROVE c \in chg[p]
    <3>1. Drift(mem[p][c], rows[c])
      BY <1>1, <2>1, <2>3 DEF BInv, SyncOK, SyncCommit
    <3> QED BY <2>1, <2>2, <2>3, <3>1, SyncCommitRow
  <2>4. ASSUME NEW p \in Procs, Import(p) PROVE FALSE
    <3>1. rows'[c] = rows[c] \/ rows'[c] = [rows[c] EXCEPT !.perm = TRUE, !.reason = "manual_permanent"]
      BY <2>4 DEF Import
    <3> QED BY <2>1, <2>2, <3>1 DEF IsRow, Columns
  <2>5. ASSUME NEW p \in Procs, NEW d \in Clients, NEW op \in Ops, Post(p, d, op)
        PROVE  d = c /\ op \in {"temp", "clear"}
    <3>1. rows' = [rows EXCEPT ![d] = Posted(rows[d], op)]
      BY <2>5 DEF Post
    <3>2. d = c
      BY <2>1, <2>2, <3>1 DEF TypeOK
    <3>3. rows'[c] = Posted(rows[c], op)
      BY <2>2, <3>1, <3>2 DEF TypeOK
    <3> QED BY <2>1, <2>2, <3>2, <3>3, PostedFacts
  <2>6. ASSUME NEW d \in Clients, TempEnds(d) \/ TrafficChanges(d) PROVE FALSE
    <3>1. (\A x \in Clients : x # d => rows'[x] = rows[x]) /\ Passes(rows[d], rows'[d])
      BY <2>2, <2>6, RowPasses
    <3> QED BY <2>1, <3>1 DEF Passes
  <2>7. ~UNCHANGED rows
    BY <2>1
  <2>8. \A p \in Procs : ~(SyncLoad(p) \/ SyncTruncate(p) \/ SyncWrite(p) \/ PageLoad(p) \/ TrafficPersisted(p) \/ Fail(p))
    BY <2>7 DEF SyncLoad, SyncTruncate, SyncWrite, PageLoad, TrafficPersisted, Fail
  <2> QED BY <2>1, <2>3, <2>4, <2>5, <2>6, <2>8 DEF Next, Step, Ops
<1> QED BY <1>1, Invariance, PTL DEF Spec, ManualBlockKept
=============================================================================
