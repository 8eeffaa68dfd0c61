------------------------ MODULE WgAccessPolicyProofs ------------------------
(***************************************************************************)
(* The peers of the kernel and the policies of WgAccessPolicy, proved for  *)
(* any clients, processes and bounds.                                      *)
(***************************************************************************)
EXTENDS WgAccessPolicy, FiniteSetTheorems, TLAPS

Columns == {"known", "temp", "perm", "reason", "limit", "exp"}
IsRow(r) == DOMAIN r = Columns /\ r.known \in BOOLEAN /\ r.perm \in BOOLEAN

Job == [op : {"reconcile", "reapply", "block", "unblock", "cache", "set_expiry"}, c : Clients]

TypeOK ==
    /\ DOMAIN rows = Clients /\ \A c \in Clients : IsRow(rows[c])
    /\ conf \in [Clients -> Nat] /\ keys \in Nat
    /\ peers \subseteq Clients \X Nat
    /\ jobs \in [Procs -> Seq(Job)]
    /\ got \in [Procs -> [Clients -> Nat] \cup {NoKeys}] /\ cache \in [Clients -> Nat]

\* A subprocess that has collected its keys belongs to the first job.
Collected ==
    \A p \in Procs : got[p] # NoKeys => Head1(p, "unblock") \/ Head1(p, "block")

\* Work that has not overlapped is done by one process at a time.
OneBusy == overlap # "yes" => \A p, q \in Procs : ~Idle(p) /\ ~Idle(q) => p = q

\* The cache may lack a client; it names an old key only after a disturbance.
CacheOK == drift # "yes" => TrueCache

\* Between a sync and the next disturbance, and without overlap.
Calm == drift # "yes" /\ overlap # "yes"

\* The jobs of a calm process come from a request, the traffic or the sync, and
\* agree with the policies.
Agrees(j) ==
    /\ j.op \in {"reconcile", "reapply", "block", "unblock"}
    /\ j.op = "block" => j.c \in Blocked
    /\ j.op = "unblock" => j.c \in Unblocked

Raises(j, c) == j.op \in {"unblock", "reconcile"} /\ j.c = c
Lowers(j, c) == j.op = "reapply" \/ (j.op = "block" /\ j.c = c)

\* An unblock may load the whole interface: a blocked client has to be blocked again.
Covers(s, c) ==
    \A i \in DOMAIN s : s[i].op = "unblock" => \E j \in DOMAIN s : i < j /\ Lowers(s[j], c)

Up(c) == <<c, conf[c]>> \in peers

JobsOK ==
    Calm => \A p \in Procs :
        /\ \A j \in Range(jobs[p]) : Agrees(j)
        /\ got[p] \in {NoKeys, conf}
        /\ \A c \in Blocked : Covers(jobs[p], c)

\* Every client is where its policy wants it, or a job will bring it there.
PeersOK ==
    Calm => \A c \in Clients : conf[c] # 0 =>
        /\ c \in Unblocked => Up(c) \/ \E p \in Procs : \E j \in Range(jobs[p]) : Raises(j, c)
        /\ c \in Blocked =>
              \/ ~Up(c)
              \/ \E p \in Procs : \E j \in Range(jobs[p]) :
                    Lowers(j, c) \/ (j.op = "reconcile" /\ j.c = c)

\* Nothing but the configuration has ever been loaded.
KeysOK ==
    overlap = "never" =>
        /\ \A pr \in peers : pr[2] = conf[pr[1]]
        /\ \A p \in Procs : got[p] # NoKeys /\ Head1(p, "unblock") => got[p] = conf

PInv == TypeOK /\ Collected /\ OneBusy /\ CacheOK /\ JobsOK /\ PeersOK /\ KeysOK

-----------------------------------------------------------------------------
(* Rows *)

\* A client without a row.
LEMMA FirstRow == IsRow(NoRow)
  BY DEF IsRow, NoRow, Columns

\* Cleaning a row changes neither whether there is one nor what it says.
LEMMA CleanedFacts ==
  ASSUME NEW r, IsRow(r)
  PROVE  /\ IsRow(Cleaned(r)) /\ Cleaned(r).known = r.known
         /\ IsBlocked(Cleaned(r)) <=> IsBlocked(r)
<1> DEFINE s == IF r.temp = "over" THEN [r EXCEPT !.temp = "none"] ELSE r
<1> DEFINE n == [s EXCEPT !.reason = Reason(s)]
<1>1. /\ IsRow(s) /\ s.known = r.known /\ s.perm = r.perm /\ s.exp = r.exp /\ s.limit = r.limit
      /\ s.temp = "live" <=> r.temp = "live"
  BY DEF IsRow, Columns
<1> HIDE DEF s
<1>2. IsRow(n) /\ n.known = s.known /\ n.perm = s.perm /\ n.exp = s.exp /\ n.limit = s.limit /\ n.temp = s.temp
  BY <1>1 DEF IsRow, Columns
<1>3. Cleaned(r) = IF r.known THEN n ELSE r
  BY DEF Cleaned, s
<1> HIDE DEF n
<1> QED BY <1>1, <1>2, <1>3 DEF IsBlocked, Exceeded

\* A setter leaves a row.
LEMMA PostedFacts ==
  ASSUME NEW r, IsRow(r), NEW op \in PostOps
  PROVE  IsRow(Posted(r, op))
<1> DEFINE k == [r EXCEPT !.known = TRUE]
<1>1. IsRow(k)
  BY DEF IsRow, Columns
<1>2. Posted(r, op) =
    CASE op = "expiry" -> [k EXCEPT !.exp = "valid"]
      [] op = "temp"   -> [k EXCEPT !.temp = "live", !.perm = FALSE, !.reason = "manual_temp"]
      [] op = "perm"   -> [k EXCEPT !.temp = "none", !.perm = TRUE, !.reason = "manual_permanent"]
      [] op = "clear"  -> [k EXCEPT !.temp = "none", !.perm = FALSE,
                              !.reason = IF @ \in {"manual_temp", "manual_permanent"} THEN "none" ELSE @]
      [] op = "limit_under" -> [k EXCEPT !.limit = "under"]
      [] op = "limit_over"  -> [k EXCEPT !.limit = "over"]
      [] op = "unlimit"     -> [k EXCEPT !.limit = "none"]
  BY DEF Posted
<1> HIDE DEF k
<1>3. CASE op = "expiry"
  <2>1. Posted(r, op) = [k EXCEPT !.exp = "valid"]
    BY <1>2, <1>3
  <2> QED BY <1>1, <2>1 DEF IsRow, Columns
<1>4. CASE op = "temp"
  <2>1. Posted(r, op) = [k EXCEPT !.temp = "live", !.perm = FALSE, !.reason = "manual_temp"]
    BY <1>2, <1>4
  <2> QED BY <1>1, <2>1 DEF IsRow, Columns
<1>5. CASE op = "perm"
  <2>1. Posted(r, op) = [k EXCEPT !.temp = "none", !.perm = TRUE, !.reason = "manual_permanent"]
    BY <1>2, <1>5
  <2> QED BY <1>1, <2>1 DEF IsRow, Columns
<1>6. CASE op = "clear"
  <2>1. \E x : Posted(r, op) = [k EXCEPT !.temp = "none", !.perm = FALSE, !.reason = x]
    BY <1>2, <1>6
  <2> QED BY <1>1, <2>1 DEF IsRow, Columns
<1>7. CASE op \in {"limit_under", "limit_over", "unlimit"}
  <2>1. \E x : Posted(r, op) = [k EXCEPT !.limit = x]
    BY <1>2, <1>7
  <2> QED BY <1>1, <2>1 DEF IsRow, Columns
<1> QED BY <1>3, <1>4, <1>5, <1>6, <1>7 DEF PostOps

-----------------------------------------------------------------------------
(* Queues *)

\* Every client of a set is in its sequence, and no other.
LEMMA SetToSeqFacts ==
  ASSUME NEW S \in SUBSET Clients
  PROVE  \E n \in Nat : SetToSeq(S) \in [1..n -> S] /\ \A c \in S : \E i \in 1..n : SetToSeq(S)[i] = c
<1> DEFINE n == Cardinality(S)
<1>1. IsFiniteSet(S)
  BY ConstantsAssumption, FS_Subset
<1>2. n \in Nat /\ ExistsBijection(1..n, S)
  BY <1>1, FS_CardinalityType
<1>3. \E f \in [1..n -> S] : IsInjective(f)
  BY <1>2 DEF ExistsBijection, Bijection, Injection
<1>4. SetToSeq(S) \in [1..n -> S] /\ IsInjective(SetToSeq(S))
  BY <1>3 DEF SetToSeq
<1>5. SetToSeq(S) \in Injection(1..n, S)
  BY <1>4 DEF Injection
<1>6. Cardinality(1..n) = n
  BY <1>2, FS_Interval
<1>7. SetToSeq(S) \in Surjection(1..n, S)
  <2> DEFINE f == SetToSeq(S)
  <2> HIDE DEF f
  <2>1. f \in Injection(1..n, S)
    BY <1>5 DEF f
  <2>2. f \in Surjection(1..n, S)
    BY <1>1, <1>6, <2>1, FS_Injection
  <2> QED BY <2>2 DEF f
<1> QED BY <1>2, <1>4, <1>7 DEF Surjection

\* The jobs for a set of clients.
LEMMA JobsForFacts ==
  ASSUME NEW S \in SUBSET Clients, NEW op \in {"reconcile", "block", "unblock"}
  PROVE  /\ JobsFor(op, S) \in Seq(Job)
         /\ \A j \in Range(JobsFor(op, S)) : j.op = op /\ j.c \in S
         /\ \A c \in S : J(op, c) \in Range(JobsFor(op, S))
<1> DEFINE s == SetToSeq(S)
<1>1. PICK n \in Nat : s \in [1..n -> S] /\ \A c \in S : \E i \in 1..n : s[i] = c
  BY SetToSeqFacts
<1> HIDE DEF s
<1> DEFINE t == JobsFor(op, S)
<1>2. t = [i \in 1..n |-> J(op, s[i])]
  BY <1>1 DEF JobsFor, s
<1> HIDE DEF t
<1>3. t \in [1..n -> Job] /\ DOMAIN t = 1..n
  BY <1>1, <1>2 DEF J, Job
<1>4. t \in Seq(Job)
  BY <1>3
<1>5. \A i \in 1..n : t[i].op = op /\ t[i].c = s[i] /\ t[i] = J(op, s[i])
  BY <1>1, <1>2 DEF J
<1>6. \A c \in S : J(op, c) \in Range(t)
  BY <1>1, <1>3, <1>5 DEF Range
<1>7. \A j \in Range(t) : j.op = op /\ j.c \in S
  BY <1>1, <1>3, <1>5 DEF Range
<1> QED BY <1>4, <1>6, <1>7 DEF t

\* The first job is done and others take its place.
LEMMA Splice ==
  ASSUME NEW s \in Seq(Job), s # <<>>, NEW q \in Seq(Job)
  PROVE  LET t == q \o Tail(s) IN
         /\ t \in Seq(Job) /\ Head(s) \in Job
         /\ Range(t) = Range(q) \cup Range(Tail(s))
         /\ Range(s) = {Head(s)} \cup Range(Tail(s))
         /\ \A c : Covers(q, c) /\ Covers(s, c) => Covers(t, c)
         /\ \A c : Covers(s, c) /\ Head(s).op = "unblock" => \E j \in Range(Tail(s)) : Lowers(j, c)
<1> DEFINE u == Tail(s)
<1> DEFINE t == q \o u
<1>1. /\ Len(s) \in Nat /\ Len(s) > 0 /\ Head(s) = s[1] /\ Head(s) \in Job /\ DOMAIN s = 1..Len(s)
      /\ u \in Seq(Job) /\ Len(u) = Len(s) - 1 /\ DOMAIN u = 1..Len(u)
      /\ \A i \in 1..Len(u) : u[i] = s[i + 1]
  OBVIOUS
<1> HIDE DEF u
<1>2. /\ Len(q) \in Nat /\ DOMAIN q = 1..Len(q)
      /\ t \in Seq(Job) /\ Len(t) = Len(q) + Len(u) /\ DOMAIN t = 1..Len(t)
      /\ \A i \in 1..Len(q) : t[i] = q[i]
      /\ \A i \in 1..Len(u) : t[Len(q) + i] = u[i]
      /\ \A i \in 1..Len(t) : i > Len(q) => i - Len(q) \in 1..Len(u) /\ t[i] = u[i - Len(q)]
  <2>1. u \in Seq(Job) /\ Len(u) \in Nat
    BY <1>1
  <2>2. /\ Len(q) \in Nat /\ DOMAIN q = 1..Len(q)
        /\ t \in Seq(Job) /\ Len(t) = Len(q) + Len(u) /\ DOMAIN t = 1..Len(t)
        /\ \A i \in 1..Len(q) : t[i] = q[i]
        /\ \A i \in 1..Len(t) : i > Len(q) => i - Len(q) \in 1..Len(u) /\ t[i] = u[i - Len(q)]
    BY <2>1
  <2>3. \A i \in 1..Len(u) : t[Len(q) + i] = u[i]
    BY <2>1
  <2> QED BY <2>2, <2>3
<1> HIDE DEF t
<1>3. Range(t) = Range(q) \cup Range(u)
  <2>1. \A x \in Range(t) : x \in Range(q) \cup Range(u)
    <3> TAKE x \in Range(t)
    <3>1. PICK i \in 1..Len(t) : x = t[i]
      BY <1>2 DEF Range
    <3>2. CASE i > Len(q)
      BY <1>1, <1>2, <3>1, <3>2 DEF Range
    <3>3. CASE ~(i > Len(q))
      <4>1. i \in 1..Len(q)
        BY <1>1, <1>2, <3>3
      <4> QED BY <1>2, <3>1, <4>1 DEF Range
    <3> QED BY <3>2, <3>3
  <2>2. \A x \in Range(q) : x \in Range(t)
    <3> TAKE x \in Range(q)
    <3>1. PICK i \in 1..Len(q) : x = q[i]
      BY <1>2 DEF Range
    <3>2. i \in 1..Len(t)
      BY <1>1, <1>2
    <3> QED BY <1>2, <3>1, <3>2 DEF Range
  <2>3. \A x \in Range(u) : x \in Range(t)
    <3> TAKE x \in Range(u)
    <3>1. PICK i \in 1..Len(u) : x = u[i]
      BY <1>1 DEF Range
    <3>2. Len(q) + i \in 1..Len(t)
      BY <1>1, <1>2
    <3> QED BY <1>2, <3>1, <3>2 DEF Range
  <2> QED BY <2>1, <2>2, <2>3
<1>4. Range(s) = {Head(s)} \cup Range(u)
  <2>1. \A x \in Range(s) : x = Head(s) \/ x \in Range(u)
    <3> TAKE x \in Range(s)
    <3>1. PICK i \in 1..Len(s) : x = s[i]
      BY <1>1 DEF Range
    <3>2. CASE i # 1
      <4>1. i - 1 \in 1..Len(u) /\ u[i - 1] = s[i]
        BY <1>1, <3>2
      <4> QED BY <1>1, <3>1, <4>1 DEF Range
    <3> QED BY <1>1, <3>1, <3>2
  <2>2. \A x \in Range(u) : x \in Range(s)
    <3> TAKE x \in Range(u)
    <3>1. PICK i \in 1..Len(u) : x = u[i]
      BY <1>1 DEF Range
    <3>2. i + 1 \in 1..Len(s)
      BY <1>1
    <3> QED BY <1>1, <3>1, <3>2 DEF Range
  <2>3. Head(s) \in Range(s)
    <3>1. 1 \in 1..Len(s)
      BY <1>1
    <3> QED BY <1>1, <3>1 DEF Range
  <2> QED BY <2>1, <2>2, <2>3
<1>5. ASSUME NEW c, Covers(s, c), NEW i \in 1..Len(u), u[i].op = "unblock"
      PROVE  \E j \in 1..Len(u) : i < j /\ Lowers(u[j], c)
  <2>1. i + 1 \in DOMAIN s /\ s[i + 1].op = "unblock"
    BY <1>1, <1>5
  <2>2. PICK k \in DOMAIN s : i + 1 < k /\ Lowers(s[k], c)
    BY <1>5, <2>1 DEF Covers
  <2>3. k - 1 \in 1..Len(u) /\ i < k - 1 /\ u[k - 1] = s[k]
    BY <1>1, <2>2
  <2> QED BY <2>2, <2>3
<1>6. ASSUME NEW c, Covers(q, c), Covers(s, c)
      PROVE  Covers(t, c)
  <2> SUFFICES ASSUME NEW i \in 1..Len(t), t[i].op = "unblock"
               PROVE  \E j \in 1..Len(t) : i < j /\ Lowers(t[j], c)
    BY <1>2 DEF Covers
  <2>1. CASE i > Len(q)
    <3>1. i - Len(q) \in 1..Len(u) /\ u[i - Len(q)].op = "unblock"
      BY <1>1, <1>2, <2>1
    <3>2. PICK j \in 1..Len(u) : i - Len(q) < j /\ Lowers(u[j], c)
      BY <1>5, <1>6, <3>1
    <3>3. Len(q) + j \in 1..Len(t) /\ i < Len(q) + j /\ t[Len(q) + j] = u[j]
      BY <1>1, <1>2, <3>2
    <3> QED BY <3>2, <3>3
  <2>2. CASE ~(i > Len(q))
    <3>1. i \in 1..Len(q) /\ q[i].op = "unblock"
      BY <1>1, <1>2, <2>2
    <3>2. PICK j \in 1..Len(q) : i < j /\ Lowers(q[j], c)
      BY <1>2, <1>6, <3>1 DEF Covers
    <3>3. j \in 1..Len(t) /\ t[j] = q[j]
      BY <1>1, <1>2, <3>2
    <3> QED BY <3>2, <3>3
  <2> QED BY <2>1, <2>2
<1>7. ASSUME NEW c, Covers(s, c), Head(s).op = "unblock"
      PROVE  \E j \in Range(u) : Lowers(j, c)
  <2>1. 1 \in DOMAIN s /\ s[1].op = "unblock"
    BY <1>1, <1>7
  <2>2. PICK k \in DOMAIN s : 1 < k /\ Lowers(s[k], c)
    BY <1>7, <2>1 DEF Covers
  <2>3. k - 1 \in 1..Len(u) /\ u[k - 1] = s[k]
    BY <1>1, <2>2
  <2> QED BY <1>1, <2>2, <2>3 DEF Range
<1> QED BY <1>1, <1>2, <1>3, <1>4, <1>6, <1>7 DEF t, u

\* Without an unblock nothing has to be blocked again.
LEMMA CoversNone ==
  ASSUME NEW s, NEW c, \A j \in Range(s) : j.op # "unblock"
  PROVE  Covers(s, c)
  BY DEF Covers, Range

\* The short queues of the requests and of reconcile_client_policy.
LEMMA ShortQueues ==
  ASSUME NEW a \in Job, NEW b \in Job
  PROVE  /\ <<>> \in Seq(Job) /\ Range(<<>>) = {}
         /\ <<a>> \in Seq(Job) /\ Range(<<a>>) = {a}
         /\ <<a, b>> \in Seq(Job) /\ Range(<<a, b>>) = {a, b}
         /\ \A c : b.op = "reapply" => Covers(<<a, b>>, c)
<1>1. <<>> \in Seq(Job) /\ <<a>> \in Seq(Job) /\ <<a, b>> \in Seq(Job)
  OBVIOUS
<1>2. Range(<<>>) = {} /\ Range(<<a>>) = {a}
  BY DEF Range
<1> DEFINE s == <<a, b>>
<1>3. DOMAIN s = {1, 2} /\ s[1] = a /\ s[2] = b
  OBVIOUS
<1> HIDE DEF s
<1>4. Range(s) = {a, b}
  BY <1>3 DEF Range
<1>5. \A c : b.op = "reapply" => Covers(s, c)
  BY <1>3 DEF Covers, Lowers
<1> QED BY <1>1, <1>2, <1>4, <1>5 DEF s

\* The queue of the policy sync: the blocks follow the unblocks.
LEMMA SyncQueue ==
  ASSUME NEW U \in SUBSET Clients, NEW B \in SUBSET Clients
  PROVE  LET t == JobsFor("unblock", U) \o JobsFor("block", B) IN
         /\ t \in Seq(Job)
         /\ \A j \in Range(t) : \/ j.op = "unblock" /\ j.c \in U
                                \/ j.op = "block" /\ j.c \in B
         /\ \A c \in U : \E j \in Range(t) : Raises(j, c)
         /\ \A c \in B : Covers(t, c) /\ \E j \in Range(t) : Lowers(j, c)
<1> DEFINE q == JobsFor("unblock", U)
<1> DEFINE u == JobsFor("block", B)
<1> DEFINE t == q \o u
<1>1. /\ q \in Seq(Job) /\ u \in Seq(Job)
      /\ \A j \in Range(q) : j.op = "unblock" /\ j.c \in U
      /\ \A j \in Range(u) : j.op = "block" /\ j.c \in B
      /\ \A c \in U : J("unblock", c) \in Range(q)
      /\ \A c \in B : J("block", c) \in Range(u)
  BY JobsForFacts
<1> HIDE DEF q, u
<1>2. /\ Len(q) \in Nat /\ DOMAIN q = 1..Len(q) /\ Len(u) \in Nat /\ DOMAIN u = 1..Len(u)
      /\ t \in Seq(Job) /\ Len(t) = Len(q) + Len(u) /\ DOMAIN t = 1..Len(t)
      /\ \A i \in 1..Len(q) : t[i] = q[i]
      /\ \A i \in 1..Len(u) : t[Len(q) + i] = u[i]
      /\ \A i \in 1..Len(t) : i > Len(q) => i - Len(q) \in 1..Len(u) /\ t[i] = u[i - Len(q)]
  BY <1>1
<1> HIDE DEF t
<1>3. \A i \in 1..Len(t) : \/ i \in 1..Len(q) /\ t[i].op = "unblock" /\ t[i].c \in U
                           \/ i > Len(q) /\ t[i].op = "block" /\ t[i].c \in B
  <2> TAKE i \in 1..Len(t)
  <2>1. CASE i > Len(q)
    <3>1. i - Len(q) \in DOMAIN u /\ t[i] = u[i - Len(q)]
      BY <1>2, <2>1
    <3>2. t[i] \in Range(u)
      BY <3>1 DEF Range
    <3> QED BY <1>1, <2>1, <3>2
  <2>2. CASE ~(i > Len(q))
    <3>1. i \in 1..Len(q)
      BY <1>2, <2>2
    <3> QED BY <1>1, <1>2, <3>1 DEF Range
  <2> QED BY <2>1, <2>2
<1>4. \A c \in U : \E j \in Range(t) : Raises(j, c)
  <2> TAKE c \in U
  <2>1. PICK i \in 1..Len(q) : q[i] = J("unblock", c)
    BY <1>1, <1>2 DEF Range
  <2>2. i \in 1..Len(t)
    BY <1>2
  <2> QED BY <1>2, <2>1, <2>2 DEF Range, Raises, J
<1>5. ASSUME NEW c \in B
      PROVE  \E k \in 1..Len(t) : k > Len(q) /\ Lowers(t[k], c)
  <2>1. PICK i \in 1..Len(u) : u[i] = J("block", c)
    BY <1>1, <1>2 DEF Range
  <2>2. Len(q) + i \in 1..Len(t) /\ Len(q) + i > Len(q)
    BY <1>2
  <2> QED BY <1>2, <2>1, <2>2 DEF Lowers, J
<1>6. \A c \in B : Covers(t, c) /\ \E j \in Range(t) : Lowers(j, c)
  <2> TAKE c \in B
  <2>1. PICK k \in 1..Len(t) : k > Len(q) /\ Lowers(t[k], c)
    BY <1>5
  <2>2. \A i \in 1..Len(t) : t[i].op = "unblock" => i < k
    BY <1>2, <1>3, <2>1
  <2> QED BY <1>2, <2>1, <2>2 DEF Covers, Range
<1>7. \A j \in Range(t) : (j.op = "unblock" /\ j.c \in U) \/ (j.op = "block" /\ j.c \in B)
  BY <1>2, <1>3 DEF Range
<1> QED BY <1>2, <1>4, <1>6, <1>7 DEF t, q, u

-----------------------------------------------------------------------------
(* Parts of a step *)

\* The rows say of every client what they said before.
SameSay ==
    /\ DOMAIN rows' = Clients
    /\ \A c \in Clients : /\ IsRow(rows'[c]) /\ rows'[c].known = rows[c].known
                          /\ IsBlocked(rows'[c]) <=> IsBlocked(rows[c])

\* Nothing is written, or rows are cleaned.
LEMMA CleanedRows ==
  ASSUME TypeOK,
         \/ UNCHANGED rows
         \/ rows' = [c \in Clients |-> Cleaned(rows[c])]
         \/ \E c \in Clients : rows' = [rows EXCEPT ![c] = Cleaned(@)]
  PROVE  SameSay /\ Blocked' = Blocked /\ Unblocked' = Unblocked
<1>1. \A c \in Clients : IsRow(rows[c]) /\ IsRow(Cleaned(rows[c])) /\ Cleaned(rows[c]).known = rows[c].known
                         /\ (IsBlocked(Cleaned(rows[c])) <=> IsBlocked(rows[c]))
  BY CleanedFacts DEF TypeOK
<1>2. DOMAIN rows' = Clients /\ \A c \in Clients : rows'[c] \in {rows[c], Cleaned(rows[c])}
  BY DEF TypeOK
<1>3. SameSay
  BY <1>1, <1>2 DEF SameSay
<1> QED BY <1>3 DEF SameSay, Blocked, Unblocked

\* A process goes on to its next job.
LEMMA QueueStep ==
  ASSUME TypeOK, Collected, OneBusy, NEW p \in Procs, ~Idle(p), NEW q \in Seq(Job),
         Continues(p, q), overlap' = overlap,
         got' = [got EXCEPT ![p] = NoKeys] \/ (got' = got /\ got[p] = NoKeys)
  PROVE  /\ jobs' \in [Procs -> Seq(Job)] /\ OneBusy' /\ Collected'
         /\ jobs'[p] = q \o Tail(jobs[p]) /\ \A r \in Procs \ {p} : jobs'[r] = jobs[r]
         /\ got' \in [Procs -> [Clients -> Nat] \cup {NoKeys}]
         /\ got'[p] = NoKeys /\ \A r \in Procs \ {p} : got'[r] = got[r]
<1>1. jobs[p] \in Seq(Job) /\ jobs[p] # <<>> /\ q \o Tail(jobs[p]) \in Seq(Job)
  BY Splice DEF TypeOK, Idle
<1>2. /\ jobs' \in [Procs -> Seq(Job)]
      /\ jobs'[p] = q \o Tail(jobs[p]) /\ \A r \in Procs \ {p} : jobs'[r] = jobs[r]
  BY <1>1 DEF TypeOK, Continues
<1>3. OneBusy'
  BY <1>2 DEF OneBusy, Idle
<1>4. /\ got' \in [Procs -> [Clients -> Nat] \cup {NoKeys}]
      /\ got'[p] = NoKeys /\ \A r \in Procs \ {p} : got'[r] = got[r]
  BY DEF TypeOK
<1>5. Collected'
  BY <1>2, <1>4 DEF Collected, Head1, Idle
<1> QED BY <1>2, <1>3, <1>4, <1>5

\* A calm process goes on: its new jobs agree with the policies.
LEMMA JobsFrame ==
  ASSUME PInv, NEW p \in Procs, ~Idle(p), NEW q \in Seq(Job),
         jobs'[p] = q \o Tail(jobs[p]), \A r \in Procs \ {p} : jobs'[r] = jobs[r],
         Blocked' = Blocked, Unblocked' = Unblocked, conf' = conf, Calm' => Calm,
         Calm => \A j \in Range(q) : Agrees(j),
         Calm => \A c \in Blocked : Covers(q, c),
         \A r \in Procs : got'[r] \in {got[r], NoKeys}
  PROVE  JobsOK'
<1> SUFFICES ASSUME Calm', NEW r \in Procs
             PROVE  /\ \A j \in Range(jobs'[r]) : Agrees(j)'
                    /\ got'[r] \in {NoKeys, conf'}
                    /\ \A c \in Blocked' : Covers(jobs'[r], c)
  BY DEF JobsOK
<1>1. /\ \A j \in Range(jobs[r]) : Agrees(j)
      /\ got[r] \in {NoKeys, conf}
      /\ \A c \in Blocked : Covers(jobs[r], c)
  BY DEF PInv, JobsOK
<1>2. got'[r] \in {NoKeys, conf'}
  BY <1>1
<1>3. \A j : Agrees(j) => Agrees(j)'
  BY DEF Agrees
<1>4. CASE r # p
  BY <1>1, <1>2, <1>3, <1>4
<1>5. CASE r = p
  <2>1. jobs[p] \in Seq(Job) /\ jobs[p] # <<>>
    BY DEF PInv, TypeOK, Idle
  <2>2. /\ Range(jobs'[p]) = Range(q) \cup Range(Tail(jobs[p]))
        /\ Range(jobs[p]) = {Head(jobs[p])} \cup Range(Tail(jobs[p]))
        /\ \A c : Covers(q, c) /\ Covers(jobs[p], c) => Covers(jobs'[p], c)
    BY <2>1, Splice
  <2> QED BY <1>1, <1>2, <1>3, <1>5, <2>2
<1> QED BY <1>4, <1>5

Fixes(j, c) == Lowers(j, c) \/ (j.op = "reconcile" /\ j.c = c)

\* A calm process goes on: what its first job was to do for a client is done, or
\* follows.
LEMMA PeersFrame ==
  ASSUME PInv, NEW p \in Procs, ~Idle(p), NEW q \in Seq(Job),
         jobs'[p] = q \o Tail(jobs[p]), \A r \in Procs \ {p} : jobs'[r] = jobs[r],
         Blocked' = Blocked, Unblocked' = Unblocked, conf' = conf, Calm' => Calm,
         ASSUME NEW c \in Unblocked, conf[c] # 0, Calm
         PROVE  /\ Up(c) => Up(c)'
                /\ Raises(Head(jobs[p]), c) => Up(c)' \/ \E j \in Range(q) : Raises(j, c),
         ASSUME NEW c \in Blocked, conf[c] # 0, Calm
         PROVE  /\ ~Up(c) => ~Up(c)' \/ \E j \in Range(Tail(jobs[p])) : Lowers(j, c)
                /\ Fixes(Head(jobs[p]), c) => ~Up(c)' \/ \E j \in Range(q) : Fixes(j, c)
  PROVE  PeersOK'
<1>1. jobs[p] \in Seq(Job) /\ jobs[p] # <<>>
  BY DEF PInv, TypeOK, Idle
<1>2. /\ Range(jobs'[p]) = Range(q) \cup Range(Tail(jobs[p]))
      /\ Range(jobs[p]) = {Head(jobs[p])} \cup Range(Tail(jobs[p]))
  BY <1>1, Splice
<1>3. \A r \in Procs : \A j \in Range(jobs[r]) : (r = p /\ j = Head(jobs[p])) \/ j \in Range(jobs'[r])
  BY <1>2
<1>4. \A j \in Range(q) \cup Range(Tail(jobs[p])) : j \in Range(jobs'[p])
  BY <1>2
<1>5. ASSUME Calm', NEW c \in Clients, conf[c] # 0, c \in Unblocked
      PROVE  Up(c)' \/ \E r \in Procs : \E j \in Range(jobs'[r]) : Raises(j, c)
  <2>0. Calm
    BY <1>5
  <2>1. Up(c) \/ \E r \in Procs : \E j \in Range(jobs[r]) : Raises(j, c)
    BY <1>5, <2>0 DEF PInv, PeersOK
  <2>2. /\ Up(c) => Up(c)'
        /\ Raises(Head(jobs[p]), c) => Up(c)' \/ \E j \in Range(q) : Raises(j, c)
    BY <1>5, <2>0
  <2> QED BY <1>3, <1>4, <2>1, <2>2
<1>6. ASSUME Calm', NEW c \in Clients, conf[c] # 0, c \in Blocked
      PROVE  ~Up(c)' \/ \E r \in Procs : \E j \in Range(jobs'[r]) : Fixes(j, c)
  <2>0. Calm
    BY <1>6
  <2>1. ~Up(c) \/ \E r \in Procs : \E j \in Range(jobs[r]) : Fixes(j, c)
    BY <1>6, <2>0 DEF PInv, PeersOK, Fixes
  <2>2. /\ ~Up(c) => ~Up(c)' \/ \E j \in Range(Tail(jobs[p])) : Lowers(j, c)
        /\ Fixes(Head(jobs[p]), c) => ~Up(c)' \/ \E j \in Range(q) : Fixes(j, c)
    BY <1>6, <2>0
  <2>3. \A j : Lowers(j, c) => Fixes(j, c)
    BY DEF Fixes
  <2> QED BY <1>3, <1>4, <2>1, <2>2, <2>3
<1> QED BY <1>5, <1>6 DEF PeersOK, Fixes

\* The process does not touch the peers, and the keys it collected are gone.
LEMMA KeysFrame ==
  ASSUME KeysOK, conf' = conf, peers' \subseteq peers, overlap' = "never" => overlap = "never",
         \A r \in Procs : got'[r] = NoKeys \/ (got'[r] = got[r] /\ jobs'[r] = jobs[r])
  PROVE  KeysOK'
  BY DEF KeysOK, Head1, Idle

-----------------------------------------------------------------------------
(* Jobs *)

\* No subprocess runs while the first job is one of the panel's own.
LEMMA NotCollected ==
  ASSUME TypeOK, Collected, NEW p \in Procs, NEW op, op \notin {"unblock", "block"}, Head1(p, op)
  PROVE  got[p] = NoKeys /\ jobs[p] \in Seq(Job) /\ jobs[p] # <<>> /\ Head(jobs[p]) \in Job /\ Head(jobs[p]).c \in Clients
<1>1. jobs[p] \in Seq(Job) /\ jobs[p] # <<>>
  BY DEF TypeOK, Head1, Idle
<1>2. Head(jobs[p]) \in Job
  BY <1>1
<1> QED BY <1>1, <1>2 DEF Collected, Head1, Job

\* The expiry of a new client: never in a calm state.
LEMMA SetExpiryKeeps ==
  ASSUME PInv, NEW p \in Procs, SetExpiry(p)
  PROVE  PInv'
<1> DEFINE c == Head(jobs[p]).c
<1> DEFINE q == <<J("reconcile", c)>>
<1>1. TypeOK /\ Collected /\ OneBusy /\ KeysOK /\ Head1(p, "set_expiry") /\ ~Idle(p)
  BY DEF PInv, SetExpiry, Head1
<1>2. got[p] = NoKeys /\ c \in Clients /\ Head(jobs[p]) \in Range(jobs[p])
  BY <1>1, NotCollected, Splice, ShortQueues
<1>3. /\ rows' = [rows EXCEPT ![c] = Posted(@, "expiry")] /\ Continues(p, q)
      /\ UNCHANGED <<conf, cache, peers, got, keys, drift, overlap>>
  BY DEF SetExpiry, bounds
<1>4. q \in Seq(Job)
  BY <1>2, ShortQueues DEF J, Job
<1> HIDE DEF c, q
<1>5. DOMAIN rows' = Clients /\ \A d \in Clients : IsRow(rows'[d])
  <2>1. IsRow(Posted(rows[c], "expiry"))
    BY <1>1, <1>2, PostedFacts DEF TypeOK, PostOps
  <2> QED BY <1>1, <1>3, <2>1 DEF TypeOK
<1>6. /\ jobs' \in [Procs -> Seq(Job)] /\ OneBusy' /\ Collected'
      /\ \A r \in Procs \ {p} : jobs'[r] = jobs[r]
  BY <1>1, <1>2, <1>3, <1>4, QueueStep
<1>7. TypeOK' /\ CacheOK'
  BY <1>1, <1>3, <1>5, <1>6 DEF TypeOK, PInv, CacheOK, TrueCache
<1>8. ~Calm'
  BY <1>1, <1>2, <1>3 DEF PInv, JobsOK, Agrees, Calm, Head1
<1>9. KeysOK'
  BY <1>1, <1>2, <1>3, <1>6, KeysFrame
<1> QED BY <1>6, <1>7, <1>8, <1>9 DEF PInv, JobsOK, PeersOK

\* The forced sync of the cache: never in a calm state.
LEMMA CacheForcedKeeps ==
  ASSUME PInv, NEW p \in Procs, CacheForced(p)
  PROVE  PInv'
<1>1. TypeOK /\ Collected /\ OneBusy /\ KeysOK /\ Head1(p, "cache") /\ ~Idle(p)
  BY DEF PInv, CacheForced, Head1
<1>2. got[p] = NoKeys /\ Head(jobs[p]) \in Range(jobs[p])
  BY <1>1, NotCollected, Splice, ShortQueues
<1>3. /\ cache' = conf /\ Continues(p, <<>>)
      /\ UNCHANGED <<rows, conf, peers, got, keys, drift, overlap>>
  BY DEF CacheForced, bounds
<1>4. <<>> \in Seq(Job)
  OBVIOUS
<1>6. /\ jobs' \in [Procs -> Seq(Job)] /\ OneBusy' /\ Collected'
      /\ \A r \in Procs \ {p} : jobs'[r] = jobs[r]
  BY <1>1, <1>2, <1>3, <1>4, QueueStep
<1>7. TypeOK' /\ CacheOK'
  BY <1>1, <1>3, <1>6 DEF TypeOK, PInv, CacheOK, TrueCache
<1>8. ~Calm'
  BY <1>1, <1>2, <1>3 DEF PInv, JobsOK, Agrees, Calm, Head1
<1>9. KeysOK'
  BY <1>1, <1>2, <1>3, <1>6, KeysFrame
<1> QED BY <1>6, <1>7, <1>8, <1>9 DEF PInv, JobsOK, PeersOK

\* reconcile_client_policy leaves the jobs that bring its client where it belongs.
LEMMA ReconcileKeeps ==
  ASSUME PInv, NEW p \in Procs, Reconcile(p)
  PROVE  PInv'
<1> DEFINE c == Head(jobs[p]).c
<1> DEFINE q == CASE c \in Blocked   -> <<J("block", c)>>
                  [] c \in Unblocked -> <<J("unblock", c), J("reapply", c)>>
                  [] OTHER           -> <<>>
<1>1. TypeOK /\ Collected /\ OneBusy /\ KeysOK /\ Head1(p, "reconcile") /\ ~Idle(p)
  BY DEF PInv, Reconcile, Head1
<1>2. got[p] = NoKeys /\ c \in Clients
  BY <1>1, NotCollected
<1>3. /\ rows' = [rows EXCEPT ![c] = Cleaned(@)] /\ Continues(p, q)
      /\ UNCHANGED <<conf, cache, peers, got, keys, drift, overlap>>
  BY DEF Reconcile, bounds
<1>4. Head(jobs[p]).op = "reconcile"
  BY <1>1 DEF Head1
<1>q. /\ q \in Seq(Job) /\ \A j \in Range(q) : Agrees(j)
      /\ \A d : Covers(q, d)
      /\ c \in Unblocked => \E j \in Range(q) : Raises(j, c)
      /\ c \in Blocked => \E j \in Range(q) : Fixes(j, c)
  <2> DEFINE b == J("block", c)
  <2> DEFINE u == J("unblock", c)
  <2> DEFINE a == J("reapply", c)
  <2>1. /\ b \in Job /\ u \in Job /\ a \in Job
        /\ b.op = "block" /\ b.c = c /\ u.op = "unblock" /\ u.c = c /\ a.op = "reapply"
    BY <1>2 DEF J, Job
  <2>0. Blocked \cap Unblocked = {}
    BY DEF Blocked, Unblocked
  <2>2. CASE c \in Blocked
    <3>1. q = <<b>>
      BY <2>0, <2>2
    <3> HIDE DEF q, b, u, a, c
    <3>2. q \in Seq(Job) /\ Range(q) = {b}
      BY <2>1, <3>1, ShortQueues
    <3>3. \A d : Covers(q, d)
      BY <2>1, <3>2, CoversNone
    <3> QED BY <2>0, <2>1, <2>2, <3>2, <3>3 DEF Agrees, Fixes, Lowers
  <2>3. CASE c \in Unblocked
    <3>1. q = <<u, a>>
      BY <2>0, <2>3
    <3> HIDE DEF q, b, u, a, c
    <3>2. q \in Seq(Job) /\ Range(q) = {u, a} /\ \A d : Covers(q, d)
      BY <2>1, <3>1, ShortQueues
    <3> QED BY <2>0, <2>1, <2>3, <3>2 DEF Agrees, Raises
  <2>4. CASE c \notin Blocked /\ c \notin Unblocked
    <3>1. q = <<>>
      BY <2>4
    <3> HIDE DEF q, b, u, a, c
    <3>2. q \in Seq(Job) /\ Range(q) = {}
      BY <2>1, <3>1, ShortQueues
    <3>3. \A d : Covers(q, d)
      BY <3>2, CoversNone
    <3> QED BY <2>4, <3>2, <3>3
  <2> QED BY <2>2, <2>3, <2>4
<1>5. \A d : (Raises(Head(jobs[p]), d) \/ Fixes(Head(jobs[p]), d)) => d = c
  BY <1>4 DEF Raises, Fixes, Lowers
<1> HIDE DEF c, q
<1>6. SameSay /\ Blocked' = Blocked /\ Unblocked' = Unblocked
  BY <1>1, <1>2, <1>3, CleanedRows
<1>7. /\ jobs' \in [Procs -> Seq(Job)] /\ OneBusy' /\ Collected'
      /\ jobs'[p] = q \o Tail(jobs[p]) /\ \A r \in Procs \ {p} : jobs'[r] = jobs[r]
  BY <1>1, <1>2, <1>3, <1>q, QueueStep
<1>8. TypeOK' /\ CacheOK'
  BY <1>1, <1>3, <1>6, <1>7 DEF TypeOK, PInv, CacheOK, TrueCache, SameSay
<1>9. Calm' => Calm
  BY <1>3 DEF Calm
<1>10. JobsOK'
  BY <1>1, <1>3, <1>6, <1>7, <1>9, <1>q, JobsFrame
<1>11. PeersOK'
  <2>1. \A d : Up(d)' <=> Up(d)
    BY <1>3 DEF Up
  <2>3. ASSUME NEW d \in Unblocked, conf[d] # 0, Calm
        PROVE  /\ Up(d) => Up(d)'
               /\ Raises(Head(jobs[p]), d) => Up(d)' \/ \E j \in Range(q) : Raises(j, d)
    BY <1>5, <1>q, <2>1
  <2>4. ASSUME NEW d \in Blocked, conf[d] # 0, Calm
        PROVE  /\ ~Up(d) => ~Up(d)' \/ \E j \in Range(Tail(jobs[p])) : Lowers(j, d)
               /\ Fixes(Head(jobs[p]), d) => ~Up(d)' \/ \E j \in Range(q) : Fixes(j, d)
    BY <1>5, <1>q, <2>1
  <2> QED BY <1>1, <1>3, <1>6, <1>7, <1>9, <1>q, <2>3, <2>4, PeersFrame
<1>12. KeysOK'
  BY <1>1, <1>2, <1>3, <1>7, KeysFrame
<1> QED BY <1>7, <1>8, <1>10, <1>11, <1>12 DEF PInv

\* _reapply_all_blocked_runtime leaves a block for every blocked client.
LEMMA ReapplyKeeps ==
  ASSUME PInv, NEW p \in Procs, Reapply(p)
  PROVE  PInv'
<1> DEFINE q == JobsFor("block", Blocked)
<1>1. TypeOK /\ Collected /\ OneBusy /\ KeysOK /\ Head1(p, "reapply") /\ ~Idle(p)
  BY DEF PInv, Reapply, Head1
<1>2. got[p] = NoKeys
  BY <1>1, NotCollected
<1>3. Continues(p, q) /\ UNCHANGED <<rows, conf, cache, peers, got, keys, drift, overlap>>
  BY DEF Reapply, bounds
<1>4. Head(jobs[p]).op = "reapply"
  BY <1>1 DEF Head1
<1>5. Blocked \in SUBSET Clients
  BY DEF Blocked
<1>q. /\ q \in Seq(Job) /\ \A j \in Range(q) : j.op = "block" /\ j.c \in Blocked
      /\ \A c \in Blocked : J("block", c) \in Range(q)
  BY <1>5, JobsForFacts
<1> HIDE DEF q
<1>r. /\ \A j \in Range(q) : Agrees(j)
      /\ \A c : Covers(q, c)
      /\ \A c \in Blocked : \E j \in Range(q) : Fixes(j, c)
  <2>1. \A c : Covers(q, c)
    BY <1>q, CoversNone
  <2> QED BY <1>q, <2>1 DEF Agrees, Fixes, Lowers, J
<1>6. SameSay /\ Blocked' = Blocked /\ Unblocked' = Unblocked
  BY <1>1, <1>3, CleanedRows
<1>7. /\ jobs' \in [Procs -> Seq(Job)] /\ OneBusy' /\ Collected'
      /\ jobs'[p] = q \o Tail(jobs[p]) /\ \A r \in Procs \ {p} : jobs'[r] = jobs[r]
  BY <1>1, <1>2, <1>3, <1>q, QueueStep
<1>8. TypeOK' /\ CacheOK'
  BY <1>1, <1>3, <1>6, <1>7 DEF TypeOK, PInv, CacheOK, TrueCache, SameSay
<1>9. Calm' => Calm
  BY <1>3 DEF Calm
<1>10. JobsOK'
  BY <1>1, <1>3, <1>6, <1>7, <1>9, <1>q, <1>r, JobsFrame
<1>11. PeersOK'
  <2>1. \A c : Up(c)' <=> Up(c)
    BY <1>3 DEF Up
  <2>2. \A c : ~Raises(Head(jobs[p]), c)
    BY <1>4 DEF Raises
  <2>3. ASSUME NEW c \in Unblocked, conf[c] # 0, Calm
        PROVE  /\ Up(c) => Up(c)'
               /\ Raises(Head(jobs[p]), c) => Up(c)' \/ \E j \in Range(q) : Raises(j, c)
    BY <2>1, <2>2
  <2>4. ASSUME NEW c \in Blocked, conf[c] # 0, Calm
        PROVE  /\ ~Up(c) => ~Up(c)' \/ \E j \in Range(Tail(jobs[p])) : Lowers(j, c)
               /\ Fixes(Head(jobs[p]), c) => ~Up(c)' \/ \E j \in Range(q) : Fixes(j, c)
    BY <1>r, <2>1
  <2> QED BY <1>1, <1>3, <1>6, <1>7, <1>9, <1>q, <2>3, <2>4, PeersFrame
<1>12. KeysOK'
  BY <1>1, <1>2, <1>3, <1>7, KeysFrame
<1> QED BY <1>7, <1>8, <1>10, <1>11, <1>12 DEF PInv

\* In a calm state a subprocess has the keys of the configuration, and the first
\* job is its own.
LEMMA CalmKeys ==
  ASSUME PInv, NEW p \in Procs, got[p] # NoKeys
  PROVE  /\ ~Idle(p) /\ jobs[p] \in Seq(Job) /\ jobs[p] # <<>>
         /\ Head(jobs[p]) \in Job /\ Head(jobs[p]).c \in Clients
         /\ Head(jobs[p]).op \in {"unblock", "block"}
         /\ got[p] \in [Clients -> Nat]
         /\ Calm => got[p] = conf /\ Agrees(Head(jobs[p]))
<1>1. ~Idle(p) /\ Head(jobs[p]).op \in {"unblock", "block"}
  BY DEF PInv, Collected, Head1
<1>2. jobs[p] \in Seq(Job) /\ jobs[p] # <<>> /\ got[p] \in [Clients -> Nat]
  BY <1>1 DEF PInv, TypeOK, Idle
<1>3. Head(jobs[p]) \in Job /\ Head(jobs[p]) \in Range(jobs[p])
  BY <1>2, Splice, ShortQueues
<1>4. Calm => got[p] = conf /\ Agrees(Head(jobs[p]))
  BY <1>3 DEF PInv, JobsOK
<1> QED BY <1>1, <1>2, <1>3, <1>4 DEF Job

\* What the end of a subprocess leaves, whatever it did to the peers.
LEMMA EndsFrame ==
  ASSUME PInv, NEW p \in Procs, got[p] # NoKeys, Ends(p)
  PROVE  /\ jobs' \in [Procs -> Seq(Job)] /\ OneBusy' /\ Collected' /\ CacheOK' /\ JobsOK'
         /\ jobs'[p] = <<>> \o Tail(jobs[p]) /\ \A r \in Procs \ {p} : jobs'[r] = jobs[r]
         /\ got' \in [Procs -> [Clients -> Nat] \cup {NoKeys}]
         /\ got'[p] = NoKeys /\ \A r \in Procs \ {p} : got'[r] = got[r]
         /\ UNCHANGED <<rows, conf, cache, keys, overlap>> /\ (Calm' => Calm)
         /\ Blocked' = Blocked /\ Unblocked' = Unblocked
<1>1. TypeOK /\ Collected /\ OneBusy /\ ~Idle(p) /\ CacheOK
  BY CalmKeys DEF PInv
<1>2. /\ got' = [got EXCEPT ![p] = NoKeys] /\ Continues(p, <<>>)
      /\ UNCHANGED <<rows, conf, cache, keys, overlap>>
  BY DEF Ends, bounds
<1>3. drift' # "yes" => drift # "yes"
  BY DEF Ends, Settles
<1>4. <<>> \in Seq(Job)
  OBVIOUS
<1>5. /\ jobs' \in [Procs -> Seq(Job)] /\ OneBusy' /\ Collected'
      /\ jobs'[p] = <<>> \o Tail(jobs[p]) /\ \A r \in Procs \ {p} : jobs'[r] = jobs[r]
      /\ got' \in [Procs -> [Clients -> Nat] \cup {NoKeys}]
      /\ got'[p] = NoKeys /\ \A r \in Procs \ {p} : got'[r] = got[r]
  BY <1>1, <1>2, <1>4, QueueStep
<1>6. Calm' => Calm
  BY <1>2, <1>3 DEF Calm
<1>7. Blocked' = Blocked /\ Unblocked' = Unblocked
  BY <1>2 DEF Blocked, Unblocked
<1>8. Range(<<>>) = {} /\ \A c : Covers(<<>>, c)
  BY CoversNone DEF Range
<1>9. JobsOK'
  <2>1. \A r \in Procs : got'[r] \in {got[r], NoKeys}
    BY <1>5
  <2> QED BY <1>1, <1>2, <1>4, <1>5, <1>6, <1>7, <1>8, <2>1, JobsFrame
<1>10. CacheOK'
  BY <1>1, <1>2, <1>3 DEF CacheOK, TrueCache
<1> QED BY <1>2, <1>5, <1>6, <1>7, <1>9, <1>10

\* unblock_client_runtime brings its client up and no unblocked client down; a
\* blocked client that it brings up is blocked again by a later job.
LEMMA UnblockKeeps ==
  ASSUME PInv, NEW p \in Procs, Unblock(p)
  PROVE  PInv'
<1> DEFINE c == Head(jobs[p]).c
<1> DEFINE g == got[p]
<1>1. /\ g # NoKeys /\ Ends(p) /\ Head(jobs[p]).op = "unblock" /\ Head1(p, "unblock")
      /\ peers' = IF g[c] # 0 THEN peers \cup {<<c, g[c]>>} ELSE PeersOf(g)
  BY DEF Unblock, Head1
<1>2. /\ ~Idle(p) /\ jobs[p] \in Seq(Job) /\ jobs[p] # <<>> /\ c \in Clients /\ g \in [Clients -> Nat]
      /\ Calm => g = conf
  BY <1>1, CalmKeys
<1> HIDE DEF c, g
<1>3. /\ jobs' \in [Procs -> Seq(Job)] /\ OneBusy' /\ Collected' /\ CacheOK' /\ JobsOK'
      /\ jobs'[p] = <<>> \o Tail(jobs[p]) /\ \A r \in Procs \ {p} : jobs'[r] = jobs[r]
      /\ got' \in [Procs -> [Clients -> Nat] \cup {NoKeys}]
      /\ got'[p] = NoKeys /\ \A r \in Procs \ {p} : got'[r] = got[r]
      /\ UNCHANGED <<rows, conf, cache, keys, overlap>> /\ (Calm' => Calm)
      /\ Blocked' = Blocked /\ Unblocked' = Unblocked
  BY <1>1, EndsFrame DEF g
<1>4. TypeOK'
  <2>1. peers' \subseteq Clients \X Nat
    BY <1>1, <1>2 DEF PInv, TypeOK, PeersOf
  <2> QED BY <1>3, <2>1 DEF PInv, TypeOK
<1>5. PeersOK'
  <2>1. ASSUME NEW d \in Unblocked, conf[d] # 0, Calm
        PROVE  /\ Up(d) => Up(d)'
               /\ Raises(Head(jobs[p]), d) => Up(d)' \/ \E j \in Range(<<>>) : Raises(j, d)
    <3>1. d \in Clients
      BY <2>1 DEF Unblocked
    <3>2. g[c] = 0 => Up(d)'
      BY <1>1, <1>2, <1>3, <2>1, <3>1 DEF Up, PeersOf
    <3>3. g[c] # 0 => (Up(d) => Up(d)') /\ (d = c => Up(d)')
      BY <1>1, <1>2, <1>3, <2>1, <3>1 DEF Up
    <3> QED BY <3>2, <3>3 DEF Raises, c
  <2>2. ASSUME NEW d \in Blocked, conf[d] # 0, Calm
        PROVE  /\ ~Up(d) => ~Up(d)' \/ \E j \in Range(Tail(jobs[p])) : Lowers(j, d)
               /\ Fixes(Head(jobs[p]), d) => ~Up(d)' \/ \E j \in Range(<<>>) : Fixes(j, d)
    <3>1. Covers(jobs[p], d)
      BY <2>2 DEF PInv, JobsOK
    <3>2. \E j \in Range(Tail(jobs[p])) : Lowers(j, d)
      BY <1>1, <1>2, <3>1, Splice, ShortQueues
    <3>3. ~Fixes(Head(jobs[p]), d)
      BY <1>1 DEF Fixes, Lowers
    <3> QED BY <3>2, <3>3
  <2>3. <<>> \in Seq(Job)
    OBVIOUS
  <2> QED BY <1>2, <1>3, <2>1, <2>2, <2>3, PeersFrame
<1>6. KeysOK'
  <2> SUFFICES ASSUME overlap' = "never"
               PROVE  /\ \A pr \in peers' : pr[2] = conf'[pr[1]]
                      /\ \A r \in Procs : got'[r] # NoKeys /\ Head1(r, "unblock")' => got'[r] = conf'
    BY DEF KeysOK
  <2>1. /\ g = conf /\ \A pr \in peers : pr[2] = conf[pr[1]]
        /\ \A r \in Procs : got[r] # NoKeys /\ Head1(r, "unblock") => got[r] = conf
    BY <1>1, <1>3 DEF PInv, KeysOK, g
  <2>2. g[c] # 0 => \A pr \in peers' : pr[2] = conf'[pr[1]]
    BY <1>1, <1>3, <2>1
  <2>3. g[c] = 0 => \A pr \in peers' : pr[2] = conf'[pr[1]]
    BY <1>1, <1>3, <2>1 DEF PeersOf
  <2>4. \A r \in Procs : got'[r] # NoKeys /\ Head1(r, "unblock")' => got'[r] = conf'
    BY <1>3, <2>1 DEF Head1, Idle
  <2> QED BY <2>2, <2>3, <2>4
<1> QED BY <1>3, <1>4, <1>5, <1>6 DEF PInv

\* block_client_runtime brings its client down: the key it removes is the one in the
\* configuration.
LEMMA BlockKeeps ==
  ASSUME PInv, NEW p \in Procs, Block(p)
  PROVE  PInv'
<1> DEFINE c == Head(jobs[p]).c
<1> DEFINE g == got[p]
<1>1. /\ g # NoKeys /\ Ends(p) /\ Head(jobs[p]).op = "block"
      /\ peers' = peers \ {<<c, g[c]>>}
  BY DEF Block, Head1
<1>2. /\ ~Idle(p) /\ jobs[p] \in Seq(Job) /\ jobs[p] # <<>> /\ c \in Clients
      /\ Calm => g = conf /\ c \in Blocked
  BY <1>1, CalmKeys DEF Agrees
<1>4. \A d : /\ ~Raises(Head(jobs[p]), d)
             /\ Fixes(Head(jobs[p]), d) => d = c
  BY <1>1 DEF Raises, Fixes, Lowers
<1> HIDE DEF c, g
<1>3. /\ jobs' \in [Procs -> Seq(Job)] /\ OneBusy' /\ Collected' /\ CacheOK' /\ JobsOK'
      /\ jobs'[p] = <<>> \o Tail(jobs[p]) /\ \A r \in Procs \ {p} : jobs'[r] = jobs[r]
      /\ got' \in [Procs -> [Clients -> Nat] \cup {NoKeys}]
      /\ got'[p] = NoKeys /\ \A r \in Procs \ {p} : got'[r] = got[r]
      /\ UNCHANGED <<rows, conf, cache, keys, overlap>> /\ (Calm' => Calm)
      /\ Blocked' = Blocked /\ Unblocked' = Unblocked
  BY <1>1, EndsFrame DEF g
<1>5. TypeOK'
  BY <1>1, <1>3 DEF PInv, TypeOK
<1>6. PeersOK'
  <2>0. Blocked \cap Unblocked = {}
    BY DEF Blocked, Unblocked
  <2>1. ASSUME NEW d \in Unblocked, conf[d] # 0, Calm
        PROVE  /\ Up(d) => Up(d)'
               /\ Raises(Head(jobs[p]), d) => Up(d)' \/ \E j \in Range(<<>>) : Raises(j, d)
    BY <1>1, <1>2, <1>3, <1>4, <2>0, <2>1 DEF Up
  <2>2. ASSUME NEW d \in Blocked, conf[d] # 0, Calm
        PROVE  /\ ~Up(d) => ~Up(d)' \/ \E j \in Range(Tail(jobs[p])) : Lowers(j, d)
               /\ Fixes(Head(jobs[p]), d) => ~Up(d)' \/ \E j \in Range(<<>>) : Fixes(j, d)
    BY <1>1, <1>2, <1>3, <1>4, <2>2 DEF Up
  <2>3. <<>> \in Seq(Job)
    OBVIOUS
  <2> QED BY <1>2, <1>3, <2>1, <2>2, <2>3, PeersFrame
<1>7. KeysOK'
  BY <1>1, <1>3, KeysFrame DEF PInv
<1> QED BY <1>3, <1>5, <1>6, <1>7 DEF PInv

\* The subprocess reads the configuration; what the cache adds is no old key.
LEMMA CollectKeeps ==
  ASSUME PInv, NEW p \in Procs, Collect(p)
  PROVE  PInv'
<1> DEFINE c == Head(jobs[p]).c
<1> DEFINE g == IF Head(jobs[p]).op = "block" /\ cache[c] # 0 THEN [conf EXCEPT ![c] = cache[c]] ELSE conf
<1>1. /\ Head1(p, "unblock") \/ Head1(p, "block")
      /\ got' = [got EXCEPT ![p] = g]
      /\ UNCHANGED <<rows, conf, cache, peers, jobs, keys, drift, overlap>>
  BY DEF Collect, bounds
<1>2. jobs[p] \in Seq(Job) /\ jobs[p] # <<>>
  BY <1>1 DEF PInv, TypeOK, Head1, Idle
<1>3. Head(jobs[p]) \in Job
  BY <1>2
<1>4. c \in Clients
  BY <1>3 DEF Job
<1>5. g \in [Clients -> Nat] /\ (Head1(p, "unblock") => g = conf) /\ (TrueCache => g = conf)
  <2> HIDE DEF c
  <2>1. conf \in [Clients -> Nat] /\ cache \in [Clients -> Nat]
    BY DEF PInv, TypeOK
  <2>2. TrueCache /\ cache[c] # 0 => cache[c] = conf[c]
    BY <1>4 DEF TrueCache
  <2>3. g \in [Clients -> Nat] /\ (TrueCache => g = conf)
    BY <1>4, <2>1, <2>2
  <2>4. Head1(p, "unblock") => g = conf
    BY DEF Head1
  <2> QED BY <2>3, <2>4
<1> HIDE DEF g
<1>6. got' \in [Procs -> [Clients -> Nat] \cup {NoKeys}] /\ got'[p] = g /\ \A r \in Procs \ {p} : got'[r] = got[r]
  BY <1>1, <1>5 DEF PInv, TypeOK
<1>7. TypeOK'
  BY <1>1, <1>6 DEF PInv, TypeOK
<1>8. Collected' /\ OneBusy' /\ CacheOK'
  BY <1>1, <1>6 DEF PInv, Collected, OneBusy, CacheOK, Head1, Idle, TrueCache
<1>9. Blocked' = Blocked /\ Unblocked' = Unblocked /\ Calm' = Calm
  BY <1>1 DEF Blocked, Unblocked, Calm
<1>10. JobsOK'
  <2>1. Calm => g = conf
    BY <1>5 DEF PInv, CacheOK, Calm
  <2>2. \A j : Agrees(j)' = Agrees(j)
    BY <1>9 DEF Agrees
  <2> QED BY <1>1, <1>6, <1>9, <2>1, <2>2 DEF PInv, JobsOK
<1>11. PeersOK'
  BY <1>1, <1>9 DEF PInv, PeersOK, Up
<1>12. KeysOK'
  BY <1>1, <1>5, <1>6 DEF PInv, KeysOK, Head1, Idle
<1> QED BY <1>7, <1>8, <1>10, <1>11, <1>12 DEF PInv

\* `wg` fails: nothing is calm any more.
LEMMA CommandFailsKeeps ==
  ASSUME PInv, NEW p \in Procs, CommandFails(p)
  PROVE  PInv'
<1>1. /\ got[p] # NoKeys /\ got' = [got EXCEPT ![p] = NoKeys] /\ Continues(p, <<>>) /\ drift' = "yes"
      /\ UNCHANGED <<rows, conf, cache, peers, keys, overlap>>
  BY DEF CommandFails, Disturbs
<1>2. ~Idle(p) /\ TypeOK /\ Collected /\ OneBusy /\ KeysOK /\ <<>> \in Seq(Job)
  BY <1>1, CalmKeys DEF PInv
<1>3. /\ jobs' \in [Procs -> Seq(Job)] /\ OneBusy' /\ Collected'
      /\ \A r \in Procs \ {p} : jobs'[r] = jobs[r]
      /\ got' \in [Procs -> [Clients -> Nat] \cup {NoKeys}]
      /\ got'[p] = NoKeys /\ \A r \in Procs \ {p} : got'[r] = got[r]
  BY <1>1, <1>2, QueueStep
<1>4. TypeOK'
  BY <1>1, <1>2, <1>3 DEF TypeOK
<1>5. KeysOK'
  BY <1>1, <1>2, <1>3, KeysFrame
<1> QED BY <1>1, <1>3, <1>4, <1>5 DEF PInv, CacheOK, JobsOK, PeersOK, Calm

\* The process dies: nothing is calm any more.
LEMMA ProcessFailsKeeps ==
  ASSUME PInv, NEW p \in Procs, ProcessFails(p)
  PROVE  PInv'
<1>1. /\ got' = [got EXCEPT ![p] = NoKeys] /\ jobs' = [jobs EXCEPT ![p] = <<>>] /\ drift' = "yes"
      /\ UNCHANGED <<rows, conf, cache, peers, keys, overlap>>
  BY DEF ProcessFails, Disturbs
<1>2. TypeOK /\ Collected /\ OneBusy /\ KeysOK /\ <<>> \in Seq(Job)
  BY DEF PInv
<1>3. /\ jobs' \in [Procs -> Seq(Job)]
      /\ jobs'[p] = <<>> /\ \A r \in Procs \ {p} : jobs'[r] = jobs[r]
      /\ got' \in [Procs -> [Clients -> Nat] \cup {NoKeys}]
      /\ got'[p] = NoKeys /\ \A r \in Procs \ {p} : got'[r] = got[r]
  BY <1>1, <1>2 DEF TypeOK
<1>4. TypeOK'
  BY <1>1, <1>2, <1>3 DEF TypeOK
<1>5. OneBusy' /\ Collected'
  BY <1>1, <1>2, <1>3 DEF OneBusy, Collected, Head1, Idle
<1>6. KeysOK'
  BY <1>1, <1>2, <1>3, KeysFrame
<1> QED BY <1>1, <1>4, <1>5, <1>6 DEF PInv, CacheOK, JobsOK, PeersOK, Calm

-----------------------------------------------------------------------------
(* Requests *)

\* A process starts to work; unless there is other work, it is the only one.
LEMMA StartStep ==
  ASSUME PInv, NEW p \in Procs, NEW q \in Seq(Job), Starts(p, q), got' = got,
         overlap' # "yes" => ~Beside(p)
  PROVE  /\ jobs' \in [Procs -> Seq(Job)] /\ OneBusy' /\ Collected'
         /\ jobs'[p] = q /\ \A r \in Procs \ {p} : jobs'[r] = jobs[r]
         /\ overlap' # "yes" => \A r \in Procs : jobs[r] = <<>> /\ got[r] = NoKeys
<1>1. TypeOK /\ Collected /\ Idle(p) /\ jobs' = [jobs EXCEPT ![p] = q]
  BY DEF PInv, Starts
<1>2. /\ jobs' \in [Procs -> Seq(Job)]
      /\ jobs'[p] = q /\ \A r \in Procs \ {p} : jobs'[r] = jobs[r]
  BY <1>1 DEF TypeOK
<1>3. \A r \in Procs : Idle(r) => jobs[r] = <<>> /\ got[r] = NoKeys
  BY <1>1 DEF Collected, Head1, Idle
<1>4. Collected'
  BY <1>1, <1>2, <1>3 DEF Collected, Head1, Idle
<1>5. overlap' # "yes" => \A r \in Procs : Idle(r)
  BY <1>1 DEF Beside
<1>6. OneBusy'
  BY <1>2, <1>5 DEF OneBusy, Idle
<1> QED BY <1>2, <1>3, <1>4, <1>5, <1>6

\* In a calm state without work every client is where its policy wants it.
LEMMA QuietAdmits ==
  ASSUME PInv, Calm, \A r \in Procs : jobs[r] = <<>>, NEW c \in Clients, conf[c] # 0
  PROVE  (c \in Unblocked => Up(c)) /\ (c \in Blocked => ~Up(c))
<1>1. Range(<<>>) = {}
  BY DEF Range
<1> QED BY <1>1 DEF PInv, PeersOK

\* A calm process begins with jobs that agree with the policies.
LEMMA StartCalm ==
  ASSUME PInv, NEW p \in Procs, NEW q \in Seq(Job), jobs'[p] = q,
         \A r \in Procs \ {p} : jobs'[r] = jobs[r],
         \A r \in Procs : jobs[r] = <<>> /\ got[r] = NoKeys,
         got' = got,
         \A j \in Range(q) : Agrees(j)',
         \A c \in Blocked' : Covers(q, c),
         ASSUME NEW c \in Clients, conf'[c] # 0
         PROVE  /\ c \in Unblocked' => Up(c)' \/ \E j \in Range(q) : Raises(j, c)
                /\ c \in Blocked' => ~Up(c)' \/ \E j \in Range(q) : Fixes(j, c)
  PROVE  JobsOK' /\ PeersOK'
<1>1. Range(<<>>) = {} /\ \A c : Covers(<<>>, c)
  BY CoversNone DEF Range
<1>2. \A r \in Procs : jobs'[r] \in {<<>>, q}
  OBVIOUS
<1>3. JobsOK'
  <2>1. ASSUME NEW r \in Procs
        PROVE  /\ \A j \in Range(jobs'[r]) : Agrees(j)'
               /\ \A c \in Blocked' : Covers(jobs'[r], c)
    BY <1>1, <1>2
  <2> QED BY <2>1 DEF JobsOK
<1>4. PeersOK'
  BY DEF PeersOK, Fixes
<1> QED BY <1>3, <1>4

\* Only the peers of the configuration, and no keys at hand.
LEMMA StartKeys ==
  ASSUME PInv, got' = got, overlap' = "never" => \A r \in Procs : got[r] = NoKeys,
         \/ UNCHANGED <<peers, conf>> /\ (overlap' = "never" => overlap = "never")
         \/ peers' = PeersOf(conf')
  PROVE  KeysOK'
<1>1. overlap' = "never" => \A pr \in peers' : pr[2] = conf'[pr[1]]
  <2>1. CASE UNCHANGED <<peers, conf>> /\ (overlap' = "never" => overlap = "never")
    BY <2>1 DEF PInv, KeysOK
  <2>2. CASE peers' = PeersOf(conf')
    BY <2>2 DEF PeersOf
  <2> QED BY <2>1, <2>2
<1> QED BY <1>1 DEF KeysOK

\* A setter of the panel.
LEMMA PostKeeps ==
  ASSUME PInv, NEW p \in Procs, NEW c \in Clients, NEW op \in PostOps, Post(p, c, op)
  PROVE  PInv'
<1> DEFINE a == J("reconcile", c)
<1> DEFINE q == <<a, a>>
<1>1. /\ rows' = [rows EXCEPT ![c] = Posted(@, op)] /\ Starts(p, q) /\ Overlaps(p)
      /\ UNCHANGED <<conf, cache, peers, got, keys, drift>>
  BY DEF Post
<1>2. a \in Job /\ a.op = "reconcile" /\ a.c = c
  BY DEF J, Job
<1> HIDE DEF a
<1>3. q \in Seq(Job) /\ Range(q) = {a}
  BY <1>2, ShortQueues, ZenonT(60)
<1>4. \A d : Covers(q, d)
  BY <1>2, <1>3, CoversNone
<1> HIDE DEF q
<1>5. (overlap' # "yes" => ~Beside(p) /\ overlap # "yes") /\ (overlap' = "never" => overlap = "never")
  BY <1>1 DEF Overlaps
<1>6. /\ jobs' \in [Procs -> Seq(Job)] /\ OneBusy' /\ Collected'
      /\ jobs'[p] = q /\ \A r \in Procs \ {p} : jobs'[r] = jobs[r]
      /\ overlap' # "yes" => \A r \in Procs : jobs[r] = <<>> /\ got[r] = NoKeys
  BY <1>1, <1>3, <1>5, StartStep
<1>7. DOMAIN rows' = Clients /\ (\A d \in Clients : IsRow(rows'[d])) /\ \A d \in Clients : d # c => rows'[d] = rows[d]
  <2>1. IsRow(Posted(rows[c], op))
    BY PostedFacts DEF PInv, TypeOK
  <2> QED BY <1>1, <2>1 DEF PInv, TypeOK
<1>8. TypeOK' /\ CacheOK'
  BY <1>1, <1>6, <1>7 DEF PInv, TypeOK, CacheOK, TrueCache
<1>9. KeysOK'
  BY <1>1, <1>5, <1>6, StartKeys
<1>10. CASE Calm'
  <2>1. Calm /\ \A r \in Procs : jobs[r] = <<>> /\ got[r] = NoKeys
    BY <1>1, <1>5, <1>6, <1>10 DEF Calm
  <2>2. ASSUME NEW d \in Clients, conf'[d] # 0
        PROVE  /\ d \in Unblocked' => Up(d)' \/ \E j \in Range(q) : Raises(j, d)
               /\ d \in Blocked' => ~Up(d)' \/ \E j \in Range(q) : Fixes(j, d)
    <3>1. CASE d = c
      BY <1>2, <1>3, <3>1 DEF Raises, Fixes
    <3>2. CASE d # c
      <4>1. (d \in Unblocked' <=> d \in Unblocked) /\ (d \in Blocked' <=> d \in Blocked) /\ Up(d)' = Up(d)
        BY <1>1, <1>7, <3>2 DEF Unblocked, Blocked, Up
      <4>2. (d \in Unblocked => Up(d)) /\ (d \in Blocked => ~Up(d))
        BY <1>1, <2>1, <2>2, QuietAdmits
      <4> QED BY <4>1, <4>2
    <3> QED BY <3>1, <3>2
  <2>3. \A j \in Range(q) : Agrees(j)'
    BY <1>2, <1>3 DEF Agrees
  <2>4. JobsOK' /\ PeersOK'
    BY <1>1, <1>3, <1>4, <1>6, <2>1, <2>2, <2>3, StartCalm
  <2> QED BY <1>6, <1>8, <1>9, <2>4 DEF PInv
<1>11. CASE ~Calm'
  BY <1>6, <1>8, <1>9, <1>11 DEF PInv, JobsOK, PeersOK
<1> QED BY <1>10, <1>11

\* After a snapshot of the traffic the clients with a limit are reconciled.
LEMMA TrafficPersistedKeeps ==
  ASSUME PInv, NEW p \in Procs, TrafficPersisted(p)
  PROVE  PInv'
<1> DEFINE S == {c \in Clients : rows[c].limit # "none"}
<1> DEFINE q == JobsFor("reconcile", S)
<1>1. Starts(p, q) /\ Overlaps(p) /\ UNCHANGED <<rows, conf, cache, peers, got, keys, drift>>
  BY DEF TrafficPersisted, bounds
<1>2. S \in SUBSET Clients
  OBVIOUS
<1> HIDE DEF S
<1>3. q \in Seq(Job) /\ \A j \in Range(q) : j.op = "reconcile"
  BY <1>2, JobsForFacts
<1>4. \A d : Covers(q, d)
  BY <1>3, CoversNone
<1> HIDE DEF q
<1>5. (overlap' # "yes" => ~Beside(p) /\ overlap # "yes") /\ (overlap' = "never" => overlap = "never")
  BY <1>1 DEF Overlaps
<1>6. /\ jobs' \in [Procs -> Seq(Job)] /\ OneBusy' /\ Collected'
      /\ jobs'[p] = q /\ \A r \in Procs \ {p} : jobs'[r] = jobs[r]
      /\ overlap' # "yes" => \A r \in Procs : jobs[r] = <<>> /\ got[r] = NoKeys
  BY <1>1, <1>3, <1>5, StartStep
<1>8. TypeOK' /\ CacheOK'
  BY <1>1, <1>6 DEF PInv, TypeOK, CacheOK, TrueCache
<1>9. KeysOK'
  BY <1>1, <1>5, <1>6, StartKeys
<1>10. CASE Calm'
  <2>1. Calm /\ \A r \in Procs : jobs[r] = <<>> /\ got[r] = NoKeys
    BY <1>1, <1>5, <1>6, <1>10 DEF Calm
  <2>2. ASSUME NEW d \in Clients, conf'[d] # 0
        PROVE  /\ d \in Unblocked' => Up(d)' \/ \E j \in Range(q) : Raises(j, d)
               /\ d \in Blocked' => ~Up(d)' \/ \E j \in Range(q) : Fixes(j, d)
    <3>1. (d \in Unblocked' <=> d \in Unblocked) /\ (d \in Blocked' <=> d \in Blocked) /\ Up(d)' = Up(d)
      BY <1>1 DEF Unblocked, Blocked, Up
    <3>2. (d \in Unblocked => Up(d)) /\ (d \in Blocked => ~Up(d))
      BY <1>1, <2>1, <2>2, QuietAdmits
    <3> QED BY <3>1, <3>2
  <2>3. \A j \in Range(q) : Agrees(j)'
    BY <1>3 DEF Agrees
  <2>4. JobsOK' /\ PeersOK'
    BY <1>1, <1>3, <1>4, <1>6, <2>1, <2>2, <2>3, StartCalm
  <2> QED BY <1>6, <1>8, <1>9, <2>4 DEF PInv
<1>11. CASE ~Calm'
  BY <1>6, <1>8, <1>9, <1>11 DEF PInv, JobsOK, PeersOK
<1> QED BY <1>10, <1>11

\* The policy sync has a job for every client with a row: a calm state begins.
LEMMA PolicySyncKeeps ==
  ASSUME PInv, NEW p \in Procs, PolicySync(p)
  PROVE  PInv'
<1> DEFINE q == JobsFor("unblock", Unblocked) \o JobsFor("block", Blocked)
<1>1. /\ rows' = [c \in Clients |-> Cleaned(rows[c])] /\ Starts(p, q)
      /\ UNCHANGED <<conf, cache, peers, got, keys>>
  BY DEF PolicySync, bounds
<1>2. /\ drift' # "yes" => drift # "yes" \/ TrueCache
      /\ overlap' # "yes" => ~Beside(p)
      /\ overlap' = "never" => overlap = "never"
  BY DEF PolicySync
<1>3. Unblocked \in SUBSET Clients /\ Blocked \in SUBSET Clients
  BY DEF Unblocked, Blocked
<1>4. /\ q \in Seq(Job)
      /\ \A j \in Range(q) : (j.op = "unblock" /\ j.c \in Unblocked) \/ (j.op = "block" /\ j.c \in Blocked)
      /\ \A c \in Unblocked : \E j \in Range(q) : Raises(j, c)
      /\ \A c \in Blocked : Covers(q, c) /\ \E j \in Range(q) : Lowers(j, c)
  BY <1>3, SyncQueue
<1> HIDE DEF q
<1>5. SameSay /\ Blocked' = Blocked /\ Unblocked' = Unblocked
  BY <1>1, CleanedRows DEF PInv
<1>6. /\ jobs' \in [Procs -> Seq(Job)] /\ OneBusy' /\ Collected'
      /\ jobs'[p] = q /\ \A r \in Procs \ {p} : jobs'[r] = jobs[r]
      /\ overlap' # "yes" => \A r \in Procs : jobs[r] = <<>> /\ got[r] = NoKeys
  BY <1>1, <1>2, <1>4, StartStep
<1>7. TypeOK'
  BY <1>1, <1>5, <1>6 DEF PInv, TypeOK, SameSay
<1>8. CacheOK'
  BY <1>1, <1>2 DEF PInv, CacheOK, TrueCache
<1>9. KeysOK'
  BY <1>1, <1>2, <1>6, StartKeys
<1>10. CASE Calm'
  <2>1. \A r \in Procs : jobs[r] = <<>> /\ got[r] = NoKeys
    BY <1>6, <1>10 DEF Calm
  <2>2. ASSUME NEW d \in Clients, conf'[d] # 0
        PROVE  /\ d \in Unblocked' => Up(d)' \/ \E j \in Range(q) : Raises(j, d)
               /\ d \in Blocked' => ~Up(d)' \/ \E j \in Range(q) : Fixes(j, d)
    BY <1>4, <1>5 DEF Fixes
  <2>3. \A j \in Range(q) : Agrees(j)'
    BY <1>4, <1>5 DEF Agrees
  <2>4. JobsOK' /\ PeersOK'
    BY <1>1, <1>4, <1>5, <1>6, <2>1, <2>2, <2>3, StartCalm
  <2> QED BY <1>6, <1>7, <1>8, <1>9, <2>4 DEF PInv
<1>11. CASE ~Calm'
  BY <1>6, <1>7, <1>8, <1>9, <1>11 DEF PInv, JobsOK, PeersOK
<1> QED BY <1>10, <1>11

\* client.sh changes the configuration and loads it: nothing is calm any more.
LEMMA ScriptKeeps ==
  ASSUME PInv, NEW p \in Procs, NEW q \in Seq(Job), Starts(p, q), Overlaps(p), Disturbs,
         conf' \in [Clients -> Nat], keys' \in Nat, peers' = PeersOf(conf'),
         UNCHANGED <<rows, cache, got>>
  PROVE  PInv'
<1>1. overlap' # "yes" => ~Beside(p)
  BY DEF Overlaps
<1>2. /\ jobs' \in [Procs -> Seq(Job)] /\ OneBusy' /\ Collected'
      /\ overlap' # "yes" => \A r \in Procs : got[r] = NoKeys
  BY <1>1, StartStep
<1>3. TypeOK'
  <2>1. peers' \subseteq Clients \X Nat
    BY DEF PeersOf
  <2> QED BY <1>2, <2>1 DEF PInv, TypeOK
<1>4. KeysOK'
  BY <1>2, StartKeys
<1> QED BY <1>2, <1>3, <1>4 DEF PInv, CacheOK, JobsOK, PeersOK, Calm, Disturbs

\* addWireGuard
LEMMA CreateClientKeeps ==
  ASSUME PInv, NEW p \in Procs, NEW c \in Clients, NEW q \in NewTails(c), CreateClient(p, c, q)
  PROVE  PInv'
<1>1. J("cache", c) \in Job /\ J("set_expiry", c) \in Job
  BY DEF J, Job
<1>2. q \in Seq(Job)
  BY <1>1, ShortQueues, ZenonT(60) DEF NewTails, Tails
<1>3. keys' = keys + 1 /\ conf' = [conf EXCEPT ![c] = keys']
  BY DEF CreateClient
<1>4. conf' \in [Clients -> Nat] /\ keys' \in Nat
  BY <1>3 DEF PInv, TypeOK
<1> QED BY <1>2, <1>4, ScriptKeeps DEF CreateClient

\* deleteWireGuard
LEMMA DeleteClientKeeps ==
  ASSUME PInv, NEW p \in Procs, NEW c \in Clients, NEW q \in Tails(c), DeleteClient(p, c, q)
  PROVE  PInv'
<1>1. J("cache", c) \in Job
  BY DEF J, Job
<1>2. q \in Seq(Job)
  BY <1>1, ShortQueues DEF Tails
<1>3. keys' = keys /\ conf' = [conf EXCEPT ![c] = 0]
  BY DEF DeleteClient
<1>4. conf' \in [Clients -> Nat] /\ keys' \in Nat
  BY <1>3 DEF PInv, TypeOK
<1> QED BY <1>2, <1>4, ScriptKeeps DEF DeleteClient

-----------------------------------------------------------------------------
(* The environment *)

\* The collector's refresh of the cache, and a page load: every promise stays.
LEMMA RefreshKeeps ==
  ASSUME PInv, CacheRefresh \/ PageLoad
  PROVE  PInv'
<1>1. /\ UNCHANGED <<conf, peers, jobs, got, keys, drift, overlap>>
      /\ cache' \in {cache, conf}
  BY DEF CacheRefresh, PageLoad, bounds
<1>2. SameSay /\ Blocked' = Blocked /\ Unblocked' = Unblocked
  BY CleanedRows DEF PInv, CacheRefresh, PageLoad
<1>3. TypeOK'
  BY <1>1, <1>2 DEF PInv, TypeOK, SameSay
<1>4. Collected' /\ OneBusy'
  BY <1>1 DEF PInv, Collected, OneBusy, Head1, Idle
<1>5. CacheOK'
  BY <1>1 DEF PInv, CacheOK, TrueCache
<1>6. Calm' = Calm /\ (\A j : Agrees(j)' = Agrees(j)) /\ \A c : Up(c)' = Up(c)
  BY <1>1, <1>2 DEF Calm, Agrees, Up
<1>7. JobsOK'
  BY <1>1, <1>2, <1>6 DEF PInv, JobsOK
<1>8. PeersOK'
  BY <1>1, <1>2, <1>6 DEF PInv, PeersOK
<1>9. KeysOK'
  BY <1>1, KeysFrame DEF PInv
<1> QED BY <1>3, <1>4, <1>5, <1>7, <1>8, <1>9 DEF PInv

\* Time passes or the tunnel restarts: nothing is calm any more.
LEMMA DisturbanceKeeps ==
  ASSUME PInv, (\E c \in Clients : TimePasses(c)) \/ TunnelRestart
  PROVE  PInv'
<1>1. /\ UNCHANGED <<conf, cache, jobs, got, keys, overlap>> /\ drift' = "yes"
      /\ peers' \in {peers, PeersOf(conf)}
  BY DEF TimePasses, TunnelRestart, Disturbs
<1>2. DOMAIN rows' = Clients /\ \A d \in Clients : IsRow(rows'[d])
  <2>1. CASE TunnelRestart
    BY <2>1 DEF TunnelRestart, PInv, TypeOK
  <2>2. ASSUME NEW c \in Clients, TimePasses(c)
        PROVE  DOMAIN rows' = Clients /\ \A d \in Clients : IsRow(rows'[d])
    <3>1. \E x : \/ rows' = [rows EXCEPT ![c].exp = x]
                 \/ rows' = [rows EXCEPT ![c].temp = x]
                 \/ rows' = [rows EXCEPT ![c].limit = x]
      BY <2>2 DEF TimePasses
    <3>2. PICK x : \/ rows' = [rows EXCEPT ![c] = [rows[c] EXCEPT !.exp = x]]
                   \/ rows' = [rows EXCEPT ![c] = [rows[c] EXCEPT !.temp = x]]
                   \/ rows' = [rows EXCEPT ![c] = [rows[c] EXCEPT !.limit = x]]
      BY <3>1
    <3>3. IsRow(rows[c]) /\ DOMAIN rows = Clients /\ \A d \in Clients : IsRow(rows[d])
      BY DEF PInv, TypeOK
    <3>4. /\ IsRow([rows[c] EXCEPT !.exp = x]) /\ IsRow([rows[c] EXCEPT !.temp = x])
          /\ IsRow([rows[c] EXCEPT !.limit = x])
      BY <3>3 DEF IsRow, Columns
    <3> QED BY <3>2, <3>3, <3>4
  <2> QED BY <2>1, <2>2
<1>3. TypeOK'
  <2>1. PeersOf(conf) \subseteq Clients \X Nat
    BY DEF PeersOf, PInv, TypeOK
  <2> QED BY <1>1, <1>2, <2>1 DEF PInv, TypeOK
<1>4. Collected' /\ OneBusy'
  BY <1>1 DEF PInv, Collected, OneBusy, Head1, Idle
<1>5. KeysOK'
  <2>1. \A pr \in PeersOf(conf) : pr[2] = conf[pr[1]]
    BY DEF PeersOf
  <2> QED BY <1>1, <2>1 DEF PInv, KeysOK, Head1, Idle
<1> QED BY <1>1, <1>3, <1>4, <1>5 DEF PInv, CacheOK, JobsOK, PeersOK, Calm

-----------------------------------------------------------------------------
(* The specification *)

\* At the start the peers are those of the configuration and there are no rows.
LEMMA InitPInv ==
  ASSUME Init
  PROVE  PInv
<1>1. /\ rows = [c \in Clients |-> NoRow] /\ cache = conf /\ peers = PeersOf(conf)
      /\ jobs = [p \in Procs |-> <<>>] /\ got = [p \in Procs |-> NoKeys]
      /\ keys = 1
  BY DEF Init
<1>2. conf \in [Clients -> Nat]
  BY DEF Init
<1>3. \A c \in Clients : IsRow(rows[c]) /\ ~rows[c].known
  BY <1>1, FirstRow DEF NoRow
<1>4. Blocked = {} /\ Unblocked = {}
  BY <1>3 DEF Blocked, Unblocked
<1>5. /\ jobs \in [Procs -> Seq(Job)] /\ \A p \in Procs : jobs[p] = <<>> /\ got[p] = NoKeys
      /\ got \in [Procs -> [Clients -> Nat] \cup {NoKeys}]
  <2>1. <<>> \in Seq(Job)
    OBVIOUS
  <2> QED BY <1>1, <2>1
<1>6. TypeOK
  <2>1. peers \subseteq Clients \X Nat
    BY <1>1, <1>2 DEF PeersOf
  <2> QED BY <1>1, <1>2, <1>3, <1>5, <2>1 DEF TypeOK
<1>7. Collected /\ OneBusy
  BY <1>5 DEF Collected, OneBusy, Idle
<1>8. CacheOK
  BY <1>1 DEF CacheOK, TrueCache
<1>9. JobsOK
  <2>1. Range(<<>>) = {}
    BY DEF Range
  <2> QED BY <1>4, <1>5, <2>1 DEF JobsOK
<1>10. PeersOK
  BY <1>4 DEF PeersOK
<1>11. KeysOK
  <2>1. \A pr \in peers : pr[2] = conf[pr[1]]
    BY <1>1 DEF PeersOf
  <2> QED BY <1>5, <2>1 DEF KeysOK
<1> QED BY <1>6, <1>7, <1>8, <1>9, <1>10, <1>11 DEF PInv

\* Every step keeps the invariant.
LEMMA NextPInv ==
  ASSUME PInv, [Next]_vars
  PROVE  PInv'
<1>1. ASSUME NEW p \in Procs, Step(p)
      PROVE  PInv'
  BY <1>1, SetExpiryKeeps, CacheForcedKeeps, ReconcileKeeps, ReapplyKeeps, CollectKeeps,
     UnblockKeeps, BlockKeeps DEF Step
<1>2. ASSUME NEW p \in Procs,
             TrafficPersisted(p) \/ PolicySync(p) \/ CommandFails(p) \/ ProcessFails(p)
      PROVE  PInv'
  BY <1>2, TrafficPersistedKeeps, PolicySyncKeeps, CommandFailsKeeps, ProcessFailsKeeps
<1>3. ASSUME NEW p \in Procs, NEW c \in Clients,
             \/ \E op \in PostOps : Post(p, c, op)
             \/ \E q \in NewTails(c) : CreateClient(p, c, q)
             \/ \E q \in Tails(c) : DeleteClient(p, c, q)
      PROVE  PInv'
  BY <1>3, PostKeeps, CreateClientKeeps, DeleteClientKeeps
<1>4. CASE (\E c \in Clients : TimePasses(c)) \/ TunnelRestart
  BY <1>4, DisturbanceKeeps
<1>5. CASE CacheRefresh \/ PageLoad
  BY <1>5, RefreshKeeps
<1>6. CASE UNCHANGED vars
  <2>1. UNCHANGED <<rows, conf, cache, peers, jobs, got, keys, drift, overlap>>
    BY <1>6 DEF vars, bounds
  <2>2. TypeOK'
    BY <2>1 DEF PInv, TypeOK
  <2>3. Collected' /\ OneBusy' /\ CacheOK' /\ KeysOK'
    BY <2>1 DEF PInv, Collected, OneBusy, CacheOK, KeysOK, Head1, Idle, TrueCache
  <2>4. Calm' = Calm /\ Blocked' = Blocked /\ Unblocked' = Unblocked /\ \A c : Up(c)' = Up(c)
    BY <2>1 DEF Calm, Blocked, Unblocked, Up
  <2>5. JobsOK' /\ PeersOK'
    BY <2>1, <2>4 DEF PInv, JobsOK, PeersOK, Agrees
  <2> QED BY <2>2, <2>3, <2>5 DEF PInv
<1> QED BY <1>1, <1>2, <1>3, <1>4, <1>5, <1>6 DEF Next

\* The invariant of the access policies: every client that is not where its policy
\* wants it is on a job that will bring it there.
THEOREM PolicyInvariance == Spec => []PInv
<1>1. Init => PInv
  BY InitPInv
<1>2. PInv /\ [Next]_vars => PInv'
  BY NextPInv
<1> QED BY <1>1, <1>2, PTL DEF Spec

\* After requests that did not overlap every blocked client is down and every other
\* client up, whatever the requests, failures and restarts before the last whole
\* sync; and no peer outlives its key in the configuration.
THEOREM EnforcedTheorem == Spec => []PolicyEnforced
<1>1. PInv => PolicyEnforced
  <2> SUFFICES ASSUME PInv PROVE PolicyEnforced
    OBVIOUS
  <2>1. ASSUME Quiet, drift = "no", overlap # "yes", NEW c \in Clients
        PROVE  Admits(c)
    <3> SUFFICES ASSUME rows[c].known, conf[c] # 0
                 PROVE  Up(c) <=> ~IsBlocked(rows[c])
      BY DEF Admits, Up
    <3>1. Calm /\ \A r \in Procs : jobs[r] = <<>>
      BY <2>1 DEF Calm, Quiet, Idle
    <3>2. (c \in Unblocked => Up(c)) /\ (c \in Blocked => ~Up(c))
      BY <3>1, QuietAdmits
    <3> QED BY <3>2 DEF Unblocked, Blocked
  <2>2. overlap = "never" => \A pr \in peers : pr[2] = conf[pr[1]]
    BY DEF PInv, KeysOK
  <2> QED BY <2>1, <2>2 DEF PolicyEnforced
<1> QED BY <1>1, PolicyInvariance, PTL
=============================================================================
