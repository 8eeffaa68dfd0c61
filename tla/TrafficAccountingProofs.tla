----------------------- MODULE TrafficAccountingProofs -----------------------
(***************************************************************************)
(* That no byte is counted twice and that totals and samples agree, proved *)
(* for any sessions, processes and bounds of TrafficAccounting.            *)
(***************************************************************************)
EXTENDS TrafficAccounting, FiniteSetTheorems, TLAPS

-----------------------------------------------------------------------------
(* Sums.  The fold of a set is a recursive function on its subsets; that there *)
(* is one, and what it computes, is shown by taking a smallest counterexample. *)

Some(s) == CHOOSE x \in s : TRUE
IsSum(g, f, S) == g = [s \in SUBSET S |-> IF s = {} THEN 0 ELSE f[Some(s)] + g[s \ {Some(s)}]]

\* A set of subsets of a finite set has a smallest element.
LEMMA Smallest ==
  ASSUME NEW S, IsFiniteSet(S), NEW B \in SUBSET (SUBSET S), B # {}
  PROVE  \E m \in B : \A t \in B : t \subseteq m => t = m
<1>1. IsWellFoundedOn(StrictSubsetOrdering(S), SUBSET S)
  BY FS_StrictSubsetOrderingWellFounded, FS_FiniteSubsetsOfFinite
<1>2. PICK m \in B : \A t \in B : ~(<<t, m>> \in StrictSubsetOrdering(S))
  BY <1>1, WFMin
<1>3. \A t \in B : t \subseteq m /\ t # m => <<t, m>> \in StrictSubsetOrdering(S)
  BY DEF StrictSubsetOrdering
<1>4. \A t \in B : t \subseteq m => t = m
  BY <1>2, <1>3
<1> QED BY <1>4

\* The definition of the fold.
LEMMA SumFold ==
  ASSUME NEW f, NEW S
  PROVE  Sum(f, S) = (CHOOSE g : IsSum(g, f, S))[S]
  BY DEF Sum, MapThenSumSet, MapThenFoldSet, IsSum, Some

\* An element of a set.
LEMMA SomeIn == \A s : s # {} => Some(s) \in s
  BY DEF Some

\* What such a function gives.
LEMMA IsSumValue ==
  ASSUME NEW f, NEW g, NEW S, IsSum(g, f, S), NEW s \in SUBSET S
  PROVE  g[s] = IF s = {} THEN 0 ELSE f[Some(s)] + g[s \ {Some(s)}]
<1> DEFINE E(t) == IF t = {} THEN 0 ELSE f[Some(t)] + g[t \ {Some(t)}]
<1>1. g = [t \in SUBSET S |-> E(t)]
  BY DEF IsSum
<1> HIDE DEF E
<1>2. g[s] = E(s)
  BY <1>1
<1> QED BY <1>2 DEF E

\* Two such functions agree.
LEMMA IsSumUnique ==
  ASSUME NEW f, NEW g, NEW h, NEW S, IsFiniteSet(S), NEW T, S \subseteq T, IsSum(g, f, S), IsSum(h, f, T)
  PROVE  g[S] = h[S]
<1> DEFINE B == {s \in SUBSET S : g[s] # h[s]}
<1>1. B = {}
  <2> SUFFICES ASSUME B # {} PROVE FALSE
    OBVIOUS
  <2>0. B \in SUBSET (SUBSET S)
    OBVIOUS
  <2>1. PICK m \in B : \A t \in B : t \subseteq m => t = m
    <3> HIDE DEF B
    <3> QED BY <2>0, Smallest
  <2>2. m \in SUBSET S /\ m \in SUBSET T
    OBVIOUS
  <2>3. /\ g[m] = IF m = {} THEN 0 ELSE f[Some(m)] + g[m \ {Some(m)}]
        /\ h[m] = IF m = {} THEN 0 ELSE f[Some(m)] + h[m \ {Some(m)}]
    BY <2>2, IsSumValue
  <2>4. m # {}
    BY <2>3
  <2>5. m \ {Some(m)} \notin B
    BY <2>1, <2>4, SomeIn
  <2>6. g[m \ {Some(m)}] = h[m \ {Some(m)}]
    BY <2>2, <2>5
  <2> QED BY <2>3, <2>6
<1> QED BY <1>1

\* The sum is computed by one such function.
LEMMA SumByAny ==
  ASSUME NEW f, NEW S, IsFiniteSet(S), NEW T, S \subseteq T, NEW h, IsSum(h, f, T),
         \E g : IsSum(g, f, S)
  PROVE  Sum(f, S) = h[S]
<1>1. IsSum(CHOOSE g : IsSum(g, f, S), f, S)
  OBVIOUS
<1> DEFINE g == CHOOSE g : IsSum(g, f, S)
<1> HIDE DEF g
<1>2. IsSum(g, f, S)
  BY <1>1 DEF g
<1>3. g[S] = h[S]
  BY <1>2, IsSumUnique
<1> QED BY <1>3, SumFold DEF g

\* There is one.
LEMMA SumExists ==
  ASSUME NEW f, NEW S, IsFiniteSet(S)
  PROVE  \E g : IsSum(g, f, S)
<1> DEFINE B == {s \in SUBSET S : ~\E g : IsSum(g, f, s)}
<1>1. B = {}
  <2> SUFFICES ASSUME B # {} PROVE FALSE
    OBVIOUS
  <2>0. B \in SUBSET (SUBSET S)
    OBVIOUS
  <2>1. PICK m \in B : \A t \in B : t \subseteq m => t = m
    <3> HIDE DEF B
    <3> QED BY <2>0, Smallest
  <2>2. m \in SUBSET S /\ (~\E g : IsSum(g, f, m))
    OBVIOUS
  <2>3. \A t \in SUBSET m : t # m => t \notin B
    BY <2>1
  <2>4. \A t \in SUBSET m : t # m => IsFiniteSet(t) /\ \E g : IsSum(g, f, t)
    BY <2>2, <2>3, FS_Subset
  <2> DEFINE h == [s \in SUBSET m |-> IF s = {} THEN 0 ELSE f[Some(s)] + Sum(f, s \ {Some(s)})]
  <2>5. ASSUME NEW u \in SUBSET m, u # m PROVE h[u] = Sum(f, u)
    <3>1. IsFiniteSet(u)
      BY <2>4, <2>5
    <3>2. PICK g : IsSum(g, f, u)
      BY <2>4, <2>5
    <3>3. Sum(f, u) = g[u]
      BY <3>1, <3>2, SumByAny
    <3>4. g[u] = IF u = {} THEN 0 ELSE f[Some(u)] + g[u \ {Some(u)}]
      BY <3>2, IsSumValue
    <3>5. CASE u = {}
      BY <3>3, <3>4, <3>5
    <3>6. CASE u # {}
      <4> DEFINE v == u \ {Some(u)}
      <4>1. v \subseteq u /\ v \in SUBSET m /\ v # m
        BY <3>6, SomeIn
      <4>2. IsFiniteSet(v) /\ \E e : IsSum(e, f, v)
        BY <2>4, <4>1
      <4> HIDE DEF v
      <4>3. Sum(f, v) = g[v]
        BY <3>2, <4>1, <4>2, SumByAny
      <4>4. h[u] = f[Some(u)] + Sum(f, v)
        BY <3>6 DEF v
      <4>5. g[u] = f[Some(u)] + g[v]
        BY <3>4, <3>6 DEF v
      <4> QED BY <3>3, <4>3, <4>4, <4>5
    <3> QED BY <3>5, <3>6
  <2>6. \A s \in SUBSET m : s # {} => h[s \ {Some(s)}] = Sum(f, s \ {Some(s)})
    <3> TAKE s \in SUBSET m
    <3> HAVE s # {}
    <3> DEFINE v == s \ {Some(s)}
    <3>1. v \in SUBSET m /\ v # m
      BY SomeIn
    <3> HIDE DEF h, v
    <3>2. h[v] = Sum(f, v)
      BY <2>5, <3>1
    <3> QED BY <3>2 DEF v
  <2>7. h = [s \in SUBSET m |-> IF s = {} THEN 0 ELSE f[Some(s)] + h[s \ {Some(s)}]]
    <3> DEFINE E(s) == IF s = {} THEN 0 ELSE f[Some(s)] + Sum(f, s \ {Some(s)})
    <3> DEFINE F(s) == IF s = {} THEN 0 ELSE f[Some(s)] + h[s \ {Some(s)}]
    <3>1. \A s \in SUBSET m : E(s) = F(s)
      BY <2>6
    <3>2. h = [s \in SUBSET m |-> E(s)]
      OBVIOUS
    <3> HIDE DEF E, F, h
    <3>3. h = [s \in SUBSET m |-> F(s)]
      BY <3>1, <3>2
    <3> QED BY <3>3 DEF F
  <2>8. IsSum(h, f, m)
    BY <2>7 DEF IsSum
  <2> QED BY <2>2, <2>8
<1>2. S \notin B
  BY <1>1
<1> QED BY <1>2

\* The sum of nothing is 0; otherwise an element is added to the sum of the others.
LEMMA SumUnfold ==
  ASSUME NEW f, NEW S, IsFiniteSet(S)
  PROVE  Sum(f, S) = IF S = {} THEN 0 ELSE f[Some(S)] + Sum(f, S \ {Some(S)})
<1>1. PICK h : IsSum(h, f, S)
  BY SumExists
<1>2. h[S] = IF S = {} THEN 0 ELSE f[Some(S)] + h[S \ {Some(S)}]
  BY <1>1, IsSumValue
<1>3. Sum(f, S) = h[S]
  BY <1>1, SumByAny
<1> DEFINE U == S \ {Some(S)}
<1>4. U \subseteq S /\ IsFiniteSet(U)
  BY FS_Subset
<1> HIDE DEF U
<1>5. Sum(f, U) = h[U]
  BY <1>1, <1>4, SumExists, SumByAny
<1> QED BY <1>2, <1>3, <1>5 DEF U

\* A sum of integers is an integer.
LEMMA SumInt ==
  ASSUME NEW f, NEW S, IsFiniteSet(S), \A x \in S : f[x] \in Int
  PROVE  Sum(f, S) \in Int
<1> DEFINE B == {s \in SUBSET S : Sum(f, s) \notin Int}
<1>1. B = {}
  <2> SUFFICES ASSUME B # {} PROVE FALSE
    OBVIOUS
  <2>0. B \in SUBSET (SUBSET S)
    OBVIOUS
  <2>1. PICK m \in B : \A t \in B : t \subseteq m => t = m
    <3> HIDE DEF B
    <3> QED BY <2>0, Smallest
  <2>2. m \in SUBSET S /\ IsFiniteSet(m)
    BY FS_Subset
  <2>3. Sum(f, m) = IF m = {} THEN 0 ELSE f[Some(m)] + Sum(f, m \ {Some(m)})
    BY <2>2, SumUnfold
  <2>4. m # {}
    BY <2>3
  <2>5. m \ {Some(m)} \notin B
    BY <2>1, <2>4, SomeIn
  <2>6. Sum(f, m \ {Some(m)}) \in Int /\ f[Some(m)] \in Int
    BY <2>2, <2>4, <2>5, SomeIn
  <2> QED BY <2>3, <2>4, <2>6
<1> QED BY <1>1

\* Two pairs of functions that compare at every element have sums that compare.
LEMMA SumSwap ==
  ASSUME NEW S, IsFiniteSet(S), NEW a, NEW b, NEW c, NEW d,
         \A x \in S : /\ a[x] \in Int /\ b[x] \in Int /\ c[x] \in Int /\ d[x] \in Int
                      /\ a[x] + b[x] <= c[x] + d[x]
  PROVE  /\ Sum(a, S) \in Int /\ Sum(b, S) \in Int /\ Sum(c, S) \in Int /\ Sum(d, S) \in Int
         /\ Sum(a, S) + Sum(b, S) <= Sum(c, S) + Sum(d, S)
<1>0. \A s \in SUBSET S : Sum(a, s) \in Int /\ Sum(b, s) \in Int /\ Sum(c, s) \in Int /\ Sum(d, s) \in Int
  <2> TAKE s \in SUBSET S
  <2>1. IsFiniteSet(s)
    BY FS_Subset
  <2>2. /\ \A x \in s : a[x] \in Int
        /\ \A x \in s : b[x] \in Int
        /\ \A x \in s : c[x] \in Int
        /\ \A x \in s : d[x] \in Int
    OBVIOUS
  <2> QED BY <2>1, <2>2, SumInt
<1> DEFINE B == {s \in SUBSET S : ~(Sum(a, s) + Sum(b, s) <= Sum(c, s) + Sum(d, s))}
<1>1. B = {}
  <2> SUFFICES ASSUME B # {} PROVE FALSE
    OBVIOUS
  <2>0. B \in SUBSET (SUBSET S)
    OBVIOUS
  <2>1. PICK m \in B : \A t \in B : t \subseteq m => t = m
    <3> HIDE DEF B
    <3> QED BY <2>0, Smallest
  <2>2. m \in SUBSET S /\ IsFiniteSet(m)
    BY FS_Subset
  <2> DEFINE e == Some(m)
             n == m \ {e}
  <2>3. /\ Sum(a, m) = IF m = {} THEN 0 ELSE a[e] + Sum(a, n)
        /\ Sum(b, m) = IF m = {} THEN 0 ELSE b[e] + Sum(b, n)
        /\ Sum(c, m) = IF m = {} THEN 0 ELSE c[e] + Sum(c, n)
        /\ Sum(d, m) = IF m = {} THEN 0 ELSE d[e] + Sum(d, n)
    BY <2>2, SumUnfold
  <2>9. m \in B
    OBVIOUS
  <2>4. m # {}
    BY <2>3, <2>9
  <2>5. e \in S /\ n \in SUBSET S /\ n \subseteq m /\ n # m
    BY <2>2, <2>4, SomeIn
  <2>6. ~(Sum(a, m) + Sum(b, m) <= Sum(c, m) + Sum(d, m))
    BY <2>9
  <2> HIDE DEF e, n
  <2>7. Sum(a, n) + Sum(b, n) <= Sum(c, n) + Sum(d, n)
    BY <2>1, <2>5
  <2>8. Sum(a, n) \in Int /\ Sum(b, n) \in Int /\ Sum(c, n) \in Int /\ Sum(d, n) \in Int
    BY <1>0, <2>5
  <2> QED BY <2>3, <2>4, <2>5, <2>6, <2>7, <2>8
<1> QED BY <1>0, <1>1

\* Any element may be taken out of a sum.
LEMMA SumRemove ==
  ASSUME NEW f, NEW S, IsFiniteSet(S), \A x \in S : f[x] \in Int, NEW y \in S
  PROVE  Sum(f, S) = f[y] + Sum(f, S \ {y})
<1> DEFINE B == {s \in SUBSET S : \E z \in s : Sum(f, s) # f[z] + Sum(f, s \ {z})}
<1>1. B = {}
  <2> SUFFICES ASSUME B # {} PROVE FALSE
    OBVIOUS
  <2>0. B \in SUBSET (SUBSET S)
    OBVIOUS
  <2>1. PICK m \in B : \A t \in B : t \subseteq m => t = m
    <3> HIDE DEF B
    <3> QED BY <2>0, Smallest
  <2>2. m \in SUBSET S /\ IsFiniteSet(m)
    BY FS_Subset
  <2>3. PICK z \in m : Sum(f, m) # f[z] + Sum(f, m \ {z})
    OBVIOUS
  <2> DEFINE c == Some(m)
  <2>4. c \in m /\ Sum(f, m) = f[c] + Sum(f, m \ {c})
    BY <2>2, <2>3, SumUnfold, SomeIn
  <2> HIDE DEF c
  <2>5. z # c
    BY <2>3, <2>4
  <2>6. m \ {c} \notin B /\ m \ {z} \notin B
    BY <2>1, <2>3, <2>4
  <2> DEFINE n == (m \ {c}) \ {z}
  <2>7. Sum(f, m \ {c}) = f[z] + Sum(f, n)
    BY <2>2, <2>3, <2>5, <2>6
  <2>8. (m \ {z}) \ {c} = n
    OBVIOUS
  <2>9. Sum(f, m \ {z}) = f[c] + Sum(f, n)
    BY <2>2, <2>4, <2>5, <2>6, <2>8
  <2>10. IsFiniteSet(n) /\ n \subseteq S
    BY <2>2, FS_Subset
  <2> HIDE DEF n, B
  <2>11. Sum(f, n) \in Int
    BY <2>10, SumInt
  <2>12. f[c] \in Int /\ f[z] \in Int
    BY <2>2, <2>4
  <2> QED BY <2>3, <2>4, <2>7, <2>9, <2>11, <2>12
<1> QED BY <1>1

\* Elements that add nothing may be left out.
LEMMA SumSub ==
  ASSUME NEW f, NEW S, IsFiniteSet(S), \A x \in S : f[x] \in Int,
         NEW T \in SUBSET S, \A x \in S \ T : f[x] = 0
  PROVE  Sum(f, T) = Sum(f, S)
<1> DEFINE B == {s \in SUBSET S : T \subseteq s /\ Sum(f, s) # Sum(f, T)}
<1>1. B = {}
  <2> SUFFICES ASSUME B # {} PROVE FALSE
    OBVIOUS
  <2>0. B \in SUBSET (SUBSET S)
    OBVIOUS
  <2>1. PICK m \in B : \A t \in B : t \subseteq m => t = m
    <3> HIDE DEF B
    <3> QED BY <2>0, Smallest
  <2>2. m \in SUBSET S /\ T \subseteq m /\ Sum(f, m) # Sum(f, T) /\ IsFiniteSet(m)
    BY FS_Subset
  <2>3. PICK y \in m : y \notin T
    BY <2>2
  <2>4. \A x \in m : f[x] \in Int
    BY <2>2
  <2>5. Sum(f, m) = f[y] + Sum(f, m \ {y})
    <3> HIDE DEF B
    <3> QED BY <2>2, <2>4, SumRemove
  <2>6. Sum(f, m \ {y}) = Sum(f, T)
    BY <2>1, <2>2, <2>3
  <2>7. Sum(f, T) \in Int
    <3> HIDE DEF B
    <3>1. IsFiniteSet(T) /\ \A x \in T : f[x] \in Int
      BY FS_Subset
    <3> QED BY <3>1, SumInt
  <2>8. f[y] = 0
    BY <2>2, <2>3
  <2> QED BY <2>2, <2>5, <2>6, <2>7, <2>8
<1> QED BY <1>1

\* A sum of zeros is 0.
LEMMA SumZero ==
  ASSUME NEW f, NEW S, IsFiniteSet(S), \A x \in S : f[x] = 0
  PROVE  Sum(f, S) = 0
<1>1. {} \in SUBSET S /\ IsFiniteSet({})
  BY FS_EmptySet
<1>2. Sum(f, {}) = Sum(f, S)
  BY <1>1, SumSub
<1>3. Sum(f, {}) = 0
  BY <1>1, SumUnfold
<1> QED BY <1>2, <1>3

\* Functions that agree have the same sum.
LEMMA SumSame ==
  ASSUME NEW f, NEW g, NEW S, IsFiniteSet(S), \A x \in S : f[x] \in Int /\ g[x] = f[x]
  PROVE  Sum(g, S) = Sum(f, S)
<1> DEFINE z == [x \in S |-> 0]
<1>1. \A x \in S : /\ f[x] \in Int /\ z[x] \in Int /\ g[x] \in Int /\ z[x] \in Int
                   /\ f[x] + z[x] <= g[x] + z[x]
  OBVIOUS
<1>2. \A x \in S : /\ g[x] \in Int /\ z[x] \in Int /\ f[x] \in Int /\ z[x] \in Int
                   /\ g[x] + z[x] <= f[x] + z[x]
  OBVIOUS
<1>3. Sum(z, S) = 0
  BY SumZero
<1> HIDE DEF z
<1>4. Sum(f, S) \in Int /\ Sum(g, S) \in Int /\ Sum(f, S) + Sum(z, S) <= Sum(g, S) + Sum(z, S)
  BY <1>1, SumSwap
<1>5. Sum(g, S) + Sum(z, S) <= Sum(f, S) + Sum(z, S)
  BY <1>2, SumSwap
<1> QED BY <1>3, <1>4, <1>5

\* A sum of natural numbers is one.
LEMMA SumNat ==
  ASSUME NEW f, NEW S, IsFiniteSet(S), \A x \in S : f[x] \in Nat
  PROVE  Sum(f, S) \in Nat
<1> DEFINE z == [x \in S |-> 0]
<1>1. \A x \in S : /\ z[x] \in Int /\ z[x] \in Int /\ f[x] \in Int /\ z[x] \in Int
                   /\ z[x] + z[x] <= f[x] + z[x]
  OBVIOUS
<1>2. Sum(z, S) = 0
  BY SumZero
<1> HIDE DEF z
<1>3. Sum(f, S) \in Int /\ Sum(z, S) + Sum(z, S) <= Sum(f, S) + Sum(z, S)
  BY <1>1, SumSwap
<1> QED BY <1>2, <1>3

-----------------------------------------------------------------------------
(* The invariant *)

Counter == Nat \cup {None}
Place == {"idle", "load", "store", "backfill"} \cup Scope

\* The types of the variables.
TypeOK ==
    /\ ctr \in [Session -> Counter] /\ ended \subseteq Session
    /\ rows \in [Session -> Counter] /\ total \in [Kind -> Int] /\ samples \in [Kind -> Nat]
    /\ pc \in [Proc -> Place] /\ shot \in [Proc -> [Session -> Counter]]
    /\ mem \in [Proc -> [rows : [Session -> Counter], total : [Kind -> Int]]]
    /\ others \in [samples : Nat, total : Int] /\ gone \in [Proc -> SUBSET {"sessions", "totals"}]
    /\ truth \in [Session -> Int] /\ mark \in [Session -> Int]
    /\ overlap \in BOOLEAN /\ admin \in BOOLEAN

Snapping == {"load", "store"}

\* What the tables have still to count of session s: from the last value known to its
\* counter c, or by way of the snapshot sh that is under way.
Open(c, s, last) == IF c[s] = None THEN 0 ELSE Delta(s, last, c[s])
Due(c, r, sh, s) == IF sh[s] = None THEN Open(c, s, r[s]) ELSE Delta(s, r[s], sh[s]) + Open(c, s, sh[s])
DueOf(c, r, sh) == [s \in Session |-> Due(c, r, sh, s)]

\* Counted and still to be counted are no more than was carried.
Room(k, c, r, sh, smp, tr) == smp[k] + Sum(DueOf(c, r, sh), OfKind(k)) <= Sum(tr, OfKind(k))
Bounded(sh) == \A k \in Kind : Room(k, ctr, rows, sh, samples, truth)

\* At most one operation is under way, and what it has read is still so.
OneBusy ==
    /\ \A p, q \in Proc : pc[p] # "idle" /\ pc[q] # "idle" => p = q
    /\ \A p \in Proc : pc[p] = "store" => mem[p] = Loaded
    /\ \A p \in Proc : pc[p] \in Scope => admin
    /\ \A p \in Proc : pc[p] \in Snapping \cup Scope \/ shot[p] = NoShot

Balance ==
    /\ \A p \in Proc : pc[p] \in Snapping => Bounded(shot[p])
    /\ (\A p \in Proc : pc[p] \notin Snapping) => Bounded(NoShot)

\* A reset forgets no more than leaves room for what its baseline will count.
ResetFits ==
    \A p \in Proc : pc[p] \in Scope =>
        /\ \A s \in Within(pc[p]) : Open(ctr, s, shot[p][s]) <= truth[s] - mark[s]
        /\ \A s \in Session \ Within(pc[p]) : mark[s] = 0

\* The counter of an OpenVPN session never goes back, and does not come back.
Grows ==
    \A s \in OpenVpn :
        /\ rows[s] # None /\ ctr[s] # None => rows[s] <= ctr[s]
        /\ rows[s] # None /\ ctr[s] = None => s \in ended
        /\ \A p \in Proc : shot[p][s] # None =>
              /\ rows[s] # None => rows[s] <= shot[p][s]
              /\ ctr[s] # None => shot[p][s] <= ctr[s]
              /\ ctr[s] = None => s \in ended

RowsOf == [s \in OpenVpn |-> AtLeast0(rows[s])]
Sampled == ~admin => samples["openvpn"] = Sum(RowsOf, OpenVpn)

Totalled == \A k \in Kind : AtLeast0(total[k]) = samples[k]

\* Bytes are counted up from zero.
Carried == \A s \in Session : truth[s] >= 0

\* Nobody's rows are gone.
AllThere == \A p \in Proc : gone[p] = {}

\* All of it holds while operations do not overlap.
Apart == OneBusy /\ AllThere /\ Balance /\ ResetFits /\ Grows /\ Sampled /\ Totalled /\ Carried

\* The inductive invariant.
AInv == TypeOK /\ (~overlap => Apart)

-----------------------------------------------------------------------------
(* Differences of counters *)

\* The differences are natural numbers.
LEMMA DeltaNat == \A s, last, cur : last \in Counter /\ cur \in Nat => Delta(s, last, cur) \in Nat
  BY DEF Delta, Counter, None

\* A counter that starts again has nothing to count ...
LEMMA DeltaZero == \A s, last : last \in Counter => Delta(s, last, 0) = 0
  BY DEF Delta, Counter, None

\* ... nor has one that did not move ...
LEMMA DeltaSelf == \A s, cur : cur \in Nat => Delta(s, cur, cur) = 0
  BY DEF Delta, None

\* ... and a unit of traffic adds at most one.
LEMMA DeltaStep ==
  \A s, last, cur : last \in Counter /\ cur \in Nat => Delta(s, last, cur + 1) <= Delta(s, last, cur) + 1
  BY DEF Delta, Counter, None

\* An OpenVPN counter that did not go back is its last value and the difference.
LEMMA DeltaGrows ==
  \A s \in OpenVpn, last \in Counter, cur \in Nat :
     (last # None => last <= cur) => AtLeast0(cur) = AtLeast0(last) + Delta(s, last, cur)
  BY ConstantsAssumption DEF Delta, Counter, None, AtLeast0

\* What is to be counted is a natural number.
LEMMA OpenNat ==
  \A c \in [Session -> Counter], s \in Session, last \in Counter : Open(c, s, last) \in Nat
<1> TAKE c \in [Session -> Counter], s \in Session, last \in Counter
<1>1. c[s] = None \/ c[s] \in Nat
  BY DEF Counter
<1> QED BY <1>1, DeltaNat DEF Open

\* So is what a snapshot and the next one count.
LEMMA DueNat ==
  \A c, r, sh \in [Session -> Counter], s \in Session : Due(c, r, sh, s) \in Nat
<1> TAKE c, r, sh \in [Session -> Counter], s \in Session
<1>1. sh[s] \in Counter /\ r[s] \in Counter
  OBVIOUS
<1>2. sh[s] = None \/ sh[s] \in Nat
  BY <1>1 DEF Counter
<1>3. Open(c, s, r[s]) \in Nat /\ Open(c, s, sh[s]) \in Nat
  BY <1>1, OpenNat
<1>4. sh[s] # None => Delta(s, r[s], sh[s]) \in Nat
  BY <1>1, <1>2, DeltaNat
<1> QED BY <1>3, <1>4 DEF Due

\* The sessions of a kind are finitely many.
LEMMA KindFinite == \A k : IsFiniteSet(OfKind(k)) /\ OfKind(k) \subseteq Session
<1>1. IsFiniteSet(Session)
  BY ConstantsAssumption, FS_Union DEF Session
<1>2. \A k : OfKind(k) \subseteq Session
  BY DEF OfKind
<1> QED BY <1>1, <1>2, FS_Subset

\* The OpenVPN sessions are one kind.
LEMMA OpenVpnKind == OfKind("openvpn") = OpenVpn
  BY ConstantsAssumption DEF OfKind, KindOf, Session

-----------------------------------------------------------------------------
(* How the balance of a kind moves *)

\* Session and table changes that leave the samples alone: what is carried grows by
\* at least as much as what is to be counted.
LEMMA RoomMove ==
  ASSUME NEW k \in Kind,
         NEW c \in [Session -> Counter], NEW r \in [Session -> Counter], NEW sh \in [Session -> Counter],
         NEW c2 \in [Session -> Counter], NEW r2 \in [Session -> Counter], NEW sh2 \in [Session -> Counter],
         NEW smp \in [Kind -> Nat], NEW smp2 \in [Kind -> Nat], smp2[k] = smp[k],
         NEW tr \in [Session -> Int], NEW tr2 \in [Session -> Int],
         \A s \in OfKind(k) : Due(c2, r2, sh2, s) + tr[s] <= tr2[s] + Due(c, r, sh, s),
         Room(k, c, r, sh, smp, tr)
  PROVE  Room(k, c2, r2, sh2, smp2, tr2)
<1> DEFINE S == OfKind(k)
           a == DueOf(c2, r2, sh2)
           d == DueOf(c, r, sh)
<1>1. \A s \in S : a[s] = Due(c2, r2, sh2, s) /\ d[s] = Due(c, r, sh, s)
  BY KindFinite DEF DueOf
<1>2. \A s \in S : a[s] \in Int /\ d[s] \in Int
  BY <1>1, DueNat, KindFinite
<1>3. IsFiniteSet(S) /\ S \subseteq Session
  BY KindFinite
<1>4. smp[k] + Sum(d, S) <= Sum(tr, S)
  BY DEF Room
<1>5. Room(k, c2, r2, sh2, smp2, tr2) <=> smp2[k] + Sum(a, S) <= Sum(tr2, S)
  BY DEF Room
<1> HIDE DEF S, a, d
<1>6. \A s \in S : /\ a[s] \in Int /\ tr[s] \in Int /\ tr2[s] \in Int /\ d[s] \in Int
                   /\ a[s] + tr[s] <= tr2[s] + d[s]
  BY <1>1, <1>2, <1>3 DEF S
<1>7. /\ Sum(a, S) \in Int /\ Sum(tr, S) \in Int /\ Sum(tr2, S) \in Int /\ Sum(d, S) \in Int
      /\ Sum(a, S) + Sum(tr, S) <= Sum(tr2, S) + Sum(d, S)
  BY <1>3, <1>6, SumSwap
<1>8. smp2[k] \in Int /\ smp[k] \in Int
  OBVIOUS
<1> QED BY <1>4, <1>5, <1>7, <1>8

\* A store: what the samples gain is no longer to be counted.
LEMMA RoomStore ==
  ASSUME NEW k \in Kind, NEW c \in [Session -> Counter],
         NEW r \in [Session -> Counter], NEW sh \in [Session -> Counter],
         NEW r2 \in [Session -> Counter], NEW sh2 \in [Session -> Counter],
         NEW smp \in [Kind -> Nat], NEW smp2 \in [Kind -> Nat], NEW tr \in [Session -> Int],
         NEW d \in [Session -> Nat], smp2[k] = smp[k] + Sum(d, OfKind(k)),
         \A s \in OfKind(k) : Due(c, r2, sh2, s) + d[s] <= Due(c, r, sh, s),
         Room(k, c, r, sh, smp, tr)
  PROVE  Room(k, c, r2, sh2, smp2, tr)
<1> DEFINE S == OfKind(k)
           a == DueOf(c, r2, sh2)
           b == DueOf(c, r, sh)
           z == [s \in S |-> 0]
<1>1. \A s \in S : a[s] = Due(c, r2, sh2, s) /\ b[s] = Due(c, r, sh, s)
  BY KindFinite DEF DueOf
<1>2. \A s \in S : a[s] \in Int /\ b[s] \in Int
  BY <1>1, DueNat, KindFinite
<1>3. IsFiniteSet(S) /\ S \subseteq Session
  BY KindFinite
<1>4. smp[k] + Sum(b, S) <= Sum(tr, S)
  BY DEF Room
<1>5. Room(k, c, r2, sh2, smp2, tr) <=> smp2[k] + Sum(a, S) <= Sum(tr, S)
  BY DEF Room
<1>6. \A s \in S : z[s] = 0
  OBVIOUS
<1>7. smp2[k] = smp[k] + Sum(d, S)
  OBVIOUS
<1> HIDE DEF S, a, b, z
<1>8. \A s \in S : /\ a[s] \in Int /\ d[s] \in Int /\ b[s] \in Int /\ z[s] \in Int
                   /\ a[s] + d[s] <= b[s] + z[s]
  BY <1>1, <1>2, <1>3, <1>6 DEF S
<1>9. /\ Sum(a, S) \in Int /\ Sum(d, S) \in Int /\ Sum(b, S) \in Int /\ Sum(z, S) \in Int
      /\ Sum(a, S) + Sum(d, S) <= Sum(b, S) + Sum(z, S)
  BY <1>3, <1>8, SumSwap
<1>10. Sum(z, S) = 0
  BY <1>3, <1>6, SumZero
<1>11. \A s \in S : tr[s] \in Int
  BY <1>3
<1>12. Sum(tr, S) \in Int
  BY <1>3, <1>11, SumInt
<1>13. smp2[k] \in Int /\ smp[k] \in Int
  OBVIOUS
<1> QED BY <1>4, <1>5, <1>7, <1>9, <1>10, <1>12, <1>13

\* A reset: nothing is counted, and every session has room for what it will count.
LEMMA RoomFresh ==
  ASSUME NEW k \in Kind, NEW c \in [Session -> Counter],
         NEW r \in [Session -> Counter], NEW sh \in [Session -> Counter],
         NEW smp \in [Kind -> Nat], NEW tr \in [Session -> Int], smp[k] = 0,
         \A s \in OfKind(k) : Due(c, r, sh, s) <= tr[s]
  PROVE  Room(k, c, r, sh, smp, tr)
<1> DEFINE S == OfKind(k)
           a == DueOf(c, r, sh)
           z == [s \in S |-> 0]
<1>1. \A s \in S : a[s] = Due(c, r, sh, s)
  BY KindFinite DEF DueOf
<1>2. \A s \in S : a[s] \in Int
  BY <1>1, DueNat, KindFinite
<1>3. IsFiniteSet(S) /\ S \subseteq Session
  BY KindFinite
<1>5. Room(k, c, r, sh, smp, tr) <=> smp[k] + Sum(a, S) <= Sum(tr, S)
  BY DEF Room
<1>6. \A s \in S : z[s] = 0
  OBVIOUS
<1> HIDE DEF S, a, z
<1>8. \A s \in S : /\ a[s] \in Int /\ z[s] \in Int /\ tr[s] \in Int /\ z[s] \in Int
                   /\ a[s] + z[s] <= tr[s] + z[s]
  BY <1>1, <1>2, <1>3, <1>6 DEF S
<1>9. /\ Sum(a, S) \in Int /\ Sum(tr, S) \in Int /\ Sum(z, S) \in Int
      /\ Sum(a, S) + Sum(z, S) <= Sum(tr, S) + Sum(z, S)
  BY <1>3, <1>8, SumSwap
<1> QED BY <1>5, <1>9

\* The samples of a balanced kind are no more than was carried.
LEMMA RoomSamples ==
  ASSUME NEW k \in Kind,
         NEW c \in [Session -> Counter], NEW r \in [Session -> Counter], NEW sh \in [Session -> Counter],
         NEW smp \in [Kind -> Nat], NEW tr \in [Session -> Int], Room(k, c, r, sh, smp, tr)
  PROVE  smp[k] <= Sum(tr, OfKind(k)) /\ Sum(tr, OfKind(k)) \in Int
<1> DEFINE S == OfKind(k)
           a == DueOf(c, r, sh)
<1>1. IsFiniteSet(S) /\ S \subseteq Session
  BY KindFinite
<1>2. \A s \in S : a[s] \in Nat
  BY <1>1, DueNat DEF DueOf
<1>3. smp[k] + Sum(a, S) <= Sum(tr, S)
  BY DEF Room
<1> HIDE DEF S, a
<1>4. Sum(a, S) \in Nat
  BY <1>1, <1>2, SumNat
<1>5. \A s \in S : tr[s] \in Int
  BY <1>1
<1>6. Sum(tr, S) \in Int
  BY <1>1, <1>5, SumInt
<1>7. smp[k] \in Int
  OBVIOUS
<1> QED BY <1>3, <1>4, <1>6, <1>7 DEF S

-----------------------------------------------------------------------------
(* The types *)

\* The counters of the sessions that could be read.
Read(read) == [s \in Session |-> IF s \in read THEN ctr[s] ELSE None]

\* Panel and traffic_sync.py collect the same.
LEMMA StatusRead == \A p, read : StatusRows(p, read) = Read(read)
  BY ConstantsAssumption
     DEF StatusRows, StatusLogRows, WireGuardRows, SyncStatusLogRows, SyncWireGuardRows, Read, Session

\* What a snapshot adds to the samples, session by session ...
Added(p) == [s \in Session |-> IF shot[p][s] = None THEN 0 ELSE Delta(s, mem[p].rows[s], shot[p][s])]

\* ... in natural numbers ...
LEMMA AddedNat ==
  ASSUME TypeOK, NEW p \in Proc
  PROVE  Added(p) \in [Session -> Nat]
<1> SUFFICES ASSUME NEW s \in Session
    PROVE (IF shot[p][s] = None THEN 0 ELSE Delta(s, mem[p].rows[s], shot[p][s])) \in Nat
  BY DEF Added
<1>1. shot[p][s] \in Counter /\ mem[p].rows[s] \in Counter
  BY DEF TypeOK
<1>2. shot[p][s] = None \/ shot[p][s] \in Nat
  BY <1>1 DEF Counter
<1> QED BY <1>1, <1>2, DeltaNat

\* ... and in all.
LEMMA DeltasAdded ==
  ASSUME TypeOK, NEW p \in Proc, NEW k \in Kind
  PROVE  Deltas(p, k) = Sum(Added(p), OfKind(k)) /\ Deltas(p, k) \in Nat
<1> DEFINE S == OfKind(k)
           T == Seen(p) \cap S
           f == [s \in Session |-> Delta(s, mem[p].rows[s], shot[p][s])]
           g == Added(p)
<1>1. IsFiniteSet(S) /\ S \subseteq Session /\ T \in SUBSET S /\ IsFiniteSet(T)
  BY KindFinite, FS_Subset
<1>2. \A s \in S : g[s] \in Nat
  BY <1>1, AddedNat
<1>3. \A s \in T : f[s] = g[s]
  BY <1>1 DEF Seen, Added
<1>4. \A s \in S \ T : g[s] = 0
  BY <1>1 DEF Seen, Added
<1>5. Deltas(p, k) = Sum(f, T)
  BY DEF Deltas
<1> HIDE DEF S, T, f, g
<1>6. \A s \in T : g[s] \in Int /\ f[s] = g[s]
  BY <1>1, <1>2, <1>3
<1>7. Sum(f, T) = Sum(g, T)
  BY <1>1, <1>6, SumSame
<1>8. \A s \in S : g[s] \in Int
  BY <1>2
<1>9. Sum(g, T) = Sum(g, S)
  BY <1>1, <1>4, <1>8, SumSub
<1>10. Sum(g, S) \in Nat
  BY <1>1, <1>2, SumNat
<1> QED BY <1>5, <1>7, <1>9, <1>10 DEF S, g

\* The empty snapshot and the counters that were read have their types.
LEMMA ReadType ==
  ASSUME TypeOK
  PROVE  /\ NoShot \in [Session -> Counter] /\ NoBytes \in [Session -> Int]
         /\ NoMem \in [rows : [Session -> Counter], total : [Kind -> Int]]
         /\ Loaded \in [rows : [Session -> Counter], total : [Kind -> Int]]
         /\ \A read : Read(read) \in [Session -> Counter]
  BY DEF TypeOK, NoShot, NoBytes, NoMem, Loaded, Read, Counter, None

\* The steps of the sessions.
LEMMA SessionType ==
  ASSUME TypeOK, NEW s \in Session, Connect(s) \/ Traffic(s) \/ Disconnect(s) \/ TunnelRestart(s)
  PROVE  TypeOK'
<1> USE DEF TypeOK, Counter, None, db, local, bounds, history
<1>1. CASE Connect(s)
  BY <1>1 DEF Connect
<1>2. CASE Traffic(s)
  <2>1. ctr[s] \in Nat /\ ctr' = [ctr EXCEPT ![s] = ctr[s] + 1]
    BY <1>2 DEF Traffic
  <2>2. ctr' \in [Session -> Counter]
    BY <2>1
  <2>3. truth' \in [Session -> Int]
    BY <1>2 DEF Traffic
  <2> QED BY <1>2, <2>2, <2>3 DEF Traffic
<1>3. CASE Disconnect(s)
  BY <1>3 DEF Disconnect
<1>4. CASE TunnelRestart(s)
  BY <1>4 DEF TunnelRestart
<1> QED BY <1>1, <1>2, <1>3, <1>4

\* What collecting does to the shots.
LEMMA CollectedShot ==
  ASSUME TypeOK, NEW p \in Proc, NEW read, Collected(p, read)
  PROVE  shot' = [shot EXCEPT ![p] = Read(read)] /\ shot' \in [Proc -> [Session -> Counter]]
<1>1. shot' = [shot EXCEPT ![p] = Read(read)]
  BY StatusRead DEF Collected
<1>2. Read(read) \in [Session -> Counter]
  BY ReadType
<1> QED BY <1>1, <1>2 DEF TypeOK

\* Rows that are deleted are missed by those who loaded them.
LEMMA DeleteType ==
  ASSUME TypeOK, NEW p, NEW tables \in SUBSET {"sessions", "totals"}, Delete(p, tables)
  PROVE  gone' \in [Proc -> SUBSET {"sessions", "totals"}]
  BY DEF Delete, TypeOK

\* Rebuilt totals are numbers.
LEMMA RebuiltType ==
  ASSUME NEW smp \in [Kind -> Nat], NEW rws, NEW seeded
  PROVE  Rebuilt(smp, rws, seeded) \in [Kind -> Int]
<1> SUFFICES ASSUME NEW k \in Kind PROVE Rebuilt(smp, rws, seeded)[k] \in Int
  BY DEF Rebuilt
<1>1. smp[k] \in Int /\ 0 \in Int /\ None \in Int
  BY DEF None
<1>2. \/ Rebuilt(smp, rws, seeded)[k] = smp[k]
      \/ Rebuilt(smp, rws, seeded)[k] = 0
      \/ Rebuilt(smp, rws, seeded)[k] = None
  BY Zenon DEF Rebuilt
<1> QED BY <1>1, <1>2

\* The steps that read only.
LEMMA ReadingType ==
  ASSUME TypeOK, NEW p \in Proc,
         Collect(p) \/ Load(p) \/ StoreStale(p) \/ Collide(p) \/ Backfill(p) \/ \E scope \in Scope : ResetCollect(p, scope)
  PROVE  TypeOK'
<1>1. CASE Collect(p)
  <2>1. PICK read : Collected(p, read)
    BY <1>1 DEF Collect
  <2>2. shot' \in [Proc -> [Session -> Counter]]
    BY <2>1, CollectedShot
  <2>3. truth' \in [Session -> Int]
    BY <1>1, ReadType DEF Collect, KeepTruth, TypeOK
  <2>4. overlap' \in BOOLEAN
    BY <1>1 DEF Collect, Starts
  <2>5. pc' \in [Proc -> Place]
    BY <1>1 DEF Collect, Becomes, TypeOK, Place
  <2> QED BY <1>1, <2>2, <2>3, <2>4, <2>5 DEF Collect, TypeOK, db
<1>2. CASE Load(p)
  <2>1. pc' \in [Proc -> Place]
    BY <1>2 DEF Load, Becomes, TypeOK, Place
  <2>2. mem' \in [Proc -> [rows : [Session -> Counter], total : [Kind -> Int]]]
    BY <1>2, ReadType DEF Load, TypeOK
  <2> QED BY <1>2, <2>1, <2>2 DEF Load, TypeOK, db, net, bounds, history
<1>3. CASE Collide(p)
  <2>1. pc' \in [Proc -> Place]
    <3>1. \E to \in Place : Becomes(p, to)
      BY <1>3 DEF Collide, Done, Place
    <3> QED BY <3>1 DEF Becomes, TypeOK
  <2>2. mem' \in [Proc -> [rows : [Session -> Counter], total : [Kind -> Int]]]
    BY <1>3, ReadType DEF Collide, TypeOK, Done
  <2>3. shot' \in [Proc -> [Session -> Counter]]
    BY <1>3, ReadType DEF Collide, TypeOK, Done
  <2>4. gone' \in [Proc -> SUBSET {"sessions", "totals"}]
    BY <1>3 DEF Collide, Forget, TypeOK
  <2> QED BY <1>3, <2>1, <2>2, <2>3, <2>4 DEF Collide, TypeOK, db, net, bounds, history
<1>4. CASE Backfill(p)
  <2>1. pc' \in [Proc -> Place]
    BY <1>4 DEF Backfill, Becomes, TypeOK, Place
  <2>2. total' \in [Kind -> Int]
    <3>1. Rebuilt(samples, rows, HasRow(rows)) \in [Kind -> Int]
      BY RebuiltType DEF TypeOK
    <3>2. total \in [Kind -> Int]
      BY DEF TypeOK
    <3>3. total' = total \/ total' = Rebuilt(samples, rows, HasRow(rows))
      BY <1>4 DEF Backfill, RebuildTotals
    <3> QED BY <3>1, <3>2, <3>3
  <2>3. others' \in [samples : Nat, total : Int]
    BY <1>4 DEF Backfill, RebuildTotals, OthersRebuilt, TypeOK
  <2>4. gone' \in [Proc -> SUBSET {"sessions", "totals"}]
    BY <1>4, DeleteType DEF Backfill, RebuildTotals, TypeOK
  <2> QED BY <1>4, <2>1, <2>2, <2>3, <2>4 DEF Backfill, TypeOK, net, bounds, history
<1>5. ASSUME NEW scope \in Scope, ResetCollect(p, scope) PROVE TypeOK'
  <2>1. PICK read : Collected(p, read)
    BY <1>5 DEF ResetCollect
  <2>2. shot' \in [Proc -> [Session -> Counter]]
    BY <2>1, CollectedShot
  <2>3. truth' \in [Session -> Int]
    BY <1>5, ReadType DEF ResetCollect, KeepTruth, TypeOK
  <2>4. overlap' \in BOOLEAN /\ admin' \in BOOLEAN
    BY <1>5 DEF ResetCollect, Starts
  <2>5. pc' \in [Proc -> Place]
    BY <1>5 DEF ResetCollect, Becomes, TypeOK, Place
  <2>6. mark' \in [Session -> Int]
    <3>1. \A s \in Session : truth[s] \in Int /\ ctr[s] \in Int
      BY DEF TypeOK, Counter, None
    <3> QED BY <1>5, <3>1 DEF ResetCollect
  <2> QED BY <1>5, <2>2, <2>3, <2>4, <2>5, <2>6 DEF ResetCollect, TypeOK, db
<1>6. CASE StoreStale(p)
  <2>1. pc' \in [Proc -> Place]
    BY <1>6 DEF StoreStale, Done, Becomes, TypeOK, Place
  <2>2. mem' \in [Proc -> [rows : [Session -> Counter], total : [Kind -> Int]]]
    BY <1>6, ReadType DEF StoreStale, TypeOK, Done
  <2>3. shot' \in [Proc -> [Session -> Counter]]
    BY <1>6, ReadType DEF StoreStale, TypeOK, Done
  <2>4. gone' \in [Proc -> SUBSET {"sessions", "totals"}]
    BY <1>6 DEF StoreStale, Forget, TypeOK
  <2> QED BY <1>6, <2>1, <2>2, <2>3, <2>4 DEF StoreStale, TypeOK, db, net, bounds, history
<1> QED BY <1>1, <1>2, <1>3, <1>4, <1>5, <1>6

\* An update that goes astray writes what was read or computed.
LEMMA AstrayType ==
  ASSUME TypeOK, NEW p \in Proc, StoreAstray(p)
  PROVE  /\ rows' \in [Session -> Counter] /\ total' \in [Kind -> Int]
         /\ others' \in [samples : Nat, total : Int]
<1>1. \A k \in Kind : Deltas(p, k) \in Nat
  BY DeltasAdded
<1>2. \A k \in Kind : total[k] \in Int /\ mem[p].total[k] \in Int
  BY DEF TypeOK
<1>3. Seen(p) \subseteq Session /\ Written(p) \subseteq Session /\ SeenKinds(p) \subseteq Kind
  BY DEF Seen, Written, PanelSessions, SyncSessions, SeenKinds, KindOf, Kind
<1>4. \A s \in Session : shot[p][s] \in Counter /\ rows[s] \in Counter
  BY DEF TypeOK
<1>5. ASSUME NEW n \in Int PROVE HitTotals(p, n) \subseteq Int
  BY <1>1, <1>2, <1>3 DEF HitTotals
<1>6. ASSUME NEW s \in Session PROVE SessionsAstray(p, s) \subseteq Counter
  <2>1. HitSessions(p) \subseteq Counter
    BY <1>3, <1>4 DEF HitSessions
  <2> QED BY <1>4, <2>1 DEF SessionsAstray
<1>7. ASSUME NEW k \in Kind PROVE TotalsAstray(p, k) \subseteq Int
  <2>1. NewTotal(p, k) \in Int
    BY <1>1, <1>2 DEF NewTotal, PanelTotal, SyncTotal, AtLeast0
  <2>2. HitTotals(p, total[k]) \subseteq Int
    BY <1>2, <1>5
  <2> QED BY <1>2, <2>1, <2>2 DEF TotalsAstray
<1>8. rows' \in [Session -> Counter]
  <2>1. rows' \in OneOf([s \in Session |-> SessionsAstray(p, s)])
    BY DEF StoreAstray
  <2> QED BY <1>6, <2>1 DEF OneOf
<1>9. total' \in [Kind -> Int]
  <2>1. total' \in OneOf([k \in Kind |-> TotalsAstray(p, k)])
    BY DEF StoreAstray
  <2> QED BY <1>7, <2>1 DEF OneOf
<1>10. others' \in [samples : Nat, total : Int]
  <2>1. OthersAstray(p) \subseteq Int
    <3>1. others.total \in Int
      BY DEF TypeOK
    <3> QED BY <1>5, <3>1 DEF OthersAstray
  <2>2. PICK n \in OthersAstray(p) : others' = [others EXCEPT !.total = n]
    BY DEF StoreAstray
  <2> QED BY <2>1, <2>2 DEF TypeOK
<1> QED BY <1>8, <1>9, <1>10

\* The steps that write the tables.
LEMMA WritingType ==
  ASSUME TypeOK, NEW p \in Proc,
         Store(p) \/ StoreAstray(p) \/ DeleteClient(p) \/ \E scope \in Scope : ResetStore(p, scope)
  PROVE  TypeOK'
<1>1. CASE Store(p)
  <2>1. pc' \in [Proc -> Place]
    BY <1>1 DEF Store, Stored, Becomes, TypeOK, Place, Done
  <2>2. mem' \in [Proc -> [rows : [Session -> Counter], total : [Kind -> Int]]]
    BY <1>1, ReadType DEF Store, TypeOK, Done
  <2>3. shot' \in [Proc -> [Session -> Counter]]
    BY <1>1, ReadType DEF Store, TypeOK, Done
  <2>4. \A k \in Kind : Deltas(p, k) \in Nat
    BY DeltasAdded
  <2>5. samples' \in [Kind -> Nat]
    BY <1>1, <2>4 DEF Store, StoreSamples, TypeOK
  <2>6. rows' \in [Session -> Counter]
    BY <1>1 DEF Store, StoreSessions, TypeOK
  <2>7. total' \in [Kind -> Int]
    <3>1. \A k \in Kind : total[k] \in Int /\ mem[p].total[k] \in Int
      BY DEF TypeOK
    <3>2. \A k \in Kind : NewTotal(p, k) \in Int
      BY <2>4, <3>1 DEF NewTotal, PanelTotal, SyncTotal, AtLeast0
    <3> QED BY <1>1, <3>1, <3>2 DEF Store, StoreTotals
  <2> QED BY <1>1, <2>1, <2>2, <2>3, <2>5, <2>6, <2>7 DEF Store, TypeOK, net, bounds, history
<1>2. CASE DeleteClient(p)
  <2>1. /\ rows' \in [Session -> Counter] /\ truth' \in [Session -> Int]
        /\ samples' \in [Kind -> Nat] /\ total' \in [Kind -> Int]
    BY <1>2, ReadType DEF DeleteClient, None
  <2>2. overlap' \in BOOLEAN /\ admin' \in BOOLEAN
    BY <1>2 DEF DeleteClient, Starts
  <2>3. gone' \in [Proc -> SUBSET {"sessions", "totals"}]
    BY <1>2, DeleteType DEF DeleteClient
  <2> QED BY <1>2, <2>1, <2>2, <2>3 DEF DeleteClient, TypeOK
<1>3. ASSUME NEW scope \in Scope, ResetStore(p, scope) PROVE TypeOK'
  <2>1. pc' \in [Proc -> Place]
    BY <1>3 DEF ResetStore, Becomes, TypeOK, Place, Done
  <2>2. mem' \in [Proc -> [rows : [Session -> Counter], total : [Kind -> Int]]]
    BY <1>3, ReadType DEF ResetStore, TypeOK, Done
  <2>3. shot' \in [Proc -> [Session -> Counter]]
    BY <1>3, ReadType DEF ResetStore, TypeOK, Done
  <2>4. samples' \in [Kind -> Nat]
    BY <1>3 DEF ResetStore, TypeOK
  <2>5. rows' \in [Session -> Counter]
    BY <1>3 DEF ResetStore, Baseline, TypeOK
  <2>6. total' \in [Kind -> Int]
    BY <1>3, <2>4 DEF ResetStore, Rebuilt, None
  <2>7. truth' \in [Session -> Int] /\ mark' \in [Session -> Int]
    BY <1>3, ReadType DEF ResetStore, TypeOK
  <2>8. others' \in [samples : Nat, total : Int]
    BY <1>3 DEF ResetStore, OthersRebuilt, TypeOK
  <2>9. gone' \in [Proc -> SUBSET {"sessions", "totals"}]
    BY <1>3, DeleteType DEF ResetStore
  <2> QED BY <1>3, <2>1, <2>2, <2>3, <2>4, <2>5, <2>6, <2>7, <2>8, <2>9 DEF ResetStore, TypeOK, bounds
<1>4. CASE StoreAstray(p)
  <2>1. pc' \in [Proc -> Place]
    BY <1>4 DEF StoreAstray, Stored, Becomes, TypeOK, Place, Done
  <2>2. mem' \in [Proc -> [rows : [Session -> Counter], total : [Kind -> Int]]]
    BY <1>4, ReadType DEF StoreAstray, TypeOK, Done
  <2>3. shot' \in [Proc -> [Session -> Counter]]
    BY <1>4, ReadType DEF StoreAstray, TypeOK, Done
  <2>4. \A k \in Kind : Deltas(p, k) \in Nat
    BY DeltasAdded
  <2>5. samples' \in [Kind -> Nat]
    BY <1>4, <2>4 DEF StoreAstray, StoreSamples, TypeOK
  <2>6. gone' \in [Proc -> SUBSET {"sessions", "totals"}]
    BY <1>4 DEF StoreAstray, Forget, TypeOK
  <2> QED BY <1>4, <2>1, <2>2, <2>3, <2>5, <2>6, AstrayType DEF StoreAstray, TypeOK, net, bounds, history
<1> QED BY <1>1, <1>2, <1>3, <1>4

-----------------------------------------------------------------------------
(* The steps of the sessions *)

\* A step that changes only the counters and what was carried keeps the balance when
\* no session has more to count, whatever was known of it, than it carried since.
LEMMA SessionStep ==
  ASSUME TypeOK, TypeOK', Apart, UNCHANGED <<db, local, admin, mark>>,
         \A s \in Session : \A last \in Counter :
            Open(ctr', s, last) + truth[s] <= truth'[s] + Open(ctr, s, last),
         Grows', Carried'
  PROVE  Apart'
<1>1. OneBusy'
  BY DEF Apart, OneBusy, db, local, Loaded
<1>2. Totalled' /\ Sampled'
  BY DEF Apart, Totalled, Sampled, RowsOf, db
<1>3. ResetFits'
  <2> SUFFICES ASSUME NEW p \in Proc, pc[p] \in Scope
      PROVE /\ \A s \in Within(pc[p]) : Open(ctr', s, shot[p][s]) <= truth'[s] - mark[s]
            /\ \A s \in Session \ Within(pc[p]) : mark[s] = 0
    BY DEF ResetFits, local
  <2>1. /\ \A s \in Within(pc[p]) : Open(ctr, s, shot[p][s]) <= truth[s] - mark[s]
        /\ \A s \in Session \ Within(pc[p]) : mark[s] = 0
    BY DEF Apart, ResetFits
  <2> SUFFICES ASSUME NEW s \in Within(pc[p])
      PROVE Open(ctr', s, shot[p][s]) <= truth'[s] - mark[s]
    BY <2>1
  <2>2. s \in Session /\ shot[p][s] \in Counter
    BY DEF Within, TypeOK
  <2>3. ctr \in [Session -> Counter] /\ ctr' \in [Session -> Counter]
    BY DEF TypeOK
  <2>4. Open(ctr, s, shot[p][s]) \in Nat /\ Open(ctr', s, shot[p][s]) \in Nat
    BY <2>2, <2>3, OpenNat
  <2>5. truth[s] \in Int /\ truth'[s] \in Int /\ mark[s] \in Int
    BY <2>2 DEF TypeOK
  <2>6. Open(ctr, s, shot[p][s]) <= truth[s] - mark[s]
    BY <2>1
  <2>7. Open(ctr', s, shot[p][s]) + truth[s] <= truth'[s] + Open(ctr, s, shot[p][s])
    BY <2>2
  <2> QED BY <2>4, <2>5, <2>6, <2>7
<1>4. ASSUME NEW sh \in [Session -> Counter], NEW k \in Kind, Room(k, ctr, rows, sh, samples, truth)
      PROVE  Room(k, ctr', rows, sh, samples, truth')
  <2>1. \A s \in OfKind(k) : Due(ctr', rows, sh, s) + truth[s] <= truth'[s] + Due(ctr, rows, sh, s)
    <3> TAKE s \in OfKind(k)
    <3>1. s \in Session /\ sh[s] \in Counter /\ rows[s] \in Counter
      BY KindFinite DEF TypeOK
    <3>2. truth[s] \in Int /\ truth'[s] \in Int
      BY <3>1 DEF TypeOK
    <3>3. ctr \in [Session -> Counter] /\ ctr' \in [Session -> Counter]
      BY DEF TypeOK
    <3>4. \A last \in Counter : /\ Open(ctr, s, last) \in Nat /\ Open(ctr', s, last) \in Nat
                                /\ Open(ctr', s, last) + truth[s] <= truth'[s] + Open(ctr, s, last)
      BY <3>1, <3>3, OpenNat
    <3>5. sh[s] # None => Delta(s, rows[s], sh[s]) \in Nat
      BY <3>1, DeltaNat DEF Counter
    <3>6. CASE sh[s] = None
      <4>1. Open(ctr', s, rows[s]) + truth[s] <= truth'[s] + Open(ctr, s, rows[s])
        BY <3>1, <3>4
      <4> QED BY <3>6, <4>1 DEF Due
    <3>7. CASE sh[s] # None
      <4> DEFINE d == Delta(s, rows[s], sh[s])
                 o == Open(ctr, s, sh[s])
                 o2 == Open(ctr', s, sh[s])
      <4>1. o2 + truth[s] <= truth'[s] + o /\ o \in Nat /\ o2 \in Nat
        BY <3>1, <3>4
      <4>2. d \in Nat
        BY <3>5, <3>7
      <4>3. Due(ctr', rows, sh, s) = d + o2 /\ Due(ctr, rows, sh, s) = d + o
        BY <3>7 DEF Due
      <4> HIDE DEF d, o, o2
      <4> QED BY <3>2, <4>1, <4>2, <4>3
    <3> QED BY <3>6, <3>7
  <2>2. /\ ctr \in [Session -> Counter] /\ ctr' \in [Session -> Counter] /\ rows \in [Session -> Counter]
        /\ samples \in [Kind -> Nat] /\ truth \in [Session -> Int] /\ truth' \in [Session -> Int]
    BY DEF TypeOK
  <2> QED BY <1>4, <2>1, <2>2, RoomMove
<1>5. Balance'
  <2>1. \A p \in Proc : shot[p] \in [Session -> Counter]
    BY DEF TypeOK
  <2>2. NoShot \in [Session -> Counter]
    BY ReadType
  <2>3. ASSUME NEW p \in Proc, pc[p] \in Snapping, NEW k \in Kind
        PROVE  Room(k, ctr', rows, shot[p], samples, truth')
    <3>1. Room(k, ctr, rows, shot[p], samples, truth)
      BY <2>3 DEF Apart, Balance, Bounded
    <3> QED BY <1>4, <2>1, <3>1
  <2>4. ASSUME \A p \in Proc : pc[p] \notin Snapping, NEW k \in Kind
        PROVE  Room(k, ctr', rows, NoShot, samples, truth')
    <3>1. Room(k, ctr, rows, NoShot, samples, truth)
      BY <2>4 DEF Apart, Balance, Bounded
    <3> QED BY <1>4, <2>2, <3>1
  <2>5. rows' = rows /\ samples' = samples /\ pc' = pc /\ shot' = shot
    BY DEF db, local
  <2> QED BY <2>3, <2>4, <2>5 DEF Balance, Bounded
<1>6. AllThere'
  BY DEF Apart, AllThere, local
<1> QED BY <1>1, <1>2, <1>3, <1>5, <1>6 DEF Apart

\* What one session has to count moves, that of the others does not.
LEMMA OpenElsewhere ==
  ASSUME NEW c \in [Session -> Counter], NEW s \in Session, NEW v, NEW d,
         d[s] = v, \A t \in Session : t # s => d[t] = c[t]
  PROVE  /\ \A t \in Session, last \in Counter : t # s => Open(d, t, last) = Open(c, t, last)
         /\ \A last : Open(d, s, last) = IF v = None THEN 0 ELSE Delta(s, last, v)
  BY DEF Open

\* Sessions that start, carry, end or start again keep the invariant.
LEMMA SessionApart ==
  ASSUME TypeOK, TypeOK', Apart, ~overlap,
         NEW s \in Session, Connect(s) \/ Traffic(s) \/ Disconnect(s) \/ TunnelRestart(s)
  PROVE  Apart'
<1>0. /\ \A t \in Session : truth[t] \in Int /\ truth'[t] \in Int
      /\ \A t \in Session, last \in Counter : Open(ctr, t, last) \in Nat /\ Open(ctr', t, last) \in Nat
  <2>1. ctr \in [Session -> Counter] /\ ctr' \in [Session -> Counter]
    BY DEF TypeOK
  <2> QED BY <2>1, OpenNat DEF TypeOK
<1>9. ctr \in [Session -> Counter]
  BY DEF TypeOK
<1> DEFINE Fits == \A t \in Session : \A last \in Counter :
                      Open(ctr', t, last) + truth[t] <= truth'[t] + Open(ctr, t, last)
<1>1. CASE Connect(s) \/ TunnelRestart(s)
  <2>7. truth' = truth
    BY <1>1 DEF Connect, TunnelRestart
  <2>1. ctr' = [ctr EXCEPT ![s] = 0] /\ UNCHANGED <<db, local, admin, mark>>
    BY <1>1 DEF Connect, TunnelRestart, bounds, history
  <2>8. ctr'[s] = 0 /\ \A t \in Session : t # s => ctr'[t] = ctr[t]
    BY <2>1 DEF TypeOK
  <2>5. /\ \A t \in Session, last \in Counter : t # s => Open(ctr', t, last) = Open(ctr, t, last)
        /\ \A last : Open(ctr', s, last) = IF 0 = None THEN 0 ELSE Delta(s, last, 0)
    BY <1>9, <2>8, OpenElsewhere
  <2>2. \A last \in Counter : Open(ctr', s, last) = 0
    BY <2>5, DeltaZero DEF None
  <2>3. Fits
    <3> SUFFICES ASSUME NEW t \in Session, NEW last \in Counter
        PROVE Open(ctr', t, last) + truth[t] <= truth'[t] + Open(ctr, t, last)
      OBVIOUS
    <3>1. CASE t = s
      BY <1>0, <2>7, <2>2, <3>1
    <3>2. CASE t # s
      BY <1>0, <2>7, <2>5, <3>2
    <3> QED BY <3>1, <3>2
  <2>4. Grows'
    <3>1. s \in OpenVpn => ctr[s] = None /\ s \notin ended
      BY <1>1, ConstantsAssumption DEF Connect, TunnelRestart
    <3>2. \A t \in OpenVpn : t \in Session
      BY DEF Session
    <3>3. ended' = ended
      BY <1>1 DEF Connect, TunnelRestart
    <3>4. \A t \in OpenVpn : t # s => ctr'[t] = ctr[t]
      BY <2>1, <3>2 DEF TypeOK
    <3>5. rows' = rows /\ shot' = shot
      BY <2>1 DEF db, local
    <3> QED BY <3>1, <3>3, <3>4, <3>5 DEF Apart, Grows
  <2> HIDE DEF Fits
  <2>9. Carried'
    BY <2>7 DEF Apart, Carried
  <2> QED BY <2>1, <2>3, <2>4, <2>9, SessionStep DEF Fits
<1>2. CASE Traffic(s)
  <2>1. /\ ctr[s] \in Nat /\ ctr' = [ctr EXCEPT ![s] = ctr[s] + 1]
        /\ truth' = [truth EXCEPT ![s] = truth[s] + 1] /\ UNCHANGED <<db, local, admin, mark>>
    BY <1>2 DEF Traffic, bounds, history
  <2>8. ctr'[s] = ctr[s] + 1 /\ \A t \in Session : t # s => ctr'[t] = ctr[t]
    BY <2>1 DEF TypeOK
  <2>6. /\ \A t \in Session, last \in Counter : t # s => Open(ctr', t, last) = Open(ctr, t, last)
        /\ \A last : Open(ctr', s, last) = IF ctr[s] + 1 = None THEN 0 ELSE Delta(s, last, ctr[s] + 1)
    BY <1>9, <2>8, OpenElsewhere
  <2>7. ctr[s] \in Nat
    BY <2>1
  <2>2. \A last \in Counter : Open(ctr', s, last) <= Open(ctr, s, last) + 1
    <3> TAKE last \in Counter
    <3>1. Open(ctr', s, last) = Delta(s, last, ctr[s] + 1)
      BY <2>7, <2>6 DEF None
    <3>2. Open(ctr, s, last) = Delta(s, last, ctr[s])
      BY <2>1 DEF Open, None
    <3> QED BY <2>7, <3>1, <3>2, DeltaStep
  <2>3. truth'[s] = truth[s] + 1 /\ \A t \in Session : t # s => truth'[t] = truth[t]
    BY <2>1 DEF TypeOK
  <2>4. Fits
    <3> SUFFICES ASSUME NEW t \in Session, NEW last \in Counter
        PROVE Open(ctr', t, last) + truth[t] <= truth'[t] + Open(ctr, t, last)
      OBVIOUS
    <3>1. CASE t = s
      BY <1>0, <2>2, <2>3, <3>1
    <3>2. CASE t # s
      BY <1>0, <2>3, <2>6, <3>2
    <3> QED BY <3>1, <3>2
  <2>5. Grows'
    <3>1. \A t \in OpenVpn : t \in Session
      BY DEF Session
    <3>2. ended' = ended /\ rows' = rows /\ shot' = shot
      BY <1>2 DEF Traffic, db, local
    <3>3. \A t \in OpenVpn : t # s => ctr'[t] = ctr[t]
      BY <2>1, <3>1 DEF TypeOK
    <3>4. ctr[s] # None /\ ctr'[s] = ctr[s] + 1 /\ ctr'[s] # None
      BY <2>1 DEF TypeOK, None
    <3>5. \A n \in Counter : n <= ctr[s] => n <= ctr'[s]
      BY <2>1, <3>4 DEF Counter, None
    <3>6. \A t \in Session : rows[t] \in Counter /\ \A p \in Proc : shot[p][t] \in Counter
      BY DEF TypeOK
    <3> QED BY <3>1, <3>2, <3>3, <3>4, <3>5, <3>6 DEF Apart, Grows
  <2> HIDE DEF Fits
  <2>9. Carried'
    BY <1>0, <2>3 DEF Apart, Carried
  <2> QED BY <2>1, <2>4, <2>5, <2>9, SessionStep DEF Fits
<1>3. CASE Disconnect(s)
  <2>7. truth' = truth
    BY <1>3 DEF Disconnect
  <2>1. ctr' = [ctr EXCEPT ![s] = None] /\ UNCHANGED <<db, local, admin, mark>>
    BY <1>3 DEF Disconnect, bounds, history
  <2>8. ctr'[s] = None /\ \A t \in Session : t # s => ctr'[t] = ctr[t]
    BY <2>1 DEF TypeOK
  <2>5. /\ \A t \in Session, last \in Counter : t # s => Open(ctr', t, last) = Open(ctr, t, last)
        /\ \A last : Open(ctr', s, last) = IF None = None THEN 0 ELSE Delta(s, last, None)
    BY <1>9, <2>8, OpenElsewhere
  <2>2. \A last \in Counter : Open(ctr', s, last) = 0
    BY <2>5
  <2>3. Fits
    <3> SUFFICES ASSUME NEW t \in Session, NEW last \in Counter
        PROVE Open(ctr', t, last) + truth[t] <= truth'[t] + Open(ctr, t, last)
      OBVIOUS
    <3>1. CASE t = s
      BY <1>0, <2>7, <2>2, <3>1
    <3>2. CASE t # s
      BY <1>0, <2>7, <2>5, <3>2
    <3> QED BY <3>1, <3>2
  <2>4. Grows'
    <3>1. \A t \in OpenVpn : t \in Session
      BY DEF Session
    <3>2. ended' = ended \cup {s} /\ rows' = rows /\ shot' = shot
      BY <1>3 DEF Disconnect, db, local
    <3>3. \A t \in OpenVpn : t # s => ctr'[t] = ctr[t]
      BY <2>1, <3>1 DEF TypeOK
    <3>4. ctr'[s] = None
      BY <2>1 DEF TypeOK
    <3> QED BY <3>2, <3>3, <3>4 DEF Apart, Grows
  <2> HIDE DEF Fits
  <2>9. Carried'
    BY <2>7 DEF Apart, Carried
  <2> QED BY <2>1, <2>3, <2>4, <2>9, SessionStep DEF Fits
<1> QED BY <1>1, <1>2, <1>3

-----------------------------------------------------------------------------
(* The steps of the processes, while operations do not overlap *)

\* An operation that begins beside no other finds nothing under way.
LEMMA StartsAlone ==
  ASSUME TypeOK, ~overlap => Apart, NEW p \in Proc, Starts(p), ~overlap'
  PROVE  /\ ~overlap /\ Apart
         /\ \A q \in Proc : pc[q] = "idle" /\ shot[q] = NoShot
         /\ Bounded(NoShot)
<1>1. ~overlap /\ \A q \in Proc : pc[q] = "idle"
  BY DEF Starts
<1>2. Apart
  BY <1>1
<1>3. \A q \in Proc : shot[q] = NoShot
  BY <1>1, <1>2 DEF Apart, OneBusy, Snapping, Scope
<1>4. Bounded(NoShot)
  BY <1>1, <1>2 DEF Apart, Balance, Snapping
<1> QED BY <1>1, <1>2, <1>3, <1>4

\* An operation under way finds no other.
LEMMA BusyAlone ==
  ASSUME Apart, NEW p \in Proc, pc[p] # "idle"
  PROVE  \A q \in Proc \ {p} : pc[q] = "idle" /\ shot[q] = NoShot
  BY DEF Apart, OneBusy, Snapping, Scope

\* So rows that it deletes are missed by nobody.
LEMMA DeleteThere ==
  ASSUME TypeOK, Apart, NEW p \in Proc, NEW tables, Delete(p, tables),
         \A q \in Proc \ {p} : pc[q] = "idle"
  PROVE  AllThere'
  BY DEF Delete, Apart, AllThere

\* A snapshot of the present counters leaves as much to count as none.
LEMMA ReadDue ==
  ASSUME TypeOK, NEW read, NEW s \in Session
  PROVE  Due(ctr, rows, Read(read), s) = Due(ctr, rows, NoShot, s)
<1>1. NoShot[s] = None /\ Read(read)[s] = IF s \in read THEN ctr[s] ELSE None
  BY DEF NoShot, Read
<1>2. ctr[s] = None \/ ctr[s] \in Nat
  BY DEF TypeOK, Counter
<1>3. Due(ctr, rows, NoShot, s) = Open(ctr, s, rows[s])
  BY <1>1 DEF Due
<1>4. CASE Read(read)[s] = None
  BY <1>3, <1>4 DEF Due
<1>5. CASE Read(read)[s] # None
  <2>1. Read(read)[s] = ctr[s] /\ ctr[s] # None /\ ctr[s] \in Nat
    BY <1>1, <1>2, <1>5
  <2>2. Open(ctr, s, ctr[s]) = 0
    BY <2>1, DeltaSelf DEF Open
  <2>3. Open(ctr, s, rows[s]) = Delta(s, rows[s], ctr[s])
    BY <2>1 DEF Open
  <2>4. Delta(s, rows[s], ctr[s]) \in Nat
    BY <2>1, DeltaNat DEF TypeOK
  <2>5. Due(ctr, rows, Read(read), s) = Delta(s, rows[s], ctr[s]) + Open(ctr, s, ctr[s])
    BY <2>1 DEF Due
  <2> QED BY <1>3, <2>2, <2>3, <2>4, <2>5
<1> QED BY <1>4, <1>5

\* So the balance holds for it.
LEMMA ReadBounded ==
  ASSUME TypeOK, Bounded(NoShot), NEW read
  PROVE  Bounded(Read(read))
<1> SUFFICES ASSUME NEW k \in Kind
    PROVE Room(k, ctr, rows, Read(read), samples, truth)
  BY DEF Bounded
<1>1. Room(k, ctr, rows, NoShot, samples, truth)
  BY DEF Bounded
<1> DEFINE sh == Read(read)
<1>2. /\ ctr \in [Session -> Counter] /\ rows \in [Session -> Counter]
      /\ samples \in [Kind -> Nat] /\ truth \in [Session -> Int]
      /\ NoShot \in [Session -> Counter] /\ sh \in [Session -> Counter]
  BY ReadType DEF TypeOK
<1>3. \A s \in OfKind(k) : Due(ctr, rows, sh, s) + truth[s] <= truth[s] + Due(ctr, rows, NoShot, s)
  <2> TAKE s \in OfKind(k)
  <2>1. s \in Session
    BY KindFinite
  <2>2. truth[s] \in Int /\ Due(ctr, rows, NoShot, s) \in Nat
    BY <1>2, <2>1, DueNat
  <2>3. Due(ctr, rows, sh, s) = Due(ctr, rows, NoShot, s)
    BY <2>1, ReadDue
  <2> HIDE DEF sh
  <2> QED BY <2>2, <2>3
<1> HIDE DEF sh
<1>4. Room(k, ctr, rows, sh, samples, truth)
  BY <1>1, <1>2, <1>3, RoomMove
<1> QED BY <1>4 DEF sh

\* A snapshot that begins has read what is there.
LEMMA CollectGrows ==
  ASSUME TypeOK, Apart, NEW p \in Proc, NEW read, UNCHANGED <<ctr, ended, rows>>,
         shot' = [shot EXCEPT ![p] = Read(read)]
  PROVE  Grows'
<1>1. \A q \in Proc : shot'[q] = IF q = p THEN Read(read) ELSE shot[q]
  BY DEF TypeOK
<1>2. \A s \in OpenVpn : s \in Session
  BY DEF Session
<1>3. \A s \in OpenVpn : Read(read)[s] = IF s \in read THEN ctr[s] ELSE None
  BY <1>2 DEF Read
<1>4. \A s \in OpenVpn : ctr[s] # None => ctr[s] <= ctr[s]
  BY <1>2 DEF TypeOK, Counter, None
<1> QED BY <1>1, <1>3, <1>4 DEF Apart, Grows

\* Collect.
LEMMA CollectApart ==
  ASSUME TypeOK, ~overlap => Apart, NEW p \in Proc, Collect(p), ~overlap'
  PROVE  Apart'
<1>0. /\ ~overlap /\ Apart
      /\ \A q \in Proc : pc[q] = "idle" /\ shot[q] = NoShot
      /\ Bounded(NoShot)
  BY StartsAlone DEF Collect
<1>1. PICK read : Collected(p, read)
  BY DEF Collect
<1>2. shot' = [shot EXCEPT ![p] = Read(read)]
  BY <1>1, CollectedShot
<1>3. /\ ctr' = ctr /\ ended' = ended /\ rows' = rows /\ total' = total /\ samples' = samples
      /\ mem' = mem /\ admin' = admin /\ mark' = mark /\ truth' = truth
  BY DEF Collect, db, KeepTruth
<1>4. \A q \in Proc : pc'[q] = IF q = p THEN "load" ELSE "idle"
  BY <1>0 DEF Collect, Becomes, TypeOK
<1>5. \A q \in Proc : shot'[q] = IF q = p THEN Read(read) ELSE NoShot
  BY <1>0, <1>2 DEF TypeOK
<1>6. OneBusy'
  BY <1>4, <1>5 DEF OneBusy, Scope, Snapping
<1>7. Balance'
  <2>1. Bounded(Read(read))
    BY <1>0, ReadBounded
  <2>2. \A k \in Kind : Room(k, ctr', rows', shot'[p], samples', truth')
    <3> HIDE DEF Read
    <3> QED BY <1>3, <1>5, <2>1 DEF Bounded
  <2> QED BY <1>4, <2>2 DEF Balance, Bounded, Snapping
<1>8. ResetFits'
  BY <1>4 DEF ResetFits, Scope
<1>9. Grows'
  BY <1>0, <1>2, <1>3, CollectGrows
<1>10. Sampled' /\ Totalled'
  BY <1>0, <1>3 DEF Apart, Sampled, RowsOf, Totalled
<1>20. Carried'
  BY <1>0, <1>3 DEF Apart, Carried
<1>21. AllThere'
  BY <1>0 DEF Collect, Apart, AllThere
<1> QED BY <1>6, <1>7, <1>8, <1>9, <1>10, <1>20, <1>21 DEF Apart

\* Load.
LEMMA LoadApart ==
  ASSUME TypeOK, Apart, NEW p \in Proc, Load(p)
  PROVE  Apart'
<1>1. /\ ctr' = ctr /\ ended' = ended /\ rows' = rows /\ total' = total /\ samples' = samples
      /\ shot' = shot /\ admin' = admin /\ mark' = mark /\ truth' = truth
  BY DEF Load, db, net, bounds, history
<1>2. pc[p] = "load" /\ \A q \in Proc : pc'[q] = IF q = p THEN "store" ELSE pc[q]
  BY DEF Load, Becomes, TypeOK
<1>3. \A q \in Proc : mem'[q] = IF q = p THEN Loaded ELSE mem[q]
  BY DEF Load, TypeOK
<1>4. OneBusy'
  <2>1. Loaded' = Loaded
    BY <1>1 DEF Loaded
  <2>2. \A q \in Proc : pc'[q] \in Scope => pc[q] \in Scope
    BY <1>2 DEF Scope
  <2>3. \A q \in Proc : pc'[q] # "idle" => pc[q] # "idle"
    BY <1>2
  <2>4. \A q \in Proc : pc[q] \in Snapping \cup Scope => pc'[q] \in Snapping \cup Scope
    BY <1>2 DEF Snapping
  <2> QED BY <1>1, <1>2, <1>3, <2>1, <2>2, <2>3, <2>4 DEF Apart, OneBusy
<1>5. \A q \in Proc : (pc'[q] \in Snapping <=> pc[q] \in Snapping) /\ (pc'[q] \in Scope => pc'[q] = pc[q])
  BY <1>2 DEF Snapping, Scope
<1>6. Balance'
  BY <1>1, <1>5 DEF Apart, Balance, Bounded
<1>7. ResetFits'
  BY <1>1, <1>5 DEF Apart, ResetFits
<1>8. Grows' /\ Sampled' /\ Totalled'
  BY <1>1 DEF Apart, Grows, Sampled, RowsOf, Totalled
<1>20. Carried'
  BY <1>1 DEF Apart, Carried
<1>21. AllThere'
  BY DEF Load, Apart, AllThere
<1> QED BY <1>4, <1>6, <1>7, <1>8, <1>20, <1>21 DEF Apart

\* No row is inserted behind the back of a snapshot.
LEMMA NoConflict ==
  ASSUME Apart, NEW p \in Proc, pc[p] = "store"
  PROVE  ~Conflict(p)
<1>1. mem[p].rows = rows /\ mem[p].total = total
  BY DEF Apart, OneBusy, Loaded
<1> QED BY <1>1 DEF Conflict

\* Rebuilt totals are the samples.
LEMMA RebuiltTotals ==
  ASSUME NEW smp \in [Kind -> Nat], NEW rws, NEW seeded, NEW k \in Kind
  PROVE  AtLeast0(Rebuilt(smp, rws, seeded)[k]) = smp[k]
<1>1. Rebuilt(smp, rws, seeded)[k] = smp[k] \/ (smp[k] = 0 /\ Rebuilt(smp, rws, seeded)[k] \in {0, None})
  <2>1. smp[k] \in Nat
    OBVIOUS
  <2> QED BY <2>1 DEF Rebuilt
<1>2. smp[k] \in Nat
  OBVIOUS
<1> QED BY <1>1, <1>2 DEF AtLeast0, None

\* Totals that are rebuilt are the samples again.
LEMMA BackfillApart ==
  ASSUME TypeOK, Apart, NEW p \in Proc, Backfill(p)
  PROVE  Apart'
<1>0. \A q \in Proc \ {p} : pc[q] = "idle"
  BY BusyAlone DEF Backfill
<1>1. Totalled' /\ AllThere'
  <2>1. CASE TooLow
    <3>1. RebuildTotals(p) /\ samples' = samples
      BY <2>1 DEF Backfill
    <3>2. \A k \in Kind : AtLeast0(total'[k]) = samples'[k]
      BY <3>1, RebuiltTotals DEF RebuildTotals, TypeOK
    <3> QED BY <1>0, <3>1, <3>2, DeleteThere DEF Totalled, RebuildTotals
  <2>2. CASE ~TooLow
    BY <2>2 DEF Backfill, Apart, Totalled, AllThere
  <2> QED BY <2>1, <2>2
<1>2. /\ ctr' = ctr /\ ended' = ended /\ rows' = rows /\ samples' = samples /\ mem' = mem
      /\ shot' = shot /\ admin' = admin /\ mark' = mark /\ truth' = truth
  BY DEF Backfill, net, bounds, history
<1>3. pc[p] = "backfill" /\ \A q \in Proc : pc'[q] = IF q = p THEN "idle" ELSE pc[q]
  BY DEF Backfill, Becomes, TypeOK
<1>4. \A q \in Proc : /\ pc'[q] \in Snapping <=> pc[q] \in Snapping
                      /\ pc'[q] \in Scope <=> pc[q] \in Scope
                      /\ pc'[q] \in Scope => pc'[q] = pc[q]
  BY <1>3 DEF Snapping, Scope
<1>5. OneBusy'
  <2>1. \A q \in Proc : pc'[q] = "idle"
    BY <1>0, <1>3
  <2> QED BY <1>2, <1>4, <2>1 DEF Apart, OneBusy, Snapping, Scope
<1>6. Balance'
  BY <1>2, <1>4 DEF Apart, Balance, Bounded
<1>7. ResetFits'
  BY <1>2, <1>4 DEF Apart, ResetFits
<1>8. Grows' /\ Sampled'
  BY <1>2 DEF Apart, Grows, Sampled, RowsOf
<1>20. Carried'
  BY <1>2 DEF Apart, Carried
<1> QED BY <1>1, <1>5, <1>6, <1>7, <1>8, <1>20 DEF Apart

\* Store: what the samples gain is no longer to be counted.
LEMMA StoreApart ==
  ASSUME TypeOK, TypeOK', Apart, NEW p \in Proc, Store(p)
  PROVE  Apart'
<1> DEFINE sh == shot[p]
<1>0. pc[p] = "store" /\ mem[p].rows = rows /\ mem[p].total = total
  BY DEF Store, Apart, OneBusy, Loaded
<1>1. ctr' = ctr /\ ended' = ended /\ admin' = admin /\ mark' = mark /\ truth' = truth
  BY DEF Store, net, bounds, history
<1>2. \A q \in Proc : pc'[q] \notin Snapping \cup Scope /\ shot'[q] = NoShot
  <2>1. \A q \in Proc \ {p} : pc'[q] = "idle" /\ shot'[q] = NoShot
    BY <1>0, BusyAlone DEF Store, Stored, Done, Becomes, TypeOK
  <2>2. pc'[p] \in {"backfill", "idle"} /\ shot'[p] = NoShot
    BY DEF Store, Stored, Done, Becomes, TypeOK
  <2> QED BY <2>1, <2>2 DEF Snapping, Scope
<1>3. \A s \in Session : rows'[s] = IF sh[s] # None THEN sh[s] ELSE rows[s]
  BY <1>0 DEF Store, StoreSessions, Written, PanelSessions, SyncSessions, Seen
<1>4. \A s \in Session : Added(p)[s] = IF sh[s] = None THEN 0 ELSE Delta(s, rows[s], sh[s])
  BY <1>0 DEF Added
<1>5. sh \in [Session -> Counter] /\ Added(p) \in [Session -> Nat] /\ NoShot \in [Session -> Counter]
  BY AddedNat, ReadType DEF TypeOK
<1>6. \A k \in Kind : /\ samples'[k] = samples[k] + Deltas(p, k)
                      /\ Deltas(p, k) = Sum(Added(p), OfKind(k)) /\ Deltas(p, k) \in Nat
  BY DeltasAdded DEF Store, StoreSamples
<1>7. OneBusy'
  <2>1. \A q, r \in Proc : pc'[q] # "idle" /\ pc'[r] # "idle" => q = r
    BY <1>0, BusyAlone DEF Store, Stored, Done, Becomes, TypeOK
  <2> QED BY <1>2, <2>1 DEF OneBusy, Snapping
<1>8. Balance'
  <2> SUFFICES ASSUME NEW k \in Kind PROVE Room(k, ctr, rows', NoShot, samples', truth)
    BY <1>1, <1>2 DEF Balance, Bounded
  <2>1. Room(k, ctr, rows, sh, samples, truth)
    BY <1>0 DEF Apart, Balance, Bounded, Snapping
  <2>2. \A s \in OfKind(k) : Due(ctr, rows', NoShot, s) + Added(p)[s] <= Due(ctr, rows, sh, s)
    <3> TAKE s \in OfKind(k)
    <3>1. s \in Session /\ NoShot[s] = None
      BY KindFinite DEF NoShot
    <3>2. rows'[s] = (IF sh[s] # None THEN sh[s] ELSE rows[s]) /\ rows[s] \in Counter /\ sh[s] \in Counter
      BY <1>3, <1>5, <3>1 DEF TypeOK
    <3>3. Added(p)[s] = (IF sh[s] = None THEN 0 ELSE Delta(s, rows[s], sh[s])) /\ Added(p)[s] \in Nat
      BY <1>4, <1>5, <3>1
    <3>4. Due(ctr, rows', NoShot, s) = Open(ctr, s, rows'[s])
      BY <3>1 DEF Due
    <3>5. ctr \in [Session -> Counter]
      BY DEF TypeOK
    <3>6. Open(ctr, s, rows[s]) \in Nat /\ Open(ctr, s, sh[s]) \in Nat
      BY <3>1, <3>2, <3>5, OpenNat
    <3>7. Due(ctr, rows, sh, s) = IF sh[s] = None THEN Open(ctr, s, rows[s])
                                  ELSE Delta(s, rows[s], sh[s]) + Open(ctr, s, sh[s])
      BY DEF Due
    <3> HIDE DEF sh
    <3> QED BY <3>2, <3>3, <3>4, <3>6, <3>7
  <2>3. /\ ctr \in [Session -> Counter] /\ rows \in [Session -> Counter] /\ rows' \in [Session -> Counter]
        /\ samples \in [Kind -> Nat] /\ samples' \in [Kind -> Nat] /\ truth \in [Session -> Int]
    BY DEF TypeOK
  <2>4. samples'[k] = samples[k] + Sum(Added(p), OfKind(k))
    BY <1>6
  <2> HIDE DEF sh
  <2> QED BY <1>5, <2>1, <2>2, <2>3, <2>4, RoomStore
<1>9. ResetFits'
  BY <1>2 DEF ResetFits
<1>10. Grows'
  <2> SUFFICES ASSUME NEW s \in OpenVpn
      PROVE /\ rows'[s] # None /\ ctr[s] # None => rows'[s] <= ctr[s]
            /\ rows'[s] # None /\ ctr[s] = None => s \in ended
    <3>2. \A t \in OpenVpn, q \in Proc : shot'[q][t] = None
      BY <1>2 DEF NoShot, Session
    <3> QED BY <1>1, <3>2 DEF Grows
  <2>1. rows'[s] = IF sh[s] # None THEN sh[s] ELSE rows[s]
    BY <1>3 DEF Session
  <2> QED BY <2>1 DEF Apart, Grows
<1>11. Sampled'
  <2> SUFFICES ASSUME ~admin PROVE samples'["openvpn"] = Sum(RowsOf', OpenVpn)
    BY <1>1 DEF Sampled
  <2>1. samples["openvpn"] = Sum(RowsOf, OpenVpn)
    BY DEF Apart, Sampled
  <2>2. samples'["openvpn"] = samples["openvpn"] + Sum(Added(p), OpenVpn)
    BY <1>6, OpenVpnKind DEF Kind
  <2> DEFINE a == RowsOf'
             b == RowsOf
             d == Added(p)
             z == [s \in OpenVpn |-> 0]
  <2>3. \A s \in OpenVpn : /\ a[s] \in Int /\ b[s] \in Int /\ d[s] \in Int /\ z[s] = 0
                           /\ a[s] = b[s] + d[s]
    <3> TAKE s \in OpenVpn
    <3>1. s \in Session /\ z[s] = 0
      BY DEF Session
    <3>2. a[s] = AtLeast0(rows'[s]) /\ b[s] = AtLeast0(rows[s])
      BY DEF RowsOf
    <3>3. rows[s] \in Counter /\ sh[s] \in Counter /\ rows'[s] = IF sh[s] # None THEN sh[s] ELSE rows[s]
      BY <1>3, <3>1 DEF TypeOK
    <3>4. d[s] = (IF sh[s] = None THEN 0 ELSE Delta(s, rows[s], sh[s])) /\ d[s] \in Nat
      BY <1>4, <1>5, <3>1
    <3>5. \A n \in Counter : AtLeast0(n) \in Nat
      BY DEF Counter, None, AtLeast0
    <3>6. CASE sh[s] = None
      BY <3>1, <3>2, <3>3, <3>4, <3>5, <3>6
    <3>7. CASE sh[s] # None
      <4>1. sh[s] \in Nat
        BY <3>3, <3>7 DEF Counter
      <4>2. rows[s] # None => rows[s] <= sh[s]
        BY <3>7 DEF Apart, Grows
      <4>3. AtLeast0(sh[s]) = AtLeast0(rows[s]) + Delta(s, rows[s], sh[s])
        BY <3>3, <4>1, <4>2, DeltaGrows
      <4>4. AtLeast0(sh[s]) \in Nat /\ AtLeast0(rows[s]) \in Nat
        BY <3>3, <3>5
      <4> QED BY <3>1, <3>2, <3>3, <3>4, <3>7, <4>3, <4>4
    <3> QED BY <3>6, <3>7
  <2>4. IsFiniteSet(OpenVpn)
    BY ConstantsAssumption
  <2> HIDE DEF a, b, d, z
  <2>5. \A s \in OpenVpn : z[s] = 0
    BY <2>3
  <2>6. Sum(z, OpenVpn) = 0
    BY <2>4, <2>5, SumZero
  <2>7. \A s \in OpenVpn : /\ b[s] \in Int /\ d[s] \in Int /\ a[s] \in Int /\ z[s] \in Int
                           /\ b[s] + d[s] <= a[s] + z[s]
    BY <2>3
  <2>8. \A s \in OpenVpn : /\ a[s] \in Int /\ z[s] \in Int /\ b[s] \in Int /\ d[s] \in Int
                           /\ a[s] + z[s] <= b[s] + d[s]
    BY <2>3
  <2>9. /\ Sum(a, OpenVpn) \in Int /\ Sum(b, OpenVpn) \in Int /\ Sum(d, OpenVpn) \in Int
        /\ Sum(b, OpenVpn) + Sum(d, OpenVpn) <= Sum(a, OpenVpn) + Sum(z, OpenVpn)
    BY <2>4, <2>7, SumSwap
  <2>10. Sum(a, OpenVpn) + Sum(z, OpenVpn) <= Sum(b, OpenVpn) + Sum(d, OpenVpn)
    BY <2>4, <2>8, SumSwap
  <2>11. Sum(a, OpenVpn) = Sum(b, OpenVpn) + Sum(d, OpenVpn)
    BY <2>6, <2>9, <2>10
  <2> QED BY <2>1, <2>2, <2>11 DEF a, b, d
<1>12. Totalled'
  <2> SUFFICES ASSUME NEW k \in Kind PROVE AtLeast0(total'[k]) = samples'[k]
    BY DEF Totalled
  <2>1. AtLeast0(total[k]) = samples[k] /\ samples[k] \in Nat /\ total[k] \in Int
    BY DEF Apart, Totalled, TypeOK
  <2>2. samples'[k] = samples[k] + Deltas(p, k) /\ Deltas(p, k) \in Nat
    BY <1>6
  <2>3. CASE k \in SeenKinds(p)
    <3>1. total'[k] = NewTotal(p, k)
      BY <2>3 DEF Store, StoreTotals
    <3>2. \/ NewTotal(p, k) = total[k] /\ Deltas(p, k) = 0
          \/ NewTotal(p, k) = samples[k] + Deltas(p, k)
      BY <1>0, <2>1 DEF NewTotal, PanelTotal, SyncTotal
    <3>3. \A n \in Nat : AtLeast0(n) = n
      BY DEF AtLeast0
    <3> QED BY <2>1, <2>2, <3>1, <3>2, <3>3
  <2>4. CASE k \notin SeenKinds(p)
    <3>1. total'[k] = total[k]
      BY <2>4 DEF Store, StoreTotals
    <3>2. Seen(p) \cap OfKind(k) = {}
      BY <2>4 DEF SeenKinds, OfKind
    <3>3. Deltas(p, k) = 0
      <4>1. \A f : Sum(f, {}) = 0
        BY SumZero, FS_EmptySet
      <4> QED BY <3>2, <4>1 DEF Deltas
    <3> QED BY <2>1, <2>2, <3>1, <3>3
  <2> QED BY <2>3, <2>4
<1>20. Carried'
  BY <1>1 DEF Apart, Carried
<1>21. AllThere'
  BY DEF Store, Apart, AllThere
<1> QED BY <1>7, <1>8, <1>9, <1>10, <1>11, <1>12, <1>20, <1>21 DEF Apart

\* The first half of a reset: what it will forget leaves room for what is counted later.
LEMMA ResetCollectApart ==
  ASSUME TypeOK, TypeOK', ~overlap => Apart, NEW p \in Proc, NEW scope \in Scope,
         ResetCollect(p, scope), ~overlap'
  PROVE  Apart'
<1>0. /\ ~overlap /\ Apart
      /\ \A q \in Proc : pc[q] = "idle" /\ shot[q] = NoShot
      /\ Bounded(NoShot)
  BY StartsAlone DEF ResetCollect
<1>1. PICK read : Collected(p, read)
  BY DEF ResetCollect
<1>2. shot' = [shot EXCEPT ![p] = Read(read)]
  BY <1>1, CollectedShot
<1>3. /\ ctr' = ctr /\ ended' = ended /\ rows' = rows /\ total' = total /\ samples' = samples
      /\ truth' = truth /\ admin'
  BY DEF ResetCollect, db, KeepTruth
<1>4. \A q \in Proc : pc'[q] = IF q = p THEN scope ELSE "idle"
  BY <1>0 DEF ResetCollect, Becomes, TypeOK
<1>5. \A q \in Proc : shot'[q] = IF q = p THEN Read(read) ELSE NoShot
  BY <1>0, <1>2 DEF TypeOK
<1>6. OneBusy'
  BY <1>3, <1>4, <1>5 DEF OneBusy, Scope, Snapping
<1>7. Balance'
  BY <1>0, <1>3, <1>4 DEF Balance, Bounded, Snapping, Scope
<1>8. ResetFits'
  <2>1. \A s \in Session : mark'[s] = IF s \notin Within(scope) THEN 0
                                      ELSE IF shot'[p][s] = ctr[s] THEN truth[s]
                                      ELSE IF s \in OpenVpn THEN truth[s] - ctr[s] ELSE 0
    BY DEF ResetCollect
  <2>2. ASSUME NEW s \in Within(scope) PROVE Open(ctr, s, shot'[p][s]) <= truth[s] - mark'[s]
    <3>1. s \in Session
      BY DEF Within
    <3>2. shot'[p][s] = ctr[s] \/ shot'[p][s] = None
      BY <1>5, <3>1 DEF Read
    <3>3. truth[s] \in Int /\ (ctr[s] = None \/ ctr[s] \in Nat)
      BY <3>1 DEF TypeOK, Counter
    <3>4. CASE shot'[p][s] = ctr[s]
      <4>1. mark'[s] = truth[s]
        BY <2>1, <2>2, <3>1, <3>4
      <4>2. Open(ctr, s, ctr[s]) = 0
        BY <3>3, DeltaSelf DEF Open
      <4> QED BY <3>3, <3>4, <4>1, <4>2
    <3>5. CASE shot'[p][s] # ctr[s]
      <4>1. shot'[p][s] = None /\ ctr[s] # None /\ ctr[s] \in Nat
        BY <3>2, <3>3, <3>5
      <4>2. mark'[s] = IF s \in OpenVpn THEN truth[s] - ctr[s] ELSE 0
        BY <2>1, <2>2, <3>1, <3>5
      <4>3. Open(ctr, s, None) = IF s \in WireGuard THEN 0 ELSE ctr[s]
        BY <4>1 DEF Open, Delta
      <4>4. CASE s \in OpenVpn
        <5>1. s \notin WireGuard
          BY <4>4, ConstantsAssumption
        <5> QED BY <3>3, <4>1, <4>2, <4>3, <4>4, <5>1
      <4>5. CASE s \notin OpenVpn
        <5>1. s \in WireGuard
          BY <3>1, <4>5 DEF Session
        <5>2. 0 <= truth[s]
          BY <1>0, <3>1 DEF Apart, Carried
        <5> QED BY <3>3, <4>1, <4>2, <4>3, <4>5, <5>1, <5>2
      <4> QED BY <4>4, <4>5
    <3> QED BY <3>4, <3>5
  <2>3. \A q \in Proc : pc'[q] \in Scope => q = p /\ pc'[q] = scope
    BY <1>4 DEF Scope
  <2>4. \A s \in Session \ Within(scope) : mark'[s] = 0
    BY <2>1
  <2> QED BY <1>3, <2>2, <2>3, <2>4 DEF ResetFits
<1>9. Grows'
  BY <1>0, <1>2, <1>3, CollectGrows
<1>10. Sampled' /\ Totalled'
  BY <1>0, <1>3 DEF Apart, Sampled, Totalled
<1>20. Carried'
  BY <1>0, <1>3 DEF Apart, Carried
<1>21. AllThere'
  BY <1>0 DEF ResetCollect, Apart, AllThere
<1> QED BY <1>6, <1>7, <1>8, <1>9, <1>10, <1>20, <1>21 DEF Apart

\* The second half of a reset.
LEMMA ResetStoreApart ==
  ASSUME TypeOK, TypeOK', Apart, ~overlap, NEW p \in Proc, NEW scope \in Scope, ResetStore(p, scope)
  PROVE  Apart'
<1>0. pc[p] = scope /\ pc[p] # "idle" /\ pc[p] \in Scope
  BY DEF ResetStore, Scope
<1>1. ctr' = ctr /\ ended' = ended /\ admin' = admin
  BY DEF ResetStore, bounds
<1>2. \A q \in Proc : pc'[q] = "idle" /\ shot'[q] = NoShot
  <2>1. \A q \in Proc \ {p} : pc'[q] = "idle" /\ shot'[q] = NoShot
    BY <1>0, BusyAlone DEF ResetStore, Done, Becomes, TypeOK
  <2>2. pc'[p] = "idle" /\ shot'[p] = NoShot
    BY DEF ResetStore, Done, Becomes, TypeOK
  <2> QED BY <2>1, <2>2
<1>3. \A s \in Session : rows'[s] = IF s \in Within(scope) THEN shot[p][s] ELSE rows[s]
  BY DEF ResetStore, Baseline
<1>4. \A s \in Session : truth'[s] = truth[s] - mark[s]
  BY DEF ResetStore
<1>5. /\ \A s \in Within(scope) : Open(ctr, s, shot[p][s]) <= truth[s] - mark[s]
      /\ \A s \in Session \ Within(scope) : mark[s] = 0
  BY <1>0 DEF Apart, ResetFits
<1>6. \A q \in Proc : pc[q] \notin Snapping
  <2>1. \A q \in Proc \ {p} : pc[q] = "idle"
    BY <1>0, BusyAlone
  <2> QED BY <1>0, <2>1 DEF Snapping, Scope
<1>7. OneBusy'
  BY <1>2 DEF OneBusy, Scope
<1>8. Balance'
  <2> SUFFICES ASSUME NEW k \in Kind PROVE Room(k, ctr, rows', NoShot, samples', truth')
    BY <1>1, <1>2 DEF Balance, Bounded, Snapping
  <2>1. /\ ctr \in [Session -> Counter] /\ rows \in [Session -> Counter] /\ rows' \in [Session -> Counter]
        /\ samples \in [Kind -> Nat] /\ samples' \in [Kind -> Nat]
        /\ truth \in [Session -> Int] /\ truth' \in [Session -> Int] /\ NoShot \in [Session -> Counter]
    BY ReadType DEF TypeOK
  <2>2. \A r, s : s \in Session => Due(ctr, r, NoShot, s) = Open(ctr, s, r[s])
    BY DEF Due, NoShot
  <2>3. CASE k \in KindsIn(scope)
    <3>1. samples'[k] = 0
      BY <2>3 DEF ResetStore
    <3>2. \A s \in OfKind(k) : Due(ctr, rows', NoShot, s) <= truth'[s]
      <4> TAKE s \in OfKind(k)
      <4>1. s \in Session /\ s \in Within(scope)
        BY <2>3 DEF OfKind, Within
      <4>2. Due(ctr, rows', NoShot, s) = Open(ctr, s, shot[p][s])
        BY <1>3, <2>2, <4>1
      <4> QED BY <1>4, <1>5, <4>1, <4>2
    <3> QED BY <2>1, <3>1, <3>2, RoomFresh
  <2>4. CASE k \notin KindsIn(scope)
    <3>1. samples'[k] = samples[k]
      BY <2>4 DEF ResetStore
    <3>2. \A s \in OfKind(k) : Due(ctr, rows', NoShot, s) + truth[s] <= truth'[s] + Due(ctr, rows, NoShot, s)
      <4> TAKE s \in OfKind(k)
      <4>1. s \in Session /\ s \notin Within(scope)
        BY <2>4 DEF OfKind, Within
      <4>2. rows'[s] = rows[s] /\ truth[s] \in Int /\ truth'[s] = truth[s]
        BY <1>3, <1>4, <1>5, <2>1, <4>1
      <4>3. Due(ctr, rows', NoShot, s) = Due(ctr, rows, NoShot, s) /\ Due(ctr, rows, NoShot, s) \in Nat
        BY <2>1, <2>2, <4>1, <4>2, DueNat
      <4> QED BY <4>2, <4>3
    <3>3. Room(k, ctr, rows, NoShot, samples, truth)
      BY <1>6 DEF Apart, Balance, Bounded
    <3> QED BY <2>1, <3>1, <3>2, <3>3, RoomMove
  <2> QED BY <2>3, <2>4
<1>9. ResetFits'
  BY <1>2 DEF ResetFits, Scope
<1>10. Grows'
  <2> SUFFICES ASSUME NEW s \in OpenVpn
      PROVE /\ rows'[s] # None /\ ctr[s] # None => rows'[s] <= ctr[s]
            /\ rows'[s] # None /\ ctr[s] = None => s \in ended
    <3>1. \A t \in OpenVpn, q \in Proc : shot'[q][t] = None
      BY <1>2 DEF NoShot, Session
    <3> QED BY <1>1, <3>1 DEF Grows
  <2>1. rows'[s] = shot[p][s] \/ rows'[s] = rows[s]
    BY <1>3 DEF Session
  <2> QED BY <2>1 DEF Apart, Grows
<1>11. Sampled'
  BY <1>0, <1>1 DEF Apart, OneBusy, Sampled
<1>12. Totalled'
  <2>1. total' = Rebuilt(samples', rows', Within(scope) \cap Seen(p) # {})
    BY DEF ResetStore
  <2>2. samples' \in [Kind -> Nat]
    BY DEF TypeOK
  <2>3. \A k \in Kind : AtLeast0(total'[k]) = samples'[k]
    BY <2>1, <2>2, RebuiltTotals
  <2> QED BY <2>3 DEF Totalled
<1>20. Carried'
  <2> SUFFICES ASSUME NEW s \in Session PROVE truth'[s] >= 0
    BY DEF Carried
  <2>1. truth'[s] = truth[s] - mark[s] /\ truth[s] \in Int /\ mark[s] \in Int
    BY <1>4 DEF TypeOK
  <2>2. CASE s \in Within(scope)
    <3>1. ctr \in [Session -> Counter] /\ shot[p][s] \in Counter
      BY DEF TypeOK
    <3>2. Open(ctr, s, shot[p][s]) \in Nat
      BY <3>1, OpenNat
    <3>3. Open(ctr, s, shot[p][s]) <= truth[s] - mark[s]
      BY <1>5, <2>2
    <3> QED BY <2>1, <3>2, <3>3
  <2>3. CASE s \notin Within(scope)
    BY <1>5, <2>1, <2>3 DEF Apart, Carried
  <2> QED BY <2>2, <2>3
<1>21. AllThere'
  BY <1>0, BusyAlone, DeleteThere DEF ResetStore
<1> QED BY <1>7, <1>8, <1>9, <1>10, <1>11, <1>12, <1>20, <1>21 DEF Apart

\* Deletion of the statistics of a client without sessions.
LEMMA DeleteApart ==
  ASSUME TypeOK, TypeOK', ~overlap => Apart, NEW p \in Proc, DeleteClient(p), ~overlap'
  PROVE  Apart'
<1>0. /\ ~overlap /\ Apart
      /\ \A q \in Proc : pc[q] = "idle" /\ shot[q] = NoShot
  BY StartsAlone DEF DeleteClient
<1>1. /\ ctr' = ctr /\ ended' = ended /\ admin' /\ rows' = NoShot /\ truth' = NoBytes
      /\ pc' = pc /\ shot' = shot /\ mem' = mem
  BY DEF DeleteClient
<1>2. \A s \in Session : ctr[s] = None
  BY DEF DeleteClient, HasRow, TypeOK
<1>3. OneBusy'
  BY <1>0, <1>1 DEF OneBusy, Scope
<1>4. Balance'
  <2> SUFFICES ASSUME NEW k \in Kind PROVE Room(k, ctr', rows', NoShot, samples', truth')
    BY <1>0, <1>1 DEF Balance, Bounded, Snapping
  <2>1. /\ ctr' \in [Session -> Counter] /\ rows' \in [Session -> Counter]
        /\ samples' \in [Kind -> Nat] /\ truth' \in [Session -> Int] /\ NoShot \in [Session -> Counter]
    BY ReadType DEF TypeOK
  <2>2. samples'[k] = 0
    BY DEF DeleteClient
  <2>3. \A s \in OfKind(k) : Due(ctr', rows', NoShot, s) <= truth'[s]
    <3> TAKE s \in OfKind(k)
    <3>1. s \in Session
      BY KindFinite
    <3>2. truth'[s] = 0
      BY <1>1, <3>1 DEF NoBytes
    <3>3. Due(ctr', rows', NoShot, s) = 0
      BY <1>1, <1>2, <3>1 DEF Due, Open, NoShot
    <3> QED BY <3>2, <3>3
  <2> QED BY <2>1, <2>2, <2>3, RoomFresh
<1>5. ResetFits'
  BY <1>0, <1>1 DEF ResetFits, Scope
<1>6. Grows'
  <2>1. \A s \in OpenVpn : rows'[s] = None /\ \A q \in Proc : shot'[q][s] = None
    BY <1>0, <1>1 DEF NoShot, Session
  <2> QED BY <2>1 DEF Grows
<1>7. Sampled' /\ Totalled'
  <2>1. \A k \in Kind : total'[k] = None /\ samples'[k] = 0
    BY DEF DeleteClient
  <2> QED BY <1>1, <2>1 DEF Sampled, Totalled, AtLeast0, None
<1>20. Carried'
  BY <1>1 DEF Carried, NoBytes
<1>21. AllThere'
  BY <1>0, DeleteThere DEF DeleteClient
<1> QED BY <1>3, <1>4, <1>5, <1>6, <1>7, <1>20, <1>21 DEF Apart

-----------------------------------------------------------------------------
(* The theorems *)

\* At the start nothing is counted and nothing was carried.
LEMMA AInvInit == Init => AInv
<1> SUFFICES ASSUME Init PROVE AInv
  OBVIOUS
<1>1. TypeOK
  <2>1. NoShot \in [Session -> Counter] /\ NoBytes \in [Session -> Int]
    BY DEF NoShot, NoBytes, Counter, None
  <2>2. [k \in Kind |-> None] \in [Kind -> Int] /\ [k \in Kind |-> 0] \in [Kind -> Nat]
    BY DEF None
  <2>3. NoMem \in [rows : [Session -> Counter], total : [Kind -> Int]]
    BY <2>1, <2>2 DEF NoMem
  <2>4. pc \in [Proc -> Place]
    BY DEF Init, Place
  <2>5. others \in [samples : Nat, total : Int]
    BY ConstantsAssumption DEF Init
  <2>6. gone \in [Proc -> SUBSET {"sessions", "totals"}]
    BY DEF Init
  <2>7. shot \in [Proc -> [Session -> Counter]] /\ ctr \in [Session -> Counter] /\ rows \in [Session -> Counter]
    BY <2>1 DEF Init
  <2>8. mem \in [Proc -> [rows : [Session -> Counter], total : [Kind -> Int]]]
    BY <2>3 DEF Init
  <2>9. total \in [Kind -> Int] /\ samples \in [Kind -> Nat] /\ truth \in [Session -> Int] /\ mark \in [Session -> Int]
    BY <2>1, <2>2 DEF Init
  <2>10. ended \subseteq Session /\ overlap \in BOOLEAN /\ admin \in BOOLEAN
    BY DEF Init
  <2> QED BY <2>4, <2>5, <2>6, <2>7, <2>8, <2>9, <2>10 DEF TypeOK
<1>2. \A p \in Proc : pc[p] = "idle" /\ shot[p] = NoShot
  BY DEF Init
<1>3. OneBusy /\ ResetFits /\ AllThere
  BY <1>2 DEF Init, OneBusy, ResetFits, Scope, AllThere
<1>4. Balance
  <2> SUFFICES ASSUME NEW k \in Kind PROVE Room(k, ctr, rows, NoShot, samples, truth)
    BY <1>2 DEF Balance, Bounded, Snapping
  <2>1. /\ ctr \in [Session -> Counter] /\ rows \in [Session -> Counter]
        /\ samples \in [Kind -> Nat] /\ truth \in [Session -> Int] /\ NoShot \in [Session -> Counter]
    BY <1>1, ReadType DEF TypeOK
  <2>2. samples[k] = 0
    BY DEF Init
  <2>3. \A s \in OfKind(k) : Due(ctr, rows, NoShot, s) <= truth[s]
    <3> TAKE s \in OfKind(k)
    <3>1. s \in Session
      BY KindFinite
    <3>2. truth[s] = 0 /\ Due(ctr, rows, NoShot, s) = 0
      BY <3>1 DEF Init, NoBytes, Due, Open, NoShot
    <3> QED BY <3>2
  <2> QED BY <2>1, <2>2, <2>3, RoomFresh
<1>5. Grows
  BY DEF Init, Grows, NoShot, Session
<1>6. Totalled /\ Carried
  BY DEF Init, Totalled, AtLeast0, None, Carried, NoBytes
<1>7. Sampled
  <2>1. \A s \in OpenVpn : RowsOf[s] = 0
    BY DEF Init, RowsOf, NoShot, Session, AtLeast0, None
  <2>2. IsFiniteSet(OpenVpn)
    BY ConstantsAssumption
  <2>3. Sum(RowsOf, OpenVpn) = 0
    BY <2>1, <2>2, SumZero
  <2> QED BY <2>3 DEF Init, Sampled, Kind
<1> QED BY <1>1, <1>3, <1>4, <1>5, <1>6, <1>7 DEF AInv, Apart

\* Every step keeps the invariant.
LEMMA AInvStep == AInv /\ [Next]_vars => AInv'
<1> SUFFICES ASSUME AInv, [Next]_vars PROVE AInv'
  OBVIOUS
<1>0. TypeOK /\ (~overlap => Apart)
  BY DEF AInv
<1>1. ASSUME NEW s \in Session, Connect(s) \/ Traffic(s) \/ Disconnect(s) \/ TunnelRestart(s) PROVE AInv'
  <2>1. TypeOK'
    BY <1>0, <1>1, SessionType
  <2>2. overlap' = overlap
    BY <1>1 DEF Connect, Traffic, Disconnect, TunnelRestart, history
  <2>3. ASSUME ~overlap PROVE Apart'
    BY <1>0, <1>1, <2>1, <2>3, SessionApart
  <2> QED BY <2>1, <2>2, <2>3 DEF AInv
<1>2. ASSUME NEW p \in Proc, Collect(p) PROVE AInv'
  BY <1>0, <1>2, ReadingType, CollectApart DEF AInv
<1>3. ASSUME NEW p \in Proc, Snapshot(p) PROVE AInv'
  <2>1. TypeOK'
    BY <1>0, <1>3, ReadingType, WritingType DEF Snapshot
  <2>2. overlap' = overlap
    BY <1>3 DEF Snapshot, Load, Store, StoreAstray, StoreStale, Collide, Backfill, history
  <2>3. ASSUME ~overlap PROVE Apart'
    <3>1. Apart
      BY <1>0, <2>3
    <3>2. ~Collide(p) /\ ~StoreAstray(p) /\ ~StoreStale(p)
      BY <3>1, NoConflict DEF Collide, StoreAstray, StoreStale, Apart, AllThere
    <3> QED BY <1>0, <1>3, <2>1, <3>1, <3>2, LoadApart, StoreApart, BackfillApart DEF Snapshot
  <2> QED BY <2>1, <2>2, <2>3 DEF AInv
<1>4. ASSUME NEW p \in Web, DeleteClient(p) PROVE AInv'
  <2>1. p \in Proc
    BY DEF Proc
  <2>2. TypeOK'
    BY <1>0, <1>4, <2>1, WritingType
  <2> QED BY <1>0, <1>4, <2>1, <2>2, DeleteApart DEF AInv
<1>5. ASSUME NEW p \in Web, NEW scope \in Scope, ResetCollect(p, scope) PROVE AInv'
  <2>1. p \in Proc
    BY DEF Proc
  <2>2. TypeOK'
    BY <1>0, <1>5, <2>1, ReadingType
  <2> QED BY <1>0, <1>5, <2>1, <2>2, ResetCollectApart DEF AInv
<1>6. ASSUME NEW p \in Web, NEW scope \in Scope, ResetStore(p, scope) PROVE AInv'
  <2>1. p \in Proc
    BY DEF Proc
  <2>2. TypeOK'
    BY <1>0, <1>6, <2>1, WritingType
  <2>3. overlap' = overlap
    BY <1>6 DEF ResetStore
  <2> QED BY <1>0, <1>6, <2>1, <2>2, <2>3, ResetStoreApart DEF AInv
<1>7. ASSUME UNCHANGED vars PROVE AInv'
  <2>1. TypeOK'
    BY <1>0, <1>7 DEF vars, net, db, local, bounds, history, TypeOK
  <2>2. Apart => Apart'
    BY <1>7 DEF vars, net, db, local, bounds, history, Apart, OneBusy, Balance, Bounded, ResetFits, Grows,
                Sampled, RowsOf, Totalled, Carried, Loaded, AllThere
  <2> QED BY <1>0, <1>7, <2>1, <2>2 DEF AInv, vars, history
<1> QED BY <1>1, <1>2, <1>3, <1>4, <1>5, <1>6, <1>7 DEF Next

\* The invariant of the accounting: while operations do not overlap, the samples and
\* what every running session, snapshot and reset under way has still to add are
\* within the bytes carried.
THEOREM AccountingInvariant == Spec => []AInv
<1> QED BY AInvInit, AInvStep, PTL DEF Spec

\* No byte is counted twice: persist_traffic_snapshot, traffic_sync.py, resets and
\* deletions never show more than was transferred since the last reset, and until one
\* the OpenVPN samples are what the session rows add up to.
THEOREM CountedTheorem == Spec => []CountedOnce
<1>1. AInv => CountedOnce
  <2> SUFFICES ASSUME AInv, ~overlap
      PROVE /\ \A k \in Kind : total[k] <= Sum(truth, OfKind(k)) /\ samples[k] <= Sum(truth, OfKind(k))
            /\ ~admin => samples["openvpn"] = Sum([s \in OpenVpn |-> AtLeast0(rows[s])], OpenVpn)
    BY DEF CountedOnce
  <2>1. TypeOK /\ Apart
    BY DEF AInv
  <2>2. ASSUME NEW k \in Kind PROVE total[k] <= Sum(truth, OfKind(k)) /\ samples[k] <= Sum(truth, OfKind(k))
    <3>1. /\ ctr \in [Session -> Counter] /\ rows \in [Session -> Counter] /\ NoShot \in [Session -> Counter]
          /\ samples \in [Kind -> Nat] /\ truth \in [Session -> Int]
          /\ \A p \in Proc : shot[p] \in [Session -> Counter]
      BY <2>1, ReadType DEF TypeOK
    <3>2. PICK sh \in [Session -> Counter] : Room(k, ctr, rows, sh, samples, truth)
      <4>1. CASE \E p \in Proc : pc[p] \in Snapping
        BY <2>1, <3>1, <4>1 DEF Apart, Balance, Bounded
      <4>2. CASE \A p \in Proc : pc[p] \notin Snapping
        BY <2>1, <3>1, <4>2 DEF Apart, Balance, Bounded
      <4> QED BY <4>1, <4>2
    <3>3. samples[k] <= Sum(truth, OfKind(k)) /\ Sum(truth, OfKind(k)) \in Int
      BY <3>1, <3>2, RoomSamples
    <3>4. total[k] <= samples[k] /\ total[k] \in Int /\ samples[k] \in Int
      BY <2>1 DEF TypeOK, Apart, Totalled, AtLeast0
    <3> QED BY <3>3, <3>4
  <2>3. ~admin => samples["openvpn"] = Sum([s \in OpenVpn |-> AtLeast0(rows[s])], OpenVpn)
    BY <2>1 DEF Apart, Sampled, RowsOf
  <2> QED BY <2>2, <2>3
<1> QED BY <1>1, AccountingInvariant, PTL

\* The totals are the sum of the samples they can be rebuilt from.
THEOREM TotalsTheorem == Spec => []TotalsMatchSamples
<1>1. AInv => TotalsMatchSamples
  BY DEF AInv, Apart, Totalled, TotalsMatchSamples
<1> QED BY <1>1, AccountingInvariant, PTL
=============================================================================
