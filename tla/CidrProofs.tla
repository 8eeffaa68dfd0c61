----------------------------- MODULE CidrProofs -----------------------------
(***************************************************************************)
(* The route lists and the route files, for any providers, games, networks *)
(* and requests, any number of processes and any bound on the operations:  *)
(* the status of the provider database and its floor, the division of the  *)
(* route limit, the preview, what a publication may leave empty, and what  *)
(* the game filter writes into the files and cuts out of them.             *)
(***************************************************************************)
EXTENDS CidrPipeline, GameRoutes, FiniteSetTheorems, TLAPS

-----------------------------------------------------------------------------
(* Sums.  The fold of a set is a recursive function on its subsets; that there *)
(* is one, and what it computes, is shown by taking a smallest counterexample. *)

Some(s) == CHOOSE x \in s : TRUE
IsSum(g, f, S) == g = [s \in SUBSET S |-> IF s = {} THEN 0 ELSE f[Some(s)] + g[s \ {Some(s)}]]

\* A set of subsets of a finite set has a smallest element.
LEMMA Smallest ==
  ASSUME NEW S, IsFiniteSet(S), NEW B \in SUBSET (SUBSET S), B # {}
  PROVE  \E m \in B : \A t \in B : t \subseteq m => t = m
<1>1. IsWellFoundedOn(StrictSubsetOrdering(S), SUBSET S)
  BY FS_StrictSubsetOrderingWellFounded, FS_FiniteSubsetsOfFinite
<1>2. PICK m \in B : \A t \in B : ~(<<t, m>> \in StrictSubsetOrdering(S))
  BY <1>1, WFMin
<1>3. \A t \in B : t \subseteq m /\ t # m => <<t, m>> \in StrictSubsetOrdering(S)
  BY DEF StrictSubsetOrdering
<1>4. \A t \in B : t \subseteq m => t = m
  BY <1>2, <1>3
<1> QED BY <1>4

\* The definition of the fold.
LEMMA SumFold ==
  ASSUME NEW f, NEW S
  PROVE  Sum(f, S) = (CHOOSE g : IsSum(g, f, S))[S]
  BY DEF Sum, MapThenFoldSet, IsSum, Some

\* An element of a set.
LEMMA SomeIn == \A s : s # {} => Some(s) \in s
  BY DEF Some

\* What such a function gives.
LEMMA IsSumValue ==
  ASSUME NEW f, NEW g, NEW S, IsSum(g, f, S), NEW s \in SUBSET S
  PROVE  g[s] = IF s = {} THEN 0 ELSE f[Some(s)] + g[s \ {Some(s)}]
<1> DEFINE E(t) == IF t = {} THEN 0 ELSE f[Some(t)] + g[t \ {Some(t)}]
<1>1. g = [t \in SUBSET S |-> E(t)]
  BY DEF IsSum
<1> HIDE DEF E
<1>2. g[s] = E(s)
  BY <1>1
<1> QED BY <1>2 DEF E

\* Two such functions agree.
LEMMA IsSumUnique ==
  ASSUME NEW f, NEW g, NEW h, NEW S, IsFiniteSet(S), NEW T, S \subseteq T, IsSum(g, f, S), IsSum(h, f, T)
  PROVE  g[S] = h[S]
<1> DEFINE B == {s \in SUBSET S : g[s] # h[s]}
<1>1. B = {}
  <2> SUFFICES ASSUME B # {} PROVE FALSE
    OBVIOUS
  <2>0. B \in SUBSET (SUBSET S)
    OBVIOUS
  <2>1. PICK m \in B : \A t \in B : t \subseteq m => t = m
    <3> HIDE DEF B
    <3> QED BY <2>0, Smallest
  <2>2. m \in SUBSET S /\ m \in SUBSET T
    OBVIOUS
  <2>3. /\ g[m] = IF m = {} THEN 0 ELSE f[Some(m)] + g[m \ {Some(m)}]
        /\ h[m] = IF m = {} THEN 0 ELSE f[Some(m)] + h[m \ {Some(m)}]
    BY <2>2, IsSumValue
  <2>4. m # {}
    BY <2>3
  <2>5. m \ {Some(m)} \notin B
    BY <2>1, <2>4, SomeIn
  <2>6. g[m \ {Some(m)}] = h[m \ {Some(m)}]
    BY <2>2, <2>5
  <2> QED BY <2>3, <2>6
<1> QED BY <1>1

\* The sum is computed by one such function.
LEMMA SumByAny ==
  ASSUME NEW f, NEW S, IsFiniteSet(S), NEW T, S \subseteq T, NEW h, IsSum(h, f, T),
         \E g : IsSum(g, f, S)
  PROVE  Sum(f, S) = h[S]
<1>1. IsSum(CHOOSE g : IsSum(g, f, S), f, S)
  OBVIOUS
<1> DEFINE g == CHOOSE g : IsSum(g, f, S)
<1> HIDE DEF g
<1>2. IsSum(g, f, S)
  BY <1>1 DEF g
<1>3. g[S] = h[S]
  BY <1>2, IsSumUnique
<1> QED BY <1>3, SumFold DEF g

\* There is one.
LEMMA SumExists ==
  ASSUME NEW f, NEW S, IsFiniteSet(S)
  PROVE  \E g : IsSum(g, f, S)
<1> DEFINE B == {s \in SUBSET S : ~\E g : IsSum(g, f, s)}
<1>1. B = {}
  <2> SUFFICES ASSUME B # {} PROVE FALSE
    OBVIOUS
  <2>0. B \in SUBSET (SUBSET S)
    OBVIOUS
  <2>1. PICK m \in B : \A t \in B : t \subseteq m => t = m
    <3> HIDE DEF B
    <3> QED BY <2>0, Smallest
  <2>2. m \in SUBSET S /\ (~\E g : IsSum(g, f, m))
    OBVIOUS
  <2>3. \A t \in SUBSET m : t # m => t \notin B
    BY <2>1
  <2>4. \A t \in SUBSET m : t # m => IsFiniteSet(t) /\ \E g : IsSum(g, f, t)
    BY <2>2, <2>3, FS_Subset
  <2> DEFINE h == [s \in SUBSET m |-> IF s = {} THEN 0 ELSE f[Some(s)] + Sum(f, s \ {Some(s)})]
  <2>5. ASSUME NEW u \in SUBSET m, u # m PROVE h[u] = Sum(f, u)
    <3>1. IsFiniteSet(u)
      BY <2>4, <2>5
    <3>2. PICK g : IsSum(g, f, u)
      BY <2>4, <2>5
    <3>3. Sum(f, u) = g[u]
      BY <3>1, <3>2, SumByAny
    <3>4. g[u] = IF u = {} THEN 0 ELSE f[Some(u)] + g[u \ {Some(u)}]
      BY <3>2, IsSumValue
    <3>5. CASE u = {}
      BY <3>3, <3>4, <3>5
    <3>6. CASE u # {}
      <4> DEFINE v == u \ {Some(u)}
      <4>1. v \subseteq u /\ v \in SUBSET m /\ v # m
        BY <3>6, SomeIn
      <4>2. IsFiniteSet(v) /\ \E e : IsSum(e, f, v)
        BY <2>4, <4>1
      <4> HIDE DEF v
      <4>3. Sum(f, v) = g[v]
        BY <3>2, <4>1, <4>2, SumByAny
      <4>4. h[u] = f[Some(u)] + Sum(f, v)
        BY <3>6 DEF v
      <4>5. g[u] = f[Some(u)] + g[v]
        BY <3>4, <3>6 DEF v
      <4> QED BY <3>3, <4>3, <4>4, <4>5
    <3> QED BY <3>5, <3>6
  <2>6. \A s \in SUBSET m : s # {} => h[s \ {Some(s)}] = Sum(f, s \ {Some(s)})
    <3> TAKE s \in SUBSET m
    <3> HAVE s # {}
    <3> DEFINE v == s \ {Some(s)}
    <3>1. v \in SUBSET m /\ v # m
      BY SomeIn
    <3> HIDE DEF h, v
    <3>2. h[v] = Sum(f, v)
      BY <2>5, <3>1
    <3> QED BY <3>2 DEF v
  <2>7. h = [s \in SUBSET m |-> IF s = {} THEN 0 ELSE f[Some(s)] + h[s \ {Some(s)}]]
    <3> DEFINE E(s) == IF s = {} THEN 0 ELSE f[Some(s)] + Sum(f, s \ {Some(s)})
    <3> DEFINE F(s) == IF s = {} THEN 0 ELSE f[Some(s)] + h[s \ {Some(s)}]
    <3>1. \A s \in SUBSET m : E(s) = F(s)
      BY <2>6
    <3>2. h = [s \in SUBSET m |-> E(s)]
      OBVIOUS
    <3> HIDE DEF E, F, h
    <3>3. h = [s \in SUBSET m |-> F(s)]
      BY <3>1, <3>2
    <3> QED BY <3>3 DEF F
  <2>8. IsSum(h, f, m)
    BY <2>7 DEF IsSum
  <2> QED BY <2>2, <2>8
<1>2. S \notin B
  BY <1>1
<1> QED BY <1>2

\* The sum of nothing is 0; otherwise an element is added to the sum of the others.
LEMMA SumUnfold ==
  ASSUME NEW f, NEW S, IsFiniteSet(S)
  PROVE  Sum(f, S) = IF S = {} THEN 0 ELSE f[Some(S)] + Sum(f, S \ {Some(S)})
<1>1. PICK h : IsSum(h, f, S)
  BY SumExists
<1>2. h[S] = IF S = {} THEN 0 ELSE f[Some(S)] + h[S \ {Some(S)}]
  BY <1>1, IsSumValue
<1>3. Sum(f, S) = h[S]
  BY <1>1, SumByAny
<1> DEFINE U == S \ {Some(S)}
<1>4. U \subseteq S /\ IsFiniteSet(U)
  BY FS_Subset
<1> HIDE DEF U
<1>5. Sum(f, U) = h[U]
  BY <1>1, <1>4, SumExists, SumByAny
<1> QED BY <1>2, <1>3, <1>5 DEF U

\* A sum of integers is an integer.
LEMMA SumInt ==
  ASSUME NEW f, NEW S, IsFiniteSet(S), \A x \in S : f[x] \in Int
  PROVE  Sum(f, S) \in Int
<1> DEFINE B == {s \in SUBSET S : Sum(f, s) \notin Int}
<1>1. B = {}
  <2> SUFFICES ASSUME B # {} PROVE FALSE
    OBVIOUS
  <2>0. B \in SUBSET (SUBSET S)
    OBVIOUS
  <2>1. PICK m \in B : \A t \in B : t \subseteq m => t = m
    <3> HIDE DEF B
    <3> QED BY <2>0, Smallest
  <2>2. m \in SUBSET S /\ IsFiniteSet(m)
    BY FS_Subset
  <2>3. Sum(f, m) = IF m = {} THEN 0 ELSE f[Some(m)] + Sum(f, m \ {Some(m)})
    BY <2>2, SumUnfold
  <2>4. m # {}
    BY <2>3
  <2>5. m \ {Some(m)} \notin B
    BY <2>1, <2>4, SomeIn
  <2>6. Sum(f, m \ {Some(m)}) \in Int /\ f[Some(m)] \in Int
    BY <2>2, <2>4, <2>5, SomeIn
  <2> QED BY <2>3, <2>4, <2>6
<1> QED BY <1>1

\* Two pairs of functions that compare at every element have sums that compare.
LEMMA SumSwap ==
  ASSUME NEW S, IsFiniteSet(S), NEW a, NEW b, NEW c, NEW d,
         \A x \in S : /\ a[x] \in Int /\ b[x] \in Int /\ c[x] \in Int /\ d[x] \in Int
                      /\ a[x] + b[x] <= c[x] + d[x]
  PROVE  /\ Sum(a, S) \in Int /\ Sum(b, S) \in Int /\ Sum(c, S) \in Int /\ Sum(d, S) \in Int
         /\ Sum(a, S) + Sum(b, S) <= Sum(c, S) + Sum(d, S)
<1>0. \A s \in SUBSET S : Sum(a, s) \in Int /\ Sum(b, s) \in Int /\ Sum(c, s) \in Int /\ Sum(d, s) \in Int
  <2> TAKE s \in SUBSET S
  <2>1. IsFiniteSet(s)
    BY FS_Subset
  <2>2. /\ \A x \in s : a[x] \in Int
        /\ \A x \in s : b[x] \in Int
        /\ \A x \in s : c[x] \in Int
        /\ \A x \in s : d[x] \in Int
    OBVIOUS
  <2> QED BY <2>1, <2>2, SumInt
<1> DEFINE B == {s \in SUBSET S : ~(Sum(a, s) + Sum(b, s) <= Sum(c, s) + Sum(d, s))}
<1>1. B = {}
  <2> SUFFICES ASSUME B # {} PROVE FALSE
    OBVIOUS
  <2>0. B \in SUBSET (SUBSET S)
    OBVIOUS
  <2>1. PICK m \in B : \A t \in B : t \subseteq m => t = m
    <3> HIDE DEF B
    <3> QED BY <2>0, Smallest
  <2>2. m \in SUBSET S /\ IsFiniteSet(m)
    BY FS_Subset
  <2> DEFINE e == Some(m)
             n == m \ {e}
  <2>3. /\ Sum(a, m) = IF m = {} THEN 0 ELSE a[e] + Sum(a, n)
        /\ Sum(b, m) = IF m = {} THEN 0 ELSE b[e] + Sum(b, n)
        /\ Sum(c, m) = IF m = {} THEN 0 ELSE c[e] + Sum(c, n)
        /\ Sum(d, m) = IF m = {} THEN 0 ELSE d[e] + Sum(d, n)
    BY <2>2, SumUnfold
  <2>9. m \in B
    OBVIOUS
  <2>4. m # {}
    BY <2>3, <2>9
  <2>5. e \in S /\ n \in SUBSET S /\ n \subseteq m /\ n # m
    BY <2>2, <2>4, SomeIn
  <2>6. ~(Sum(a, m) + Sum(b, m) <= Sum(c, m) + Sum(d, m))
    BY <2>9
  <2> HIDE DEF e, n
  <2>7. Sum(a, n) + Sum(b, n) <= Sum(c, n) + Sum(d, n)
    BY <2>1, <2>5
  <2>8. Sum(a, n) \in Int /\ Sum(b, n) \in Int /\ Sum(c, n) \in Int /\ Sum(d, n) \in Int
    BY <1>0, <2>5
  <2> QED BY <2>3, <2>4, <2>5, <2>6, <2>7, <2>8
<1> QED BY <1>0, <1>1

\* Any element may be taken out of a sum.
LEMMA SumRemove ==
  ASSUME NEW f, NEW S, IsFiniteSet(S), \A x \in S : f[x] \in Int, NEW y \in S
  PROVE  Sum(f, S) = f[y] + Sum(f, S \ {y})
<1> DEFINE B == {s \in SUBSET S : \E z \in s : Sum(f, s) # f[z] + Sum(f, s \ {z})}
<1>1. B = {}
  <2> SUFFICES ASSUME B # {} PROVE FALSE
    OBVIOUS
  <2>0. B \in SUBSET (SUBSET S)
    OBVIOUS
  <2>1. PICK m \in B : \A t \in B : t \subseteq m => t = m
    <3> HIDE DEF B
    <3> QED BY <2>0, Smallest
  <2>2. m \in SUBSET S /\ IsFiniteSet(m)
    BY FS_Subset
  <2>3. PICK z \in m : Sum(f, m) # f[z] + Sum(f, m \ {z})
    OBVIOUS
  <2> DEFINE c == Some(m)
  <2>4. c \in m /\ Sum(f, m) = f[c] + Sum(f, m \ {c})
    BY <2>2, <2>3, SumUnfold, SomeIn
  <2> HIDE DEF c
  <2>5. z # c
    BY <2>3, <2>4
  <2>6. m \ {c} \notin B /\ m \ {z} \notin B
    BY <2>1, <2>3, <2>4
  <2> DEFINE n == (m \ {c}) \ {z}
  <2>7. Sum(f, m \ {c}) = f[z] + Sum(f, n)
    BY <2>2, <2>3, <2>5, <2>6
  <2>8. (m \ {z}) \ {c} = n
    OBVIOUS
  <2>9. Sum(f, m \ {z}) = f[c] + Sum(f, n)
    BY <2>2, <2>4, <2>5, <2>6, <2>8
  <2>10. IsFiniteSet(n) /\ n \subseteq S
    BY <2>2, FS_Subset
  <2> HIDE DEF n, B
  <2>11. Sum(f, n) \in Int
    BY <2>10, SumInt
  <2>12. f[c] \in Int /\ f[z] \in Int
    BY <2>2, <2>4
  <2> QED BY <2>3, <2>4, <2>7, <2>9, <2>11, <2>12
<1> QED BY <1>1

\* Elements that add nothing may be left out.
LEMMA SumSub ==
  ASSUME NEW f, NEW S, IsFiniteSet(S), \A x \in S : f[x] \in Int,
         NEW T \in SUBSET S, \A x \in S \ T : f[x] = 0
  PROVE  Sum(f, T) = Sum(f, S)
<1> DEFINE B == {s \in SUBSET S : T \subseteq s /\ Sum(f, s) # Sum(f, T)}
<1>1. B = {}
  <2> SUFFICES ASSUME B # {} PROVE FALSE
    OBVIOUS
  <2>0. B \in SUBSET (SUBSET S)
    OBVIOUS
  <2>1. PICK m \in B : \A t \in B : t \subseteq m => t = m
    <3> HIDE DEF B
    <3> QED BY <2>0, Smallest
  <2>2. m \in SUBSET S /\ T \subseteq m /\ Sum(f, m) # Sum(f, T) /\ IsFiniteSet(m)
    BY FS_Subset
  <2>3. PICK y \in m : y \notin T
    BY <2>2
  <2>4. \A x \in m : f[x] \in Int
    BY <2>2
  <2>5. Sum(f, m) = f[y] + Sum(f, m \ {y})
    <3> HIDE DEF B
    <3> QED BY <2>2, <2>4, SumRemove
  <2>6. Sum(f, m \ {y}) = Sum(f, T)
    BY <2>1, <2>2, <2>3
  <2>7. Sum(f, T) \in Int
    <3> HIDE DEF B
    <3>1. IsFiniteSet(T) /\ \A x \in T : f[x] \in Int
      BY FS_Subset
    <3> QED BY <3>1, SumInt
  <2>8. f[y] = 0
    BY <2>2, <2>3
  <2> QED BY <2>2, <2>5, <2>6, <2>7, <2>8
<1> QED BY <1>1

\* A sum of zeros is 0.
LEMMA SumZero ==
  ASSUME NEW f, NEW S, IsFiniteSet(S), \A x \in S : f[x] = 0
  PROVE  Sum(f, S) = 0
<1>1. {} \in SUBSET S /\ IsFiniteSet({})
  BY FS_EmptySet
<1>2. Sum(f, {}) = Sum(f, S)
  BY <1>1, SumSub
<1>3. Sum(f, {}) = 0
  BY <1>1, SumUnfold
<1> QED BY <1>2, <1>3

\* Functions that agree have the same sum.
LEMMA SumSame ==
  ASSUME NEW f, NEW g, NEW S, IsFiniteSet(S), \A x \in S : f[x] \in Int /\ g[x] = f[x]
  PROVE  Sum(g, S) = Sum(f, S)
<1> DEFINE z == [x \in S |-> 0]
<1>1. \A x \in S : /\ f[x] \in Int /\ z[x] \in Int /\ g[x] \in Int /\ z[x] \in Int
                   /\ f[x] + z[x] <= g[x] + z[x]
  OBVIOUS
<1>2. \A x \in S : /\ g[x] \in Int /\ z[x] \in Int /\ f[x] \in Int /\ z[x] \in Int
                   /\ g[x] + z[x] <= f[x] + z[x]
  OBVIOUS
<1>3. Sum(z, S) = 0
  BY SumZero
<1> HIDE DEF z
<1>4. Sum(f, S) \in Int /\ Sum(g, S) \in Int /\ Sum(f, S) + Sum(z, S) <= Sum(g, S) + Sum(z, S)
  BY <1>1, SumSwap
<1>5. Sum(g, S) + Sum(z, S) <= Sum(f, S) + Sum(z, S)
  BY <1>2, SumSwap
<1> QED BY <1>3, <1>4, <1>5

\* A sum of natural numbers is one.
LEMMA SumNat ==
  ASSUME NEW f, NEW S, IsFiniteSet(S), \A x \in S : f[x] \in Nat
  PROVE  Sum(f, S) \in Nat
<1> DEFINE z == [x \in S |-> 0]
<1>1. \A x \in S : /\ z[x] \in Int /\ z[x] \in Int /\ f[x] \in Int /\ z[x] \in Int
                   /\ z[x] + z[x] <= f[x] + z[x]
  OBVIOUS
<1>2. Sum(z, S) = 0
  BY SumZero
<1> HIDE DEF z
<1>3. Sum(f, S) \in Int /\ Sum(z, S) + Sum(z, S) <= Sum(f, S) + Sum(z, S)
  BY <1>1, SumSwap
<1> QED BY <1>2, <1>3

\* The sum of a sum of two functions.
LEMMA SumAdd ==
  ASSUME NEW S, IsFiniteSet(S), NEW f, NEW g, NEW h,
         \A x \in S : f[x] \in Int /\ g[x] \in Int /\ h[x] = f[x] + g[x]
  PROVE  Sum(f, S) \in Int /\ Sum(g, S) \in Int /\ Sum(h, S) = Sum(f, S) + Sum(g, S)
<1> DEFINE z == [x \in S |-> 0]
<1>1. \A x \in S : /\ f[x] \in Int /\ g[x] \in Int /\ h[x] \in Int /\ z[x] \in Int
                   /\ f[x] + g[x] <= h[x] + z[x]
  OBVIOUS
<1>2. \A x \in S : /\ h[x] \in Int /\ z[x] \in Int /\ f[x] \in Int /\ g[x] \in Int
                   /\ h[x] + z[x] <= f[x] + g[x]
  OBVIOUS
<1>3. Sum(z, S) = 0
  BY SumZero
<1> HIDE DEF z
<1>4. /\ Sum(f, S) \in Int /\ Sum(g, S) \in Int /\ Sum(h, S) \in Int
      /\ Sum(f, S) + Sum(g, S) <= Sum(h, S) + Sum(z, S)
  BY <1>1, SumSwap
<1>5. Sum(h, S) + Sum(z, S) <= Sum(f, S) + Sum(g, S)
  BY <1>2, SumSwap
<1> QED BY <1>3, <1>4, <1>5

\* A function that is nowhere larger has no larger sum.
LEMMA SumMono ==
  ASSUME NEW S, IsFiniteSet(S), NEW f, NEW g, \A x \in S : f[x] \in Int /\ g[x] \in Int /\ f[x] <= g[x]
  PROVE  Sum(f, S) \in Int /\ Sum(g, S) \in Int /\ Sum(f, S) <= Sum(g, S)
<1> DEFINE z == [x \in S |-> 0]
<1>1. \A x \in S : /\ f[x] \in Int /\ z[x] \in Int /\ g[x] \in Int /\ z[x] \in Int
                   /\ f[x] + z[x] <= g[x] + z[x]
  OBVIOUS
<1>2. Sum(z, S) = 0
  BY SumZero
<1> HIDE DEF z
<1>3. /\ Sum(f, S) \in Int /\ Sum(g, S) \in Int
      /\ Sum(f, S) + Sum(z, S) <= Sum(g, S) + Sum(z, S)
  BY <1>1, SumSwap
<1> QED BY <1>2, <1>3

\* What holds of a set if it holds of its proper subsets holds of every finite set.
LEMMA SetInduction ==
  ASSUME NEW S, IsFiniteSet(S), NEW G \in SUBSET (SUBSET S),
         \A s \in SUBSET S : (\A t \in SUBSET s : t # s => t \in G) => s \in G
  PROVE  S \in G
<1> SUFFICES ASSUME S \notin G PROVE FALSE
  OBVIOUS
<1> DEFINE B == (SUBSET S) \ G
<1>1. B \in SUBSET (SUBSET S) /\ B # {}
  OBVIOUS
<1>2. PICK m \in B : \A t \in B : t \subseteq m => t = m
  <2> HIDE DEF B
  <2> QED BY <1>1, Smallest
<1>3. \A t \in SUBSET m : t # m => t \in G
  BY <1>2
<1> QED BY <1>3

\* A common factor.
LEMMA SumScale ==
  ASSUME NEW S, IsFiniteSet(S), NEW k \in Int, NEW f, NEW h, \A x \in S : f[x] \in Int /\ h[x] = k * f[x]
  PROVE  Sum(h, S) = k * Sum(f, S)
<1> DEFINE G == {s \in SUBSET S : Sum(h, s) = k * Sum(f, s)}
<1>1. ASSUME NEW s \in SUBSET S, \A t \in SUBSET s : t # s => t \in G
      PROVE  s \in G
  <2>1. IsFiniteSet(s)
    BY FS_Subset
  <2> DEFINE e == Some(s)
             n == s \ {e}
  <2>2. /\ Sum(f, s) = IF s = {} THEN 0 ELSE f[e] + Sum(f, n)
        /\ Sum(h, s) = IF s = {} THEN 0 ELSE h[e] + Sum(h, n)
    BY <2>1, SumUnfold
  <2>3. CASE s = {}
    BY <2>2, <2>3
  <2>4. CASE s # {}
    <3>1. e \in s /\ n \in SUBSET s /\ n # s
      BY <2>4, SomeIn
    <3>2. Sum(h, n) = k * Sum(f, n)
      BY <1>1, <3>1
    <3> HIDE DEF e, n
    <3>3. IsFiniteSet(n) /\ (\A x \in n : f[x] \in Int)
      BY <2>1, <3>1, FS_Subset
    <3>4. Sum(f, n) \in Int /\ f[e] \in Int /\ h[e] = k * f[e]
      BY <3>1, <3>3, SumInt
    <3>5. \A a, b \in Int : k * (a + b) = k * a + k * b
      OBVIOUS
    <3>6. Sum(h, s) = k * f[e] + k * Sum(f, n) /\ Sum(f, s) = f[e] + Sum(f, n)
      BY <2>2, <2>4, <3>2, <3>4
    <3> QED BY <3>4, <3>5, <3>6
  <2> QED BY <2>3, <2>4
<1>2. \A s \in SUBSET S : (\A t \in SUBSET s : t # s => t \in G) => s \in G
  BY <1>1
<1>3. G \in SUBSET (SUBSET S)
  OBVIOUS
<1>4. S \in G
  <2> HIDE DEF G
  <2> QED BY <1>2, <1>3, SetInduction
<1> QED BY <1>4

\* A sum of ones counts.
LEMMA SumCount ==
  ASSUME NEW S, IsFiniteSet(S), NEW f, \A x \in S : f[x] = 1
  PROVE  Sum(f, S) = Cardinality(S)
<1> DEFINE G == {s \in SUBSET S : Sum(f, s) = Cardinality(s)}
<1>1. ASSUME NEW s \in SUBSET S, \A t \in SUBSET s : t # s => t \in G
      PROVE  s \in G
  <2>1. IsFiniteSet(s)
    BY FS_Subset
  <2> DEFINE e == Some(s)
             n == s \ {e}
  <2>2. Sum(f, s) = IF s = {} THEN 0 ELSE f[e] + Sum(f, n)
    BY <2>1, SumUnfold
  <2>3. CASE s = {}
    BY <2>2, <2>3, FS_EmptySet
  <2>4. CASE s # {}
    <3>1. e \in s /\ n \in SUBSET s /\ n # s
      BY <2>4, SomeIn
    <3>2. Sum(f, n) = Cardinality(n) /\ f[e] = 1
      BY <1>1, <3>1
    <3>3. Cardinality(n) = Cardinality(s) - 1 /\ Cardinality(s) \in Nat
      BY <2>1, <3>1, FS_RemoveElement, FS_CardinalityType
    <3> HIDE DEF e, n
    <3> QED BY <2>2, <2>4, <3>2, <3>3
  <2> QED BY <2>3, <2>4
<1>2. \A s \in SUBSET S : (\A t \in SUBSET s : t # s => t \in G) => s \in G
  BY <1>1
<1>3. G \in SUBSET (SUBSET S)
  OBVIOUS
<1>4. S \in G
  <2> HIDE DEF G
  <2> QED BY <1>2, <1>3, SetInduction
<1> QED BY <1>4

\* The sum of the function that marks a subset.
LEMMA SumMarks ==
  ASSUME NEW S, IsFiniteSet(S), NEW T \in SUBSET S, NEW f,
         \A x \in S : f[x] = IF x \in T THEN 1 ELSE 0
  PROVE  Sum(f, S) = Cardinality(T)
<1>1. \A x \in S : f[x] \in Int
  OBVIOUS
<1>2. \A x \in S \ T : f[x] = 0
  OBVIOUS
<1>3. Sum(f, T) = Sum(f, S)
  BY <1>1, <1>2, SumSub
<1>4. IsFiniteSet(T) /\ \A x \in T : f[x] = 1
  BY FS_Subset
<1> QED BY <1>3, <1>4, SumCount

-----------------------------------------------------------------------------
(* Ranks.  R is a strict total order on S, a set of pairs. *)

IsOrder(R, S) ==
    /\ \A x \in S : <<x, x>> \notin R
    /\ \A x, y \in S : x # y => <<x, y>> \in R \/ <<y, x>> \in R
    /\ \A x, y, z \in S : <<x, y>> \in R /\ <<y, z>> \in R => <<x, z>> \in R
Ahead(R, S, x) == {y \in S : <<y, x>> \in R}
Ranked(R, S, n) == {x \in S : Cardinality(Ahead(R, S, x)) < n}

\* An order of a set orders its subsets.
LEMMA SubOrder == \A R, S, T : IsOrder(R, S) /\ T \subseteq S => IsOrder(R, T)
  BY DEF IsOrder

\* A finite set has a last element.
LEMMA LastOne ==
  ASSUME NEW R, NEW S, IsFiniteSet(S), S # {}, IsOrder(R, S)
  PROVE  \E l \in S : \A x \in S \ {l} : <<x, l>> \in R
<1> DEFINE G == {s \in SUBSET S : s # {} => \E l \in s : \A x \in s \ {l} : <<x, l>> \in R}
<1>1. ASSUME NEW s \in SUBSET S, \A t \in SUBSET s : t # s => t \in G
      PROVE  s \in G
  <2> SUFFICES ASSUME s # {}  PROVE \E l \in s : \A x \in s \ {l} : <<x, l>> \in R
    OBVIOUS
  <2>1. PICK e \in s : TRUE
    OBVIOUS
  <2> DEFINE n == s \ {e}
  <2>2. n \in G
    BY <1>1
  <2>3. CASE n = {}
    BY <2>3
  <2>4. CASE n # {}
    <3>1. PICK l \in n : \A x \in n \ {l} : <<x, l>> \in R
      BY <2>2, <2>4
    <3>2. e \in S /\ l \in S /\ e # l /\ n \subseteq S
      OBVIOUS
    <3>3. CASE <<e, l>> \in R
      <4>1. \A x \in s \ {l} : <<x, l>> \in R
        BY <3>1, <3>3
      <4> QED BY <4>1, <3>1
    <3>4. CASE <<l, e>> \in R
      <4>1. ASSUME NEW x \in s \ {e}  PROVE <<x, e>> \in R
        <5>1. x = l \/ <<x, l>> \in R
          BY <3>1
        <5>2. x \in S
          OBVIOUS
        <5> HIDE DEF n
        <5> QED BY <5>1, <5>2, <3>2, <3>4 DEF IsOrder
      <4> QED BY <4>1
    <3> QED BY <3>2, <3>3, <3>4 DEF IsOrder
  <2> QED BY <2>3, <2>4
<1>2. \A s \in SUBSET S : (\A t \in SUBSET s : t # s => t \in G) => s \in G
  BY <1>1
<1>3. G \in SUBSET (SUBSET S)
  OBVIOUS
<1>4. S \in G
  <2> HIDE DEF G
  <2> QED BY <1>2, <1>3, SetInduction
<1> QED BY <1>4

IsLast(R, S, l) == l \in S /\ \A x \in S \ {l} : <<x, l>> \in R

\* Without the last element the others keep those ahead of them.
LEMMA AheadOfLast ==
  ASSUME NEW R, NEW S, NEW l, IsOrder(R, S), IsLast(R, S, l)
  PROVE  /\ Ahead(R, S, l) = S \ {l}
         /\ \A x \in S \ {l} : Ahead(R, S, x) = Ahead(R, S \ {l}, x)
<1>0. l \in S /\ \A x \in S \ {l} : <<x, l>> \in R
  BY DEF IsLast
<1>1. Ahead(R, S, l) = S \ {l}
  BY <1>0 DEF Ahead, IsOrder
<1>2. ASSUME NEW x \in S \ {l}  PROVE <<l, x>> \notin R
  BY <1>0 DEF IsOrder
<1> QED BY <1>1, <1>2 DEF Ahead

\* The first n are n, or all.
LEMMA RankedSize ==
  ASSUME NEW R, NEW S, IsFiniteSet(S), IsOrder(R, S), NEW n \in Nat
  PROVE  Cardinality(Ranked(R, S, n)) = Smaller(n, Cardinality(S))
<1> DEFINE G == {s \in SUBSET S : Cardinality(Ranked(R, s, n)) = Smaller(n, Cardinality(s))}
<1>1. ASSUME NEW s \in SUBSET S, \A t \in SUBSET s : t # s => t \in G
      PROVE  s \in G
  <2>1. IsFiniteSet(s) /\ IsOrder(R, s) /\ Cardinality(s) \in Nat
    BY FS_Subset, SubOrder, FS_CardinalityType
  <2>2. CASE s = {}
    <3>1. Ranked(R, s, n) = {}
      BY <2>2 DEF Ranked
    <3> QED BY <2>2, <3>1, FS_EmptySet DEF Smaller
  <2>3. CASE s # {}
    <3>1. PICK l \in s : \A x \in s \ {l} : <<x, l>> \in R
      BY <2>1, <2>3, LastOne
    <3> DEFINE t == s \ {l}
    <3>2. t \in SUBSET s /\ t # s
      OBVIOUS
    <3>3. Cardinality(Ranked(R, t, n)) = Smaller(n, Cardinality(t))
      BY <3>2, <1>1
    <3>4. IsFiniteSet(t) /\ Cardinality(t) = Cardinality(s) - 1 /\ Cardinality(t) \in Nat
      BY <2>1, FS_RemoveElement, FS_CardinalityType
    <3>5. Ahead(R, s, l) = t /\ \A x \in t : Ahead(R, s, x) = Ahead(R, t, x)
      <4>1. IsLast(R, s, l)
        BY <3>1 DEF IsLast
      <4> QED BY <2>1, <4>1, AheadOfLast
    <3>6. Ranked(R, t, n) \subseteq t /\ l \notin t /\ s = t \cup {l}
      BY DEF Ranked
    <3>7. Ranked(R, s, n) = IF Cardinality(t) < n THEN Ranked(R, t, n) \cup {l} ELSE Ranked(R, t, n)
      <4> HIDE DEF t
      <4> QED BY <3>5, <3>6 DEF Ranked
    <3> HIDE DEF t
    <3>8. IsFiniteSet(Ranked(R, t, n)) /\ l \notin Ranked(R, t, n)
      BY <3>4, <3>6, FS_Subset
    <3>9. Cardinality(Ranked(R, t, n) \cup {l}) = Cardinality(Ranked(R, t, n)) + 1
      BY <3>8, FS_AddElement
    <3>10. Cardinality(Ranked(R, s, n)) = Smaller(n, Cardinality(s))
      <4>1. CASE Cardinality(t) < n
        BY <4>1, <3>3, <3>4, <3>7, <3>9, <2>1 DEF Smaller
      <4>2. CASE ~(Cardinality(t) < n)
        BY <4>2, <3>3, <3>4, <3>7, <2>1 DEF Smaller
      <4> QED BY <4>1, <4>2
    <3> QED BY <3>10
  <2> QED BY <2>2, <2>3
<1>2. \A s \in SUBSET S : (\A t \in SUBSET s : t # s => t \in G) => s \in G
  BY <1>1
<1>3. G \in SUBSET (SUBSET S)
  OBVIOUS
<1>4. S \in G
  <2> HIDE DEF G
  <2> QED BY <1>2, <1>3, SetInduction
<1> QED BY <1>4

\* Out of n each member of S gets what it asks for in f as long as there is any.
IsSpread(R, S, n, f, g) ==
    \A x \in S : /\ f[x] \in Nat
                 /\ g[x] = Smaller(f[x], Larger(n - Sum(f, Ahead(R, S, x)), 0))

\* What is given away first come, first served is all of it, or all that is taken.
LEMMA Spread ==
  ASSUME NEW R, NEW S, IsFiniteSet(S), IsOrder(R, S), NEW n \in Nat, NEW f, NEW g,
         IsSpread(R, S, n, f, g)
  PROVE  Sum(g, S) = Smaller(n, Sum(f, S))
<1> DEFINE x(s) == [e \in s |-> Smaller(f[e], Larger(n - Sum(f, Ahead(R, s, e)), 0))]
           G == {s \in SUBSET S : Sum(x(s), s) = Smaller(n, Sum(f, s))}
<1>0. \A s \in SUBSET S : IsFiniteSet(s) /\ (\A e \in s : f[e] \in Nat) /\ IsOrder(R, s)
  BY FS_Subset, SubOrder DEF IsSpread
<1>6. \A s \in SUBSET S : \A e \in s : x(s)[e] \in Nat
  <2> TAKE s \in SUBSET S
  <2> TAKE e \in s
  <2>1. Ahead(R, s, e) \in SUBSET S
    BY DEF Ahead
  <2>2. Sum(f, Ahead(R, s, e)) \in Nat
    BY <1>0, <2>1, SumNat
  <2>3. f[e] \in Nat
    BY DEF IsSpread
  <2> QED BY <2>2, <2>3 DEF Smaller, Larger
<1>1. ASSUME NEW s \in SUBSET S, \A t \in SUBSET s : t # s => t \in G
      PROVE  s \in G
  <2>2. CASE s = {}
    <3>1. Sum(x(s), s) = 0 /\ Sum(f, s) = 0
      BY <1>0, <2>2, SumUnfold
    <3> QED BY <3>1 DEF Smaller
  <2>3. CASE s # {}
    <3>1. PICK l \in s : \A y \in s \ {l} : <<y, l>> \in R
      <4> HIDE DEF G, x
      <4>1. IsFiniteSet(s) /\ IsOrder(R, s)
        BY <1>0
      <4> QED BY <4>1, <2>3, LastOne
    <3> DEFINE t == s \ {l}
    <3>2. t \in SUBSET s /\ t # s /\ t \in SUBSET S
      OBVIOUS
    <3>3. Sum(x(t), t) = Smaller(n, Sum(f, t))
      BY <3>2, <1>1
    <3>5. Ahead(R, s, l) = t /\ \A y \in t : Ahead(R, s, y) = Ahead(R, t, y)
      <4> HIDE DEF G, x
      <4>1. IsOrder(R, s)
        BY <1>0
      <4>2. IsLast(R, s, l)
        BY <3>1 DEF IsLast
      <4> QED BY <4>1, <4>2, AheadOfLast
    <3>6. \A e \in t : x(s)[e] = x(t)[e]
      BY <3>2, <3>5
    <3>7. x(s)[l] = Smaller(f[l], Larger(n - Sum(f, t), 0))
      BY <3>5
    <3>8. \A e \in s : x(s)[e] \in Int /\ f[e] \in Int
      BY <1>0, <1>6
    <3>15. \A e \in t : x(t)[e] \in Int /\ f[e] \in Int
      BY <1>0, <1>6, <3>2
    <3>16. f[l] \in Nat
      BY <1>0
    <3> HIDE DEF x, t, G
    <3>9. IsFiniteSet(s) /\ IsFiniteSet(t)
      BY <1>0, <3>2
    <3>10. Sum(x(s), s) = x(s)[l] + Sum(x(s), t)
      BY <3>8, <3>9, SumRemove DEF t
    <3>11. Sum(f, s) = f[l] + Sum(f, t)
      BY <3>8, <3>9, SumRemove DEF t
    <3>12. Sum(x(s), t) = Sum(x(t), t)
      BY <3>6, <3>9, <3>15, SumSame
    <3>13. Sum(f, t) \in Nat
      BY <1>0, <3>2, SumNat
    <3>14. Sum(x(s), s) = Smaller(n, Sum(f, s))
      BY <3>3, <3>7, <3>10, <3>11, <3>12, <3>13, <3>16 DEF Smaller, Larger
    <3> QED BY <3>14 DEF G
  <2> QED BY <2>2, <2>3
<1>2. \A s \in SUBSET S : (\A t \in SUBSET s : t # s => t \in G) => s \in G
  BY <1>1
<1>3. G \in SUBSET (SUBSET S)
  OBVIOUS
<1>4. S \in G
  <2> HIDE DEF G
  <2> QED BY <1>2, <1>3, SetInduction
<1>5. Sum(g, S) = Sum(x(S), S)
  <2>1. \A e \in S : g[e] = x(S)[e]
    BY DEF IsSpread
  <2>2. \A e \in S : x(S)[e] \in Int
    BY <1>6
  <2> HIDE DEF x, G
  <2> QED BY <2>1, <2>2, SumSame
<1> QED BY <1>4, <1>5

-----------------------------------------------------------------------------
(* The budgets *)

\* The order of Earlier, for keys k.
ByKey(k, S) ==
    {e \in S \X S : k[e[1]] > k[e[2]] \/ (k[e[1]] = k[e[2]] /\ Order[e[1]] < Order[e[2]])}

\* Every provider with a route has a count, and the limit and the promise are numbers.
Counts(c, o) ==
    /\ DOMAIN c \subseteq Provider /\ (\A p \in DOMAIN c : c[p] \in Nat \ {0})
    /\ o.limit \in Nat /\ o.promise \in Nat

\* sorted with a key and the order of the files is a total order.
LEMMA KeyOrder ==
  ASSUME NEW S \in SUBSET Provider, NEW k, \A p \in S : k[p] \in Int
  PROVE  /\ IsOrder(ByKey(k, S), S)
         /\ \A p \in S : Ahead(ByKey(k, S), S, p) =
               {q \in S : k[q] > k[p] \/ (k[q] = k[p] /\ Order[q] < Order[p])}
<1> DEFINE R == ByKey(k, S)
<1>1. \A q, p \in S : <<q, p>> \in R <=> k[q] > k[p] \/ (k[q] = k[p] /\ Order[q] < Order[p])
  BY DEF ByKey
<1>2. \A p \in S : k[p] \in Int /\ Order[p] \in Nat
  BY OrderAssumption
<1>3. \A p, q \in S : Order[p] = Order[q] => p = q
  BY OrderAssumption
<1> HIDE DEF R
<1>4. IsOrder(R, S)
  <2>1. \A x \in S : <<x, x>> \notin R
    BY <1>1, <1>2
  <2>2. \A x, y \in S : x # y => <<x, y>> \in R \/ <<y, x>> \in R
    BY <1>1, <1>2, <1>3
  <2>3. \A x, y, z \in S : <<x, y>> \in R /\ <<y, z>> \in R => <<x, z>> \in R
    BY <1>1, <1>2
  <2> QED BY <2>1, <2>2, <2>3 DEF IsOrder
<1>5. \A p \in S : Ahead(R, S, p) = {q \in S : k[q] > k[p] \/ (k[q] = k[p] /\ Order[q] < Order[p])}
  BY <1>1 DEF Ahead
<1> QED BY <1>4, <1>5 DEF R

\* With fewer routes than providers every route goes to a provider of its own, and to the
\* mandatory ones first.
LEMMA OneEachSound ==
  ASSUME NEW c, NEW o, Counts(c, o), o.limit < Cardinality(DOMAIN c)
  PROVE  LET b == OneEach(c, o)
             must == o.mandatory \cap DOMAIN c
         IN  /\ DOMAIN b = DOMAIN c /\ Total(b) = o.limit
             /\ \A p \in DOMAIN c : b[p] \in Nat /\ b[p] <= c[p]
             /\ \A p \in must : b[p] > 0 \/ Cardinality({q \in must : b[q] > 0}) = o.limit
<1> DEFINE S == DOMAIN c
           first == IF o.mandatory # {} THEN o.mandatory
                    ELSE IF o.promise > 0 THEN Favoured(o) ELSE {}
           Size(p) == IF p \in first /\ o.mandatory = {} THEN 0 ELSE c[p]
           k == [p \in S |-> Size(p)]
           H == S \cap first
           T == S \ first
           head == Firsts(S \cap first, o.limit, Size)
           tail == Firsts(S \ first, o.limit - Cardinality(head), Size)
           b == OneEach(c, o)
<1>1. IsFiniteSet(S) /\ S \in SUBSET Provider
  BY OrderAssumption, FS_Subset DEF Counts
<1>2. \A p \in S : k[p] \in Int /\ k[p] = Size(p)
  BY DEF Counts
<1>3. b = [p \in S |-> IF p \in head \cup tail THEN 1 ELSE 0]
  BY DEF OneEach
<1>4. ASSUME NEW A \in SUBSET S, NEW n \in Nat
      PROVE  /\ Firsts(A, n, Size) \subseteq A
             /\ Cardinality(Firsts(A, n, Size)) = Smaller(n, Cardinality(A))
             /\ IsFiniteSet(A) /\ IsFiniteSet(Firsts(A, n, Size))
  <2>1. IsFiniteSet(A) /\ A \in SUBSET Provider /\ \A p \in A : k[p] \in Int
    BY <1>1, <1>2, FS_Subset
  <2>2. ASSUME NEW p \in A
        PROVE  {q \in A : Earlier(q, p, Size)} = Ahead(ByKey(k, A), A, p)
    <3>1. Ahead(ByKey(k, A), A, p) = {q \in A : k[q] > k[p] \/ (k[q] = k[p] /\ Order[q] < Order[p])}
      <4> HIDE DEF k
      <4> QED BY <2>1, KeyOrder
    <3>2. \A q \in A : k[q] = Size(q)
      OBVIOUS
    <3> HIDE DEF k, Size
    <3> QED BY <3>1, <3>2 DEF Earlier
  <2>3. Firsts(A, n, Size) = Ranked(ByKey(k, A), A, n)
    <3> HIDE DEF k, Size
    <3> QED BY <2>2 DEF Firsts, Ranked
  <2>4. IsOrder(ByKey(k, A), A)
    <3> HIDE DEF k
    <3> QED BY <2>1, KeyOrder
  <2>5. Cardinality(Ranked(ByKey(k, A), A, n)) = Smaller(n, Cardinality(A))
    <3> HIDE DEF k
    <3> QED BY <2>1, <2>4, RankedSize
  <2>6. Ranked(ByKey(k, A), A, n) \subseteq A
    BY DEF Ranked
  <2> HIDE DEF k, Size
  <2> QED BY <2>1, <2>3, <2>5, <2>6, FS_Subset
<1> HIDE DEF Size, k
<1>5. o.limit \in Nat
  BY DEF Counts
<1>6. H \in SUBSET S /\ T \in SUBSET S /\ H \cap T = {} /\ H \cup T = S
  OBVIOUS
<1> DEFINE nh == Cardinality(H)  nt == Cardinality(T)
<1>7. /\ head \subseteq H /\ Cardinality(head) = Smaller(o.limit, nh) /\ IsFiniteSet(H) /\ IsFiniteSet(head)
  BY <1>4, <1>5, <1>6
<1>8. nh \in Nat /\ nt \in Nat /\ nh + nt = Cardinality(S) /\ Cardinality(S) \in Nat
  <2>1. IsFiniteSet(H) /\ IsFiniteSet(T)
    BY <1>1, FS_Subset
  <2>2. Cardinality(S) = Cardinality(H) + Cardinality(T) - Cardinality(H \cap T)
    <3> HIDE DEF H, T, S
    <3> QED BY <2>1, <1>6, FS_Union
  <2>3. Cardinality(H \cap T) = 0
    <3> HIDE DEF H, T, S
    <3> QED BY <1>6, FS_EmptySet
  <2> QED BY <2>1, <2>2, <2>3, <1>1, FS_CardinalityType
<1>9. o.limit - Cardinality(head) \in Nat /\ Cardinality(head) \in Nat
  <2> HIDE DEF nh, head
  <2> QED BY <1>5, <1>7, <1>8 DEF Smaller
<1>10. tail \subseteq T /\ Cardinality(tail) = Smaller(o.limit - Cardinality(head), nt) /\ IsFiniteSet(tail)
  <2> HIDE DEF head
  <2> QED BY <1>4, <1>6, <1>9
<1> HIDE DEF head, tail, nh, nt
<1>11. Cardinality(head) + Cardinality(tail) = o.limit
  BY <1>5, <1>7, <1>8, <1>9, <1>10 DEF Smaller
<1>12. head \cup tail \in SUBSET S /\ Cardinality(head \cup tail) = o.limit
  <2>1. head \cap tail = {} /\ head \cup tail \in SUBSET S
    BY <1>6, <1>7, <1>10
  <2>2. Cardinality(head \cap tail) = 0
    BY <2>1, FS_EmptySet
  <2>3. Cardinality(head \cup tail) = Cardinality(head) + Cardinality(tail) - Cardinality(head \cap tail)
    BY <1>7, <1>10, FS_Union
  <2>4. Cardinality(head \cup tail) = o.limit
    <3>1. Cardinality(tail) \in Nat
      BY <1>10, FS_CardinalityType
    <3> QED BY <2>2, <2>3, <3>1, <1>9, <1>11, <1>5
  <2> QED BY <2>1, <2>4
<1>13. DOMAIN b = S /\ \A p \in S : b[p] = IF p \in head \cup tail THEN 1 ELSE 0
  BY <1>3
<1>14. Total(b) = o.limit
  <2> HIDE DEF b, S
  <2>1. Sum(b, S) = Cardinality(head \cup tail)
    BY <1>1, <1>12, <1>13, SumMarks
  <2> QED BY <2>1, <1>12, <1>13 DEF Total
<1>15. \A p \in S : b[p] \in Nat /\ b[p] <= c[p]
  <2> HIDE DEF b
  <2> QED BY <1>13 DEF Counts
<1> DEFINE must == o.mandatory \cap S
<1>16. ASSUME NEW p \in must, b[p] = 0
       PROVE  Cardinality({q \in must : b[q] > 0}) = o.limit
  <2>1. must = H
    BY <1>16
  <2>2. p \in H /\ p \notin head
    <3> HIDE DEF b
    <3> QED BY <1>16, <1>13, <2>1
  <2>3. head # H
    BY <2>2
  <2>4. Cardinality(head) # nh
    <3> HIDE DEF H
    <3> QED BY <1>7, <2>3, FS_Subset DEF nh
  <2>5. Cardinality(head) = o.limit
    BY <2>4, <1>5, <1>7, <1>8 DEF Smaller
  <2>6. {q \in must : b[q] > 0} = head
    <3>1. \A q \in must : q \in S /\ q \notin tail
      BY <1>6, <1>10, <2>1
    <3>2. \A q \in must : b[q] > 0 <=> q \in head
      <4> HIDE DEF b, must
      <4> QED BY <3>1, <1>13
    <3> QED BY <3>2, <1>7, <2>1
  <2> QED BY <2>5, <2>6
<1>17. \A p \in must : b[p] > 0 \/ Cardinality({q \in must : b[q] > 0}) = o.limit
  <2> HIDE DEF b
  <2> QED BY <1>15, <1>16
<1> HIDE DEF b
<1> QED BY <1>13, <1>14, <1>15, <1>17 DEF b

\* The routes that are set aside fit, are there, and are one at least for who must have it.
LEMMA ReservedSound ==
  ASSUME NEW c, NEW o, Counts(c, o), Cardinality(DOMAIN c) <= o.limit
  PROVE  LET r == Reserved(c, o)
         IN  /\ DOMAIN r = DOMAIN c /\ Total(r) \in Nat /\ Total(r) <= o.limit
             /\ \A p \in DOMAIN c : r[p] \in Nat /\ r[p] <= c[p]
             /\ \A p \in o.mandatory \cap DOMAIN c : r[p] > 0
             /\ Sum([p \in DOMAIN c |-> Larger(Smaller(c[p], o.promise), 1)], Favoured(o) \cap DOMAIN c) <= o.limit
                   => \A p \in Favoured(o) \cap DOMAIN c : r[p] >= Smaller(c[p], o.promise)
<1> DEFINE S == DOMAIN c
           least == [p \in S |-> IF p \in o.mandatory THEN 1 ELSE 0]
           wish == [p \in S |-> IF p \in Favoured(o) THEN Larger(least[p], Smaller(c[p], o.promise))
                                ELSE least[p]]
           ones == [p \in S |-> IF p \in Favoured(o) THEN 1 ELSE 0]
           pr == [p \in S |-> Larger(Smaller(c[p], o.promise), 1)]
           F == Favoured(o) \cap S
           r == Reserved(c, o)
<1>1. IsFiniteSet(S) /\ S \in SUBSET Provider /\ o.limit \in Nat /\ o.promise \in Nat /\ F \in SUBSET S
  BY OrderAssumption, FS_Subset DEF Counts
<1>2. r = IF Total(wish) <= o.limit THEN wish ELSE ones
  BY DEF Reserved
<1>3. ASSUME NEW p \in S
      PROVE  /\ wish[p] \in Nat /\ wish[p] <= c[p]
             /\ ones[p] \in Nat /\ ones[p] <= c[p]
             /\ pr[p] \in Nat
             /\ p \in o.mandatory => wish[p] > 0 /\ ones[p] > 0
             /\ p \in Favoured(o) => wish[p] >= Smaller(c[p], o.promise) /\ wish[p] <= pr[p]
             /\ p \notin Favoured(o) => wish[p] = 0
             /\ ones[p] = IF p \in F THEN 1 ELSE 0
  <2>1. c[p] \in Nat \ {0} /\ o.promise \in Nat
    BY DEF Counts
  <2>2. least[p] \in {0, 1} /\ (p \in o.mandatory => least[p] = 1) /\ (p \notin o.mandatory => least[p] = 0)
    OBVIOUS
  <2>3. p \in o.mandatory => p \in Favoured(o)
    BY DEF Favoured
  <2>4. wish[p] = IF p \in Favoured(o) THEN Larger(least[p], Smaller(c[p], o.promise)) ELSE least[p]
    OBVIOUS
  <2>5. pr[p] = Larger(Smaller(c[p], o.promise), 1)
    OBVIOUS
  <2>6. ones[p] = IF p \in Favoured(o) THEN 1 ELSE 0
    OBVIOUS
  <2> HIDE DEF least, wish, pr, ones
  <2>7. p \in F <=> p \in Favoured(o)
    OBVIOUS
  <2> QED BY <2>1, <2>2, <2>3, <2>4, <2>5, <2>6, <2>7 DEF Smaller, Larger
<1>4. DOMAIN wish = S /\ DOMAIN ones = S /\ Total(wish) = Sum(wish, S) /\ Total(ones) = Sum(ones, S)
  BY DEF Total
<1> HIDE DEF S, wish, ones, pr, F
<1>5. Sum(wish, S) \in Nat
  BY <1>1, <1>3, SumNat
<1>6. Sum(ones, S) \in Nat /\ Sum(ones, S) <= o.limit
  <2>1. Sum(ones, S) = Cardinality(F)
    BY <1>1, <1>3, SumMarks
  <2>2. Cardinality(F) \in Nat /\ Cardinality(F) <= Cardinality(S) /\ Cardinality(S) \in Nat
    BY <1>1, FS_Subset, FS_CardinalityType
  <2>3. Cardinality(S) <= o.limit
    BY DEF S
  <2> QED BY <2>1, <2>2, <2>3, <1>1
<1>7. Sum(pr, F) <= o.limit => Total(wish) <= o.limit
  <2>1. Sum(wish, F) = Sum(wish, S)
    <3>1. \A p \in S : wish[p] \in Int
      BY <1>3
    <3>2. \A p \in S \ F : wish[p] = 0
      BY <1>3 DEF F
    <3> QED BY <1>1, <3>1, <3>2, SumSub
  <2>2. IsFiniteSet(F) /\ \A p \in F : wish[p] \in Int /\ pr[p] \in Int /\ wish[p] <= pr[p]
    <3>1. IsFiniteSet(F)
      BY <1>1, FS_Subset
    <3>2. \A p \in F : p \in S /\ p \in Favoured(o)
      BY DEF F
    <3> QED BY <3>1, <3>2, <1>3
  <2>3. Sum(wish, F) \in Int /\ Sum(pr, F) \in Int /\ Sum(wish, F) <= Sum(pr, F)
    BY <2>2, SumMono
  <2> QED BY <2>1, <2>3, <1>1, <1>4
<1>8. DOMAIN r = S /\ Total(r) \in Nat /\ Total(r) <= o.limit
  BY <1>1, <1>2, <1>4, <1>5, <1>6
<1>9. \A p \in S : r[p] \in Nat /\ r[p] <= c[p]
  BY <1>2, <1>3
<1>10. \A p \in o.mandatory \cap S : r[p] > 0
  BY <1>2, <1>3
<1>11. Sum(pr, F) <= o.limit => \A p \in F : r[p] >= Smaller(c[p], o.promise)
  BY <1>2, <1>3, <1>7 DEF F
<1> HIDE DEF r
<1> QED BY <1>8, <1>9, <1>10, <1>11 DEF S, pr, F, r

\* Division rounds down.
LEMMA Division == \A a \in Nat, b \in Nat \ {0} : a \div b \in Nat /\ b * (a \div b) <= a
  OBVIOUS

\* A positive factor on both sides.
LEMMA Cancel == \A k \in Nat \ {0}, a, b \in Int : k * a <= k * b => a <= b
  OBVIOUS

\* The shares are there and are no more than what is left.
LEMMA SharedSound ==
  ASSUME NEW S, IsFiniteSet(S), NEW room, \A p \in S : room[p] \in Nat,
         NEW left \in Nat \ {0}, NEW all \in Nat \ {0}, all = Sum(room, S), NEW s,
         \A p \in S : s[p] = Smaller(room[p], (room[p] * left) \div all)
  PROVE  /\ \A p \in S : s[p] \in Nat /\ s[p] <= room[p]
         /\ Sum(s, S) \in Nat /\ Sum(s, S) <= left
<1> DEFINE t == [p \in S |-> all * s[p]]
           u == [p \in S |-> left * room[p]]
<1>1. ASSUME NEW p \in S  PROVE s[p] \in Nat /\ s[p] <= room[p] /\ all * s[p] <= left * room[p]
  <2>1. room[p] * left \in Nat /\ room[p] * left = left * room[p]
    OBVIOUS
  <2> DEFINE q == (room[p] * left) \div all
  <2>2. q \in Nat /\ all * q <= left * room[p]
    BY <2>1, Division
  <2>3. s[p] = Smaller(room[p], q)
    OBVIOUS
  <2> HIDE DEF q
  <2>4. s[p] \in Nat /\ s[p] <= room[p] /\ s[p] <= q
    BY <2>2, <2>3 DEF Smaller
  <2>5. all * s[p] <= all * q
    BY <2>2, <2>4
  <2> QED BY <2>1, <2>2, <2>4, <2>5
<1>2. Sum(t, S) = all * Sum(s, S)
  <2>1. \A p \in S : s[p] \in Int /\ t[p] = all * s[p]
    BY <1>1
  <2> HIDE DEF t
  <2> QED BY <2>1, SumScale
<1>3. Sum(u, S) = left * all
  <2>1. \A p \in S : room[p] \in Int /\ u[p] = left * room[p]
    OBVIOUS
  <2> HIDE DEF u
  <2>2. left \in Int
    OBVIOUS
  <2>3. Sum(u, S) = left * Sum(room, S)
    BY <2>1, <2>2, SumScale
  <2> QED BY <2>3
<1>4. \A p \in S : t[p] \in Int /\ u[p] \in Int /\ t[p] <= u[p]
  BY <1>1
<1> HIDE DEF t, u
<1>5. Sum(t, S) <= Sum(u, S)
  BY <1>4, SumMono
<1>6. Sum(s, S) \in Nat
  BY <1>1, SumNat
<1>7. all * Sum(s, S) <= all * left
  <2>1. left * all = all * left
    OBVIOUS
  <2> QED BY <2>1, <1>2, <1>3, <1>5
<1>8. Sum(s, S) <= left
  BY <1>6, <1>7, Cancel
<1> QED BY <1>1, <1>6, <1>8

\* The shares of what is left when every provider can have a route.
ShareFacts(c, r, o) ==
    LET S == DOMAIN c
        s == Shared(c, r, o)
        left == Larger(o.limit - Total(r), 0)
        room == [p \in S |-> c[p] - r[p]]
        all == Total(room)
    IN  /\ IsFiniteSet(S) /\ S \in SUBSET Provider /\ o.limit \in Nat
        /\ \A p \in S : c[p] \in Nat /\ r[p] \in Nat /\ r[p] <= c[p] /\ room[p] = c[p] - r[p] /\ room[p] \in Nat
        /\ Total(c) = Sum(c, S) /\ Total(r) = Sum(r, S) /\ all = Sum(room, S)
        /\ left \in Nat /\ left = o.limit - Total(r) /\ all \in Nat /\ all > left
        /\ DOMAIN s = S
        /\ \A p \in S : s[p] = IF left = 0 THEN 0 ELSE Smaller(room[p], (room[p] * left) \div all)
        /\ \A p \in S : s[p] \in Nat /\ s[p] <= room[p]
        /\ Sum(s, S) \in Nat /\ Sum(s, S) <= left

LEMMA ShareValues ==
  ASSUME NEW c, NEW o, Counts(c, o), NEW r, DOMAIN r = DOMAIN c,
         \A p \in DOMAIN c : r[p] \in Nat /\ r[p] <= c[p],
         Total(r) \in Nat, Total(r) <= o.limit, Total(c) > o.limit
  PROVE  ShareFacts(c, r, o)
<1> DEFINE S == DOMAIN c
           s == Shared(c, r, o)
           left == Larger(o.limit - Total(r), 0)
           room == [p \in S |-> c[p] - r[p]]
           all == Total(room)
<1>1. IsFiniteSet(S) /\ S \in SUBSET Provider /\ o.limit \in Nat
  BY OrderAssumption, FS_Subset DEF Counts
<1>2. \A p \in S : c[p] \in Nat /\ r[p] \in Nat /\ r[p] <= c[p] /\ room[p] = c[p] - r[p] /\ room[p] \in Nat
  BY DEF Counts
<1>3. Total(c) = Sum(c, S) /\ Total(r) = Sum(r, S) /\ all = Sum(room, S)
  BY DEF Total
<1>4. left \in Nat /\ left = o.limit - Total(r)
  BY <1>1 DEF Larger
<1>5. all \in Nat /\ all > left
  <2>1. \A p \in S : r[p] \in Int /\ room[p] \in Int /\ c[p] = r[p] + room[p]
    BY <1>2
  <2> HIDE DEF room, S, left, all
  <2>2. Sum(room, S) \in Int /\ Sum(c, S) = Sum(r, S) + Sum(room, S)
    BY <2>1, <1>1, SumAdd
  <2> QED BY <2>2, <1>1, <1>3, <1>4
<1>6. DOMAIN s = S /\ \A p \in S : s[p] = IF left = 0 THEN 0 ELSE Smaller(room[p], (room[p] * left) \div all)
  <2> DEFINE E(p) == IF left = 0 \/ all = 0 THEN 0 ELSE Smaller(room[p], (room[p] * left) \div all)
  <2>1. s = [p \in S |-> E(p)]
    BY DEF Shared
  <2>2. all # 0
    <3> HIDE DEF all, left
    <3> QED BY <1>4, <1>5
  <2>3. ASSUME NEW p \in S
        PROVE  E(p) = IF left = 0 THEN 0 ELSE Smaller(room[p], (room[p] * left) \div all)
    <3> HIDE DEF all, left, room
    <3> QED BY <2>2
  <2> HIDE DEF E, s, all, left, room, S
  <2> QED BY <2>1, <2>3
<1> HIDE DEF s
<1>8. /\ \A p \in S : s[p] \in Nat /\ s[p] <= room[p]
      /\ Sum(s, S) \in Nat /\ Sum(s, S) <= left
  <2>1. CASE left = 0
    <3>1. \A p \in S : s[p] = 0
      BY <1>6, <2>1
    <3>2. Sum(s, S) = 0
      <4> HIDE DEF S, left, room, all
      <4> QED BY <1>1, <3>1, SumZero
    <3> HIDE DEF S, left, room, all
    <3> QED BY <3>1, <3>2, <1>2, <2>1
  <2>2. CASE left # 0
    <3> HIDE DEF S, left, room, all
    <3>1. \A p \in S : s[p] = Smaller(room[p], (room[p] * left) \div all)
      BY <1>6, <2>2
    <3>2. left \in Nat \ {0} /\ all \in Nat \ {0} /\ \A p \in S : room[p] \in Nat
      BY <1>2, <1>4, <1>5, <2>2
    <3> QED BY <3>1, <3>2, <1>1, <1>3, SharedSound
  <2> QED BY <2>1, <2>2
<1> HIDE DEF S, left, room, all
<1> QED BY <1>1, <1>2, <1>3, <1>4, <1>5, <1>6, <1>8 DEF ShareFacts, S, s, left, room, all

\* The budgets when every provider can have a route: all of the limit is used, nobody gets
\* more than there is or less than what was set aside.
LEMMA SharesSound ==
  ASSUME NEW c, NEW o, Counts(c, o), NEW r, DOMAIN r = DOMAIN c,
         \A p \in DOMAIN c : r[p] \in Nat /\ r[p] <= c[p],
         Total(r) \in Nat, Total(r) <= o.limit, Total(c) > o.limit
  PROVE  LET s == Shared(c, r, o)
             x == Rounding(c, r, s, o)
             b == [p \in DOMAIN c |-> r[p] + s[p] + x[p]]
         IN  Total(b) = o.limit /\ \A p \in DOMAIN c : b[p] \in Nat /\ r[p] <= b[p] /\ b[p] <= c[p]
<1> DEFINE S == DOMAIN c
           s == Shared(c, r, o)
           x == Rounding(c, r, s, o)
           left == Larger(o.limit - Total(r), 0)
           room == [p \in S |-> c[p] - r[p]]
           all == Total(room)
           Fraction(p) == IF all = 0 THEN 0 ELSE (room[p] * left) % all
           k == [p \in S |-> Fraction(p)]
           spare == [p \in S |-> c[p] - r[p] - s[p]]
           rest == IF left = 0 \/ all = 0 THEN 0 ELSE left - Total(s)
           b == [p \in S |-> r[p] + s[p] + x[p]]
<1>0. ShareFacts(c, r, o)
  BY ShareValues
<1>1. IsFiniteSet(S) /\ S \in SUBSET Provider /\ o.limit \in Nat
  BY <1>0 DEF ShareFacts
<1>2. \A p \in S : c[p] \in Nat /\ r[p] \in Nat /\ r[p] <= c[p] /\ room[p] = c[p] - r[p] /\ room[p] \in Nat
  BY <1>0 DEF ShareFacts
<1>3. Total(c) = Sum(c, S) /\ Total(r) = Sum(r, S) /\ all = Sum(room, S)
  BY <1>0 DEF ShareFacts
<1>4. left \in Nat /\ left = o.limit - Total(r)
  BY <1>0 DEF ShareFacts
<1>5. all \in Nat /\ all > left
  BY <1>0 DEF ShareFacts
<1>6. DOMAIN s = S
  BY <1>0 DEF ShareFacts
<1>8. /\ \A p \in S : s[p] \in Nat /\ s[p] <= room[p]
      /\ Sum(s, S) \in Nat /\ Sum(s, S) <= left
  BY <1>0 DEF ShareFacts
<1>7. x = [p \in S |-> Smaller(spare[p], Larger(rest - Sum(spare, {q \in S : Earlier(q, p, Fraction)}), 0))]
  BY DEF Rounding
<1> HIDE DEF s, x
<1>9. rest \in Nat /\ rest = left - Sum(s, S)
  <2>1. Total(s) = Sum(s, S)
    BY <1>6 DEF Total
  <2> HIDE DEF S, left, room, all
  <2> QED BY <2>1, <1>4, <1>5, <1>8
<1>10. \A p \in S : spare[p] = room[p] - s[p] /\ spare[p] \in Nat
  <2>1. \A p \in S : spare[p] = c[p] - r[p] - s[p]
    OBVIOUS
  <2> HIDE DEF spare, S, left, room, all
  <2> QED BY <2>1, <1>2, <1>8
<1>11. Sum(spare, S) \in Nat /\ Sum(spare, S) >= rest
  <2> HIDE DEF spare, S, left, room, all, rest
  <2>1. \A p \in S : s[p] \in Int /\ spare[p] \in Int /\ room[p] = s[p] + spare[p]
    BY <1>2, <1>8, <1>10
  <2>2. Sum(room, S) = Sum(s, S) + Sum(spare, S)
    BY <2>1, <1>1, SumAdd
  <2>3. Sum(spare, S) \in Nat
    BY <1>1, <1>10, SumNat
  <2> QED BY <2>2, <2>3, <1>3, <1>4, <1>5, <1>8, <1>9
<1>12. Sum(x, S) = rest
  <2>1. \A p \in S : k[p] \in Int /\ k[p] = Fraction(p)
    <3>1. \A p \in S : room[p] * left \in Int
      <4> HIDE DEF room, left, all, S
      <4> QED BY <1>2, <1>4
    <3>2. all \in Nat /\ all # 0
      <4> HIDE DEF room, left, all, S
      <4> QED BY <1>4, <1>5
    <3> HIDE DEF room, left, all
    <3> QED BY <3>1, <3>2
  <2> HIDE DEF Fraction, k, spare, S, left, room, all, rest
  <2>2. IsOrder(ByKey(k, S), S)
    BY <2>1, <1>1, KeyOrder
  <2>3. ASSUME NEW p \in S
        PROVE  Ahead(ByKey(k, S), S, p) = {q \in S : Earlier(q, p, Fraction)}
    <3>1. Ahead(ByKey(k, S), S, p) = {q \in S : k[q] > k[p] \/ (k[q] = k[p] /\ Order[q] < Order[p])}
      BY <2>1, <1>1, KeyOrder
    <3> QED BY <3>1, <2>1 DEF Earlier
  <2>4. IsSpread(ByKey(k, S), S, rest, spare, x)
    BY <1>7, <1>10, <2>3 DEF IsSpread
  <2>5. Sum(x, S) = Smaller(rest, Sum(spare, S))
    BY <1>1, <1>9, <2>2, <2>4, Spread
  <2> QED BY <2>5, <1>9, <1>11 DEF Smaller
<1>13. \A p \in S : x[p] \in Nat /\ x[p] <= spare[p]
  <2> TAKE p \in S
  <2> DEFINE A == {q \in S : Earlier(q, p, Fraction)}
  <2>1. IsFiniteSet(A) /\ A \subseteq S
    BY <1>1, FS_Subset
  <2>5. x[p] = Smaller(spare[p], Larger(rest - Sum(spare, A), 0))
    BY <1>7
  <2> HIDE DEF A, Fraction, k, spare, S, left, room, all, rest
  <2>2. \A q \in A : spare[q] \in Int
    BY <2>1, <1>10
  <2>3. Sum(spare, A) \in Int
    BY <2>1, <2>2, SumInt
  <2> QED BY <2>3, <2>5, <1>9, <1>10 DEF Smaller, Larger
<1>14. \A p \in S : b[p] \in Nat /\ r[p] <= b[p] /\ b[p] <= c[p] /\ b[p] = r[p] + s[p] + x[p]
  <2>1. \A p \in S : b[p] = r[p] + s[p] + x[p]
    OBVIOUS
  <2> HIDE DEF Fraction, k, spare, S, left, room, all, rest, b
  <2> QED BY <2>1, <1>2, <1>8, <1>10, <1>13
<1>15. DOMAIN b = S
  OBVIOUS
<1> DEFINE rs == [p \in S |-> r[p] + s[p]]
<1>16. Total(b) = o.limit
  <2>1. \A p \in S : rs[p] = r[p] + s[p]
    OBVIOUS
  <2> HIDE DEF Fraction, k, spare, S, left, room, all, rest, b, rs
  <2>2. \A p \in S : r[p] \in Int /\ s[p] \in Int /\ rs[p] = r[p] + s[p]
    BY <2>1, <1>2, <1>8
  <2>3. Sum(rs, S) = Sum(r, S) + Sum(s, S)
    BY <2>2, <1>1, SumAdd
  <2>4. \A p \in S : rs[p] \in Int /\ x[p] \in Int /\ b[p] = rs[p] + x[p]
    BY <2>2, <1>13, <1>14
  <2>5. Sum(b, S) = Sum(rs, S) + Sum(x, S)
    BY <2>4, <1>1, SumAdd
  <2>6. Sum(r, S) = Total(r) /\ Total(b) = Sum(b, S)
    BY <1>3, <1>15 DEF Total
  <2> QED BY <2>3, <2>5, <2>6, <1>1, <1>4, <1>8, <1>9, <1>12
<1> HIDE DEF b
<1> QED BY <1>14, <1>16 DEF b, s, x

\* What _apply_total_route_limit promises of its budgets.
BudgetsRight(c, o, b) ==
    LET must == o.mandatory \cap DOMAIN c
        promised == Sum([p \in DOMAIN c |-> Larger(Smaller(c[p], o.promise), 1)], Favoured(o) \cap DOMAIN c)
    IN  /\ Total(b) = o.limit
        /\ \A p \in DOMAIN c : b[p] <= c[p]
        /\ \A p \in must : b[p] > 0 \/ Cardinality({q \in must : b[q] > 0}) = o.limit
        /\ promised <= o.limit /\ Cardinality(DOMAIN c) <= o.limit =>
              \A p \in Favoured(o) \cap DOMAIN c : b[p] >= Smaller(c[p], o.promise)

\* A limit that is exceeded is divided as promised.
LEMMA BudgetsSound ==
  ASSUME NEW c, NEW o, Counts(c, o), Total(c) > o.limit
  PROVE  /\ BudgetsRight(c, o, Budgets(c, o))
         /\ DOMAIN Budgets(c, o) = DOMAIN c /\ \A p \in DOMAIN c : Budgets(c, o)[p] \in Nat
<1> DEFINE b == Budgets(c, o)
<1>1. IsFiniteSet(DOMAIN c) /\ Cardinality(DOMAIN c) \in Nat /\ o.limit \in Nat
  BY OrderAssumption, FS_Subset, FS_CardinalityType DEF Counts
<1>2. CASE o.limit < Cardinality(DOMAIN c)
  <2>1. b = OneEach(c, o)
    BY <1>2 DEF Budgets
  <2>2. ~(Cardinality(DOMAIN c) <= o.limit)
    BY <1>1, <1>2
  <2> HIDE DEF b
  <2> QED BY <1>2, <2>1, <2>2, OneEachSound DEF BudgetsRight, b
<1>3. CASE ~(o.limit < Cardinality(DOMAIN c))
  <2>0. Cardinality(DOMAIN c) <= o.limit
    BY <1>1, <1>3
  <2> DEFINE r == Reserved(c, o)
             s == Shared(c, r, o)
             x == Rounding(c, r, s, o)
             e == [p \in DOMAIN c |-> r[p] + s[p] + x[p]]
             promised == Sum([p \in DOMAIN c |-> Larger(Smaller(c[p], o.promise), 1)], Favoured(o) \cap DOMAIN c)
  <2>1. b = e
    BY <1>3 DEF Budgets
  <2>2. /\ DOMAIN r = DOMAIN c /\ Total(r) \in Nat /\ Total(r) <= o.limit
        /\ \A p \in DOMAIN c : r[p] \in Nat /\ r[p] <= c[p]
    BY <2>0, ReservedSound
  <2>3. \A p \in o.mandatory \cap DOMAIN c : r[p] > 0
    BY <2>0, ReservedSound
  <2>4. promised <= o.limit => \A p \in Favoured(o) \cap DOMAIN c : r[p] >= Smaller(c[p], o.promise)
    BY <2>0, ReservedSound
  <2> HIDE DEF r, promised
  <2>5. Total(e) = o.limit /\ \A p \in DOMAIN c : e[p] \in Nat /\ r[p] <= e[p] /\ e[p] <= c[p]
    BY <2>2, SharesSound
  <2>6. DOMAIN e = DOMAIN c
    OBVIOUS
  <2> HIDE DEF b, e
  <2>7. \A p \in o.mandatory \cap DOMAIN c : b[p] > 0
    BY <2>1, <2>2, <2>3, <2>5
  <2>8. promised <= o.limit => \A p \in Favoured(o) \cap DOMAIN c : b[p] >= Smaller(c[p], o.promise)
    <3>1. \A p \in DOMAIN c : Smaller(c[p], o.promise) \in Int
      BY DEF Counts, Smaller
    <3> QED BY <3>1, <2>1, <2>2, <2>4, <2>5
  <2>9. BudgetsRight(c, o, b)
    BY <2>1, <2>5, <2>7, <2>8 DEF BudgetsRight, promised
  <2>10. DOMAIN b = DOMAIN c /\ \A p \in DOMAIN c : b[p] \in Nat
    BY <2>1, <2>5, <2>6
  <2> QED BY <2>9, <2>10 DEF b
<1> QED BY <1>2, <1>3

\* The front of the line is as long as the limit allows.
HeadFits(c, o) ==
    LET S == DOMAIN c
        first == IF o.mandatory # {} THEN o.mandatory
                 ELSE IF o.promise > 0 THEN Favoured(o) ELSE {}
        Size(p) == IF p \in first /\ o.mandatory = {} THEN 0 ELSE c[p]
        head == Firsts(S \cap first, o.limit, Size)
    IN  Cardinality(head) = Smaller(o.limit, Cardinality(S \cap first))

LEMMA HeadSize == ASSUME NEW c, NEW o, Counts(c, o)  PROVE HeadFits(c, o)
<1> DEFINE S == DOMAIN c
           first == IF o.mandatory # {} THEN o.mandatory
                    ELSE IF o.promise > 0 THEN Favoured(o) ELSE {}
           Size(p) == IF p \in first /\ o.mandatory = {} THEN 0 ELSE c[p]
           k == [p \in S |-> Size(p)]
           H == S \cap first
           head == Firsts(S \cap first, o.limit, Size)
<1>1. IsFiniteSet(H) /\ H \in SUBSET Provider /\ o.limit \in Nat
  BY OrderAssumption, FS_Subset DEF Counts
<1>2. \A p \in H : k[p] \in Int /\ k[p] = Size(p)
  BY DEF Counts
<1> HIDE DEF k, Size
<1>3. IsOrder(ByKey(k, H), H)
  <2> HIDE DEF H
  <2> QED BY <1>1, <1>2, KeyOrder
<1>4. \A p \in H : Ahead(ByKey(k, H), H, p) = {q \in H : Earlier(q, p, Size)}
  <2>1. ASSUME NEW p \in H
        PROVE  Ahead(ByKey(k, H), H, p) = {q \in H : k[q] > k[p] \/ (k[q] = k[p] /\ Order[q] < Order[p])}
    <3> HIDE DEF H
    <3> QED BY <1>1, <1>2, KeyOrder
  <2> HIDE DEF H
  <2> QED BY <2>1, <1>2 DEF Earlier
<1>5. head = Ranked(ByKey(k, H), H, o.limit)
  BY <1>4 DEF Firsts, Ranked
<1>6. Cardinality(head) = Smaller(o.limit, Cardinality(H))
  <2> HIDE DEF head, H
  <2> QED BY <1>1, <1>3, <1>5, RankedSize
<1> QED BY <1>6 DEF HeadFits, Size

\* One line that is cut off gives the same as the front and then the others.
LEMMA OneEachAgrees ==
  ASSUME NEW c, NEW o, Counts(c, o)
  PROVE  EstimateOneEach(c, o) = OneEach(c, o)
<1> DEFINE S == DOMAIN c
           first == IF o.mandatory # {} THEN o.mandatory
                    ELSE IF o.promise > 0 THEN Favoured(o) ELSE {}
           Size(p) == IF p \in first /\ o.mandatory = {} THEN 0 ELSE c[p]
           H == S \cap first
           T == S \ first
           head == Firsts(S \cap first, o.limit, Size)
           tail == Firsts(S \ first, o.limit - Cardinality(head), Size)
           before(p) == {q \in S : \/ q \in first /\ p \notin first
                                   \/ (q \in first <=> p \in first) /\ Earlier(q, p, Size)}
<1>1. IsFiniteSet(S) /\ IsFiniteSet(H) /\ IsFiniteSet(T) /\ o.limit \in Nat
  BY OrderAssumption, FS_Subset DEF Counts
<1>2. Cardinality(head) = Smaller(o.limit, Cardinality(H))
  BY HeadSize DEF HeadFits
<1>3. EstimateOneEach(c, o) = [p \in S |-> IF Cardinality(before(p)) < o.limit THEN 1 ELSE 0]
  BY DEF EstimateOneEach
<1>4. OneEach(c, o) = [p \in S |-> IF p \in head \cup tail THEN 1 ELSE 0]
  BY DEF OneEach
<1>5. ASSUME NEW p \in H  PROVE Cardinality(before(p)) < o.limit <=> p \in head \cup tail
  <2>1. before(p) = {q \in H : Earlier(q, p, Size)}
    <3> HIDE DEF Size
    <3> QED OBVIOUS
  <2>2. p \in head <=> Cardinality({q \in H : Earlier(q, p, Size)}) < o.limit
    <3> HIDE DEF Size
    <3> QED BY DEF Firsts
  <2>3. p \notin tail
    BY DEF Firsts
  <2> HIDE DEF before, head, tail, Size
  <2> QED BY <2>1, <2>2, <2>3
<1>6. ASSUME NEW p \in T  PROVE Cardinality(before(p)) < o.limit <=> p \in head \cup tail
  <2> DEFINE E == {q \in T : Earlier(q, p, Size)}
  <2>1. before(p) = H \cup E /\ H \cap E = {}
    <3> HIDE DEF Size
    <3> QED OBVIOUS
  <2>2. p \in tail <=> Cardinality(E) < o.limit - Cardinality(head)
    <3> HIDE DEF Size, head
    <3> QED BY DEF Firsts
  <2>3. p \notin head
    BY DEF Firsts
  <2>4. E \subseteq T
    OBVIOUS
  <2> HIDE DEF before, head, tail, Size, E, H, T
  <2>5. IsFiniteSet(E)
    BY <2>4, <1>1, FS_Subset
  <2>6. Cardinality(H \cup E) = Cardinality(H) + Cardinality(E) - Cardinality(H \cap E)
    BY <2>5, <1>1, FS_Union
  <2>7. Cardinality(H) \in Nat /\ Cardinality(E) \in Nat /\ Cardinality(H \cap E) = 0
    BY <2>1, <2>5, <1>1, FS_CardinalityType, FS_EmptySet
  <2> QED BY <2>1, <2>2, <2>3, <2>6, <2>7, <1>1, <1>2 DEF Smaller
<1>7. \A p \in S : (IF Cardinality(before(p)) < o.limit THEN 1 ELSE 0) = IF p \in head \cup tail THEN 1 ELSE 0
  <2>1. \A p \in S : p \in H \/ p \in T
    OBVIOUS
  <2> HIDE DEF before, head, tail, H, T
  <2> QED BY <2>1, <1>5, <1>6
<1> HIDE DEF before, head, tail
<1> QED BY <1>3, <1>4, <1>7

\* Where every provider can have a route the cuts of the preview cut nothing.
LEMMA ReservedAgrees ==
  ASSUME NEW c, NEW o, Counts(c, o), Cardinality(DOMAIN c) <= o.limit
  PROVE  EstimateReserved(c, o) = Reserved(c, o)
<1> DEFINE S == DOMAIN c
           Size(p) == c[p]
           Largest(U) == Firsts(U \cap S, o.limit, Size)
           One(U) == [p \in S |-> IF p \in U THEN 1 ELSE 0]
           least == [p \in S |-> IF p \in o.mandatory THEN 1 ELSE 0]
           must == IF Total(One(o.mandatory)) > o.limit THEN One(Largest(o.mandatory)) ELSE One(o.mandatory)
           wish == [p \in S |-> IF o.promise > 0 /\ p \in Favoured(o)
                                THEN Larger(must[p], Smaller(c[p], o.promise)) ELSE must[p]]
           want == [p \in S |-> IF p \in Favoured(o) THEN Larger(least[p], Smaller(c[p], o.promise)) ELSE least[p]]
<1>1. IsFiniteSet(S) /\ Cardinality(S) \in Nat /\ o.limit \in Nat /\ o.promise \in Nat /\ \A p \in S : c[p] \in Nat
  BY OrderAssumption, FS_Subset, FS_CardinalityType DEF Counts
<1>2. EstimateReserved(c, o) = IF Total(wish) > o.limit THEN One(Largest(Favoured(o))) ELSE wish
  BY DEF EstimateReserved
<1>3. Reserved(c, o) = IF Total(want) <= o.limit THEN want ELSE One(Favoured(o))
  BY DEF Reserved
<1>4. ASSUME NEW U  PROVE One(Largest(U)) = One(U)
  <2>1. ASSUME NEW p \in S, p \in U  PROVE p \in Largest(U)
    <3> DEFINE A == U \cap S
               E == {q \in A : Earlier(q, p, Size)}
    <3>1. E \subseteq S \ {p}
      <4>1. c[p] \in Nat /\ Order[p] \in Nat
        BY <1>1, OrderAssumption DEF Counts
      <4>2. ~Earlier(p, p, Size)
        BY <4>1 DEF Earlier
      <4> HIDE DEF Size
      <4> QED BY <4>2
    <3>2. p \in Largest(U) <=> Cardinality(E) < o.limit
      <4> HIDE DEF Size
      <4> QED BY <2>1 DEF Firsts
    <3> HIDE DEF E, S, Largest
    <3>3. Cardinality(S \ {p}) = Cardinality(S) - 1 /\ IsFiniteSet(S \ {p})
      BY <1>1, FS_RemoveElement
    <3>4. Cardinality(E) <= Cardinality(S \ {p}) /\ Cardinality(E) \in Nat
      BY <3>1, <3>3, FS_Subset, FS_CardinalityType
    <3>5. Cardinality(S) <= o.limit
      BY DEF S
    <3> QED BY <3>2, <3>3, <3>4, <3>5, <1>1
  <2>2. \A p \in Largest(U) : p \in U
    BY DEF Firsts
  <2> HIDE DEF Largest
  <2>3. \A p \in S : p \in Largest(U) <=> p \in U
    BY <2>1, <2>2
  <2> QED BY <2>3
<1>5. must = least
  <2>1. One(Largest(o.mandatory)) = One(o.mandatory)
    BY <1>4
  <2> HIDE DEF Largest
  <2>2. One(o.mandatory) = least
    OBVIOUS
  <2> HIDE DEF One, least
  <2> QED BY <2>1, <2>2
<1>6. wish = want
  <2>1. \A p \in S : least[p] \in {0, 1}
    OBVIOUS
  <2>2. \A p \in S : (IF o.promise > 0 /\ p \in Favoured(o) THEN Larger(must[p], Smaller(c[p], o.promise)) ELSE must[p])
           = IF p \in Favoured(o) THEN Larger(least[p], Smaller(c[p], o.promise)) ELSE least[p]
    <3> HIDE DEF must, least
    <3> QED BY <1>1, <1>5, <2>1 DEF Larger, Smaller
  <2> HIDE DEF must, least
  <2> QED BY <2>2
<1>7. Total(want) \in Nat
  <2>1. \A p \in S : least[p] \in {0, 1}
    OBVIOUS
  <2>2. \A p \in S : want[p] \in Nat
    <3> HIDE DEF least
    <3> QED BY <1>1, <2>1 DEF Larger, Smaller
  <2>3. DOMAIN want = S
    OBVIOUS
  <2> HIDE DEF want
  <2> QED BY <1>1, <2>2, <2>3, SumNat DEF Total
<1>8. Total(wish) > o.limit <=> ~(Total(want) <= o.limit)
  <2> HIDE DEF wish, want
  <2> QED BY <1>1, <1>6, <1>7
<1>9. One(Largest(Favoured(o))) = One(Favoured(o))
  BY <1>4
<1> HIDE DEF wish, want, One, Largest
<1> QED BY <1>2, <1>3, <1>6, <1>8, <1>9

\* The last loop of the preview fills up to the counts what the other one fills up to the rest.
LEMMA SharesAgree ==
  ASSUME NEW c, NEW o, Counts(c, o), NEW r, DOMAIN r = DOMAIN c, r = [p \in DOMAIN c |-> r[p]],
         \A p \in DOMAIN c : r[p] \in Nat /\ r[p] <= c[p],
         Total(r) \in Nat, Total(r) <= o.limit, Total(c) > o.limit
  PROVE  LET s == Shared(c, r, o)
             x == Rounding(c, r, s, o)
         IN  EstimateShares(c, r, o) = [p \in DOMAIN c |-> r[p] + s[p] + x[p]]
<1> DEFINE S == DOMAIN c
           s == Shared(c, r, o)
           x == Rounding(c, r, s, o)
           left == Larger(o.limit - Total(r), 0)
           room == [p \in S |-> c[p] - r[p]]
           all == Total(room)
           Fraction(p) == IF all = 0 THEN 0 ELSE (room[p] * left) % all
           spare == [p \in S |-> c[p] - r[p] - s[p]]
           rest == IF left = 0 \/ all = 0 THEN 0 ELSE left - Total(s)
           Before(p) == {q \in S : Earlier(q, p, Fraction)}
           eroom == [p \in S |-> Larger(0, c[p] - r[p])]
           Part(p) == (eroom[p] * left) % Total(eroom)
           b == [p \in S |-> r[p] + Smaller(eroom[p], (eroom[p] * left) \div Total(eroom))]
           lack == [p \in S |-> c[p] - b[p]]
           used(p) == Total(b) + Sum(lack, {q \in S : Earlier(q, p, Part)})
<1>0. ShareFacts(c, r, o)
  BY ShareValues
<1>1. IsFiniteSet(S) /\ o.limit \in Nat
  BY <1>0 DEF ShareFacts
<1>2. \A p \in S : c[p] \in Nat /\ r[p] \in Nat /\ r[p] <= c[p] /\ room[p] = c[p] - r[p] /\ room[p] \in Nat
  BY <1>0 DEF ShareFacts
<1>3. left \in Nat /\ left = o.limit - Total(r) /\ all \in Nat /\ all > left
  BY <1>0 DEF ShareFacts
<1>4. /\ DOMAIN s = S
      /\ \A p \in S : s[p] = IF left = 0 THEN 0 ELSE Smaller(room[p], (room[p] * left) \div all)
  BY <1>0 DEF ShareFacts
<1>5. (\A p \in S : s[p] \in Nat /\ s[p] <= room[p]) /\ Sum(s, S) \in Nat /\ Sum(s, S) <= left
  BY <1>0 DEF ShareFacts
<1>6. Total(r) = Sum(r, S)
  BY <1>0 DEF ShareFacts
<1>7. x = [p \in S |-> Smaller(spare[p], Larger(rest - Sum(spare, Before(p)), 0))]
  BY DEF Rounding
<1>8. EstimateShares(c, r, o) =
        IF left = 0 \/ Total(eroom) = 0 THEN r
        ELSE [p \in S |-> b[p] + Smaller(lack[p], Larger(o.limit - used(p), 0))]
  BY DEF EstimateShares
<1> HIDE DEF s, x
<1>9. eroom = room
  <2>1. \A p \in S : Larger(0, c[p] - r[p]) = c[p] - r[p]
    BY <1>2 DEF Larger
  <2> QED BY <2>1
<1>10. \A p \in S : spare[p] \in Nat /\ spare[p] = c[p] - r[p] - s[p]
  <2>1. \A p \in S : spare[p] = c[p] - r[p] - s[p]
    OBVIOUS
  <2> HIDE DEF spare, room
  <2> QED BY <2>1, <1>2, <1>5
<1>11. \A p : Before(p) \subseteq S /\ IsFiniteSet(Before(p)) /\ Sum(spare, Before(p)) \in Nat
  <2> TAKE p
  <2> DEFINE E == Before(p)
  <2>1. E \subseteq S
    OBVIOUS
  <2> HIDE DEF E, spare
  <2>2. IsFiniteSet(E)
    BY <2>1, <1>1, FS_Subset
  <2>3. Sum(spare, E) \in Nat
    BY <2>1, <2>2, <1>10, SumNat
  <2> QED BY <2>1, <2>2, <2>3 DEF E
<1>12. Total(eroom) = all /\ all # 0
  <2>1. Total(eroom) = all
    <3> HIDE DEF eroom, room
    <3> QED BY <1>9
  <2> HIDE DEF all, left
  <2> QED BY <2>1, <1>3
<1>13. CASE left = 0
  <2>1. rest = 0
    BY <1>13
  <2>2. \A p \in S : s[p] = 0
    BY <1>4, <1>13
  <2>3. \A p \in S : x[p] = 0
    <3> HIDE DEF Before, spare, rest
    <3>1. \A p \in S : x[p] = Smaller(spare[p], Larger(rest - Sum(spare, Before(p)), 0))
      BY <1>7
    <3>2. \A p \in S : spare[p] \in Nat /\ Sum(spare, Before(p)) \in Nat
      BY <1>10, <1>11
    <3> QED BY <3>1, <3>2, <2>1 DEF Smaller, Larger
  <2>4. EstimateShares(c, r, o) = r
    BY <1>8, <1>13
  <2>5. \A p \in S : r[p] + s[p] + x[p] = r[p]
    BY <2>2, <2>3, <1>2
  <2> QED BY <2>4, <2>5 DEF s, x
<1>14. CASE left # 0
  <2>1. rest = left - Total(s) /\ Total(s) = Sum(s, S)
    <3>1. Total(s) = Sum(s, S)
      BY <1>4 DEF Total
    <3> HIDE DEF all, left
    <3> QED BY <3>1, <1>12, <1>14
  <2>2. \A p \in S : b[p] = r[p] + s[p]
    <3>1. \A p \in S : s[p] = Smaller(room[p], (room[p] * left) \div all)
      BY <1>4, <1>14
    <3>2. \A p \in S : b[p] = r[p] + Smaller(eroom[p], (eroom[p] * left) \div Total(eroom))
      OBVIOUS
    <3> HIDE DEF eroom, room, all, left, b
    <3> QED BY <3>1, <3>2, <1>9, <1>12
  <2>3. Total(b) = Total(r) + Sum(s, S)
    <3>1. DOMAIN b = S
      OBVIOUS
    <3> HIDE DEF b, room
    <3>2. \A p \in S : r[p] \in Int /\ s[p] \in Int /\ b[p] = r[p] + s[p]
      BY <2>2, <1>2, <1>5
    <3> HIDE DEF S
    <3>3. Sum(b, S) = Sum(r, S) + Sum(s, S)
      BY <3>2, <1>1, SumAdd
    <3> QED BY <3>1, <3>3, <1>6 DEF Total
  <2>4. lack = spare
    <3>1. \A p \in S : c[p] - b[p] = c[p] - r[p] - s[p]
      <4> HIDE DEF b, room
      <4> QED BY <2>2, <1>2, <1>5
    <3> HIDE DEF b
    <3> QED BY <3>1
  <2>5. \A p : {q \in S : Earlier(q, p, Part)} = Before(p)
    <3>1. \A p : Part(p) = Fraction(p)
      <4> HIDE DEF eroom, room, all, left
      <4> QED BY <1>9, <1>12
    <3> HIDE DEF Part, Fraction
    <3> QED BY <3>1 DEF Earlier
  <2>6. \A p \in S : b[p] + Smaller(lack[p], Larger(o.limit - used(p), 0)) = r[p] + s[p] + x[p]
    <3> TAKE p \in S
    <3>1. used(p) = Total(b) + Sum(spare, Before(p))
      <4> HIDE DEF lack, spare, Before, b, Part
      <4> QED BY <2>4, <2>5
    <3>2. x[p] = Smaller(spare[p], Larger(rest - Sum(spare, Before(p)), 0))
      <4> HIDE DEF spare, rest, Before
      <4> QED BY <1>7
    <3> DEFINE d == Sum(spare, Before(p))
               tb == Total(b)
    <3>3. d \in Nat /\ spare[p] \in Nat /\ x[p] = Smaller(spare[p], Larger(rest - d, 0)) /\ used(p) = tb + d
      BY <1>10, <1>11, <3>1, <3>2
    <3>4. tb = Total(r) + Sum(s, S)
      BY <2>3
    <3> HIDE DEF d, tb, used, lack, spare, b, rest, left, Before
    <3>5. rest - d = o.limit - used(p)
      BY <2>1, <3>3, <3>4, <1>1, <1>3, <1>5
    <3>6. b[p] = r[p] + s[p] /\ lack[p] = spare[p] /\ r[p] \in Nat /\ s[p] \in Nat
      BY <2>2, <2>4, <1>2, <1>5
    <3> QED BY <3>3, <3>5, <3>6
  <2>7. EstimateShares(c, r, o) = [p \in S |-> b[p] + Smaller(lack[p], Larger(o.limit - used(p), 0))]
    <3> HIDE DEF eroom, all, left, b, lack, used
    <3> QED BY <1>8, <1>12, <1>14
  <2> HIDE DEF b, lack, used
  <2> QED BY <2>6, <2>7 DEF s, x
<1> QED BY <1>13, <1>14

\* The preview divides a limit that is exceeded as the publication does.
LEMMA BudgetsAgree ==
  ASSUME NEW c, NEW o, Counts(c, o), Total(c) > o.limit
  PROVE  EstimateBudgets(c, o) = Budgets(c, o)
<1>1. IsFiniteSet(DOMAIN c) /\ Cardinality(DOMAIN c) \in Nat /\ o.limit \in Nat
  BY OrderAssumption, FS_Subset, FS_CardinalityType DEF Counts
<1>2. CASE o.limit < Cardinality(DOMAIN c)
  BY <1>2, OneEachAgrees DEF EstimateBudgets, Budgets
<1>3. CASE ~(o.limit < Cardinality(DOMAIN c))
  <2>0. Cardinality(DOMAIN c) <= o.limit
    BY <1>1, <1>3
  <2> DEFINE r == Reserved(c, o)
             s == Shared(c, r, o)
             x == Rounding(c, r, s, o)
             e == [p \in DOMAIN c |-> r[p] + s[p] + x[p]]
             b == EstimateShares(c, r, o)
  <2>1. Budgets(c, o) = e
    BY <1>3 DEF Budgets
  <2>2. EstimateReserved(c, o) = r
    BY <2>0, ReservedAgrees
  <2>3. EstimateBudgets(c, o) = [p \in DOMAIN c |-> Smaller(c[p], Larger(0, b[p]))]
    <3> HIDE DEF r
    <3> QED BY <1>3, <2>2 DEF EstimateBudgets
  <2>4. /\ DOMAIN r = DOMAIN c /\ Total(r) \in Nat /\ Total(r) <= o.limit
        /\ \A p \in DOMAIN c : r[p] \in Nat /\ r[p] <= c[p]
    BY <2>0, ReservedSound
  <2>5. r = [p \in DOMAIN c |-> r[p]]
    BY DEF Reserved
  <2> HIDE DEF r
  <2>6. b = e
    BY <2>4, <2>5, SharesAgree
  <2>7. \A p \in DOMAIN c : e[p] \in Nat /\ e[p] <= c[p]
    BY <2>4, SharesSound
  <2> HIDE DEF b
  <2>8. DOMAIN e = DOMAIN c /\ e = [p \in DOMAIN c |-> e[p]]
    OBVIOUS
  <2> HIDE DEF e
  <2>9. \A p \in DOMAIN c : c[p] \in Nat /\ Smaller(c[p], Larger(0, e[p])) = e[p]
    BY <2>7 DEF Counts, Smaller, Larger
  <2> QED BY <2>1, <2>3, <2>6, <2>8, <2>9
<1> QED BY <1>2, <1>3

-----------------------------------------------------------------------------
(* Networks *)

\* Powers of two count subsets.
LEMMA Power == \A k \in Nat : 2^k \in Nat \ {0} /\ Cardinality(SUBSET (1 .. k)) = 2^k /\ IsFiniteSet(SUBSET (1 .. k))
<1> TAKE k \in Nat
<1>1. IsFiniteSet(1 .. k) /\ Cardinality(1 .. k) = k
  BY FS_Interval
<1>2. IsFiniteSet(SUBSET (1 .. k)) /\ Cardinality(SUBSET (1 .. k)) = 2^Cardinality(1 .. k)
  BY <1>1, FS_SUBSET
<1>3. Cardinality(SUBSET (1 .. k)) = 2^k
  BY <1>1, <1>2
<1>4. Cardinality(SUBSET (1 .. k)) \in Nat /\ SUBSET (1 .. k) # {}
  BY <1>2, FS_CardinalityType
<1>5. Cardinality(SUBSET (1 .. k)) # 0
  BY <1>2, <1>4, FS_EmptySet
<1> QED BY <1>2, <1>3, <1>4, <1>5

\* A subset of 1 .. j + k is one of 1 .. j and one of j + 1 .. j + k.
LEMMA PowerSum == \A j, k \in Nat : 2^(j + k) = 2^j * 2^k
<1> TAKE j, k \in Nat
<1> DEFINE A == 1 .. j
           B == (j + 1) .. (j + k)
           C == 1 .. (j + k)
           f == [x \in SUBSET C |-> <<x \cap A, x \cap B>>]
<1>1. C = A \cup B /\ A \cap B = {} /\ j + k \in Nat
  OBVIOUS
<1>2. IsFiniteSet(A) /\ Cardinality(A) = j /\ IsFiniteSet(B) /\ Cardinality(B) = k /\ IsFiniteSet(C) /\ Cardinality(C) = j + k
  <2>1. IsFiniteSet(A) /\ Cardinality(A) = j
    BY FS_Interval
  <2>2. IsFiniteSet(B) /\ Cardinality(B) = k
    BY FS_Interval
  <2>3. IsFiniteSet(C) /\ Cardinality(C) = j + k
    <3>1. \A m \in Nat : IsFiniteSet(1 .. m) /\ Cardinality(1 .. m) = m
      BY FS_Interval
    <3> QED BY <1>1, <3>1
  <2> QED BY <2>1, <2>2, <2>3
<1> HIDE DEF A, B, C
<1>3. /\ IsFiniteSet(SUBSET A) /\ Cardinality(SUBSET A) = 2^j
      /\ IsFiniteSet(SUBSET B) /\ Cardinality(SUBSET B) = 2^k
      /\ IsFiniteSet(SUBSET C) /\ Cardinality(SUBSET C) = 2^(j + k)
  <2>1. IsFiniteSet(SUBSET A) /\ Cardinality(SUBSET A) = 2^j
    BY <1>2, FS_SUBSET
  <2>2. IsFiniteSet(SUBSET B) /\ Cardinality(SUBSET B) = 2^k
    BY <1>2, FS_SUBSET
  <2>3. IsFiniteSet(SUBSET C) /\ Cardinality(SUBSET C) = 2^(j + k)
    BY <1>2, FS_SUBSET
  <2> QED BY <2>1, <2>2, <2>3
<1> DEFINE P == (SUBSET A) \X (SUBSET B)
<1>4. f \in [SUBSET C -> P]
  BY <1>1
<1>5. \A x, y \in SUBSET C : f[x] = f[y] => x = y
  <2> TAKE x, y \in SUBSET C
  <2> HAVE f[x] = f[y]
  <2>1. x \cap A = y \cap A /\ x \cap B = y \cap B
    OBVIOUS
  <2> QED BY <2>1, <1>1
<1>6. \A z \in P : \E x \in SUBSET C : f[x] = z
  <2> TAKE z \in P
  <2>1. PICK a \in SUBSET A, b \in SUBSET B : z = <<a, b>>
    OBVIOUS
  <2>2. (a \cup b) \cap A = a /\ (a \cup b) \cap B = b /\ a \cup b \in SUBSET C
    BY <1>1
  <2>3. f[a \cup b] = z
    BY <2>1, <2>2
  <2> QED BY <2>2, <2>3
<1>7. f \in Bijection(SUBSET C, P)
  <2> HIDE DEF f, P
  <2> QED BY <1>4, <1>5, <1>6 DEF Bijection, Injection, Surjection, IsInjective
<1>8. Cardinality(P) = 2^(j + k)
  <2>1. ExistsBijection(SUBSET C, P)
    BY <1>7 DEF ExistsBijection
  <2> HIDE DEF P
  <2> QED BY <2>1, <1>3, FS_Bijection
<1>9. Cardinality(P) = 2^j * 2^k
  <2> DEFINE X == SUBSET A
             Y == SUBSET B
  <2>1. IsFiniteSet(X) /\ IsFiniteSet(Y) /\ Cardinality(X) = 2^j /\ Cardinality(Y) = 2^k
    BY <1>3
  <2> HIDE DEF X, Y
  <2>2. Cardinality(X \X Y) = Cardinality(X) * Cardinality(Y)
    BY <2>1, FS_Product
  <2> QED BY <2>1, <2>2 DEF X, Y
<1> QED BY <1>8, <1>9

\* How many addresses there are.
Width == 2^Bits

\* A network is an interval of addresses.
LEMMA NetShape ==
  ASSUME NEW n \in Nets
  PROVE  \E a, k \in Nat : k > 0 /\ a + k <= Width /\ n = a .. (a + k - 1)
<1>1. PICK e \in 0 .. Bits : n \in {Block(e, b) : b \in 0 .. (2^(Bits - e) - 1)}
  BY DEF Nets
<1>2. PICK b \in 0 .. (2^(Bits - e) - 1) : n = Block(e, b)
  BY <1>1
<1>3. Bits \in Nat /\ e \in Nat /\ Bits - e \in Nat /\ Bits = (Bits - e) + e
  BY NetsAssumption
<1> DEFINE k == 2^e
           q == 2^(Bits - e)
<1>4. k \in Nat /\ k > 0 /\ q \in Nat
  <2>1. k \in Nat \ {0} /\ q \in Nat \ {0}
    BY <1>3, Power
  <2> HIDE DEF k, q
  <2> QED BY <2>1
<1>5. Width = q * k
  <2>1. 2^((Bits - e) + e) = 2^(Bits - e) * 2^e
    BY <1>3, PowerSum
  <2> QED BY <1>3, <2>1 DEF Width
<1>6. n = (b * k) .. (b * k + k - 1)
  BY <1>2 DEF Block
<1>7. b \in Nat /\ b + 1 <= q
  <2>1. b \in 0 .. (q - 1)
    OBVIOUS
  <2> HIDE DEF q
  <2> QED BY <2>1, <1>4
<1> HIDE DEF k, q
<1>8. b * k \in Nat /\ b * k + k = (b + 1) * k /\ (b + 1) * k <= q * k
  BY <1>4, <1>7
<1> QED BY <1>4, <1>5, <1>6, <1>8

\* Its addresses, its size and its first address.
LEMMA NetFacts ==
  ASSUME NEW n \in Nets
  PROVE  /\ n # {} /\ n \subseteq 0 .. (Width - 1) /\ IsFiniteSet(n)
         /\ First(n) \in Nat /\ First(n) < Width
         /\ Cardinality(n) \in Nat /\ Cardinality(n) > 0
         /\ n = First(n) .. (First(n) + Cardinality(n) - 1)
<1>1. PICK a, k \in Nat : k > 0 /\ a + k <= Width /\ n = a .. (a + k - 1)
  BY NetShape
<1>2. Width \in Nat
  BY NetsAssumption, Power DEF Width
<1>3. IsFiniteSet(n) /\ Cardinality(n) = k
  <2>1. \A x, y \in Int : IsFiniteSet(x .. y) /\ Cardinality(x .. y) = IF x > y THEN 0 ELSE y - x + 1
    BY FS_Interval
  <2>2. a + k - 1 \in Int /\ a \in Int /\ ~(a > a + k - 1) /\ (a + k - 1) - a + 1 = k
    BY <1>1
  <2> QED BY <1>1, <2>1, <2>2
<1>4. a \in n /\ (\A b \in n : a <= b) /\ \A b \in n : b \in Nat /\ b < Width
  BY <1>1, <1>2
<1>5. First(n) = a
  <2>1. \A b \in n : (\A d \in n : b <= d) => b = a
    BY <1>4, <1>1
  <2>2. First(n) \in n /\ \A d \in n : First(n) <= d
    <3> HIDE <1>1
    <3> QED BY <1>4 DEF First
  <2> QED BY <2>1, <2>2
<1>6. n \subseteq 0 .. (Width - 1)
  BY <1>2, <1>4
<1> QED BY <1>1, <1>2, <1>3, <1>4, <1>5, <1>6

\* There are finitely many networks.
LEMMA NetsFinite == IsFiniteSet(Nets)
<1>1. Width - 1 \in Int
  BY NetsAssumption, Power DEF Width
<1>2. IsFiniteSet(0 .. (Width - 1))
  BY <1>1, FS_Interval
<1>3. IsFiniteSet(SUBSET (0 .. (Width - 1)))
  BY <1>2, FS_SUBSET
<1>4. Nets \in SUBSET (SUBSET (0 .. (Width - 1)))
  BY NetFacts
<1> HIDE DEF Width
<1> QED BY <1>3, <1>4, FS_Subset

\* The order of _compress_cidrs_to_limit tells all networks apart.
LEMMA WidestFirstInjective ==
  ASSUME NEW m \in Nets, NEW n \in Nets
  PROVE  /\ WidestFirst(m) \in Int
         /\ WidestFirst(m) = WidestFirst(n) => m = n
<1> DEFINE a == First(m)  b == First(n)
           j == Cardinality(m)  k == Cardinality(n)
<1>1. /\ a \in Nat /\ b \in Nat /\ j \in Nat /\ k \in Nat /\ a < Width /\ b < Width
      /\ m = a .. (a + j - 1) /\ n = b .. (b + k - 1)
  BY NetFacts
<1>2. Width \in Nat
  BY NetsAssumption, Power DEF Width
<1>3. WidestFirst(m) = a - j * Width /\ WidestFirst(n) = b - k * Width
  BY DEF WidestFirst, Width
<1> HIDE DEF a, b, j, k, Width
<1>4. WidestFirst(m) \in Int
  BY <1>1, <1>2, <1>3
<1>5. ASSUME a - j * Width = b - k * Width  PROVE a = b /\ j = k
  <2>1. CASE j < k
    <3>1. (j + 1) * Width <= k * Width /\ (j + 1) * Width = j * Width + Width
      BY <1>1, <1>2, <2>1
    <3>2. j * Width \in Int /\ k * Width \in Int
      BY <1>1, <1>2
    <3> DEFINE u == j * Width  v == k * Width
    <3> HIDE DEF u, v
    <3>3. u + Width <= v /\ u \in Int /\ v \in Int /\ a - u = b - v
      BY <3>1, <3>2, <1>5 DEF u, v
    <3> QED BY <3>3, <1>1, <1>2
  <2>2. CASE k < j
    <3>1. (k + 1) * Width <= j * Width /\ (k + 1) * Width = k * Width + Width
      BY <1>1, <1>2, <2>2
    <3>2. j * Width \in Int /\ k * Width \in Int
      BY <1>1, <1>2
    <3> DEFINE u == j * Width  v == k * Width
    <3> HIDE DEF u, v
    <3>3. v + Width <= u /\ u \in Int /\ v \in Int /\ a - u = b - v
      BY <3>1, <3>2, <1>5 DEF u, v
    <3> QED BY <3>3, <1>1, <1>2
  <2>3. CASE j = k
    <3>1. k * Width \in Int
      BY <1>1, <1>2
    <3> QED BY <1>5, <2>3, <3>1, <1>1
  <2> QED BY <2>1, <2>2, <2>3, <1>1
<1> QED BY <1>1, <1>3, <1>4, <1>5

\* In a finite set of sets one lies in no other.
LEMMA OneFree ==
  ASSUME NEW S, IsFiniteSet(S), S # {}
  PROVE  \E n \in S : \A m \in S : n \subseteq m => n = m
<1> DEFINE G == {s \in SUBSET S : s # {} => \E n \in s : \A m \in s : n \subseteq m => n = m}
<1>1. ASSUME NEW s \in SUBSET S, \A t \in SUBSET s : t # s => t \in G
      PROVE  s \in G
  <2> SUFFICES ASSUME s # {}  PROVE \E n \in s : \A m \in s : n \subseteq m => n = m
    OBVIOUS
  <2>1. PICK e \in s : TRUE
    OBVIOUS
  <2> DEFINE t == s \ {e}
  <2>2. t \in G
    BY <1>1
  <2>3. CASE t = {}
    BY <2>3
  <2>4. CASE t # {}
    <3>1. PICK n \in t : \A m \in t : n \subseteq m => n = m
      BY <2>2, <2>4
    <3>2. CASE n \subseteq e
      <4>1. ASSUME NEW m \in s, e \subseteq m, e # m  PROVE FALSE
        <5>1. m \in t /\ n \subseteq m
          BY <4>1, <3>2
        <5>2. n = m
          BY <5>1, <3>1
        <5> QED BY <5>2, <3>2, <4>1
      <4> QED BY <4>1
    <3>3. CASE ~(n \subseteq e)
      BY <3>1, <3>3
    <3> QED BY <3>2, <3>3
  <2> QED BY <2>3, <2>4
<1>2. \A s \in SUBSET S : (\A t \in SUBSET s : t # s => t \in G) => s \in G
  BY <1>1
<1>3. G \in SUBSET (SUBSET S)
  OBVIOUS
<1>4. S \in G
  <2> HIDE DEF G
  <2> QED BY <1>2, <1>3, SetInduction
<1> QED BY <1>4

\* What _compress_cidrs_to_limit keeps: networks of the list that lie in no other, as many
\* as the limit allows.
LEMMA Compressed ==
  ASSUME NEW ns \in SUBSET Nets, NEW limit \in Nat
  PROVE  LET free == {n \in ns : ~\E m \in ns : n # m /\ n \subseteq m}
             kept == CompressToLimit(ns, limit)
         IN  /\ kept \subseteq free /\ IsFiniteSet(free) /\ IsFiniteSet(kept)
             /\ Cardinality(kept) = Smaller(limit, Cardinality(free))
             /\ ns # {} => free # {}
<1> DEFINE free == {n \in ns : ~\E m \in ns : n # m /\ n \subseteq m}
           R == {e \in free \X free : WidestFirst(e[1]) < WidestFirst(e[2])}
           kept == CompressToLimit(ns, limit)
<1>1. free \subseteq Nets /\ IsFiniteSet(ns) /\ IsFiniteSet(free)
  <2>1. IsFiniteSet(ns)
    BY NetsFinite, FS_Subset
  <2>2. free \in SUBSET ns
    OBVIOUS
  <2> HIDE DEF free
  <2> QED BY <2>1, <2>2, FS_Subset
<1>2. ns # {} => free # {}
  BY <1>1, OneFree
<1>3. kept = {x \in free : Cardinality({y \in free : WidestFirst(y) < WidestFirst(x)}) < limit}
  BY DEF CompressToLimit, Leading
<1> HIDE DEF free, kept
<1>4. \A x, y \in free : <<y, x>> \in R <=> WidestFirst(y) < WidestFirst(x)
  OBVIOUS
<1>5. \A x, y \in free : WidestFirst(x) \in Int /\ (WidestFirst(x) = WidestFirst(y) => x = y)
  BY <1>1, WidestFirstInjective
<1> HIDE DEF R
<1>6. IsOrder(R, free)
  <2>1. \A x \in free : <<x, x>> \notin R
    BY <1>4, <1>5
  <2>2. \A x, y \in free : x # y => <<x, y>> \in R \/ <<y, x>> \in R
    BY <1>4, <1>5
  <2>3. \A x, y, z \in free : <<x, y>> \in R /\ <<y, z>> \in R => <<x, z>> \in R
    BY <1>4, <1>5
  <2> QED BY <2>1, <2>2, <2>3 DEF IsOrder
<1>7. \A x \in free : Ahead(R, free, x) = {y \in free : WidestFirst(y) < WidestFirst(x)}
  BY <1>4 DEF Ahead
<1>8. kept = Ranked(R, free, limit)
  BY <1>3, <1>7 DEF Ranked
<1>9. Cardinality(kept) = Smaller(limit, Cardinality(free))
  BY <1>1, <1>6, <1>8, RankedSize
<1>10. kept \subseteq free /\ IsFiniteSet(kept)
  BY <1>1, <1>3, FS_Subset
<1> QED BY <1>1, <1>2, <1>9, <1>10 DEF free, kept

\* An address alone is a network.
LEMMA Single == \A a \in 0 .. (Width - 1) : {a} \in Nets
<1> TAKE a \in 0 .. (Width - 1)
<1>1. 2^0 = 1
  <2>1. IsFiniteSet({}) /\ Cardinality({}) = 0
    BY FS_EmptySet
  <2>2. Cardinality(SUBSET {}) = 2^0
    BY <2>1, FS_SUBSET
  <2>3. SUBSET {} = {{}}
    OBVIOUS
  <2>4. Cardinality({{}}) = 1
    BY FS_Singleton
  <2> QED BY <2>2, <2>3, <2>4
<1>2. Bits \in Nat
  BY NetsAssumption
<1>3. Block(0, a) = (a * 1) .. (a * 1 + 1 - 1)
  BY <1>1 DEF Block
<1>4. Width \in Nat
  BY <1>2, Power DEF Width
<1>5. (a * 1) .. (a * 1 + 1 - 1) = {a}
  BY <1>4
<1>6. 0 \in 0 .. Bits /\ 2^(Bits - 0) = Width
  BY <1>2 DEF Width
<1>7. a \in 0 .. (2^(Bits - 0) - 1)
  BY <1>6
<1>8. Block(0, a) \in Nets
  BY <1>6, <1>7 DEF Nets
<1> QED BY <1>3, <1>5, <1>8

\* The canonical networks of a set of addresses hold these addresses.
LEMMA CanonicalSpace ==
  ASSUME NEW A \in SUBSET (0 .. (Width - 1))
  PROVE  Canonical(A) \in SUBSET Nets /\ UNION Canonical(A) = A
<1>1. Canonical(A) = {n \in Nets : /\ n \subseteq A
                                             /\ \A m \in Nets : n \subseteq m /\ m \subseteq A => m = n}
  BY DEF Canonical
<1>2. ASSUME NEW a \in A  PROVE a \in UNION Canonical(A)
  <2> DEFINE S == {n \in Nets : a \in n /\ n \subseteq A}
  <2>1. {a} \in S
    BY Single
  <2>2. IsFiniteSet(S)
    BY NetsFinite, FS_Subset
  <2>3. S # {}
    BY <2>1
  <2>4. \E n \in S : \A m \in S : n \subseteq m => n = m
    <3> HIDE DEF S
    <3> QED BY <2>2, <2>3, OneFree
  <2>5. PICK n \in S : \A m \in S : n \subseteq m => n = m
    BY <2>4
  <2>6. \A m \in Nets : n \subseteq m /\ m \subseteq A => m \in S
    OBVIOUS
  <2>7. n \in Canonical(A)
    BY <1>1, <2>5, <2>6
  <2> QED BY <2>7
<1> QED BY <1>1, <1>2

\* Two networks with an address in common lie one in the other: here a narrow and a wide one.
LEMMA BlocksNest ==
  ASSUME NEW u \in Nat \ {0}, NEW q \in Nat \ {0}, NEW b \in Nat, NEW d \in Nat,
         NEW a, a \in (b * u) .. (b * u + u - 1), a \in (d * (q * u)) .. (d * (q * u) + q * u - 1)
  PROVE  (b * u) .. (b * u + u - 1) \subseteq (d * (q * u)) .. (d * (q * u) + q * u - 1)
<1> DEFINE e == d * q
           f == (d + 1) * q
<1>1. d * (q * u) = e * u /\ d * (q * u) + q * u = f * u /\ e \in Nat /\ f \in Nat
  <2>1. d * (q * u) = (d * q) * u /\ (d + 1) * q = d * q + q
    OBVIOUS
  <2>2. (d * q + q) * u = (d * q) * u + q * u
    OBVIOUS
  <2>3. d * q \in Nat /\ (d + 1) * q \in Nat
    OBVIOUS
  <2> QED BY <2>1, <2>2, <2>3
<1> HIDE DEF e, f
<1>2. e * u \in Nat /\ f * u \in Nat /\ b * u \in Nat /\ (b + 1) * u = b * u + u
  BY <1>1
<1>3. e * u < (b + 1) * u /\ b * u < f * u
  <2>1. e * u <= a /\ a < b * u + u /\ b * u <= a /\ a < f * u /\ a \in Int
    <3> DEFINE x == b * u  y == d * (q * u)  z == q * u
    <3>1. x \in Int /\ y \in Int /\ z \in Int
      BY <1>1, <1>2
    <3>2. a \in x .. (x + u - 1) /\ a \in y .. (y + z - 1) /\ y = e * u /\ y + z = f * u
      BY <1>1
    <3>4. x = b * u
      OBVIOUS
    <3> HIDE DEF x, y, z
    <3>3. a \in Int /\ x <= a /\ a <= x + u - 1 /\ y <= a /\ a <= y + z - 1
      BY <3>1, <3>2
    <3> DEFINE v == e * u  w == f * u
    <3>5. v = y /\ w = y + z
      BY <3>2
    <3> HIDE DEF v, w
    <3>6. v <= a /\ a < x + u /\ x <= a /\ a < w
      BY <3>1, <3>3, <3>5
    <3> QED BY <3>3, <3>4, <3>6 DEF v, w
  <2> DEFINE x == b * u  v == e * u  w == f * u  y == (b + 1) * u
  <2>2. x \in Nat /\ v \in Nat /\ w \in Nat /\ y = x + u /\ v <= a /\ a < x + u /\ x <= a /\ a < w
    BY <1>2, <2>1
  <2> HIDE DEF x, v, w, y
  <2>3. v < y /\ x < w
    BY <2>1, <2>2
  <2> QED BY <2>3 DEF x, v, w, y
<1>4. e < b + 1 /\ b < f
  <2>1. ~(b + 1 <= e)
    <3>1. b + 1 <= e => (b + 1) * u <= e * u
      BY <1>1
    <3> QED BY <3>1, <1>2, <1>3
  <2>2. ~(f <= b)
    <3>1. f <= b => f * u <= b * u
      BY <1>1
    <3> QED BY <3>1, <1>2, <1>3
  <2> QED BY <2>1, <2>2, <1>1
<1>5. e * u <= b * u /\ (b + 1) * u <= f * u
  <2>1. e <= b /\ b + 1 <= f
    BY <1>1, <1>4
  <2> QED BY <2>1, <1>1
<1> DEFINE x == b * u  v == e * u  w == f * u  z == q * u  y == d * (q * u)
<1>6. x \in Nat /\ v \in Nat /\ w \in Nat /\ v <= x /\ x + u <= w /\ y = v /\ y + z = w /\ z \in Nat
  BY <1>1, <1>2, <1>5
<1> HIDE DEF x, v, w, z, y
<1>7. x .. (x + u - 1) \subseteq y .. (y + z - 1)
  BY <1>6
<1> QED BY <1>7 DEF x, y, z

\* A network that a wider one, or one as wide, has an address in common with lies in it.
LEMMA NarrowNest ==
  ASSUME NEW j \in 0 .. Bits, NEW k \in 0 .. Bits, j <= k,
         NEW b \in Nat, NEW d \in Nat, NEW a \in Block(j, b), a \in Block(k, d)
  PROVE  Block(j, b) \subseteq Block(k, d)
<1>1. j \in Nat /\ k \in Nat /\ k - j \in Nat /\ k = (k - j) + j
  BY NetsAssumption
<1>2. 2^k = 2^(k - j) * 2^j
  <2> DEFINE i == k - j
  <2>1. i \in Nat /\ k = i + j
    BY <1>1
  <2> HIDE DEF i
  <2>2. 2^(i + j) = 2^i * 2^j
    BY <1>1, <2>1, PowerSum
  <2> QED BY <2>1, <2>2 DEF i
<1>3. 2^(k - j) \in Nat \ {0} /\ 2^j \in Nat \ {0}
  BY <1>1, Power
<1> DEFINE u == 2^j  q == 2^(k - j)
<1>4. Block(j, b) = (b * u) .. (b * u + u - 1)
  BY DEF Block
<1>5. Block(k, d) = (d * (q * u)) .. (d * (q * u) + q * u - 1)
  BY <1>2 DEF Block
<1>6. u \in Nat \ {0} /\ q \in Nat \ {0}
  BY <1>3
<1> HIDE DEF u, q
<1> QED BY <1>4, <1>5, <1>6, BlocksNest

LEMMA Nested ==
  ASSUME NEW m \in Nets, NEW n \in Nets, m \cap n # {}
  PROVE  m \subseteq n \/ n \subseteq m
<1>1. PICK j \in 0 .. Bits : m \in {Block(j, b) : b \in 0 .. (2^(Bits - j) - 1)}
  BY DEF Nets
<1>2. PICK b \in 0 .. (2^(Bits - j) - 1) : m = Block(j, b)
  BY <1>1
<1>3. PICK k \in 0 .. Bits : n \in {Block(k, d) : d \in 0 .. (2^(Bits - k) - 1)}
  BY DEF Nets
<1>4. PICK d \in 0 .. (2^(Bits - k) - 1) : n = Block(k, d)
  BY <1>3
<1>5. PICK a \in m : a \in n
  OBVIOUS
<1>6. b \in Nat /\ d \in Nat /\ j \in Int /\ k \in Int
  OBVIOUS
<1>7. CASE j <= k
  BY <1>2, <1>4, <1>5, <1>6, <1>7, NarrowNest
<1>8. CASE ~(j <= k)
  <2>1. k <= j
    BY <1>6, <1>8
  <2> QED BY <2>1, <1>2, <1>4, <1>5, <1>6, NarrowNest
<1> QED BY <1>7, <1>8

\* What a list becomes in its file: the widest networks that fit into its addresses, each
\* with a network of the list in it.
Collapsed(ns, cs) ==
    /\ cs \in SUBSET Nets /\ UNION cs = UNION ns
    /\ \A m, n \in cs : m \cap n # {} => m = n
    /\ \A m \in cs : \E n \in ns : n \subseteq m /\ n # {}
    /\ \A n \in cs, m \in Nets : n \subseteq m /\ m \subseteq UNION ns => m = n

LEMMA CollapseShape ==
  ASSUME NEW ns \in SUBSET Nets
  PROVE  Collapsed(ns, Collapse(ns))
<1>1. UNION ns \in SUBSET (0 .. (Width - 1))
  <2>1. \A n \in ns : n \subseteq 0 .. (Width - 1)
    BY NetFacts
  <2> QED BY <2>1
<1>2. Collapse(ns) = Canonical(UNION ns)
  BY DEF Collapse, Space
<1> DEFINE A == UNION ns
<1>3. Canonical(A) \in SUBSET Nets /\ UNION Canonical(A) = A
  BY <1>1, CanonicalSpace
<1>4. \A n : n \in Canonical(A) <=> /\ n \in Nets /\ n \subseteq A
                                    /\ \A m \in Nets : n \subseteq m /\ m \subseteq A => m = n
  BY DEF Canonical
<1>5. \A n \in ns : n \in Nets /\ n # {} /\ n \subseteq A
  BY NetFacts
<1>6. ASSUME NEW m \in Canonical(A)  PROVE \E n \in ns : n \subseteq m /\ n # {}
  <2>1. m \in Nets /\ m # {} /\ m \subseteq A
    BY <1>4, NetFacts
  <2>2. PICK a \in m : a \in A
    BY <2>1
  <2>3. PICK n \in ns : a \in n
    BY <2>2
  <2>4. m \subseteq n \/ n \subseteq m
    BY <2>1, <2>2, <2>3, <1>5, Nested
  <2>5. m \subseteq n => n = m
    BY <2>3, <1>4, <1>5
  <2> QED BY <2>3, <2>4, <2>5, <1>5
<1>7. ASSUME NEW m \in Canonical(A), NEW n \in Canonical(A), m \cap n # {}  PROVE m = n
  <2>1. m \in Nets /\ n \in Nets /\ m \subseteq A /\ n \subseteq A
    BY <1>4
  <2>2. m \subseteq n \/ n \subseteq m
    BY <2>1, <1>7, Nested
  <2> QED BY <2>1, <2>2, <1>4
<1>8. \A n \in Canonical(A), m \in Nets : n \subseteq m /\ m \subseteq A => m = n
  BY <1>4
<1> DEFINE C == Canonical(A)
<1>9. /\ C \in SUBSET Nets /\ UNION C = A /\ Collapse(ns) = C
      /\ \A m, n \in C : m \cap n # {} => m = n
      /\ \A m \in C : \E n \in ns : n \subseteq m /\ n # {}
      /\ \A n \in C, m \in Nets : n \subseteq m /\ m \subseteq A => m = n
  BY <1>2, <1>3, <1>6, <1>7, <1>8
<1> HIDE DEF C
<1> QED BY <1>9 DEF Collapsed

\* A file has no more routes than the list.
LEMMA CollapseSize ==
  ASSUME NEW ns \in SUBSET Nets
  PROVE  Cardinality(Collapse(ns)) \in Nat /\ Cardinality(Collapse(ns)) <= Cardinality(ns)
<1> DEFINE C == Collapse(ns)
           f == [m \in C |-> CHOOSE n \in ns : n \subseteq m /\ n # {}]
<1>1. C \in SUBSET Nets /\ IsFiniteSet(C) /\ IsFiniteSet(ns)
  BY CollapseShape, NetsFinite, FS_Subset DEF Collapsed
<1>2. \A m, n \in C : m \cap n # {} => m = n
  BY CollapseShape DEF Collapsed
<1>3. \A m \in C : \E n \in ns : n \subseteq m /\ n # {}
  BY CollapseShape DEF Collapsed
<1> HIDE DEF C
<1>4. \A m \in C : f[m] \in ns /\ f[m] \subseteq m /\ f[m] # {}
  BY <1>3
<1>5. f \in [C -> ns]
  BY <1>4
<1>6. \A m, n \in C : f[m] = f[n] => m = n
  <2> HIDE DEF f
  <2> QED BY <1>2, <1>4
<1> HIDE DEF f
<1>7. f \in Injection(C, ns)
  BY <1>5, <1>6 DEF Injection, IsInjective
<1>8. Cardinality(C) <= Cardinality(ns)
  BY <1>7, <1>1, FS_Injection
<1> QED BY <1>1, <1>8, FS_CardinalityType DEF C

\* Nothing is collapsed in a part of a list in which there is nothing to collapse.
LEMMA CollapsePart ==
  ASSUME NEW ns \in SUBSET Nets, Collapse(ns) = ns, NEW ms \in SUBSET ns
  PROVE  Collapse(ms) = ms
<1>1. ms \in SUBSET Nets /\ UNION ms \subseteq UNION ns
  OBVIOUS
<1>2. Collapsed(ns, ns) /\ Collapsed(ms, Collapse(ms))
  BY <1>1, CollapseShape
<1>3. \A n \in ns, m \in Nets : n \subseteq m /\ m \subseteq UNION ns => m = n
  BY <1>2 DEF Collapsed
<1>4. ASSUME NEW n \in ms  PROVE n \in Collapse(ms)
  <2>1. n \in Nets /\ n \subseteq UNION ms
    OBVIOUS
  <2>2. \A m \in Nets : n \subseteq m /\ m \subseteq UNION ms => m = n
    BY <1>1, <1>3
  <2> QED BY <2>1, <2>2 DEF Collapse, Canonical, Space
<1>5. ASSUME NEW m \in Collapse(ms)  PROVE m \in ms
  <2>1. m \in Nets /\ m \subseteq UNION ms
    BY DEF Collapse, Canonical, Space
  <2>2. PICK n \in ms : n \subseteq m /\ n # {}
    BY <1>2, <1>5 DEF Collapsed
  <2>3. m = n
    BY <2>1, <2>2, <1>1, <1>3
  <2> QED BY <2>2, <2>3
<1> QED BY <1>4, <1>5

\* No list becomes empty in its file.
LEMMA CollapseEmpty == \A ns \in SUBSET Nets : Collapse(ns) = {} => ns = {}
<1> TAKE ns \in SUBSET Nets
<1> HAVE Collapse(ns) = {}
<1>1. UNION ns = {}
  BY CollapseShape DEF Collapsed
<1>2. \A n \in ns : n # {}
  BY NetFacts
<1> QED BY <1>1, <1>2

-----------------------------------------------------------------------------
(* The database *)

Pool == SUBSET Nets
Download == [ok : BOOLEAN, nets : Pool, errs : BOOLEAN]
Job == [pc : {"idle", "fetch"}, sel : SUBSET Provider, prev : [Provider -> Nat],
        log : {"none", "running", "deleted"}, stale : SUBSET Provider]

DbType ==
    /\ rows \in [Provider -> Pool]
    /\ meta \in [Provider -> [status : Status, count : Nat]]
    /\ job \in [Refresher -> Job]

\* What a refresh remembers of a pool is true until another operation changes the pool.
CountFresh ==
    \A r \in Refresher : job[r].pc = "fetch" =>
        \A p \in Provider \ job[r].stale : job[r].prev[p] = Cardinality(rows[p])

IInv == DbType /\ MetaHonest /\ CountFresh

-----------------------------------------------------------------------------
LEMMA PoolCount == \A S \in Pool : Cardinality(S) \in Nat /\ (Cardinality(S) = 0 <=> S = {})
  <1>1. \A S \in Pool : IsFiniteSet(S)
    BY NetsFinite, FS_Subset DEF Pool
  <1>. QED  BY <1>1, FS_CardinalityType, FS_EmptySet

\* Whatever answers and fails, a download is a set of networks.
LEMMA OutcomeType == \A p \in Provider : Outcome(p) \subseteq Download
  <1>. SUFFICES ASSUME NEW p \in Provider  PROVE  Outcome(p) \subseteq Download
    OBVIOUS
  <1>1. DirectItems(p) \subseteq Pool
    <2>1. \A s \in Sources[p] : s.nets \in Pool
      BY PipelineAssumption DEF Pool
    <2>2. \A S \in SUBSET Sources[p] : UNION {s.nets : s \in S} \in Pool
      BY <2>1 DEF Pool
    <2>. QED  BY <2>2 DEF DirectItems
  <1>2. \A a \in AsnItems(p) : a.nets \in Pool /\ a.errs \in BOOLEAN
    <2>1. Hinted[p] \subseteq Pool /\ Scanned[p] \subseteq Pool
      BY PipelineAssumption DEF Pool
    <2>2. \A H \in SUBSET Hinted[p], S \in SUBSET Scanned[p] :
             UNION (H \cup S) \in Pool /\ UNION H \in Pool
      BY <2>1 DEF Pool
    <2>3. ASSUME NEW H \in SUBSET Hinted[p], NEW S \in SUBSET Scanned[p]
          PROVE  AsnItem(p, H, S).nets \in Pool /\ AsnItem(p, H, S).errs \in BOOLEAN
      BY <2>2 DEF AsnItem
    <2>4. ASSUME NEW H \in SUBSET Hinted[p], NEW a, a = [nets |-> UNION H, errs |-> TRUE]
          PROVE  a.nets \in Pool /\ a.errs \in BOOLEAN
      <3>1. {} \in SUBSET Scanned[p]
        OBVIOUS
      <3>. QED  BY <2>2, <2>4, <3>1
    <2>5. ASSUME NEW H \in IF Scanned[p] = {} THEN {} ELSE SUBSET Hinted[p]
          PROVE  H \in SUBSET Hinted[p]
      OBVIOUS
    <2>. DEFINE whole == {AsnItem(p, H, S) : H \in SUBSET Hinted[p], S \in SUBSET Scanned[p]}
                part == {[nets |-> UNION H, errs |-> TRUE] :
                             H \in IF Scanned[p] = {} THEN {} ELSE SUBSET Hinted[p]}
    <2>6. AsnItems(p) = whole \cup part
      BY DEF AsnItems
    <2>7. \A a \in whole : a.nets \in Pool /\ a.errs \in BOOLEAN
      BY <2>3
    <2>8. \A a \in part : a.nets \in Pool /\ a.errs \in BOOLEAN
      BY <2>4, <2>5
    <2>. HIDE DEF whole, part
    <2>. QED  BY <2>6, <2>7, <2>8
  <1>3. Failed \in Download
    BY DEF Failed, Download, Pool
  <1>4. ASSUME NEW d \in DirectItems(p), NEW a \in AsnItems(p)
        PROVE  [ok |-> TRUE, nets |-> d \cup a.nets, errs |-> a.errs] \in Download
    BY <1>1, <1>2 DEF Download, Pool
  <1>. QED  BY <1>3, <1>4 DEF Outcome

\* What a refresh downloads are sets of networks, of which there are finitely many.
LEMMA DownloadsType ==
    ASSUME NEW sel \in SUBSET Provider, NEW got \in Downloads(sel)
    PROVE  \A p \in sel : got[p] \in Download
  BY OutcomeType DEF Downloads

-----------------------------------------------------------------------------
\* No pool, no refresh: initially all counts are 0.
LEMMA Initially == Init => IInv
  <1>1. Cardinality({}) = 0
    BY FS_EmptySet
  <1>. QED  BY <1>1 DEF Init, IInv, DbType, MetaHonest, CountFresh, NoMeta, IdleJob, Job, Pool, Status

\* A refresh starts with the counts of the pools.
LEMMA StartKeeps ==
    ASSUME IInv, NEW r \in Refresher, NEW sel \in Selections, RefreshStart(r, sel)
    PROVE  IInv'
  <1>1. DbType'
    BY PipelineAssumption, PoolCount DEF RefreshStart, IInv, DbType, Job
  <1>2. MetaHonest'
    BY DEF RefreshStart, IInv, MetaHonest
  <1>3. CountFresh'
    BY DEF RefreshStart, IInv, DbType, CountFresh, Job
  <1>. QED  BY <1>1, <1>2, <1>3 DEF IInv

\* A refresh that is lost stores nothing.
LEMMA LostKeeps ==
    ASSUME IInv, NEW r \in Refresher, RefreshLost(r)
    PROVE  IInv'
  <1>1. DbType'
    BY DEF RefreshLost, IInv, DbType, Job, IdleJob
  <1>2. MetaHonest'
    BY DEF RefreshLost, IInv, MetaHonest
  <1>3. CountFresh'
    BY DEF RefreshLost, IInv, DbType, CountFresh, Job, IdleJob
  <1>. QED  BY <1>1, <1>2, <1>3 DEF IInv

\* What the store makes of one provider.
Effect(r, got, p) ==
    /\ p \notin job[r].sel => rows'[p] = rows[p] /\ meta'[p] = meta[p]
    /\ p \in job[r].sel => got[p] \in Download
    /\ p \in job[r].sel /\ ~got[p].ok =>
          rows'[p] = rows[p] /\ meta'[p].status = "error" /\ meta'[p].count = meta[p].count
    /\ p \in Kept(r, got) =>
          rows'[p] = rows[p] /\ meta'[p].status = "partial" /\ meta'[p].count = job[r].prev[p]
    /\ p \in Replaced(r, got) =>
          /\ rows'[p] = got[p].nets
          /\ meta'[p].status = IF got[p].errs THEN "partial" ELSE "ok"
          /\ meta'[p].count = Cardinality(got[p].nets)

\* What a store makes of one provider.
LEMMA StoreEffect ==
    ASSUME IInv, NEW r \in Refresher, NEW got \in Downloads(job[r].sel), RefreshStore(r, got),
           NEW p \in Provider
    PROVE  Effect(r, got, p)
  <1>1. job[r].sel \subseteq Provider
    BY DEF IInv, DbType, Job
  <1>2. p \in job[r].sel => got[p] \in Download
    BY <1>1, DownloadsType
  <1>3. meta[p] \in [status : Status, count : Nat]
    BY DEF IInv, DbType
  <1>4. [meta[p] EXCEPT !.status = "error"] = [status |-> "error", count |-> meta[p].count]
    BY <1>3
  <1>5. meta'[p] = NewMeta(r, got)[p] /\ rows'[p] = NewRows(r, got)[p]
    BY DEF RefreshStore
  <1>. QED  BY <1>2, <1>3, <1>4, <1>5 DEF Effect, NewRows, NewMeta, Kept, Replaced

\* Its four cases: not selected, failed, kept, replaced.
LEMMA StoreCases ==
    ASSUME NEW r \in Refresher, NEW got, NEW p \in Provider
    PROVE  \/ p \notin job[r].sel
           \/ p \in job[r].sel /\ ~got[p].ok
           \/ p \in Kept(r, got)
           \/ p \in Replaced(r, got)
  BY DEF Kept, Replaced

\* A store puts what it changed on the lists of the other refreshes.
LEMMA StoreJobs ==
    ASSUME IInv, NEW r \in Refresher, NEW got, RefreshStore(r, got)
    PROVE  /\ job' \in [Refresher -> Job]
           /\ job'[r].pc = "idle"
           /\ \A q \in Refresher \ {r} :
                 /\ job'[q].pc = job[q].pc /\ job'[q].prev = job[q].prev
                 /\ job[q].pc = "fetch" => job'[q].stale = job[q].stale \cup job[r].sel
  <1>1. job \in [Refresher -> Job]
    BY DEF IInv, DbType
  <1>2. Overtaken(r, job[r].sel) \in [Refresher -> Job]
    BY <1>1 DEF Overtaken, Job
  <1>3. IdleJob \in Job
    BY DEF IdleJob, Job
  <1>4. job' = [Overtaken(r, job[r].sel) EXCEPT ![r] = IdleJob]
    BY DEF RefreshStore
  <1>5. job' \in [Refresher -> Job] /\ job'[r] = IdleJob
    BY <1>2, <1>3, <1>4
  <1>6. ASSUME NEW q \in Refresher, q # r
        PROVE  /\ job'[q].pc = job[q].pc /\ job'[q].prev = job[q].prev
               /\ job[q].pc = "fetch" => job'[q].stale = job[q].stale \cup job[r].sel
    <2>1. job'[q] = Overtaken(r, job[r].sel)[q]
      BY <1>2, <1>4, <1>6
    <2>2. job[q] \in Job
      BY <1>1
    <2>. QED  BY <2>1, <2>2, <1>6 DEF Overtaken, Job
  <1>. QED  BY <1>5, <1>6 DEF IdleJob

\* The transaction of a refresh.
LEMMA StoreKeeps ==
    ASSUME IInv, NEW r \in Refresher, NEW got \in Downloads(job[r].sel), RefreshStore(r, got)
    PROVE  IInv'
  <1>1. job[r] \in Job /\ job[r].sel \subseteq Provider
    BY DEF IInv, DbType, Job
  <1>5. \A p \in Provider : Effect(r, got, p)
    BY StoreEffect
  <1>2. DbType'
    <2>1. DOMAIN rows' = Provider /\ rows' = [p \in Provider |-> rows'[p]]
          /\ meta' = [p \in Provider |-> meta'[p]]
      BY DEF RefreshStore, NewRows, NewMeta
    <2>2. ASSUME NEW p \in Provider
          PROVE  rows'[p] \in Pool /\ meta'[p] \in [status : Status, count : Nat]
      <3>1. rows[p] \in Pool /\ meta[p] \in [status : Status, count : Nat] /\ job[r].prev[p] \in Nat
        BY <1>1 DEF IInv, DbType, Job
      <3>2. p \in job[r].sel => got[p].nets \in Pool /\ Cardinality(got[p].nets) \in Nat
        BY <1>5, PoolCount DEF Effect, Download
      <3>3. Kept(r, got) \subseteq job[r].sel /\ Replaced(r, got) \subseteq job[r].sel
        BY DEF Kept, Replaced
      <3>4. meta'[p] = NewMeta(r, got)[p]
        BY DEF RefreshStore
      <3>5. [meta[p] EXCEPT !.status = "error"] \in [status : Status, count : Nat]
        BY <3>1 DEF Status
      <3>6. meta'[p] \in [status : Status, count : Nat]
        BY <3>1, <3>2, <3>4, <3>5 DEF NewMeta, Status
      <3>. QED  BY <3>1, <3>2, <3>3, <3>6, <1>5, StoreCases DEF Effect
    <2>3. job' \in [Refresher -> Job]
      BY StoreJobs
    <2>. QED  BY <2>1, <2>2, <2>3 DEF DbType
  <1>3. MetaHonest'
    <2>. SUFFICES ASSUME NEW p \in Provider, p \notin mixed'
                  PROVE  /\ meta'[p].count = Cardinality(rows'[p])
                         /\ meta'[p].status = "none" => rows'[p] = {}
      BY DEF MetaHonest
    <2>1. p \in Replaced(r, got) \/ p \notin mixed
      BY DEF RefreshStore
    <2>2. p \notin Kept(r, got) \/ p \notin job[r].stale
      BY DEF RefreshStore
    <2>3. CASE p \notin job[r].sel
      <3>1. p \notin Replaced(r, got)
        BY <2>3 DEF Replaced
      <3>. QED  BY <2>1, <2>3, <3>1, <1>5 DEF Effect, IInv, MetaHonest
    <2>4. CASE p \in job[r].sel /\ ~got[p].ok
      <3>1. p \notin Replaced(r, got)
        BY <2>4 DEF Replaced
      <3>. QED  BY <2>1, <2>4, <3>1, <1>5 DEF Effect, IInv, MetaHonest
    <2>5. CASE p \in Kept(r, got)
      <3>1. job[r].prev[p] = Cardinality(rows[p])
        BY <2>2, <2>5 DEF IInv, CountFresh, RefreshStore
      <3>. QED  BY <2>5, <3>1, <1>5 DEF Effect
    <2>6. CASE p \in Replaced(r, got)
      BY <2>6, <1>5 DEF Effect
    <2>. QED  BY <2>3, <2>4, <2>5, <2>6, StoreCases
  <1>4. CountFresh'
    <2>. SUFFICES ASSUME NEW q \in Refresher, job'[q].pc = "fetch",
                         NEW p \in Provider, p \notin job'[q].stale
                  PROVE  job'[q].prev[p] = Cardinality(rows'[p])
      BY DEF CountFresh
    <2>1. q # r /\ job[q].pc = "fetch" /\ job'[q].prev = job[q].prev
          /\ p \notin job[q].stale /\ p \notin job[r].sel
      BY StoreJobs
    <2>2. job[q].prev[p] = Cardinality(rows[p])
      BY <2>1 DEF IInv, CountFresh
    <2>3. rows'[p] = rows[p]
      BY <2>1, <1>5 DEF Effect
    <2>. QED  BY <2>1, <2>2, <2>3
  <1>. QED  BY <1>2, <1>3, <1>4 DEF IInv

\* A clearing takes pool and status together.
LEMMA ClearKeeps ==
    ASSUME IInv, NEW sel \in Selections, Clear(sel)
    PROVE  IInv'
  <1>1. sel \subseteq Provider
    BY PipelineAssumption
  <1>2. Cardinality({}) = 0
    BY FS_EmptySet
  <1>3. job' \in [Refresher -> Job]
        /\ \A q \in Refresher : /\ job'[q].pc = job[q].pc /\ job'[q].prev = job[q].prev
                                /\ job[q].pc = "fetch" => job'[q].stale = job[q].stale \cup sel
    BY <1>1, ZenonT(60) DEF Clear, IInv, DbType, Job
  <1>4. \A p \in Provider : /\ p \in sel => rows'[p] = {} /\ meta'[p] = NoMeta
                            /\ p \notin sel => rows'[p] = rows[p] /\ meta'[p] = meta[p]
    BY DEF Clear
  <1>5. DbType'
    <2>1. rows' = [p \in Provider |-> rows'[p]] /\ meta' = [p \in Provider |-> meta'[p]]
      BY DEF Clear
    <2>2. ASSUME NEW p \in Provider
          PROVE  rows'[p] \in Pool /\ meta'[p] \in [status : Status, count : Nat]
      BY <1>4 DEF IInv, DbType, NoMeta, Status, Pool
    <2>. QED  BY <1>3, <2>1, <2>2 DEF DbType
  <1>6. MetaHonest'
    BY <1>2, <1>4 DEF Clear, IInv, MetaHonest, NoMeta
  <1>7. CountFresh'
    BY <1>3, <1>4 DEF IInv, CountFresh
  <1>. QED  BY <1>5, <1>6, <1>7 DEF IInv

\* Publications, the antifilter and stuttering leave the pools alone.
LEMMA OthersKeep ==
    ASSUME IInv, UNCHANGED <<rows, meta, job, mixed>>
    PROVE  IInv'
  BY DEF IInv, DbType, MetaHonest, CountFresh

\* The steps that touch the database, and the others.
LEMMA NextCases ==
    ASSUME [Next]_vars
    PROVE  \/ \E r \in Refresher, sel \in Selections : RefreshStart(r, sel)
           \/ \E r \in Refresher : \E got \in Downloads(job[r].sel) : RefreshStore(r, got)
           \/ \E r \in Refresher : RefreshLost(r)
           \/ \E sel \in Selections : Clear(sel)
           \/ UNCHANGED <<rows, meta, job, mixed>>
  BY DEF Next, Rollback, Antifilter, CacheExpires, SnapshotDies, PublishStart, FetchStart, PublishRead,
         FetchPlan, WriteFile, Done, PublishDies, vars, db

\* Every step keeps the invariant.
LEMMA Inductive == IInv /\ [Next]_vars => IInv'
  BY NextCases, StartKeeps, StoreKeeps, LostKeeps, ClearKeeps, OthersKeep

-----------------------------------------------------------------------------
\* Whatever fails, is preserved, cleared or overtaken, and however many refreshes run at
\* once, the inductive invariant holds.
THEOREM Invariance == Spec => []IInv
  BY Initially, Inductive, PTL DEF Spec

\* The status of a provider counts the routes that are stored for it
\* (_update_provider_meta against _upsert_provider_cidrs).
THEOREM MetaIsHonest == Spec => []MetaHonest
  <1>1. IInv => MetaHonest
    BY DEF IInv
  <1>. QED  BY <1>1, Invariance, PTL

\* No step trades a pool below the floor.
LEMMA FloorStep == IInv /\ [Next]_vars => [FloorKept]_vars
  <1>. SUFFICES ASSUME IInv, [Next]_vars, NEW r \in Refresher, NEW p \in Provider,
                       job[r].pc = "fetch", job'[r].pc = "idle", p \notin job[r].stale,
                       rows'[p] # rows[p], Cardinality(rows[p]) >= MinCandidate
                PROVE  /\ Cardinality(rows'[p]) >= MinCandidate
                       /\ meta'[p].status = "partial" =>
                             100 * (Cardinality(rows[p]) - Cardinality(rows'[p]))
                                 < DropPercent * Cardinality(rows[p])
    BY DEF FloorKept
  <1>1. PICK q \in Refresher : \E got \in Downloads(job[q].sel) : RefreshStore(q, got)
    <2>1. ASSUME NEW q \in Refresher, NEW sel \in Selections, RefreshStart(q, sel)  PROVE FALSE
      BY <2>1 DEF RefreshStart
    <2>2. ASSUME NEW q \in Refresher, RefreshLost(q)  PROVE FALSE
      BY <2>2 DEF RefreshLost
    <2>3. ASSUME NEW sel \in Selections, Clear(sel)  PROVE FALSE
      BY <2>3 DEF Clear, IInv, DbType, Job
    <2>. QED  BY NextCases, <2>1, <2>2, <2>3
  <1>2. PICK got \in Downloads(job[q].sel) : RefreshStore(q, got)
    BY <1>1
  <1>3. q = r
    BY <1>2, StoreJobs
  <1>4. p \in Replaced(r, got)
    BY <1>2, <1>3, StoreEffect, StoreCases DEF Effect
  <1>5. /\ rows'[p] = got[p].nets
        /\ meta'[p].status = IF got[p].errs THEN "partial" ELSE "ok"
        /\ got[p] \in Download
    BY <1>2, <1>3, <1>4, StoreEffect DEF Effect, Replaced
  <1>6. ~Preserve(Cardinality(rows[p]), Cardinality(rows'[p]), got[p].errs)
    <2>1. job[r].prev[p] = Cardinality(rows[p])
      BY DEF IInv, CountFresh
    <2>. QED  BY <1>4, <1>5, <2>1 DEF Replaced, Kept
  <1>. DEFINE old == Cardinality(rows[p])  new == Cardinality(rows'[p])
  <1>7. old \in Nat /\ new \in Nat /\ (old = 0 => new # 0)
    BY <1>5, PoolCount DEF IInv, DbType, Download
  <1>8. MinCandidate \in Nat /\ DropPercent \in Nat
    BY PipelineAssumption
  <1>9. meta'[p].status = "partial" => got[p].errs
    BY <1>5
  <1>10. ~Preserve(old, new, got[p].errs) /\ old >= MinCandidate
    BY <1>6
  <1>. HIDE DEF old, new
  <1>11. new >= MinCandidate
    <2>1. CASE old = 0
      BY <2>1, <1>7, <1>8, <1>10
    <2>2. CASE old > 0
      BY <2>2, <1>7, <1>8, <1>10 DEF Preserve
    <2>. QED  BY <2>1, <2>2, <1>7
  <1>12. ASSUME got[p].errs  PROVE 100 * (old - new) < DropPercent * old
    <2>1. CASE old = 0
      BY <2>1, <1>7, <1>8
    <2>2. CASE old > 0
      BY <2>2, <1>7, <1>8, <1>10, <1>12 DEF Preserve
    <2>. QED  BY <2>1, <2>2, <1>7
  <1>. QED  BY <1>9, <1>11, <1>12 DEF old, new

\* A refresh that was not overtaken never trades a large pool for a tiny or, with failed
\* sources, for a much smaller one (_should_preserve_previous_pool).
THEOREM FloorIsKept == Spec => PoolFloor
  BY Invariance, FloorStep, PTL DEF Spec, PoolFloor

-----------------------------------------------------------------------------
(* Publications *)

\* The settings of a request.
LEMMA OptionTypes ==
  \A o \in Options : /\ o.limit \in Nat /\ o.promise \in Nat /\ o.mandatory \subseteq Provider
                     /\ o.enforced \in BOOLEAN /\ o.ru \in BOOLEAN /\ o.af \in BOOLEAN
  BY PipelineAssumption

\* The filters only take away.
LEMMA FilteredSub == \A ns, o, index, known : Filtered(ns, o, index, known) \subseteq ns
  BY DEF Filtered, WithoutRu, Scoped, InRegion

\* Lists of networks that are not empty, and their sizes.
Listed(w) == DOMAIN w \subseteq Provider /\ \A p \in DOMAIN w : w[p] \in Pool /\ w[p] # {}

LEMMA SizesCount ==
  ASSUME NEW w, Listed(w), NEW o \in Options
  PROVE  Counts(Sizes(w), o) /\ DOMAIN Sizes(w) = DOMAIN w /\ Total(Sizes(w)) \in Nat
<1>1. DOMAIN Sizes(w) = DOMAIN w /\ \A p \in DOMAIN w : Sizes(w)[p] = Cardinality(w[p])
  BY DEF Sizes
<1>2. \A p \in DOMAIN w : Sizes(w)[p] \in Nat \ {0}
  BY <1>1, PoolCount DEF Listed
<1>3. Counts(Sizes(w), o)
  BY <1>1, <1>2, OptionTypes DEF Counts, Listed
<1>4. IsFiniteSet(DOMAIN w)
  BY OrderAssumption, FS_Subset DEF Listed
<1>5. Sum(Sizes(w), DOMAIN w) \in Nat
  BY <1>2, <1>4, SumNat
<1> QED BY <1>1, <1>3, <1>5 DEF Total

\* What the database offers is such lists.
LEMMA WantedListed ==
  ASSUME NEW m, DOMAIN m \subseteq Provider, DbType, NEW o, NEW index, NEW ru
  PROVE  Listed(Wanted(m, rows, o, index, ru))
<1> DEFINE U == Usable(m, rows, o, index, ru)
           w == Wanted(m, rows, o, index, ru)
<1>1. DOMAIN w = U /\ \A p \in U : w[p] = Filtered(rows[p], o, index, p \in ru)
  BY DEF Wanted
<1>2. \A p \in U : p \in DOMAIN m /\ p \in Provider /\ Filtered(rows[p], o, index, p \in ru) # {}
  BY DEF Usable
<1>3. \A p \in Provider : Filtered(rows[p], o, index, p \in ru) \in Pool
  <2>1. \A p \in Provider : rows[p] \in Pool
    BY DEF DbType
  <2> QED BY <2>1, FilteredSub DEF Pool
<1> HIDE DEF U, w
<1> QED BY <1>1, <1>2, <1>3 DEF Listed, w

LEMMA BudgetInv == IInv => BudgetSound
<1> SUFFICES ASSUME IInv, NEW o \in Options, NEW ru \in RuLists(o),
                    Total(Sizes(Wanted(meta, rows, o, IndexFor(o), ru))) > o.limit
             PROVE  BudgetsRight(Sizes(Wanted(meta, rows, o, IndexFor(o), ru)), o,
                                 Budgets(Sizes(Wanted(meta, rows, o, IndexFor(o), ru)), o))
  BY DEF BudgetSound, BudgetsRight
<1> DEFINE w == Wanted(meta, rows, o, IndexFor(o), ru)
<1>1. DbType /\ DOMAIN meta \subseteq Provider
  BY DEF IInv, DbType
<1>2. Listed(w)
  BY <1>1, WantedListed
<1> HIDE DEF w
<1>3. Counts(Sizes(w), o)
  BY <1>2, SizesCount
<1> QED BY <1>3, BudgetsSound DEF w

\* Whatever the database holds and whatever the request asks for, a limit that is exceeded
\* is used up to the last route, mandatory providers come first and promises are kept
\* (_apply_total_route_limit).
THEOREM BudgetIsSound == Spec => []BudgetSound
  BY Invariance, BudgetInv, PTL

\* A file that is going to be written empty is one that the limit left nothing for.
Excused(p, o, total) ==
    o.limit < total /\ (p \in o.mandatory => o.limit < Cardinality(o.mandatory))

PubShape ==
    pub = [pc |-> pub.pc, op |-> pub.op, opt |-> pub.opt, meta |-> pub.meta,
           index |-> pub.index, plan |-> pub.plan, total |-> pub.total]

PubInv ==
    /\ list = [p \in Provider |-> list[p]] /\ PubShape
    /\ pub.pc \in {"read", "fetch"} => DOMAIN pub.meta \subseteq Provider
    /\ pub.pc # "idle" /\ pub.op # "rollback" =>
          /\ pub.opt \in Options
          /\ \A p \in DOMAIN pub.plan : pub.plan[p].nets = {} => Excused(p, pub.opt, pub.total)

\* The limit leaves a list empty only if it is exceeded, and a mandatory one only if there
\* are fewer routes than mandatory providers.
LEMMA LimitedEmpty ==
  ASSUME NEW w, Listed(w), NEW o \in Options, NEW p \in DOMAIN w, Limited(w, o)[p] = {}
  PROVE  Excused(p, o, Total(Sizes(w)))
<1> DEFINE c == Sizes(w)
           b == Budgets(c, o)
<1>1. Counts(c, o) /\ DOMAIN c = DOMAIN w /\ Total(c) \in Nat
  BY SizesCount
<1>2. w[p] \in SUBSET Nets /\ w[p] # {}
  BY DEF Listed, Pool
<1>3. o.limit \in Nat /\ o.mandatory \subseteq Provider
  BY OptionTypes
<1>4. ~(~o.enforced \/ Total(c) <= o.limit)
  BY <1>2 DEF Limited
<1>5. Total(c) > o.limit
  <2> HIDE DEF c
  <2> QED BY <1>1, <1>3, <1>4
<1>6. CompressToLimit(w[p], b[p]) = {}
  BY <1>4 DEF Limited
<1> HIDE DEF c, b
<1>7. BudgetsRight(c, o, b) /\ b[p] \in Nat
  BY <1>1, <1>5, BudgetsSound DEF b
<1>8. b[p] = 0
  <2> DEFINE free == {n \in w[p] : ~\E m \in w[p] : n # m /\ n \subseteq m}
  <2>1. /\ IsFiniteSet(free) /\ free # {}
        /\ Cardinality(CompressToLimit(w[p], b[p])) = Smaller(b[p], Cardinality(free))
    BY <1>2, <1>7, Compressed
  <2> HIDE DEF free
  <2>2. Cardinality(free) \in Nat /\ Cardinality(free) # 0
    BY <2>1, FS_CardinalityType, FS_EmptySet
  <2>3. Smaller(b[p], Cardinality(free)) = 0
    BY <2>1, <1>6, FS_EmptySet
  <2> QED BY <2>2, <2>3, <1>7 DEF Smaller
<1>9. ASSUME p \in o.mandatory  PROVE o.limit < Cardinality(o.mandatory)
  <2> DEFINE must == o.mandatory \cap DOMAIN c
             served == {q \in must : b[q] > 0}
  <2>1. p \in must
    BY <1>1, <1>9
  <2>2. b[p] > 0 \/ Cardinality(served) = o.limit
    BY <1>7, <2>1 DEF BudgetsRight
  <2>3. Cardinality(served) = o.limit
    BY <1>8, <2>2
  <2>4. IsFiniteSet(o.mandatory) /\ served \in SUBSET o.mandatory /\ served # o.mandatory
    <3>1. p \notin served
      BY <1>8
    <3> QED BY <1>3, <1>9, <3>1, OrderAssumption, FS_Subset
  <2> HIDE DEF served
  <2>5. Cardinality(served) <= Cardinality(o.mandatory) /\ Cardinality(served) # Cardinality(o.mandatory)
    BY <2>4, FS_Subset
  <2>6. Cardinality(o.mandatory) \in Nat
    BY <2>4, FS_CardinalityType
  <2> QED BY <2>3, <2>5, <2>6, <1>3
<1> QED BY <1>5, <1>9, <1>1, <1>3 DEF Excused, c

\* Nothing is added.
LEMMA CompressedSub == \A ns, limit : CompressToLimit(ns, limit) \subseteq ns
  BY DEF CompressToLimit, Leading

\* The limit only takes away.
LEMMA LimitedListed ==
  ASSUME NEW w, Listed(w), NEW o
  PROVE  DOMAIN Limited(w, o) = DOMAIN w
         /\ \A p \in DOMAIN w : Limited(w, o)[p] \in Pool /\ Limited(w, o)[p] \subseteq w[p]
<1> DEFINE c == Sizes(w)
           all == ~o.enforced \/ Total(c) <= o.limit
<1>1. Limited(w, o) = IF all THEN w ELSE [p \in DOMAIN w |-> CompressToLimit(w[p], Budgets(c, o)[p])]
  BY DEF Limited
<1>2. \A p \in DOMAIN w : w[p] \in Pool
  BY DEF Listed
<1> HIDE DEF c, all
<1>3. \A p \in DOMAIN w : CompressToLimit(w[p], Budgets(c, o)[p]) \subseteq w[p]
  BY CompressedSub
<1>4. CASE all
  BY <1>1, <1>2, <1>4
<1>5. CASE ~all
  BY <1>1, <1>2, <1>3, <1>5 DEF Pool
<1> QED BY <1>4, <1>5

\* A plan writes an empty file only with that excuse.
LEMMA PlanKeeps ==
  ASSUME PubInv, pub.pc # "idle", pub.op # "rollback", NEW w, Listed(w), pub' = Plan(w),
         UNCHANGED list
  PROVE  PubInv'
<1> DEFINE f == [p \in DOMAIN w |-> Rendered(Limited(w, pub.opt)[p])]
<1>1. /\ pub'.pc = "write" /\ pub'.op = pub.op /\ pub'.opt = pub.opt /\ pub'.plan = f
      /\ pub'.total = Total(Sizes(w)) /\ PubShape'
  <2>1. pub' = [pc |-> "write", op |-> pub.op, opt |-> pub.opt, meta |-> pub.meta,
                index |-> pub.index, plan |-> f, total |-> Total(Sizes(w))]
    <3> DEFINE tot == Total(Sizes(w))
    <3>1. pub' = [pub EXCEPT !.pc = "write", !.total = tot, !.plan = f]
      BY DEF Plan
    <3> HIDE DEF f, tot
    <3>2. pub' = [pc |-> "write", op |-> pub.op, opt |-> pub.opt, meta |-> pub.meta,
                  index |-> pub.index, plan |-> f, total |-> tot]
      BY <3>1 DEF PubInv, PubShape
    <3> QED BY <3>2 DEF tot
  <2> HIDE DEF f
  <2> QED BY <2>1 DEF PubShape
<1>2. pub.opt \in Options
  BY DEF PubInv
<1>3. ASSUME NEW p \in DOMAIN f, f[p].nets = {}  PROVE Excused(p, pub.opt, Total(Sizes(w)))
  <2>1. p \in DOMAIN w /\ Collapse(Limited(w, pub.opt)[p]) = {}
    BY <1>3 DEF Rendered, File
  <2>2. Limited(w, pub.opt)[p] \in SUBSET Nets
    BY <2>1, LimitedListed DEF Pool
  <2>3. Limited(w, pub.opt)[p] = {}
    BY <2>1, <2>2, CollapseEmpty
  <2> QED BY <2>1, <2>3, <1>2, LimitedEmpty
<1> HIDE DEF f
<1>4. \A p \in DOMAIN pub'.plan : pub'.plan[p].nets = {} => Excused(p, pub'.opt, pub'.total)
  BY <1>1, <1>3
<1>5. list' = [p \in Provider |-> list'[p]]
  BY DEF PubInv
<1> QED BY <1>1, <1>2, <1>4, <1>5 DEF PubInv

\* What the sources return for a list.
LEMMA FetchedType ==
  ASSUME NEW sel \in SUBSET Provider, NEW o, NEW got \in Fetched(sel, o)
  PROVE  Listed([p \in {q \in DOMAIN got : got[q] # {}} |-> got[p]])
<1>1. ASSUME NEW p \in Provider, NEW ns \in Collected(p, o)  PROVE ns \in Pool
  <2>1. \A s \in Sources[p] : s.nets \in Pool
    BY PipelineAssumption DEF Pool
  <2> DEFINE oo == Scope(p, o)
  <2>2. \A s : Extracted(s, oo) \subseteq s.nets
    BY DEF Extracted, InRegion
  <2>3. \A S \in SUBSET Sources[p] : UNION {Extracted(s, oo) : s \in S} \in Pool
    <3> HIDE DEF oo
    <3> QED BY <2>1, <2>2 DEF Pool
  <2>4. \A x \in Pool : \A known : WithoutRu(x, o, known) \in Pool
    BY DEF WithoutRu, Pool
  <2>5. PICK S \in SUBSET Sources[p], known \in BOOLEAN :
          ns = LET x == UNION {Extracted(s, oo) : s \in S}
               IN  IF oo.scope = "all" THEN WithoutRu(x, o, known) ELSE x
    <3> DEFINE f(S, known) == LET x == UNION {Extracted(s, oo) : s \in S}
                              IN  IF oo.scope = "all" THEN WithoutRu(x, o, known) ELSE x
    <3>1. Collected(p, o) = {f(S, known) : S \in SUBSET Sources[p], known \in BOOLEAN}
      BY DEF Collected
    <3> HIDE DEF f
    <3>2. \E S \in SUBSET Sources[p], known \in BOOLEAN : ns = f(S, known)
      BY <3>1
    <3> QED BY <3>2 DEF f
  <2> HIDE DEF oo
  <2> QED BY <2>3, <2>4, <2>5
<1>2. DOMAIN got = sel /\ \A p \in sel : got[p] \in Collected(p, o)
  BY DEF Fetched
<1>3. \A p \in sel : got[p] \in Pool
  BY <1>1, <1>2
<1> QED BY <1>2, <1>3 DEF Listed

\* Nothing is written at first.
LEMMA PubInit == Init => PubInv
  BY DEF Init, PubInv, PubShape, IdlePub

\* A publication that is over or has not begun.
LEMMA IdleKeeps ==
  ASSUME pub' = IdlePub, list' = [p \in Provider |-> list'[p]]
  PROVE  PubInv'
  BY DEF PubInv, PubShape, IdlePub

\* A publication begins.
LEMMA BeginKeeps ==
  ASSUME PubInv, NEW sel \in Selections, UNCHANGED list,
         \/ \E o \in Published : PublishStart(o, sel)
         \/ \E o \in Direct : FetchStart(o, sel)
         \/ Rollback(sel)
  PROVE  PubInv'
<1>1. sel \subseteq Provider /\ Published \subseteq Options /\ Direct \subseteq Options
  BY PipelineAssumption
<1>2. CASE pub' = pub
  BY <1>2 DEF PubInv, PubShape
<1>3. ASSUME NEW o \in Options, NEW m, DOMAIN m = sel, NEW index, NEW place \in {"read", "fetch"}, NEW op,
             pub' = [IdlePub EXCEPT !.pc = place, !.op = op, !.opt = o, !.index = index, !.meta = m]
      PROVE  PubInv'
  <2>1. pub' = [pc |-> place, op |-> op, opt |-> o, meta |-> m, index |-> index, plan |-> << >>, total |-> 0]
    BY <1>3 DEF IdlePub
  <2> QED BY <2>1, <1>1, <1>3 DEF PubInv, PubShape
<1>4. CASE \E o \in Published : PublishStart(o, sel) /\ pub' # pub
  <2>1. PICK o \in Published : PublishStart(o, sel) /\ pub' # pub
    BY <1>4
  <2> DEFINE m == [p \in sel |-> meta[p]]
  <2>2. pub' = [IdlePub EXCEPT !.pc = "read", !.op = "db", !.opt = o, !.index = IndexFor(o), !.meta = m]
    BY <2>1 DEF PublishStart
  <2>3. DOMAIN m = sel
    OBVIOUS
  <2> HIDE DEF m
  <2> QED BY <2>2, <2>3, <1>1, <1>3
<1>5. CASE \E o \in Direct : FetchStart(o, sel) /\ pub' # pub
  <2>1. PICK o \in Direct : FetchStart(o, sel) /\ pub' # pub
    BY <1>5
  <2> DEFINE m == [p \in sel |-> NoMeta]
  <2>2. pub' = [IdlePub EXCEPT !.pc = "fetch", !.op = "net", !.opt = o, !.index = IdlePub.index, !.meta = m]
    BY <2>1 DEF FetchStart, IdlePub
  <2>3. DOMAIN m = sel
    OBVIOUS
  <2> HIDE DEF m
  <2> QED BY <2>2, <2>3, <1>1, <1>3
<1>6. CASE Rollback(sel)
  <2> DEFINE f == [p \in {q \in sel : Snapshot[q].on} |-> Snapshot[p]]
  <2>1. pub' = [IdlePub EXCEPT !.pc = "write", !.op = "rollback", !.plan = f]
    BY <1>6 DEF Rollback
  <2> HIDE DEF f
  <2> QED BY <2>1 DEF PubInv, PubShape, IdlePub
<1> QED BY <1>2, <1>4, <1>5, <1>6

\* A file is written.
LEMMA WriteKeeps ==
  ASSUME PubInv, NEW p \in Provider, WriteFile(p)
  PROVE  PubInv'
<1> DEFINE f == [q \in DOMAIN pub.plan \ {p} |-> pub.plan[q]]
<1>1. pub' = [pc |-> "write", op |-> pub.op, opt |-> pub.opt, meta |-> pub.meta,
              index |-> pub.index, plan |-> f, total |-> pub.total]
  <2>1. pub' = [pub EXCEPT !.plan = f] /\ pub.pc = "write"
    BY DEF WriteFile
  <2> HIDE DEF f
  <2> QED BY <2>1 DEF PubInv, PubShape
<1>2. list' = [q \in Provider |-> list'[q]]
  BY DEF WriteFile, PubInv
<1>3. \A q \in DOMAIN f : q \in DOMAIN pub.plan /\ f[q] = pub.plan[q]
  OBVIOUS
<1> HIDE DEF f
<1>4. pub.pc = "write"
  BY DEF WriteFile
<1> QED BY <1>1, <1>2, <1>3, <1>4 DEF PubInv, PubShape

\* Steps that leave lists and publications alone.
LEMMA PubSame == PubInv /\ UNCHANGED <<list, pub>> => PubInv'
  BY DEF PubInv, PubShape

\* The steps of publications, and the others.
LEMMA PubCases ==
  ASSUME [Next]_vars
  PROVE  \/ UNCHANGED <<list, pub>>
         \/ \E sel \in Selections : /\ UNCHANGED list
                                    /\ \/ \E o \in Published : PublishStart(o, sel)
                                       \/ \E o \in Direct : FetchStart(o, sel)
                                       \/ Rollback(sel)
         \/ PublishRead
         \/ pub.pc = "fetch" /\ \E got \in Fetched(DOMAIN pub.meta, pub.opt) : FetchPlan(got)
         \/ \E p \in Provider : WriteFile(p)
         \/ Done \/ PublishDies
<1>1. CASE UNCHANGED vars
  BY <1>1 DEF vars, files
<1>2. CASE Next
  BY <1>2 DEF Next, RefreshStart, RefreshStore, RefreshLost, Clear, Antifilter, CacheExpires, files,
              SnapshotDies, PublishStart, FetchStart, Rollback
<1> QED BY <1>1, <1>2

LEMMA PubInductive == IInv /\ PubInv /\ [Next]_vars => PubInv'
<1> SUFFICES ASSUME IInv, PubInv, [Next]_vars  PROVE PubInv'
  OBVIOUS
<1>0. DbType
  BY DEF IInv
<1>1. CASE PublishRead
  <2>0. PICK ru \in RuLists(pub.opt) : pub' = Plan(Wanted(pub.meta, rows, pub.opt, pub.index, ru))
    BY <1>1 DEF PublishRead
  <2> DEFINE w == Wanted(pub.meta, rows, pub.opt, pub.index, ru)
  <2>1. pub.pc = "read" /\ pub' = Plan(w) /\ UNCHANGED list
    BY <1>1, <2>0 DEF PublishRead
  <2>2. CASE pub.op # "rollback"
    <3>1. Listed(w)
      BY <1>0, <2>1, WantedListed DEF PubInv
    <3> HIDE DEF w
    <3> QED BY <2>1, <2>2, <3>1, PlanKeeps
  <2>3. CASE pub.op = "rollback"
    <3> DEFINE f == [p \in DOMAIN w |-> Rendered(Limited(w, pub.opt)[p])]
               tot == Total(Sizes(w))
    <3>1. pub' = [pub EXCEPT !.pc = "write", !.total = tot, !.plan = f] /\ list' = list
      BY <2>1 DEF Plan
    <3> HIDE DEF f, tot, w
    <3> QED BY <3>1, <2>3 DEF PubInv, PubShape
  <2> QED BY <2>2, <2>3
<1>2. ASSUME pub.pc = "fetch", NEW got \in Fetched(DOMAIN pub.meta, pub.opt), FetchPlan(got)
      PROVE  PubInv'
  <2> DEFINE w == [p \in {q \in DOMAIN got : got[q] # {}} |-> got[p]]
  <2>1. pub.pc = "fetch" /\ pub' = Plan(w) /\ UNCHANGED list
    BY <1>2 DEF FetchPlan
  <2>2. CASE pub.op # "rollback"
    <3>1. Listed(w)
      BY <2>1, FetchedType DEF PubInv
    <3> HIDE DEF w
    <3> QED BY <2>1, <2>2, <3>1, PlanKeeps
  <2>3. CASE pub.op = "rollback"
    <3> DEFINE f == [p \in DOMAIN w |-> Rendered(Limited(w, pub.opt)[p])]
               tot == Total(Sizes(w))
    <3>1. pub' = [pub EXCEPT !.pc = "write", !.total = tot, !.plan = f] /\ list' = list
      BY <2>1 DEF Plan
    <3> HIDE DEF f, tot, w
    <3> QED BY <3>1, <2>3 DEF PubInv, PubShape
  <2> QED BY <2>2, <2>3
<1>3. CASE Done
  BY <1>3, IdleKeeps DEF Done, PubInv
<1>4. CASE PublishDies
  <2>1. pub' = IdlePub /\ list' = [p \in Provider |-> list'[p]]
    BY <1>4 DEF PublishDies, PubInv
  <2> QED BY <2>1, IdleKeeps
<1> QED BY PubCases, PubSame, BeginKeeps, WriteKeeps, <1>1, <1>2, <1>3, <1>4

\* The two invariants hold.
LEMMA Both == Spec => [](IInv /\ PubInv)
  BY Initially, Inductive, PubInit, PubInductive, PTL DEF Spec

\* No step empties a list without an excuse.
ListStepKeeps ==
    \A p \in Provider :
          /\ list[p].nets # {} /\ list'[p].whole /\ list'[p].nets = {}
          => \/ pub.op = "rollback"
             \/ /\ pub.opt.limit < pub.total
                /\ p \in pub.opt.mandatory => pub.opt.limit < Cardinality(pub.opt.mandatory)

LEMMA ListStepHolds == PubInv /\ [Next]_vars => [ListStepKeeps]_vars
<1> SUFFICES ASSUME PubInv, [Next]_vars, NEW p \in Provider,
                    list[p].nets # {}, list'[p].whole, list'[p].nets = {}, pub.op # "rollback"
             PROVE  Excused(p, pub.opt, pub.total)
  BY DEF ListStepKeeps, Excused
<1>1. list' # list
  OBVIOUS
<1>2. CASE \E q \in Provider : WriteFile(q)
  <2>1. PICK q \in Provider : WriteFile(q)
    BY <1>2
  <2>2. list = [x \in Provider |-> list[x]] /\ list' = [list EXCEPT ![q] = pub.plan[q]]
        /\ pub.pc = "write" /\ q \in DOMAIN pub.plan
    BY <2>1 DEF PubInv, WriteFile, NextFile
  <2>3. p = q /\ list'[p] = pub.plan[p]
    BY <2>2
  <2> QED BY <2>2, <2>3 DEF PubInv
<1>3. CASE PublishDies
  <2>1. PICK q \in Provider : list' = [list EXCEPT ![q] = TornFile]
    BY <1>1, <1>3 DEF PublishDies
  <2>2. list = [x \in Provider |-> list[x]]
    BY DEF PubInv
  <2>3. p = q /\ list'[p] = TornFile
    BY <2>1, <2>2
  <2> QED BY <2>3 DEF TornFile
<1>4. PublishRead \/ Done => list' = list
  BY DEF PublishRead, Done
<1>5. \A got : FetchPlan(got) => list' = list
  BY DEF FetchPlan
<1> QED BY PubCases, <1>1, <1>2, <1>3, <1>4, <1>5

\* A list with routes is never published empty, unless it is rolled back or the limit was
\* exceeded and others came first (update_cidr_files_from_db, update_cidr_files).
THEOREM ListIsKept == Spec => ListKept
<1>1. Spec => [][ListStepKeeps]_vars
  BY Both, ListStepHolds, PTL DEF Spec
<1> QED BY <1>1 DEF ListKept, ListStepKeeps

-----------------------------------------------------------------------------
(* The preview *)

\* Without a filter the rows themselves are published.
LEMMA Unfiltered ==
  ASSUME NEW ns, NEW o, o.scope = "all", ~o.ru, NEW index, ~index.on, NEW known
  PROVE  Filtered(ns, o, index, known) = ns
  BY DEF Filtered, WithoutRu, Scoped

\* Counters that are true lead to the same budgets as the rows.
LEMMA CountsAgree ==
  ASSUME IInv, mixed = {}, NEW o \in Options, o.scope = "all", ~o.ru, ~IndexFor(o).on, NEW ru
  PROVE  LET known == {p \in Provider : meta[p].status \in {"ok", "partial"} /\ meta[p].count # 0}
             w == Wanted(meta, rows, o, IndexFor(o), ru)
         IN  /\ DOMAIN w = known /\ \A p \in known : w[p] = rows[p]
             /\ Sizes(w) = [p \in known |-> meta[p].count]
<1> DEFINE known == {p \in Provider : meta[p].status \in {"ok", "partial"} /\ meta[p].count # 0}
           index == IndexFor(o)
           w == Wanted(meta, rows, o, index, ru)
           U == Usable(meta, rows, o, index, ru)
<1>1. DOMAIN meta = Provider /\ \A p \in Provider : rows[p] \in Pool
  BY DEF IInv, DbType
<1>2. \A p \in Provider : meta[p].count = Cardinality(rows[p])
  BY DEF IInv, MetaHonest
<1>3. \A p \in Provider : Filtered(rows[p], o, index, p \in ru) = rows[p]
  <2> HIDE DEF index
  <2>1. ~index.on
    BY DEF index
  <2> QED BY <2>1, Unfiltered
<1>4. \A p \in Provider : meta[p].count # 0 => rows[p] # {}
  BY <1>2, FS_EmptySet
<1>5. U = known
  <2> HIDE DEF index
  <2> QED BY <1>1, <1>3, <1>4 DEF Usable
<1>6. w = [p \in U |-> Filtered(rows[p], o, index, p \in ru)]
  BY DEF Wanted
<1> HIDE DEF index, w, U
<1>7. DOMAIN w = known /\ \A p \in known : w[p] = rows[p]
  BY <1>3, <1>5, <1>6
<1>8. Sizes(w) = [p \in known |-> meta[p].count]
  <2> HIDE DEF known
  <2>1. \A p \in known : Cardinality(w[p]) = meta[p].count
    BY <1>2, <1>7 DEF known
  <2> QED BY <1>7, <2>1 DEF Sizes
<1> QED BY <1>7, <1>8 DEF w, index

\* A list that is cut to its budget, in its file.
LEMMA CutSize ==
  ASSUME NEW ns \in Pool, NEW b \in Nat, b <= Cardinality(ns)
  PROVE  LET n == Cardinality(Collapse(CompressToLimit(ns, b)))
         IN  n <= b /\ (Collapse(ns) = ns => n = b)
<1> DEFINE free == {n \in ns : ~\E m \in ns : n # m /\ n \subseteq m}
           k == CompressToLimit(ns, b)
<1>1. IsFiniteSet(free) /\ Cardinality(k) = Smaller(b, Cardinality(free)) /\ k \subseteq ns
  BY Compressed, CompressedSub DEF Pool
<1>2. ns \in SUBSET Nets /\ Cardinality(ns) \in Nat
  BY PoolCount DEF Pool
<1>3. Cardinality(free) \in Nat
  BY <1>1, FS_CardinalityType
<1>4. Collapse(ns) = ns => free = ns
  <2>1. \A m \in ns : m \in Nets /\ m \subseteq UNION ns
    BY <1>2
  <2>2. Collapsed(ns, Collapse(ns))
    BY <1>2, CollapseShape
  <2>3. Collapse(ns) = ns => \A n \in ns, m \in ns : n \subseteq m => m = n
    BY <2>1, <2>2 DEF Collapsed
  <2> QED BY <2>3
<1> HIDE DEF free, k
<1>5. k \in SUBSET Nets /\ Cardinality(k) \in Nat /\ Cardinality(k) <= b
  BY <1>1, <1>2, <1>3 DEF Smaller
<1>6. Cardinality(Collapse(k)) \in Nat /\ Cardinality(Collapse(k)) <= Cardinality(k)
  BY <1>5, CollapseSize
<1>7. Cardinality(Collapse(k)) <= b
  BY <1>5, <1>6
<1>8. ASSUME Collapse(ns) = ns  PROVE Cardinality(Collapse(k)) = b
  <2>1. Cardinality(k) = b
    BY <1>1, <1>2, <1>4, <1>8 DEF Smaller
  <2>2. Collapse(k) = k
    BY <1>1, <1>2, <1>8, CollapsePart
  <2> QED BY <2>1, <2>2
<1> QED BY <1>7, <1>8 DEF k

\* The preview of one request.
EstimateFits(o, ru) ==
    LET e == Estimate(o, ru)
        w == Limited(Wanted(meta, rows, o, IndexFor(o), ru), o)
    IN  /\ DOMAIN e = DOMAIN w
        /\ \A p \in DOMAIN w :
              LET n == Cardinality(Rendered(w[p]).nets)
              IN  n <= e[p] /\ (Collapse(rows[p]) = rows[p] => n = e[p])

LEMMA EstimateRight ==
  ASSUME IInv, mixed = {}, NEW o \in Options, NEW ru \in RuLists(o)
  PROVE  EstimateFits(o, ru)
<1> DEFINE a == Wanted(meta, rows, o, IndexFor(o), ru)
           w == Limited(a, o)
           e == Estimate(o, ru)
           c == Sizes(a)
<1>0. DbType /\ DOMAIN meta = Provider
  BY DEF IInv, DbType
<1>1. Listed(a)
  BY <1>0, WantedListed
<1>2. Counts(c, o) /\ DOMAIN c = DOMAIN a /\ Total(c) \in Nat /\ o.limit \in Nat
  <2> HIDE DEF a
  <2> QED BY <1>1, SizesCount, OptionTypes
<1>3. DOMAIN w = DOMAIN a /\ \A p \in DOMAIN w : w[p] \in Pool /\ w[p] \subseteq a[p]
  <2> HIDE DEF a
  <2> QED BY <1>1, LimitedListed
<1>4. \A p \in DOMAIN a : p \in Provider /\ rows[p] \in Pool /\ a[p] \subseteq rows[p]
  <2>1. DOMAIN a = Usable(meta, rows, o, IndexFor(o), ru)
        /\ \A p \in DOMAIN a : a[p] = Filtered(rows[p], o, IndexFor(o), p \in ru)
    BY DEF Wanted
  <2> HIDE DEF a
  <2> QED BY <2>1, <1>0, <1>1, FilteredSub DEF Listed, DbType
<1>5. \A p : Rendered(w[p]).nets = Collapse(w[p])
  BY DEF Rendered, File
<1>6. ASSUME DOMAIN e = DOMAIN w,
             \A p \in DOMAIN w : LET n == Cardinality(Collapse(w[p]))
                                 IN  n <= e[p] /\ (Collapse(rows[p]) = rows[p] => n = e[p])
      PROVE  EstimateFits(o, ru)
  <2> HIDE DEF w, e
  <2>1. \A p \in DOMAIN w : LET n == Cardinality(Rendered(w[p]).nets)
                            IN  n <= e[p] /\ (Collapse(rows[p]) = rows[p] => n = e[p])
    BY <1>5, <1>6
  <2> QED BY <1>6, <2>1 DEF EstimateFits, e, w
<1>7. ASSUME DOMAIN e = DOMAIN w, \A p \in DOMAIN w : e[p] = Cardinality(w[p])
      PROVE  EstimateFits(o, ru)
  <2> HIDE DEF w, e, a
  <2>1. ASSUME NEW p \in DOMAIN w
        PROVE  LET n == Cardinality(Collapse(w[p]))
               IN  n <= e[p] /\ (Collapse(rows[p]) = rows[p] => n = e[p])
    <3>1. w[p] \in SUBSET Nets /\ rows[p] \in SUBSET Nets /\ w[p] \in SUBSET rows[p]
      BY <1>3, <1>4 DEF Pool
    <3>2. Cardinality(Collapse(w[p])) <= e[p]
      BY <3>1, <1>7, CollapseSize
    <3>3. Collapse(rows[p]) = rows[p] => Collapse(w[p]) = w[p]
      BY <3>1, CollapsePart
    <3> QED BY <3>2, <3>3, <1>7
  <2> QED BY <2>1, <1>6, <1>7
<1>8. CASE ~(o.scope = "all" /\ ~o.ru /\ ~IndexFor(o).on)
  <2>1. e = Sizes(w)
    BY <1>8 DEF Estimate, EstimateRows
  <2>2. DOMAIN e = DOMAIN w /\ \A p \in DOMAIN w : e[p] = Cardinality(w[p])
    <3> HIDE DEF w, e
    <3> QED BY <2>1 DEF Sizes
  <2> HIDE DEF w, e, a
  <2> QED BY <2>2, <1>7
<1>9. CASE o.scope = "all" /\ ~o.ru /\ ~IndexFor(o).on
  <2> DEFINE known == {p \in Provider : meta[p].status \in {"ok", "partial"} /\ meta[p].count # 0}
  <2>1. DOMAIN a = known /\ (\A p \in known : a[p] = rows[p]) /\ c = [p \in known |-> meta[p].count]
    BY <1>9, CountsAgree
  <2>2. e = IF ~o.enforced \/ Total(c) <= o.limit THEN c ELSE EstimateBudgets(c, o)
    BY <1>9, <2>1 DEF Estimate, EstimateCounts
  <2>3. \A p \in DOMAIN a : c[p] = Cardinality(a[p])
    BY DEF Sizes
  <2>4. CASE ~o.enforced \/ Total(c) <= o.limit
    <3>1. w = a
      BY <2>4 DEF Limited
    <3>2. e = c
      BY <2>2, <2>4
    <3> HIDE DEF w, e, a, c
    <3>3. DOMAIN e = DOMAIN w /\ \A p \in DOMAIN w : e[p] = Cardinality(w[p])
      BY <1>2, <2>3, <3>1, <3>2
    <3> QED BY <3>3, <1>7
  <2>5. CASE ~(~o.enforced \/ Total(c) <= o.limit)
    <3> DEFINE b == Budgets(c, o)
    <3>1. Total(c) > o.limit
      <4> HIDE DEF c
      <4> QED BY <1>2, <2>5
    <3>2. e = b /\ DOMAIN b = DOMAIN c /\ \A p \in DOMAIN c : b[p] \in Nat /\ b[p] <= c[p]
      <4>1. e = EstimateBudgets(c, o)
        BY <2>2, <2>5
      <4> HIDE DEF c, e
      <4>2. EstimateBudgets(c, o) = b
        BY <3>1, <1>2, BudgetsAgree
      <4>3. BudgetsRight(c, o, b) /\ DOMAIN b = DOMAIN c /\ \A p \in DOMAIN c : b[p] \in Nat
        BY <3>1, <1>2, BudgetsSound
      <4> HIDE DEF b
      <4> QED BY <4>1, <4>2, <4>3 DEF BudgetsRight
    <3>3. \A p \in DOMAIN a : w[p] = CompressToLimit(a[p], b[p])
      BY <2>5 DEF Limited
    <3> HIDE DEF w, e, a, c, b, known
    <3>4. ASSUME NEW p \in DOMAIN w
          PROVE  LET n == Cardinality(Collapse(w[p]))
                 IN  n <= e[p] /\ (Collapse(rows[p]) = rows[p] => n = e[p])
      <4>1. p \in DOMAIN a /\ a[p] \in Pool /\ a[p] = rows[p] /\ p \in DOMAIN c
        BY <1>1, <1>2, <1>3, <2>1 DEF Listed
      <4>2. b[p] \in Nat /\ b[p] <= Cardinality(a[p]) /\ w[p] = CompressToLimit(a[p], b[p]) /\ e[p] = b[p]
        BY <4>1, <3>2, <3>3, <2>3
      <4> QED BY <4>1, <4>2, CutSize
    <3>5. DOMAIN e = DOMAIN w
      BY <3>2, <1>2, <1>3
    <3> QED BY <3>4, <3>5, <1>6
  <2> QED BY <2>4, <2>5
<1> QED BY <1>8, <1>9

LEMMA EstimateInv == IInv => EstimateHonest
  BY EstimateRight DEF EstimateHonest, EstimateFits

\* The preview names the files that a publication would write now, with no fewer routes than
\* the files then have, and with exactly as many where there is nothing to collapse, although
\* it computes the budgets in its own way (estimate_cidr_matches_from_db against
\* update_cidr_files_from_db and _render_file_content).
THEOREM EstimateIsHonest == Spec => []EstimateHonest
  BY Invariance, EstimateInv, PTL

-----------------------------------------------------------------------------
(* The route files (GameRoutes).  Their networks are those of the lists. *)

\* The addresses of a set of networks.
LEMMA SpaceIs == \A ns : Space(ns) = UNION ns
  BY DEF Space

(* Folds.  As with sums, there is a function on the subsets that computes them; the *)
(* element taken next and the step are given as functions.                          *)

IsChoice(c, S) == \A s \in SUBSET S : s # {} => c[s] \in s
IsFold(g, c, step, b, S) == g = [s \in SUBSET S |-> IF s = {} THEN b ELSE step[s][g[s \ {c[s]}]]]
Steps(step, V, S) == \A s \in SUBSET S : step[s] \in [V -> V]
Folded(c, step, b, S) == (CHOOSE g : IsFold(g, c, step, b, S))[S]

\* What such a function gives.
LEMMA IsFoldValue ==
  ASSUME NEW c, NEW step, NEW b, NEW g, NEW S, IsFold(g, c, step, b, S), NEW s \in SUBSET S
  PROVE  g[s] = IF s = {} THEN b ELSE step[s][g[s \ {c[s]}]]
<1> DEFINE E(t) == IF t = {} THEN b ELSE step[t][g[t \ {c[t]}]]
<1>1. g = [t \in SUBSET S |-> E(t)]
  BY DEF IsFold
<1> HIDE DEF E
<1>2. g[s] = E(s)
  BY <1>1
<1> QED BY <1>2 DEF E

\* Two such functions agree.
LEMMA IsFoldUnique ==
  ASSUME NEW c, NEW step, NEW b, NEW g, NEW h, NEW S, NEW T, IsFiniteSet(S), IsChoice(c, S), S \subseteq T,
         IsFold(g, c, step, b, S), IsFold(h, c, step, b, T)
  PROVE  g[S] = h[S]
<1> DEFINE B == {s \in SUBSET S : g[s] # h[s]}
<1>1. B = {}
  <2> SUFFICES ASSUME B # {} PROVE FALSE
    OBVIOUS
  <2>0. B \in SUBSET (SUBSET S)
    OBVIOUS
  <2>1. PICK m \in B : \A t \in B : t \subseteq m => t = m
    <3> HIDE DEF B
    <3> QED BY <2>0, Smallest
  <2>2. m \in SUBSET S /\ m \in SUBSET T
    OBVIOUS
  <2>3. /\ g[m] = IF m = {} THEN b ELSE step[m][g[m \ {c[m]}]]
        /\ h[m] = IF m = {} THEN b ELSE step[m][h[m \ {c[m]}]]
    BY <2>2, IsFoldValue
  <2>4. m # {}
    BY <2>3
  <2>5. m \ {c[m]} \notin B
    BY <2>1, <2>4 DEF IsChoice
  <2>6. g[m \ {c[m]}] = h[m \ {c[m]}]
    BY <2>2, <2>5
  <2> QED BY <2>3, <2>6
<1> QED BY <1>1

\* The fold is computed by one such function.
LEMMA FoldByAny ==
  ASSUME NEW c, NEW step, NEW b, NEW S, NEW T, NEW h, NEW e, IsFiniteSet(S), IsChoice(c, S), S \subseteq T,
         IsFold(h, c, step, b, T), IsFold(e, c, step, b, S)
  PROVE  Folded(c, step, b, S) = h[S]
<1> DEFINE g == CHOOSE g : IsFold(g, c, step, b, S)
<1>1. IsFold(g, c, step, b, S)
  OBVIOUS
<1> HIDE DEF g
<1>2. g[S] = h[S]
  BY <1>1, IsFoldUnique
<1> QED BY <1>2 DEF Folded, g

\* There is one.
LEMMA FoldExists ==
  ASSUME NEW c, NEW step, NEW b, NEW S, IsFiniteSet(S), IsChoice(c, S)
  PROVE  \E g : IsFold(g, c, step, b, S)
<1> DEFINE B == {s \in SUBSET S : ~\E g : IsFold(g, c, step, b, s)}
<1>1. B = {}
  <2> SUFFICES ASSUME B # {} PROVE FALSE
    OBVIOUS
  <2>0. B \in SUBSET (SUBSET S)
    OBVIOUS
  <2>1. PICK m \in B : \A t \in B : t \subseteq m => t = m
    <3> HIDE DEF B
    <3> QED BY <2>0, Smallest
  <2>2. m \in SUBSET S /\ (~\E g : IsFold(g, c, step, b, m))
    OBVIOUS
  <2>3. \A t \in SUBSET m : t # m => t \notin B
    BY <2>1
  <2>4. \A t \in SUBSET m : t # m => IsFiniteSet(t) /\ IsChoice(c, t) /\ \E g : IsFold(g, c, step, b, t)
    BY <2>2, <2>3, FS_Subset DEF IsChoice
  <2> DEFINE h == [s \in SUBSET m |-> IF s = {} THEN b ELSE step[s][Folded(c, step, b, s \ {c[s]})]]
  <2>5. ASSUME NEW u \in SUBSET m, u # m PROVE h[u] = Folded(c, step, b, u)
    <3>1. IsFiniteSet(u) /\ IsChoice(c, u)
      BY <2>4, <2>5
    <3>2. PICK g : IsFold(g, c, step, b, u)
      BY <2>4, <2>5
    <3>3. Folded(c, step, b, u) = g[u]
      BY <3>1, <3>2, FoldByAny
    <3>4. g[u] = IF u = {} THEN b ELSE step[u][g[u \ {c[u]}]]
      BY <3>2, IsFoldValue
    <3>5. CASE u = {}
      BY <3>3, <3>4, <3>5
    <3>6. CASE u # {}
      <4> DEFINE v == u \ {c[u]}
      <4>1. v \subseteq u /\ v \in SUBSET m /\ v # m
        BY <3>6 DEF IsChoice
      <4>2. IsFiniteSet(v) /\ IsChoice(c, v)
        BY <2>4, <4>1
      <4>6. PICK e : IsFold(e, c, step, b, v)
        BY <2>4, <4>1
      <4> HIDE DEF v
      <4>3. Folded(c, step, b, v) = g[v]
        BY <3>2, <4>1, <4>2, <4>6, FoldByAny
      <4>4. h[u] = step[u][Folded(c, step, b, v)]
        BY <3>6 DEF v
      <4>5. g[u] = step[u][g[v]]
        BY <3>4, <3>6 DEF v
      <4> QED BY <3>3, <4>3, <4>4, <4>5
    <3> QED BY <3>5, <3>6
  <2>6. \A s \in SUBSET m : s # {} => h[s \ {c[s]}] = Folded(c, step, b, s \ {c[s]})
    <3> TAKE s \in SUBSET m
    <3> HAVE s # {}
    <3> DEFINE v == s \ {c[s]}
    <3>1. v \in SUBSET m /\ v # m
      BY DEF IsChoice
    <3> HIDE DEF h, v
    <3>2. h[v] = Folded(c, step, b, v)
      BY <2>5, <3>1
    <3> QED BY <3>2 DEF v
  <2>7. h = [s \in SUBSET m |-> IF s = {} THEN b ELSE step[s][h[s \ {c[s]}]]]
    <3> DEFINE E(s) == IF s = {} THEN b ELSE step[s][Folded(c, step, b, s \ {c[s]})]
    <3> DEFINE F(s) == IF s = {} THEN b ELSE step[s][h[s \ {c[s]}]]
    <3>1. \A s \in SUBSET m : E(s) = F(s)
      BY <2>6
    <3>2. h = [s \in SUBSET m |-> E(s)]
      OBVIOUS
    <3> HIDE DEF E, F, h
    <3>3. h = [s \in SUBSET m |-> F(s)]
      BY <3>1, <3>2
    <3> QED BY <3>3 DEF F
  <2>8. IsFold(h, c, step, b, m)
    BY <2>7 DEF IsFold
  <2> QED BY <2>2, <2>8
<1>2. S \notin B
  BY <1>1
<1> QED BY <1>2

\* A fold whose steps stay in a set.
LEMMA FoldTyped ==
  ASSUME NEW c, NEW step, NEW b, NEW V, NEW S, IsFiniteSet(S), IsChoice(c, S), b \in V, Steps(step, V, S)
  PROVE  \E g : IsFold(g, c, step, b, S) /\ g \in [SUBSET S -> V]
<1>1. PICK g : IsFold(g, c, step, b, S)
  BY FoldExists
<1>2. ASSUME NEW s \in SUBSET S  PROVE g[s] = IF s = {} THEN b ELSE step[s][g[s \ {c[s]}]]
  BY <1>1, <1>2, IsFoldValue
<1> DEFINE G == {s \in SUBSET S : \A t \in SUBSET s : g[t] \in V}
<1>3. ASSUME NEW s \in SUBSET S, \A t \in SUBSET s : t # s => t \in G
      PROVE  s \in G
  <2>1. \A t \in SUBSET s : t # s => g[t] \in V
    BY <1>3
  <2>2. g[s] \in V
    <3>1. CASE s = {}
      BY <3>1, <1>2
    <3>2. CASE s # {}
      <4> DEFINE t == s \ {c[s]}
      <4>1. t \in SUBSET s /\ t # s
        BY <3>2 DEF IsChoice
      <4>2. g[t] \in V /\ step[s] \in [V -> V]
        BY <2>1, <4>1 DEF Steps
      <4>3. g[s] = step[s][g[t]]
        BY <3>2, <1>2
      <4> HIDE DEF t
      <4> QED BY <4>2, <4>3
    <3> QED BY <3>1, <3>2
  <2> QED BY <2>1, <2>2
<1>4. \A s \in SUBSET S : (\A t \in SUBSET s : t # s => t \in G) => s \in G
  BY <1>3
<1>5. G \in SUBSET (SUBSET S)
  OBVIOUS
<1>6. S \in G
  <2> HIDE DEF G
  <2> QED BY <1>4, <1>5, SetInduction
<1>7. g \in [SUBSET S -> V]
  <2>1. \A s \in SUBSET S : g[s] \in V
    BY <1>6
  <2>2. g = [s \in SUBSET S |-> g[s]]
    BY <1>1 DEF IsFold
  <2> QED BY <2>1, <2>2
<1> QED BY <1>1, <1>7

\* A finite set has a member with the smallest and one with the largest key.
LEMMA FiniteLeast ==
  ASSUME NEW S, IsFiniteSet(S), S # {}, NEW k, \A x \in S : k[x] \in Int
  PROVE  \E x \in S : \A y \in S : k[x] <= k[y]
<1> DEFINE G == {s \in SUBSET S : s # {} => \E x \in s : \A y \in s : k[x] <= k[y]}
<1>1. ASSUME NEW s \in SUBSET S, \A t \in SUBSET s : t # s => t \in G
      PROVE  s \in G
  <2> SUFFICES ASSUME s # {}  PROVE \E x \in s : \A y \in s : k[x] <= k[y]
    OBVIOUS
  <2>1. PICK e \in s : TRUE
    OBVIOUS
  <2> DEFINE t == s \ {e}
  <2>2. t \in G
    BY <1>1
  <2>3. CASE t = {}
    BY <2>3
  <2>4. CASE t # {}
    <3>1. PICK x \in t : \A y \in t : k[x] <= k[y]
      BY <2>2, <2>4
    <3>2. CASE k[x] <= k[e]
      BY <3>1, <3>2
    <3>3. CASE ~(k[x] <= k[e])
      <4>1. \A y \in t : k[e] <= k[y]
        BY <3>1, <3>3
      <4> QED BY <4>1
    <3> QED BY <3>2, <3>3
  <2> QED BY <2>3, <2>4
<1>2. \A s \in SUBSET S : (\A t \in SUBSET s : t # s => t \in G) => s \in G
  BY <1>1
<1>3. G \in SUBSET (SUBSET S)
  OBVIOUS
<1>4. S \in G
  <2> HIDE DEF G
  <2> QED BY <1>2, <1>3, SetInduction
<1> QED BY <1>4

\* _subtract_cidrs takes the holes in the order of their addresses.
NextHole(s) == CHOOSE h \in s : \A g \in s : Address(h) <= Address(g)

LEMMA NextHoleIn ==
  ASSUME NEW s \in SUBSET Nets, s # {}
  PROVE  NextHole(s) \in s
<1> DEFINE k == [n \in Nets |-> Address(n)]
<1>1. \A n \in Nets : Address(n) \in Int
  <2> TAKE n \in Nets
  <2>1. First(n) \in Nat /\ Cardinality(n) \in Nat
    BY NetFacts
  <2>2. Bits + 1 \in Nat
    BY NetsAssumption
  <2>3. 2^(Bits + 1) \in Nat
    BY <2>2, Power
  <2> DEFINE w == 2^(Bits + 1)  a == First(n)  b == Cardinality(n)
  <2>4. Address(n) = a * w - b
    BY DEF Address
  <2>5. w \in Nat /\ a \in Nat /\ b \in Nat
    BY <2>1, <2>3
  <2> HIDE DEF w, a, b
  <2> QED BY <2>4, <2>5
<1>2. IsFiniteSet(s)
  BY NetsFinite, FS_Subset
<1>3. \A x \in s : k[x] \in Int
  BY <1>1
<1>4. \E x \in s : \A y \in s : k[x] <= k[y]
  <2> HIDE DEF k
  <2> QED BY <1>2, <1>3, FiniteLeast
<1>5. \E x \in s : \A y \in s : Address(x) <= Address(y)
  BY <1>4
<1> QED BY <1>5 DEF NextHole

\* The function that cuts the holes out of a network.
Whole(n) == [ok |-> TRUE, nets |-> {n}]
IsCut(g, n, S) == g = [s \in SUBSET S |-> IF s = {} THEN Whole(n) ELSE CutHole(NextHole(s), g[s \ {NextHole(s)}])]

LEMMA SubtractFold ==
  ASSUME NEW n, NEW S
  PROVE  SubtractCidrs(n, S) = (CHOOSE g : IsCut(g, n, S))[S]
  BY DEF SubtractCidrs, MapThenFoldSet, IsCut, NextHole, Whole

\* What is left so far.
Left == [ok : BOOLEAN, nets : SUBSET Nets]

\* One round.
LEMMA CutType ==
  ASSUME NEW h \in Nets, NEW acc \in Left
  PROVE  /\ CutHole(h, acc) \in Left
         /\ CutHole(h, acc).ok => acc.ok /\ UNION CutHole(h, acc).nets = (UNION acc.nets) \ h
<1> DEFINE left == UNION {Canonical(n \ h) : n \in acc.nets}
<1>1. \A n \in acc.nets : Canonical(n \ h) \in SUBSET Nets /\ UNION Canonical(n \ h) = n \ h
  <2> TAKE n \in acc.nets
  <2>1. n \ h \in SUBSET (0 .. (Width - 1))
    BY NetFacts DEF Left
  <2> QED BY <2>1, CanonicalSpace
<1>2. left \in SUBSET Nets
  BY <1>1
<1>3. UNION left = (UNION acc.nets) \ h
  <2>1. ASSUME NEW a \in UNION left  PROVE a \in (UNION acc.nets) \ h
    <3>1. PICK n \in acc.nets : a \in UNION Canonical(n \ h)
      OBVIOUS
    <3>2. a \in n \ h
      BY <1>1, <3>1
    <3> QED BY <3>2
  <2>2. ASSUME NEW a \in (UNION acc.nets) \ h  PROVE a \in UNION left
    <3>1. PICK n \in acc.nets : a \in n
      OBVIOUS
    <3>2. a \in UNION Canonical(n \ h)
      BY <1>1, <3>1
    <3> QED BY <3>2
  <2> QED BY <2>1, <2>2
<1> HIDE DEF left
<1>4. CutHole(h, acc) = IF ~acc.ok \/ Cardinality(left) > MaxFragments
                             THEN [ok |-> FALSE, nets |-> {}] ELSE [ok |-> TRUE, nets |-> left]
  BY DEF CutHole, TooMany, left
<1>5. acc.ok \in BOOLEAN
  BY DEF Left
<1> QED BY <1>2, <1>3, <1>4, <1>5 DEF Left

\* _subtract_cidrs returns networks that hold what the holes leave, or gives up.
LEMMA SubtractSpace ==
  ASSUME NEW n \in Nets, NEW S \in SUBSET Nets
  PROVE  /\ SubtractCidrs(n, S) \in Left
         /\ SubtractCidrs(n, S).ok => UNION SubtractCidrs(n, S).nets = n \ UNION S
<1>0. IsFiniteSet(S)
  BY NetsFinite, FS_Subset
<1>1. \A s \in SUBSET S : s # {} => NextHole(s) \in s
  BY NextHoleIn
<1> DEFINE c == [s \in SUBSET S |-> NextHole(s)]
           step == [s \in SUBSET S |-> [acc \in Left |-> IF s = {} THEN acc ELSE CutHole(NextHole(s), acc)]]
<1>2. IsChoice(c, S)
  BY <1>1 DEF IsChoice
<1>3. Steps(step, Left, S)
  <2>1. ASSUME NEW s \in SUBSET S, NEW acc \in Left, s # {}  PROVE CutHole(NextHole(s), acc) \in Left
    BY <1>1, <2>1, CutType
  <2> QED BY <2>1 DEF Steps
<1>4. Whole(n) \in Left
  BY DEF Whole, Left
<1>5. PICK f : IsFold(f, c, step, Whole(n), S) /\ f \in [SUBSET S -> Left]
  <2> HIDE DEF c, step
  <2> QED BY <1>0, <1>2, <1>3, <1>4, FoldTyped
<1>6. \E g : IsCut(g, n, S)
  <2>1. ASSUME NEW s \in SUBSET S  PROVE f[s] = IF s = {} THEN Whole(n) ELSE step[s][f[s \ {c[s]}]]
    <3> HIDE DEF c, step
    <3> QED BY <1>5, IsFoldValue
  <2> DEFINE E(s) == IF s = {} THEN Whole(n) ELSE CutHole(NextHole(s), f[s \ {NextHole(s)}])
  <2>2. ASSUME NEW s \in SUBSET S  PROVE f[s] = E(s)
    <3>1. f[s \ {NextHole(s)}] \in Left
      BY <1>5
    <3> QED BY <2>1, <3>1
  <2>3. f = [s \in SUBSET S |-> f[s]]
    BY <1>5
  <2> HIDE DEF E
  <2>4. f = [s \in SUBSET S |-> E(s)]
    BY <2>2, <2>3
  <2> QED BY <2>4 DEF IsCut, E
<1> DEFINE g == CHOOSE g : IsCut(g, n, S)
<1>7. IsCut(g, n, S)
  BY <1>6
<1>8. SubtractCidrs(n, S) = g[S]
  BY SubtractFold
<1> HIDE DEF g, c, step
<1>9. ASSUME NEW s \in SUBSET S
      PROVE  g[s] = IF s = {} THEN Whole(n) ELSE CutHole(NextHole(s), g[s \ {NextHole(s)}])
  <2> DEFINE E(t) == IF t = {} THEN Whole(n) ELSE CutHole(NextHole(t), g[t \ {NextHole(t)}])
  <2>1. g = [t \in SUBSET S |-> E(t)]
    BY <1>7 DEF IsCut
  <2> HIDE DEF E
  <2>2. g[s] = E(s)
    BY <2>1
  <2> QED BY <2>2 DEF E
<1> DEFINE G == {s \in SUBSET S : g[s] \in Left /\ (g[s].ok => UNION g[s].nets = n \ UNION s)}
<1>10. ASSUME NEW s \in SUBSET S, \A t \in SUBSET s : t # s => t \in G
       PROVE  s \in G
  <2>1. CASE s = {}
    <3>1. g[s] = Whole(n)
      BY <2>1, <1>9
    <3>2. Whole(n).nets = {n} /\ UNION {n} = n /\ n \ UNION s = n
      BY <2>1 DEF Whole
    <3> QED BY <1>4, <3>1, <3>2
  <2>2. CASE s # {}
    <3> DEFINE h == NextHole(s)
               t == s \ {h}
    <3>1. h \in s /\ h \in Nets
      BY <1>1, <2>2
    <3>2. t \in G
      <4>1. t \in SUBSET s /\ t # s
        BY <3>1
      <4> HIDE DEF t, G
      <4> QED BY <1>10, <4>1
    <3>3. g[s] = CutHole(h, g[t])
      BY <1>9, <2>2
    <3>4. UNION s = (UNION t) \cup h
      BY <3>1
    <3> HIDE DEF h, t
    <3>5. g[t] \in Left /\ (g[t].ok => UNION g[t].nets = n \ UNION t)
      BY <3>2
    <3>6. g[s] \in Left /\ (g[s].ok => g[t].ok /\ UNION g[s].nets = (UNION g[t].nets) \ h)
      BY <3>1, <3>3, <3>5, CutType
    <3>7. g[s].ok => UNION g[s].nets = n \ UNION s
      BY <3>4, <3>5, <3>6
    <3> QED BY <3>6, <3>7
  <2> QED BY <2>1, <2>2
<1>11. \A s \in SUBSET S : (\A t \in SUBSET s : t # s => t \in G) => s \in G
  BY <1>10
<1>12. G \in SUBSET (SUBSET S)
  OBVIOUS
<1>13. S \in G
  <2> HIDE DEF G
  <2> QED BY <1>0, <1>11, <1>12, SetInduction
<1> QED BY <1>8, <1>13

BlockShape(b) == /\ b = [keys |-> b.keys, lines |-> b.lines, notes |-> b.notes, splits |-> b.splits]
                 /\ b.lines \in SUBSET Nets /\ b.notes \in SUBSET Nets

RouteFile == [on : BOOLEAN, nets : SUBSET Nets]

\* The files hold networks.
Files == source \in RouteFile /\ ap \in RouteFile /\ user \in SUBSET Nets /\ BlockShape(exc)

\* A patch takes nothing but excluded addresses out of its line.
Cuts(todo, want) ==
    \A f \in DOMAIN todo : \A p \in todo[f] :
        p.new \in SUBSET Nets /\ UNION p.new \subseteq p.old /\ p.old \ UNION p.new \subseteq want

\* The patches of a file that are still to come will clear it, or it is clear.
WillClear(todo, want, f, ns) ==
    IF f \in DOMAIN todo
    THEN /\ \A n \in ns : n \cap want # {} => \E p \in todo[f] : p.old = n
         /\ \A p \in todo[f] : (UNION p.new) \cap want = {}
    ELSE \A n \in ns : n \cap want = {}

JobShape == /\ exclusion = [pc |-> exclusion.pc, todo |-> exclusion.todo, next |-> exclusion.next, cur |-> exclusion.cur, want |-> exclusion.want,
                       skipped |-> exclusion.skipped, touched |-> exclusion.touched]
            /\ BlockShape(exclusion.next)

Planned == exclusion.pc = "patch" =>
    /\ Cuts(exclusion.todo, exclusion.want)
    /\ ~exclusion.skipped /\ ~exclusion.touched =>
          WillClear(exclusion.todo, exclusion.want, "ap", ap.nets) /\ WillClear(exclusion.todo, exclusion.want, "user", user)

RouteInv == Files /\ JobShape /\ Planned

\* The entries that an exclusion looks at.
LEMMA IndexFacts ==
  ASSUME Files
  PROVE  /\ \A e \in OverlapIndex : e.net \in Nets
         /\ \A n \in ap.nets : [net |-> n, file |-> "ap"] \in OverlapIndex
         /\ \A n \in user : [net |-> n, file |-> "user"] \in OverlapIndex
         /\ UNION {e.net : e \in OverlapIndex} =
               (UNION ap.nets) \cup (UNION user) \cup (UNION exc.lines) \cup (UNION exc.notes)
<1>1. OverlapIndex = {[net |-> n, file |-> "ap"] : n \in ap.nets} \cup {[net |-> n, file |-> "user"] : n \in user}
                          \cup {[net |-> n, file |-> "exc"] : n \in exc.lines \cup exc.notes}
  BY DEF OverlapIndex, Entries
<1>2. \A e \in OverlapIndex : e.net \in ap.nets \cup user \cup exc.lines \cup exc.notes
  BY <1>1
<1>3. \A n \in ap.nets \cup user \cup exc.lines \cup exc.notes : \E e \in OverlapIndex : e.net = n
  <2> TAKE n \in ap.nets \cup user \cup exc.lines \cup exc.notes
  <2> DEFINE e(f) == [net |-> n, file |-> f]
  <2>1. e("ap") \in OverlapIndex \/ e("user") \in OverlapIndex \/ e("exc") \in OverlapIndex
    BY <1>1
  <2>2. \A f : e(f).net = n
    OBVIOUS
  <2> HIDE DEF e
  <2> QED BY <2>1, <2>2
<1>4. UNION {e.net : e \in OverlapIndex} =
               (UNION ap.nets) \cup (UNION user) \cup (UNION exc.lines) \cup (UNION exc.notes)
  BY <1>2, <1>3
<1>5. \A e \in OverlapIndex : e.net \in Nets
  BY <1>2 DEF Files, RouteFile, BlockShape
<1> QED BY <1>1, <1>4, <1>5

\* What is found for one network.
LEMMA ExcludeFacts ==
  ASSUME Files, NEW c \in Nets
  PROVE  /\ Exclude1(c).split \subseteq Overlapping(c, OverlapIndex)
         /\ ~Exclude1(c).skipped => Exclude1(c).split = Overlapping(c, OverlapIndex)
         /\ Exclude1(c).write \subseteq Nets /\ Exclude1(c).notes \subseteq Nets
<1> DEFINE all == Overlapping(c, OverlapIndex)
           over == Leading(all, MaxOverlaps, Nearest)
           rest == SubtractCidrs(c, {e.net : e \in over})
           full == \/ \E e \in over : c \subseteq e.net
                   \/ rest.ok /\ rest.nets = {}
           write == IF over = {} \/ full \/ ~rest.ok THEN {c} ELSE rest.nets
           fits == {e \in over : Punchable(e.net) /\ SubtractCidrs(e.net, {c}).ok}
           named == {e.net : e \in Leading(over, Described, Nearest)}
           notes == IF over = {} THEN {} ELSE {c} \cup write \cup named
           skipped == fits # over \/ over # all \/ ~(full \/ rest.ok)
<1>1. Exclude1(c) = [write |-> write, notes |-> notes, split |-> fits, skipped |-> skipped]
  BY DEF Exclude1
<1>2. all \subseteq OverlapIndex
  BY DEF Overlapping
<1>3. over \subseteq all
  BY DEF Leading
<1>4. \A e \in over : e.net \in Nets
  BY <1>2, <1>3, IndexFacts
<1>5. named \in SUBSET Nets
  <2>1. Leading(over, Described, Nearest) \subseteq over
    BY DEF Leading
  <2> QED BY <1>4, <2>1
<1> DEFINE holes == {e.net : e \in over}
<1>6. rest \in Left
  <2>1. holes \in SUBSET Nets
    BY <1>4
  <2> HIDE DEF holes
  <2>2. SubtractCidrs(c, holes) \in Left
    BY <2>1, SubtractSpace
  <2> QED BY <2>2 DEF holes
<1>7. fits \subseteq over /\ (~skipped => fits = all)
  OBVIOUS
<1> HIDE DEF all, over, rest, full, fits, named, skipped
<1>8. write \in SUBSET Nets /\ notes \in SUBSET Nets
  BY <1>5, <1>6 DEF Left
<1> HIDE DEF write, notes
<1> QED BY <1>1, <1>3, <1>7, <1>8 DEF all

\* The plan of an exclusion.
LEMMA PlanRight ==
  ASSUME Files, NEW want \in SUBSET Nets
  PROVE  LET todo == Patches(want)
             found == UNION {Exclude1(c).split : c \in want}
             skipped == Patchable(want) # found \/ \E c \in want : Exclude1(c).skipped
         IN  /\ Cuts(todo, UNION want)
             /\ ~skipped => WillClear(todo, UNION want, "ap", ap.nets) /\ WillClear(todo, UNION want, "user", user)
<1> DEFINE found == UNION {Exclude1(c).split : c \in want}
           es == Patchable(want)
           H(e) == Holes(e, want)
           new(e) == SubtractCidrs(e.net, H(e)).nets
           todo == Patches(want)
           skipped == es # found \/ \E c \in want : Exclude1(c).skipped
           W == UNION want
<1>1. todo = [f \in {e.file : e \in es} |-> {[old |-> e.net, new |-> new(e)] : e \in {x \in es : x.file = f}}]
  BY DEF Patches
<1>2. \A e : H(e) = {c \in want : e \in Exclude1(c).split}
  BY DEF Holes
<1>3. es = {e \in found : SubtractCidrs(e.net, H(e)).ok}
  BY DEF Patchable
<1>4. \A e \in found : e \in OverlapIndex /\ e.net \in Nets
  <2> TAKE e \in found
  <2>1. PICK c \in want : e \in Exclude1(c).split
    OBVIOUS
  <2>2. e \in Overlapping(c, OverlapIndex)
    BY <2>1, ExcludeFacts
  <2>3. e \in OverlapIndex
    BY <2>2 DEF Overlapping
  <2> QED BY <2>3, IndexFacts
<1>5. ASSUME NEW e \in es
      PROVE  new(e) \in SUBSET Nets /\ UNION new(e) = e.net \ UNION H(e) /\ UNION H(e) \subseteq W
  <2>1. H(e) \in SUBSET want
    BY <1>2
  <2>2. SubtractCidrs(e.net, H(e)).ok /\ e.net \in Nets
    BY <1>3, <1>4
  <2> DEFINE hs == H(e)
  <2> HIDE DEF H, hs
  <2>3. hs \in SUBSET Nets
    BY <2>1 DEF hs
  <2>4. SubtractCidrs(e.net, hs) \in Left /\ UNION SubtractCidrs(e.net, hs).nets = e.net \ UNION hs
    BY <2>2, <2>3, SubtractSpace DEF hs
  <2>5. UNION hs \subseteq W
    BY <2>1 DEF hs
  <2> QED BY <2>4, <2>5 DEF hs, Left
<1> HIDE DEF found, es, H, new, todo
<1>6. Cuts(todo, W)
  <2> SUFFICES ASSUME NEW f \in DOMAIN todo, NEW p \in todo[f]
               PROVE  p.new \in SUBSET Nets /\ UNION p.new \subseteq p.old /\ p.old \ UNION p.new \subseteq W
    BY DEF Cuts
  <2>1. PICK e \in es : p = [old |-> e.net, new |-> new(e)]
    BY <1>1
  <2>2. p.old = e.net /\ p.new = new(e)
    BY <2>1
  <2> QED BY <1>5, <2>2
<1>7. ASSUME ~skipped, NEW f, NEW ns, \A n \in ns : [net |-> n, file |-> f] \in OverlapIndex
      PROVE  WillClear(todo, W, f, ns)
  <2>0. es = found /\ \A c \in want : Exclude1(c).split = Overlapping(c, OverlapIndex)
    BY <1>7, ExcludeFacts
  <2>1. ASSUME NEW n \in ns, n \cap W # {}
        PROVE  f \in DOMAIN todo /\ \E p \in todo[f] : p.old = n
    <3> DEFINE e == [net |-> n, file |-> f]
    <3>1. PICK a \in n : a \in W
      BY <2>1
    <3>2. PICK c \in want : a \in c
      BY <3>1
    <3>3. e \in OverlapIndex /\ e.net \cap c # {} /\ e.file = f /\ e.net = n
      BY <1>7, <3>2
    <3> HIDE DEF e
    <3>4. e \in Exclude1(c).split
      BY <2>0, <3>3 DEF Overlapping
    <3>5. e \in es
      BY <2>0, <3>4 DEF found
    <3>6. f \in DOMAIN todo /\ [old |-> e.net, new |-> new(e)] \in todo[f]
      BY <1>1, <3>3, <3>5
    <3> QED BY <3>3, <3>6
  <2>2. ASSUME f \in DOMAIN todo, NEW p \in todo[f]
        PROVE  (UNION p.new) \cap W = {}
    <3>1. PICK e \in es : p = [old |-> e.net, new |-> new(e)]
      BY <1>1, <2>2
    <3>2. p.new = new(e)
      BY <3>1
    <3>3. ASSUME NEW a \in UNION p.new, a \in W  PROVE FALSE
      <4>1. a \in e.net /\ a \notin UNION H(e)
        BY <1>5, <3>2, <3>3
      <4>2. PICK c \in want : a \in c
        BY <3>3
      <4>3. e \in Overlapping(c, OverlapIndex)
        BY <1>4, <2>0, <4>1, <4>2 DEF Overlapping
      <4>4. c \in H(e)
        BY <1>2, <2>0, <4>2, <4>3
      <4> QED BY <4>1, <4>2, <4>4
    <3> QED BY <3>3
  <2> QED BY <2>1, <2>2 DEF WillClear
<1>8. ~skipped => WillClear(todo, W, "ap", ap.nets) /\ WillClear(todo, W, "user", user)
  <2> HIDE DEF skipped
  <2> QED BY <1>7, IndexFacts
<1> QED BY <1>6, <1>8 DEF todo, es, found

\* The block it will write.
LEMMA BlockRight ==
  ASSUME Files, NEW want \in SUBSET Nets, NEW sel
  PROVE  BlockShape(ExcludeBlock(sel, want))
<1> DEFINE lines == UNION {Exclude1(c).write : c \in want}
           notes == UNION {Exclude1(c).notes : c \in want}
           b == [keys |-> sel, lines |-> lines, notes |-> notes, splits |-> Cardinality(Patchable(want))]
<1>1. lines \in SUBSET Nets /\ notes \in SUBSET Nets
  BY ExcludeFacts
<1>2. ExcludeBlock(sel, want) = IF want = {} THEN NoBlock ELSE b
  BY DEF ExcludeBlock
<1>3. BlockShape(NoBlock)
  BY DEF NoBlock, BlockShape
<1>4. BlockShape(b)
  <2> HIDE DEF lines, notes
  <2> QED BY <1>1 DEF BlockShape
<1> QED BY <1>2, <1>3, <1>4

\* The networks of a request.
LEMMA GatheredType ==
  ASSUME NEW sel, NEW ripe, NEW dns, NEW g \in Games
  PROVE  /\ Gathered(sel, ripe, dns)[g] \in SUBSET Nets
         /\ g \notin sel => Gathered(sel, ripe, dns)[g] = {}
<1>1. Static[g] \in SUBSET Nets /\ Asn[g] \in SUBSET Nets /\ Dns[g] \in SUBSET Nets
  <2>1. Static \in [Games -> SUBSET Nets] /\ Asn \in [Games -> SUBSET Nets] /\ Dns \in [Games -> SUBSET Nets]
    BY GamesAssumption
  <2> QED BY <2>1
<1>2. ItemCidrs(g, ripe, dns) \in SUBSET Nets
  BY <1>1 DEF ItemCidrs, AsnCidrs, DnsCidrs
<1>3. Gathered(sel, ripe, dns)[g] = IF g \in sel THEN ItemCidrs(g, ripe, dns) ELSE {}
  BY DEF Gathered
<1> QED BY <1>2, <1>3

\* A job that is over.
LEMMA IdleShape ==
  ASSUME exclusion' = NoExclusion
  PROVE  JobShape' /\ Planned'
<1>1. exclusion' = [pc |-> "idle", todo |-> << >>, next |-> NoBlock, cur |-> NoBlock,
               want |-> {}, skipped |-> FALSE, touched |-> FALSE]
  BY DEF NoExclusion
<1>2. BlockShape(NoBlock)
  BY DEF NoBlock, BlockShape
<1>3. exclusion'.pc = "idle"
  BY <1>1
<1>4. JobShape'
  BY <1>1, <1>2 DEF JobShape
<1> QED BY <1>3, <1>4 DEF Planned

LEMMA RouteInit == GamesInit => RouteInv
<1> SUFFICES ASSUME GamesInit  PROVE RouteInv
  OBVIOUS
<1>1. {} \in SUBSET Nets /\ UserLines \in SUBSET Nets /\ Lists \subseteq SUBSET Nets
  BY GamesAssumption
<1>2. source \in RouteFile /\ ap \in RouteFile /\ user \in SUBSET Nets
  <2>1. Absent \in RouteFile /\ \A ns \in Lists : Present(ns) \in RouteFile
    BY <1>1 DEF Absent, Present, RouteFile
  <2>2. source \in {Absent} \cup {Present(ns) : ns \in Lists} /\ ap = Absent /\ user = UserLines
    BY DEF GamesInit
  <2> QED BY <1>1, <2>1, <2>2
<1>3. BlockShape(NoBlock)
  BY <1>1 DEF NoBlock, BlockShape
<1>4. Files
  BY <1>2, <1>3 DEF Files, GamesInit
<1>5. exclusion = [pc |-> "idle", todo |-> << >>, next |-> NoBlock, cur |-> NoBlock,
               want |-> {}, skipped |-> FALSE, touched |-> FALSE]
  BY DEF NoExclusion, GamesInit
<1>6. exclusion.pc = "idle"
  BY <1>5
<1>7. JobShape
  BY <1>3, <1>5 DEF JobShape
<1> QED BY <1>4, <1>6, <1>7 DEF RouteInv, Planned

\* A step that touches the lists.
LEMMA ListStepInv ==
  ASSUME RouteInv, NEW l \in RouteFile, NEW a \in RouteFile, NEW u \in SUBSET Nets, ListStep(l, a, u)
  PROVE  RouteInv' /\ last' = Other
<1>1. source' = l /\ ap' = a /\ user' = u /\ exc' = exc /\ last' = Other
  BY DEF ListStep
<1>2. Files'
  BY <1>1 DEF Files, RouteInv
<1> DEFINE t == exclusion.pc = "patch"
<1>3. exclusion' = [exclusion EXCEPT !.touched = t]
  BY DEF ListStep
<1>4. t \in BOOLEAN
  OBVIOUS
<1>5. t = TRUE \/ exclusion.pc # "patch"
  OBVIOUS
<1> HIDE DEF t
<1>6. exclusion' = [pc |-> exclusion.pc, todo |-> exclusion.todo, next |-> exclusion.next, cur |-> exclusion.cur, want |-> exclusion.want,
               skipped |-> exclusion.skipped, touched |-> t]
  BY <1>3 DEF RouteInv, JobShape
<1>7. JobShape'
  BY <1>6 DEF RouteInv, JobShape
<1>8. Planned'
  <2>1. exclusion'.pc = exclusion.pc /\ exclusion'.todo = exclusion.todo /\ exclusion'.want = exclusion.want /\ exclusion'.touched = t
    BY <1>6
  <2> QED BY <1>5, <2>1 DEF RouteInv, Planned
<1> QED BY <1>1, <1>2, <1>7, <1>8 DEF RouteInv

\* A step that touches neither files nor job.
LEMMA RouteSame ==
  ASSUME RouteInv, UNCHANGED <<source, ap, user, exc, exclusion>>
  PROVE  RouteInv'
  BY DEF RouteInv, Files, JobShape, Planned

\* A file is patched.
LEMMA PatchStep ==
  ASSUME RouteInv, NEW f \in {"ap", "user", "exc"}, PatchFile(f)
  PROVE  /\ RouteInv'
         /\ \/ last' = Other
            \/ /\ last'.op = "patch" /\ last'.lost \subseteq last'.want /\ last'.gained = {}
<1> DEFINE ps == exclusion.todo[f]
           ns == LinesOf(f)
           found == \A p \in ps : p.old \in ns
           now == (ns \ {p.old : p \in ps}) \cup UNION {p.new : p \in ps}
<1>1. exclusion.pc = "patch" /\ f \in DOMAIN exclusion.todo /\ source' = source
  BY DEF PatchFile
<1>2. ns = (IF f = "ap" THEN ap.nets ELSE IF f = "user" THEN user ELSE exc.lines) /\ ns \in SUBSET Nets
  BY DEF LinesOf, RouteInv, Files, RouteFile, BlockShape
<1>3. CASE ~found
  <2>1. exclusion' = NoExclusion /\ last' = Other /\ UNCHANGED <<ap, user, exc>>
    BY <1>3 DEF PatchFile
  <2>2. Files'
    BY <1>1, <2>1 DEF Files, RouteInv
  <2> QED BY <2>1, <2>2, IdleShape DEF RouteInv
<1>4. CASE found
  <2>1. /\ ap' = IF f = "ap" THEN [ap EXCEPT !.nets = now] ELSE ap
        /\ user' = IF f = "user" THEN now ELSE user
        /\ exc' = IF f = "exc" THEN [exc EXCEPT !.lines = now] ELSE exc
        /\ exclusion' = [exclusion EXCEPT !.todo = [x \in DOMAIN exclusion.todo \ {f} |-> exclusion.todo[x]]]
        /\ last' = [op |-> "patch", want |-> exclusion.want, lost |-> Space(ns) \ Space(now),
                    gained |-> Space(now) \ Space(ns)]
    BY <1>4 DEF PatchFile, Patched
  <2>2. \A p \in ps : p.new \in SUBSET Nets /\ UNION p.new \subseteq p.old /\ p.old \ UNION p.new \subseteq exclusion.want
    BY <1>1 DEF RouteInv, Planned, Cuts
  <2>3. now \in SUBSET Nets
    BY <1>2, <2>2
  <2>4. (UNION ns) \ UNION now \subseteq exclusion.want
    <3> SUFFICES ASSUME NEW a \in (UNION ns) \ UNION now  PROVE a \in exclusion.want
      OBVIOUS
    <3>1. PICK n \in ns : a \in n
      OBVIOUS
    <3>2. n \notin now
      BY <3>1
    <3>3. PICK p \in ps : p.old = n
      BY <3>2
    <3>4. a \notin UNION p.new
      OBVIOUS
    <3> QED BY <2>2, <3>1, <3>3, <3>4
  <2>5. (UNION now) \ UNION ns = {}
    <3> SUFFICES ASSUME NEW a \in UNION now  PROVE a \in UNION ns
      OBVIOUS
    <3>1. PICK n \in now : a \in n
      OBVIOUS
    <3>2. CASE n \in ns
      BY <3>1, <3>2
    <3>3. CASE n \notin ns
      <4>1. PICK p \in ps : n \in p.new
        BY <3>3
      <4>2. a \in p.old /\ p.old \in ns
        BY <1>4, <2>2, <3>1, <4>1
      <4> QED BY <4>2
    <3> QED BY <3>2, <3>3
  <2>6. last'.op = "patch" /\ last'.lost \subseteq last'.want /\ last'.gained = {}
    <3>1. Space(ns) = UNION ns /\ Space(now) = UNION now
      BY SpaceIs
    <3> HIDE DEF ns, now
    <3> QED BY <2>1, <2>4, <2>5, <3>1
  <2> DEFINE left == [x \in DOMAIN exclusion.todo \ {f} |-> exclusion.todo[x]]
  <2>7. exclusion' = [pc |-> exclusion.pc, todo |-> left, next |-> exclusion.next, cur |-> exclusion.cur, want |-> exclusion.want,
                 skipped |-> exclusion.skipped, touched |-> exclusion.touched]
    BY <2>1 DEF RouteInv, JobShape
  <2>8. exclusion'.pc = "patch" /\ exclusion'.todo = left /\ exclusion'.want = exclusion.want
    BY <1>1, <2>7
  <2>9. exclusion'.skipped = exclusion.skipped /\ exclusion'.touched = exclusion.touched
    BY <2>7
  <2>10. DOMAIN left = DOMAIN exclusion.todo \ {f} /\ \A x \in DOMAIN left : left[x] = exclusion.todo[x]
    OBVIOUS
  <2>11. JobShape'
    <3> HIDE DEF left
    <3> QED BY <2>7 DEF RouteInv, JobShape
  <2>12. Files'
    <3> HIDE DEF now
    <3>1. ap' \in RouteFile
      BY <2>1, <2>3 DEF RouteInv, Files, RouteFile
    <3>2. user' \in SUBSET Nets
      BY <2>1, <2>3 DEF RouteInv, Files
    <3>3. BlockShape(exc')
      <4>1. BlockShape(exc)
        BY DEF RouteInv, Files
      <4>2. CASE f = "exc"
        <5>1. exc' = [keys |-> exc.keys, lines |-> now, notes |-> exc.notes, splits |-> exc.splits]
          BY <2>1, <4>1, <4>2 DEF BlockShape
        <5> QED BY <2>3, <4>1, <5>1 DEF BlockShape
      <4>3. CASE f # "exc"
        BY <2>1, <4>1, <4>3
      <4> QED BY <4>2, <4>3
    <3> QED BY <1>1, <3>1, <3>2, <3>3 DEF RouteInv, Files
  <2>13. ap'.nets = (IF f = "ap" THEN now ELSE ap.nets) /\ user' = IF f = "user" THEN now ELSE user
    <3> HIDE DEF now
    <3> QED BY <2>1 DEF RouteInv, Files, RouteFile
  <2>14. Cuts(left, exclusion.want)
    <3> HIDE DEF left
    <3> QED BY <1>1, <2>10 DEF RouteInv, Planned, Cuts
  <2>15. ASSUME WillClear(exclusion.todo, exclusion.want, f, ns)
         PROVE  \A n \in now : n \cap exclusion.want = {}
    <3> TAKE n \in now
    <3>1. CASE n \in ns
      <4>1. \A p \in ps : p.old # n \/ n \in UNION {q.new : q \in ps}
        BY <3>1
      <4>2. CASE \E p \in ps : n \in p.new
        BY <1>1, <2>15, <4>2 DEF WillClear
      <4>3. CASE ~\E p \in ps : n \in p.new
        BY <1>1, <2>15, <3>1, <4>3 DEF WillClear
      <4> QED BY <4>2, <4>3
    <3>2. CASE n \notin ns
      <4>1. PICK p \in ps : n \in p.new
        BY <3>2
      <4> QED BY <1>1, <2>15, <4>1 DEF WillClear
    <3> QED BY <3>1, <3>2
  <2>16. ASSUME NEW h, NEW ms, h # f, WillClear(exclusion.todo, exclusion.want, h, ms)
         PROVE  WillClear(left, exclusion.want, h, ms)
    <3>1. h \in DOMAIN left <=> h \in DOMAIN exclusion.todo
      BY <2>10, <2>16
    <3>2. h \in DOMAIN left => left[h] = exclusion.todo[h]
      BY <2>10
    <3> HIDE DEF left
    <3> QED BY <2>16, <3>1, <3>2 DEF WillClear
  <2>17. ASSUME WillClear(exclusion.todo, exclusion.want, f, ns)
         PROVE  WillClear(left, exclusion.want, f, now)
    <3>1. f \notin DOMAIN left
      BY <2>10
    <3> HIDE DEF left, now
    <3> QED BY <2>15, <2>17, <3>1 DEF WillClear
  <2>18. ASSUME ~exclusion.skipped, ~exclusion.touched
         PROVE  WillClear(left, exclusion.want, "ap", ap'.nets) /\ WillClear(left, exclusion.want, "user", user')
    <3>1. WillClear(exclusion.todo, exclusion.want, "ap", ap.nets) /\ WillClear(exclusion.todo, exclusion.want, "user", user)
      BY <1>1, <2>18 DEF RouteInv, Planned
    <3> HIDE DEF left, now, ns
    <3>2. CASE f = "ap"
      <4>1. ns = ap.nets /\ ap'.nets = now /\ user' = user
        BY <1>2, <2>13, <3>2
      <4> QED BY <2>16, <2>17, <3>1, <3>2, <4>1
    <3>3. CASE f = "user"
      <4>1. ns = user /\ user' = now /\ ap'.nets = ap.nets
        BY <1>2, <2>13, <3>3
      <4> QED BY <2>16, <2>17, <3>1, <3>3, <4>1
    <3>4. CASE f = "exc"
      <4>1. user' = user /\ ap'.nets = ap.nets
        BY <2>13, <3>4
      <4> QED BY <2>16, <3>1, <3>4, <4>1
    <3> QED BY <3>2, <3>3, <3>4
  <2>19. Planned'
    <3> HIDE DEF left
    <3> QED BY <2>8, <2>9, <2>14, <2>18 DEF Planned
  <2> QED BY <2>6, <2>11, <2>12, <2>19 DEF RouteInv
<1> QED BY <1>3, <1>4

\* The steps of the lists of ips/ip_manager.py.
LEMMA ListActions ==
  ASSUME RouteInv,
         \/ EnableFile \/ SyncEnabled \/ DisableFile
         \/ PublishList \/ LoseList \/ RestoreSource
  PROVE  RouteInv' /\ last' = Other
<1>1. source \in RouteFile /\ ap \in RouteFile /\ user \in SUBSET Nets
  BY DEF RouteInv, Files
<1>2. Absent \in RouteFile /\ user \ source.nets \in SUBSET Nets
  BY <1>1 DEF Absent, RouteFile
<1>3. \A ns \in Lists : Present(ns) \in RouteFile
  BY GamesAssumption DEF Present, RouteFile
<1>4. \E l, a \in RouteFile : \E u \in SUBSET Nets : ListStep(l, a, u)
  <2>1. CASE EnableFile
    BY <1>1, <2>1 DEF EnableFile
  <2>2. CASE SyncEnabled
    BY <1>1, <2>2 DEF SyncEnabled
  <2>3. CASE DisableFile
    BY <1>1, <1>2, <2>3 DEF DisableFile
  <2>4. CASE PublishList
    BY <1>1, <1>3, <2>4 DEF PublishList
  <2>5. CASE LoseList
    BY <1>1, <1>2, <2>5 DEF LoseList
  <2>6. CASE RestoreSource
    BY <1>1, <2>6 DEF RestoreSource
  <2> QED BY <2>1, <2>2, <2>3, <2>4, <2>5, <2>6
<1> QED BY <1>4, ListStepInv

\* An exclusion is planned.
LEMMA PlanStep ==
  ASSUME RouteInv, NEW sel, NEW ripe, NEW dns, PlanExclude(sel, ripe, dns)
  PROVE  RouteInv' /\ last' = Other
<1> DEFINE want == UNION {Gathered(sel, ripe, dns)[g] : g \in Games}
           todo == Patches(want)
           found == UNION {Exclude1(c).split : c \in want}
           skipped == Patchable(want) # found \/ \E c \in want : Exclude1(c).skipped
           next == ExcludeBlock(sel, want)
<1>1. /\ exclusion' = [pc |-> "patch", todo |-> todo, next |-> next, cur |-> exc, want |-> Space(want),
                  touched |-> FALSE, skipped |-> skipped]
      /\ UNCHANGED <<source, ap, user, exc>> /\ last' = Other
  BY DEF PlanExclude
<1>2. want \in SUBSET Nets
  BY GatheredType
<1>3. Space(want) = UNION want
  BY SpaceIs
<1> HIDE DEF want
<1>4. /\ Cuts(todo, UNION want)
      /\ ~skipped => WillClear(todo, UNION want, "ap", ap.nets) /\ WillClear(todo, UNION want, "user", user)
  BY <1>2, PlanRight DEF RouteInv
<1>5. BlockShape(next)
  BY <1>2, BlockRight DEF RouteInv
<1> HIDE DEF todo, found, skipped, next
<1>6. Files'
  BY <1>1 DEF Files, RouteInv
<1>7. JobShape'
  BY <1>1, <1>5 DEF JobShape
<1>8. Planned'
  <2>1. exclusion'.todo = todo /\ exclusion'.want = UNION want /\ exclusion'.skipped = skipped
    BY <1>1, <1>3
  <2> QED BY <1>1, <1>4, <2>1 DEF Planned
<1> QED BY <1>1, <1>6, <1>7, <1>8 DEF RouteInv

\* The exclude file is written.
LEMMA WriteStep ==
  ASSUME RouteInv, WriteExclude
  PROVE  /\ RouteInv'
         /\ last'.op = "exclude"
         /\ last'.clean => ((UNION ap'.nets) \cup (UNION user')) \cap last'.want = {}
<1>1. /\ exclusion.pc = "patch" /\ exclusion.todo = << >>
      /\ exc' = IF exclusion.next = exclusion.cur THEN exc ELSE exclusion.next
      /\ last' = [op |-> "exclude", want |-> exclusion.want, block |-> exclusion.next, clean |-> ~exclusion.skipped /\ ~exclusion.touched]
      /\ exclusion' = NoExclusion /\ UNCHANGED <<source, ap, user>>
  BY DEF WriteExclude
<1>2. Files'
  BY <1>1 DEF RouteInv, Files, JobShape
<1>3. RouteInv'
  BY <1>1, <1>2, IdleShape DEF RouteInv
<1>4. last'.op = "exclude" /\ last'.want = exclusion.want /\ (last'.clean <=> ~exclusion.skipped /\ ~exclusion.touched)
  BY <1>1
<1>5. ASSUME last'.clean
      PROVE  ((UNION ap.nets) \cup (UNION user)) \cap exclusion.want = {}
  <2>1. WillClear(exclusion.todo, exclusion.want, "ap", ap.nets) /\ WillClear(exclusion.todo, exclusion.want, "user", user)
    BY <1>1, <1>4, <1>5 DEF RouteInv, Planned
  <2>2. "ap" \notin DOMAIN exclusion.todo /\ "user" \notin DOMAIN exclusion.todo
    BY <1>1
  <2>3. (\A n \in ap.nets : n \cap exclusion.want = {}) /\ (\A n \in user : n \cap exclusion.want = {})
    BY <2>1, <2>2 DEF WillClear
  <2> QED BY <2>3
<1> QED BY <1>1, <1>3, <1>4, <1>5

\* What every step does to the invariant and to the two properties.
LEMMA RouteStep ==
  ASSUME RouteInv, GamesNext
  PROVE  RouteInv' /\ PunchExact' /\ ExclusionComplete'
<1>1. ASSUME RouteInv', last' = Other  PROVE PunchExact' /\ ExclusionComplete'
  <2>1. last'.op = "other"
    BY <1>1 DEF Other
  <2> QED BY <2>1 DEF PunchExact, ExclusionComplete
<1>2. ASSUME NEW sel, NEW ripe, NEW dns, NEW enforced, NEW fail, SyncInclude(sel, ripe, dns, enforced, fail)
      PROVE  RouteInv' /\ PunchExact' /\ ExclusionComplete'
  <2>1. UNCHANGED <<source, ap, user, exc, exclusion>>
    BY <1>2 DEF SyncInclude
  <2>2. RouteInv'
    BY <2>1, RouteSame
  <2>3. last'.op \in {"include", "other"}
    BY <1>2 DEF SyncInclude, IncludeIps, Other
  <2> QED BY <2>2, <2>3 DEF PunchExact, ExclusionComplete
<1>3. ASSUME NEW sel, NEW ripe, NEW dns, PlanExclude(sel, ripe, dns)
      PROVE  RouteInv' /\ PunchExact' /\ ExclusionComplete'
  BY <1>1, <1>3, PlanStep
<1>4. ASSUME NEW f \in {"ap", "user", "exc"}, PatchFile(f)
      PROVE  RouteInv' /\ PunchExact' /\ ExclusionComplete'
  <2>1. /\ RouteInv'
        /\ \/ last' = Other
           \/ last'.op = "patch" /\ last'.lost \subseteq last'.want /\ last'.gained = {}
    BY <1>4, PatchStep
  <2> QED BY <1>1, <2>1 DEF PunchExact, ExclusionComplete
<1>5. CASE WriteExclude
  <2>1. /\ RouteInv' /\ last'.op = "exclude"
        /\ last'.clean => ((UNION ap'.nets) \cup (UNION user')) \cap last'.want = {}
    BY <1>5, WriteStep
  <2> QED BY <2>1 DEF PunchExact, ExclusionComplete, Space
<1>6. CASE ExcludeFails
  <2>1. exclusion' = NoExclusion /\ last' = Other /\ UNCHANGED <<source, ap, user, exc>>
    BY <1>6 DEF ExcludeFails
  <2>2. Files'
    BY <2>1 DEF RouteInv, Files
  <2> QED BY <1>1, <2>1, <2>2, IdleShape DEF RouteInv
<1>7. CASE \/ EnableFile \/ SyncEnabled \/ DisableFile
           \/ PublishList \/ LoseList \/ RestoreSource
  BY <1>1, <1>7, ListActions
<1> QED BY <1>2, <1>3, <1>4, <1>5, <1>6, <1>7 DEF GamesNext

\* The files hold networks, and every patch still to come takes excluded addresses only and,
\* while nobody touched the lists, will leave its file without any
\* (_finalize_include_patches against _apply_include_patches_to_files).
THEOREM RouteInvariance == GamesSpec => []RouteInv
<1>1. RouteInv /\ [GamesNext]_gameVars => RouteInv'
  <2>1. ASSUME RouteInv, UNCHANGED gameVars  PROVE RouteInv'
    BY <2>1, RouteSame DEF gameVars
  <2> QED BY <2>1, RouteStep
<1> QED BY <1>1, RouteInit, PTL DEF GamesSpec

\* A patch takes exactly addresses of the excluded networks out of a file and adds none,
\* whatever has happened to the files since the plan was made.
THEOREM PunchIsExact == GamesSpec => []PunchExact
<1>1. GamesInit => RouteInv /\ PunchExact
  <2>1. GamesInit => last.op = "other"
    BY DEF GamesInit, Other
  <2> QED BY <2>1, RouteInit DEF PunchExact
<1>2. RouteInv /\ PunchExact /\ [GamesNext]_gameVars => (RouteInv /\ PunchExact)'
  <2>1. ASSUME RouteInv, PunchExact, UNCHANGED gameVars  PROVE RouteInv' /\ PunchExact'
    BY <2>1, RouteSame DEF gameVars, PunchExact
  <2> QED BY <2>1, RouteStep
<1> QED BY <1>1, <1>2, PTL DEF GamesSpec

\* When an exclusion succeeds without giving up a network and nobody touched the lists in
\* between, no include route leads to an excluded address.
THEOREM ExclusionIsComplete == GamesSpec => []ExclusionComplete
<1>1. GamesInit => RouteInv /\ ExclusionComplete
  <2>1. GamesInit => last.op = "other"
    BY DEF GamesInit, Other
  <2> QED BY <2>1, RouteInit DEF ExclusionComplete
<1>2. RouteInv /\ ExclusionComplete /\ [GamesNext]_gameVars => (RouteInv /\ ExclusionComplete)'
  <2>1. ASSUME RouteInv, ExclusionComplete, UNCHANGED gameVars  PROVE RouteInv' /\ ExclusionComplete'
    BY <2>1, RouteSame DEF gameVars, ExclusionComplete
  <2> QED BY <2>1, RouteStep
<1> QED BY <1>1, <1>2, PTL DEF GamesSpec

\* A list of networks has a size.
LEMMA SizeNat == \A ns \in SUBSET Nets : IsFiniteSet(ns) /\ Cardinality(ns) \in Nat
  BY NetsFinite, FS_Subset, FS_CardinalityType

\* Counting routes is a sum.
LEMMA CountSum ==
  ASSUME NEW S, IsFiniteSet(S), NEW per
  PROVE  Count(per, S) = Sum([g \in S |-> Cardinality(per[g])], S)
<1> DEFINE k == [g \in S |-> Cardinality(per[g])]
           IsC(h) == h = [s \in SUBSET S |-> IF s = {} THEN 0 ELSE Cardinality(per[Some(s)]) + h[s \ {Some(s)}]]
           c == CHOOSE h : IsC(h)
<1>1. Count(per, S) = c[S]
  BY DEF Count, MapThenFoldSet, Some
<1>2. ASSUME NEW h  PROVE IsC(h) <=> IsSum(h, k, S)
  <2> DEFINE E(s) == IF s = {} THEN 0 ELSE Cardinality(per[Some(s)]) + h[s \ {Some(s)}]
             F(s) == IF s = {} THEN 0 ELSE k[Some(s)] + h[s \ {Some(s)}]
  <2>1. \A s \in SUBSET S : E(s) = F(s)
    BY SomeIn
  <2>2. (IsC(h) <=> h = [s \in SUBSET S |-> E(s)]) /\ (IsSum(h, k, S) <=> h = [s \in SUBSET S |-> F(s)])
    BY DEF IsSum
  <2> HIDE DEF E, F, IsC, k
  <2> QED BY <2>1, <2>2
<1> HIDE DEF k, IsC
<1>3. \E h : IsC(h)
  BY <1>2, SumExists
<1>4. IsC(c)
  BY <1>3
<1> HIDE DEF c
<1>5. IsSum(c, k, S)
  BY <1>2, <1>4
<1>6. Sum(k, S) = c[S]
  BY <1>5, SumByAny
<1> QED BY <1>1, <1>6 DEF k

\* What a game gets is added to what the others have.
LEMMA CountUpdate ==
  ASSUME NEW S, IsFiniteSet(S), NEW acc \in [S -> SUBSET Nets], NEW new \in [S -> SUBSET Nets],
         NEW g \in S, acc[g] = {}, \A h \in S \ {g} : new[h] = acc[h]
  PROVE  /\ Count(acc, S) \in Nat
         /\ Count(new, S) = Count(acc, S) + Cardinality(new[g])
<1> DEFINE a == [h \in S |-> Cardinality(acc[h])]
           b == [h \in S |-> Cardinality(new[h])]
           T == S \ {g}
<1>1. Count(acc, S) = Sum(a, S) /\ Count(new, S) = Sum(b, S)
  BY CountSum
<1>2. \A h \in S : acc[h] \in SUBSET Nets /\ new[h] \in SUBSET Nets
  OBVIOUS
<1>3. \A h \in S : a[h] \in Nat /\ b[h] \in Nat
  BY <1>2, SizeNat
<1>4. a[g] = 0 /\ b[g] = Cardinality(new[g]) /\ Cardinality(new[g]) \in Nat
  BY FS_EmptySet, SizeNat
<1>5. \A h \in T : a[h] = b[h]
  OBVIOUS
<1>6. IsFiniteSet(T) /\ T \subseteq S
  BY FS_Subset
<1> HIDE DEF a, b
<1>7. Sum(a, S) = a[g] + Sum(a, T) /\ Sum(b, S) = b[g] + Sum(b, T)
  BY <1>3, SumRemove
<1> HIDE DEF T
<1>8. Sum(b, T) = Sum(a, T)
  BY <1>3, <1>5, <1>6, SumSame
<1>9. Sum(a, T) \in Nat /\ Sum(a, S) \in Nat
  BY <1>3, <1>6, SumNat
<1> QED BY <1>1, <1>4, <1>7, <1>8, <1>9

\* Merging keeps the addresses, the limit of _summarize_provider_cidrs_no_overlap shortens the list.
LEMMA SummarizeFacts ==
  ASSUME NEW ns \in SUBSET Nets
  PROVE  /\ Collapse(ns) \in SUBSET Nets /\ UNION Collapse(ns) = UNION ns
         /\ ns = {} => Collapse(ns) = {}
         /\ \A k : Summarize(ns, k) \in SUBSET Nets /\ UNION Summarize(ns, k) \subseteq UNION ns
         /\ \A k \in Nat : Cardinality(Summarize(ns, k)) <= k
<1>1. UNION ns \in SUBSET (0 .. (Width - 1))
  BY NetFacts
<1>2. Collapse(ns) = Canonical(UNION ns)
  BY SpaceIs DEF Collapse
<1>3. Collapse(ns) \in SUBSET Nets /\ UNION Collapse(ns) = UNION ns
  <2> DEFINE A == UNION ns
  <2>1. A \in SUBSET (0 .. (Width - 1))
    BY <1>1
  <2> HIDE DEF A
  <2>2. Canonical(A) \in SUBSET Nets /\ UNION Canonical(A) = A
    BY <2>1, CanonicalSpace
  <2> QED BY <1>2, <2>2 DEF A
<1>4. ns = {} => Collapse(ns) = {}
  BY <1>3, NetFacts
<1> DEFINE m == Collapse(ns)
<1> HIDE DEF m
<1>5. ASSUME NEW k  PROVE CompressToLimit(m, k) \subseteq m
  BY DEF CompressToLimit, Leading
<1>6. ASSUME NEW k \in Nat  PROVE Cardinality(CompressToLimit(m, k)) <= k
  <2>1. m \in SUBSET Nets
    BY <1>3 DEF m
  <2> DEFINE free == {n \in m : ~\E e \in m : n # e /\ n \subseteq e}
             kept == CompressToLimit(m, k)
  <2>2. IsFiniteSet(free) /\ Cardinality(kept) = Smaller(k, Cardinality(free))
    BY <2>1, Compressed
  <2>3. Cardinality(free) \in Nat
    BY <2>2, FS_CardinalityType
  <2>4. Cardinality(kept) <= k
    BY <2>2, <2>3 DEF Smaller
  <2> QED BY <2>4
<1>7. \A k : Summarize(ns, k) = CompressToLimit(m, k)
  BY DEF Summarize, m
<1> QED BY <1>3, <1>4, <1>5, <1>6, <1>7 DEF m

\* What is left of a list that the other files do not route.
LEMMA TrimmedSpace ==
  ASSUME Files, NEW ns \in SUBSET Nets
  PROVE  LET out == UNION {TrimCidr(c, OverlapIndex) : c \in ns}
         IN  out \in SUBSET Nets /\ UNION out = (UNION ns) \ UNION {e.net : e \in OverlapIndex}
<1> DEFINE I == OverlapIndex
           O == UNION {e.net : e \in I}
           out == UNION {TrimCidr(c, I) : c \in ns}
<1>1. ASSUME NEW c \in ns
      PROVE  TrimCidr(c, I) \in SUBSET Nets /\ UNION TrimCidr(c, I) = c \ O
  <2> DEFINE over == Overlapping(c, I)
             D == UNION {e.net : e \in over}
  <2>1. over = {e \in I : e.net \cap c # {}}
    BY DEF Overlapping
  <2>2. TrimCidr(c, I) = IF over = {} THEN {c} ELSE Canonical(c \ D)
    BY SpaceIs DEF TrimCidr
  <2>3. c \ D = c \ O
    BY <2>1
  <2>4. over = {} => c \ O = c
    BY <2>1
  <2>5. c \ O \in SUBSET (0 .. (Width - 1))
    BY NetFacts
  <2>6. Canonical(c \ O) \in SUBSET Nets /\ UNION Canonical(c \ O) = c \ O
    BY <2>5, CanonicalSpace
  <2> HIDE DEF over, D, O, I
  <2> QED BY <2>2, <2>3, <2>4, <2>6
<1> HIDE DEF O, I
<1>2. out \in SUBSET Nets
  BY <1>1
<1>3. ASSUME NEW a \in UNION out  PROVE a \in (UNION ns) \ O
  <2>1. PICK c \in ns : a \in UNION TrimCidr(c, I)
    OBVIOUS
  <2> QED BY <1>1, <2>1
<1>4. ASSUME NEW a \in (UNION ns) \ O  PROVE a \in UNION out
  <2>1. PICK c \in ns : a \in c
    OBVIOUS
  <2>2. a \in UNION TrimCidr(c, I)
    BY <1>1, <2>1
  <2> QED BY <2>2
<1>5. UNION out = (UNION ns) \ O
  BY <1>3, <1>4
<1> QED BY <1>2, <1>5 DEF O, I

\* The game that is served last, and the function that serves the games in turn.
LastGame(s) == CHOOSE g \in s : \A h \in s : Rank[h] <= Rank[g]
Serve(per, g, acc) == [acc EXCEPT ![g] = Summarize(per[g], GameBudget - Count(acc, Games))]
IsServed(f, per, S) ==
    f = [s \in SUBSET S |-> IF s = {} THEN NoLines ELSE Serve(per, LastGame(s), f[s \ {LastGame(s)}])]

LEMMA SequentialFold ==
  ASSUME NEW per, NEW S
  PROVE  SequentialBudget(per, S) = (CHOOSE f : IsServed(f, per, S))[S]
  BY DEF SequentialBudget, MapThenFoldSet, IsServed, LastGame, Serve

LEMMA LastGameIn ==
  ASSUME NEW s \in SUBSET Games, s # {}
  PROVE  LastGame(s) \in s
<1> DEFINE k == [g \in Games |-> 0 - Rank[g]]
<1>1. Rank \in [Games -> Nat] /\ IsFiniteSet(Games)
  BY GamesAssumption
<1>2. IsFiniteSet(s) /\ \A g \in s : k[g] \in Int /\ Rank[g] \in Nat
  BY <1>1, FS_Subset
<1>3. \E g \in s : \A h \in s : k[g] <= k[h]
  <2> HIDE DEF k
  <2> QED BY <1>2, FiniteLeast
<1>4. \E g \in s : \A h \in s : Rank[h] <= Rank[g]
  <2>1. PICK g \in s : \A h \in s : k[g] <= k[h]
    BY <1>3
  <2>2. \A h \in s : 0 - Rank[g] <= 0 - Rank[h]
    BY <2>1
  <2>3. \A h \in s : Rank[h] <= Rank[g]
    <3> TAKE h \in s
    <3>1. Rank[g] \in Nat /\ Rank[h] \in Nat /\ 0 - Rank[g] <= 0 - Rank[h]
      BY <1>2, <2>2
    <3> QED BY <3>1
  <2> QED BY <2>3
<1> QED BY <1>4 DEF LastGame

Lines == [Games -> SUBSET Nets]

\* What is left of the limit.
LEMMA BudgetNat ==
  ASSUME Files
  PROVE  /\ NonGameRoutes \in Nat /\ RouteLimit \in Nat /\ GameBudget \in Nat
         /\ GameBudget = IF RouteLimit > NonGameRoutes THEN RouteLimit - NonGameRoutes ELSE 0
<1>1. Cardinality(ap.nets) \in Nat /\ Cardinality(user) \in Nat
  BY SizeNat DEF Files, RouteFile
<1>2. NonGameRoutes = Cardinality(ap.nets) + Cardinality(user)
  BY DEF NonGameRoutes
<1>3. RouteLimit \in Nat
  BY GamesAssumption
<1> QED BY <1>1, <1>2, <1>3 DEF GameBudget

\* Games served in turn get nothing that was not theirs and stay within the budget.
LEMMA ServedRight ==
  ASSUME Files, NEW per \in Lines, NEW S \in SUBSET Games
  PROVE  LET out == SequentialBudget(per, S)
         IN  /\ out \in Lines
             /\ \A g \in Games : UNION out[g] \subseteq UNION per[g]
             /\ Count(out, Games) <= GameBudget
<1>0. IsFiniteSet(Games) /\ IsFiniteSet(S) /\ GameBudget \in Nat
  BY GamesAssumption, FS_Subset, BudgetNat
<1>1. \A s \in SUBSET S : s # {} => LastGame(s) \in s /\ LastGame(s) \in Games
  BY LastGameIn
<1> DEFINE c == [s \in SUBSET S |-> LastGame(s)]
           step == [s \in SUBSET S |-> [acc \in Lines |-> IF s = {} THEN acc ELSE Serve(per, LastGame(s), acc)]]
<1>2. IsChoice(c, S)
  BY <1>1 DEF IsChoice
<1>3. Steps(step, Lines, S)
  <2>1. ASSUME NEW s \in SUBSET S, NEW acc \in Lines, s # {}  PROVE Serve(per, LastGame(s), acc) \in Lines
    <3> DEFINE g == LastGame(s)
               k == GameBudget - Count(acc, Games)
               X == Summarize(per[g], k)
    <3>1. g \in Games
      BY <1>1, <2>1
    <3>2. per[g] \in SUBSET Nets
      BY <3>1 DEF Lines
    <3> HIDE DEF g, k
    <3>3. X \in SUBSET Nets
      BY <3>2, SummarizeFacts
    <3>4. Serve(per, g, acc) = [acc EXCEPT ![g] = X]
      BY DEF Serve, k
    <3> HIDE DEF X
    <3>5. Serve(per, g, acc) \in Lines
      BY <3>3, <3>4 DEF Lines
    <3> QED BY <3>5 DEF g
  <2> QED BY <2>1 DEF Steps
<1>4. NoLines \in Lines /\ \A g \in Games : NoLines[g] = {}
  BY DEF NoLines, Lines
<1>5. PICK f : IsFold(f, c, step, NoLines, S) /\ f \in [SUBSET S -> Lines]
  <2> HIDE DEF c, step
  <2> QED BY <1>0, <1>2, <1>3, <1>4, FoldTyped
<1>6. \E h : IsServed(h, per, S)
  <2>1. ASSUME NEW s \in SUBSET S  PROVE f[s] = IF s = {} THEN NoLines ELSE step[s][f[s \ {c[s]}]]
    <3> HIDE DEF c, step
    <3> QED BY <1>5, IsFoldValue
  <2> DEFINE E(s) == IF s = {} THEN NoLines ELSE Serve(per, LastGame(s), f[s \ {LastGame(s)}])
  <2>2. ASSUME NEW s \in SUBSET S  PROVE f[s] = E(s)
    <3>1. f[s \ {LastGame(s)}] \in Lines
      BY <1>5
    <3> QED BY <2>1, <3>1
  <2>3. f = [s \in SUBSET S |-> f[s]]
    BY <1>5
  <2> HIDE DEF E
  <2>4. f = [s \in SUBSET S |-> E(s)]
    BY <2>2, <2>3
  <2> QED BY <2>4 DEF IsServed, E
<1> DEFINE h == CHOOSE h : IsServed(h, per, S)
<1>7. IsServed(h, per, S)
  BY <1>6
<1>8. SequentialBudget(per, S) = h[S]
  BY SequentialFold
<1> HIDE DEF h, c, step
<1>9. ASSUME NEW s \in SUBSET S
      PROVE  h[s] = IF s = {} THEN NoLines ELSE Serve(per, LastGame(s), h[s \ {LastGame(s)}])
  <2> DEFINE E(t) == IF t = {} THEN NoLines ELSE Serve(per, LastGame(t), h[t \ {LastGame(t)}])
  <2>1. h = [t \in SUBSET S |-> E(t)]
    BY <1>7 DEF IsServed
  <2> HIDE DEF E
  <2>2. h[s] = E(s)
    BY <2>1
  <2> QED BY <2>2 DEF E
<1> DEFINE Fine(s, out) == /\ out \in Lines /\ \A g \in Games \ s : out[g] = {}
                           /\ \A g \in Games : UNION out[g] \subseteq UNION per[g]
                           /\ Count(out, Games) \in Nat /\ Count(out, Games) <= GameBudget
           G == {s \in SUBSET S : Fine(s, h[s])}
<1>10. Fine({}, NoLines)
  <2>1. Count(NoLines, Games) = 0
    <3> DEFINE k == [g \in Games |-> Cardinality(NoLines[g])]
    <3>1. \A g \in Games : k[g] = 0
      BY <1>4, FS_EmptySet
    <3>2. Count(NoLines, Games) = Sum(k, Games)
      BY <1>0, CountSum
    <3> HIDE DEF k
    <3> QED BY <1>0, <3>1, <3>2, SumZero
  <2> QED BY <1>0, <1>4, <2>1
<1>11. ASSUME NEW s \in SUBSET S, s # {}, Fine(s \ {LastGame(s)}, h[s \ {LastGame(s)}])
       PROVE  Fine(s, h[s])
  <2> DEFINE g == LastGame(s)
             acc == h[s \ {g}]
             k == GameBudget - Count(acc, Games)
             X == Summarize(per[g], k)
  <2>1. g \in s /\ g \in Games
    BY <1>1, <1>11
  <2>2. h[s] = [acc EXCEPT ![g] = X]
    BY <1>9, <1>11 DEF Serve
  <2>3. acc \in Lines /\ acc[g] = {} /\ \A e \in Games \ s : acc[e] = {}
    BY <1>11, <2>1
  <2>4. \A e \in Games : UNION acc[e] \subseteq UNION per[e]
    BY <1>11
  <2>5. Count(acc, Games) \in Nat /\ Count(acc, Games) <= GameBudget
    BY <1>11
  <2> HIDE DEF g, acc
  <2>6. k \in Nat
    BY <1>0, <2>5
  <2>7. per[g] \in SUBSET Nets
    BY <2>1 DEF Lines
  <2> HIDE DEF k
  <2>8. X \in SUBSET Nets /\ UNION X \subseteq UNION per[g] /\ Cardinality(X) <= k
    BY <2>6, <2>7, SummarizeFacts
  <2>9. Cardinality(X) \in Nat
    BY <2>8, SizeNat
  <2> HIDE DEF X
  <2>10. h[s] \in Lines
    BY <2>2, <2>3, <2>8 DEF Lines
  <2>11. \A e \in Games : h[s][e] = IF e = g THEN X ELSE acc[e]
    BY <2>2, <2>3 DEF Lines
  <2>12. Count(h[s], Games) = Count(acc, Games) + Cardinality(X)
    <3> DEFINE new == h[s]
    <3>1. acc \in [Games -> SUBSET Nets] /\ new \in [Games -> SUBSET Nets]
      BY <2>3, <2>10 DEF Lines
    <3>2. new[g] = X /\ \A e \in Games \ {g} : new[e] = acc[e]
      BY <2>1, <2>11
    <3> HIDE DEF new
    <3>3. Count(new, Games) = Count(acc, Games) + Cardinality(new[g])
      BY <1>0, <2>1, <2>3, <3>1, <3>2, CountUpdate
    <3> QED BY <3>2, <3>3 DEF new
  <2>13. Count(h[s], Games) \in Nat /\ Count(h[s], Games) <= GameBudget
    BY <1>0, <2>5, <2>6, <2>8, <2>9, <2>12 DEF k
  <2>14. (\A e \in Games \ s : h[s][e] = {}) /\ \A e \in Games : UNION h[s][e] \subseteq UNION per[e]
    BY <2>1, <2>3, <2>4, <2>8, <2>11
  <2> QED BY <2>10, <2>13, <2>14
<1>12. ASSUME NEW s \in SUBSET S, \A t \in SUBSET s : t # s => t \in G
       PROVE  s \in G
  <2> HIDE DEF Fine
  <2>1. CASE s = {}
    BY <2>1, <1>9, <1>10
  <2>2. CASE s # {}
    <3> DEFINE t == s \ {LastGame(s)}
    <3>1. t \in SUBSET s /\ t # s
      BY <1>1, <2>2
    <3>2. Fine(t, h[t])
      <4> HIDE DEF t
      <4> QED BY <1>12, <3>1
    <3> QED BY <1>11, <2>2, <3>2
  <2> QED BY <2>1, <2>2
<1>13. \A s \in SUBSET S : (\A t \in SUBSET s : t # s => t \in G) => s \in G
  BY <1>12
<1>14. G \in SUBSET (SUBSET S)
  OBVIOUS
<1>15. S \in G
  <2> HIDE DEF G
  <2> QED BY <1>0, <1>13, <1>14, SetInduction
<1> QED BY <1>8, <1>15

\* Games without networks do not count.
LEMMA CountSub ==
  ASSUME NEW per \in Lines, NEW S \in SUBSET Games, \A g \in Games \ S : per[g] = {}
  PROVE  Count(per, S) = Count(per, Games) /\ Count(per, S) \in Nat
<1> DEFINE a == [g \in S |-> Cardinality(per[g])]
           b == [g \in Games |-> Cardinality(per[g])]
<1>1. IsFiniteSet(Games) /\ IsFiniteSet(S)
  BY GamesAssumption, FS_Subset
<1>2. Count(per, S) = Sum(a, S) /\ Count(per, Games) = Sum(b, Games)
  BY <1>1, CountSum
<1>3. \A g \in Games : per[g] \in SUBSET Nets
  BY DEF Lines
<1>4. \A g \in Games : b[g] \in Nat
  BY <1>3, SizeNat
<1>5. \A g \in S : a[g] = b[g]
  OBVIOUS
<1>6. \A g \in Games \ S : b[g] = 0
  BY FS_EmptySet
<1> HIDE DEF a, b
<1>7. Sum(b, S) = Sum(b, Games)
  BY <1>1, <1>4, <1>6, SumSub
<1>8. Sum(a, S) = Sum(b, S)
  BY <1>1, <1>4, <1>5, SumSame
<1>9. Sum(b, S) \in Nat
  BY <1>1, <1>4, SumNat
<1> QED BY <1>2, <1>7, <1>8, <1>9

\* The budget leaves nothing but addresses of the lists, and fits if it is enforced.
LEMMA WithinBudget ==
  ASSUME Files, NEW per \in Lines, NEW S \in SUBSET Games,
         \A g \in Games \ S : per[g] = {}, NEW enforced \in BOOLEAN
  PROVE  LET out == WithBudget(per, S, enforced)
         IN  /\ out \in Lines
             /\ \A g \in Games : UNION out[g] \subseteq UNION per[g]
             /\ enforced => Count(out, Games) \in Nat /\ Count(out, Games) <= GameBudget
<1> DEFINE merged == [g \in Games |-> Collapse(per[g])]
           out == WithBudget(per, S, enforced)
<1>1. \A g \in Games : per[g] \in SUBSET Nets
  BY DEF Lines
<1>2. \A g \in Games : merged[g] \in SUBSET Nets /\ UNION merged[g] = UNION per[g]
  BY <1>1, SummarizeFacts
<1>3. \A g \in Games \ S : merged[g] = {}
  BY <1>1, SummarizeFacts
<1>4. merged \in Lines
  BY <1>2 DEF Lines
<1>5. out = IF ~enforced \/ Count(per, S) <= GameBudget THEN per
            ELSE IF Count(merged, S) <= GameBudget THEN merged ELSE SequentialBudget(merged, S)
  BY DEF WithBudget
<1> HIDE DEF merged, out
<1>6. Count(per, S) = Count(per, Games) /\ Count(per, S) \in Nat
  BY CountSub
<1>7. Count(merged, S) = Count(merged, Games) /\ Count(merged, S) \in Nat
  BY <1>3, <1>4, CountSub
<1> DEFINE served == SequentialBudget(merged, S)
<1>8. /\ served \in Lines /\ \A g \in Games : UNION served[g] \subseteq UNION merged[g]
      /\ Count(served, Games) <= GameBudget
  BY <1>4, ServedRight
<1>9. Count(served, Games) \in Nat
  <2> DEFINE all == Games
  <2>1. all \in SUBSET Games /\ \A g \in Games \ all : served[g] = {}
    OBVIOUS
  <2> HIDE DEF served, all
  <2>2. Count(served, all) \in Nat
    BY <1>8, <2>1, CountSub
  <2> QED BY <2>2 DEF all
<1> HIDE DEF served
<1>10. out \in {per, merged, served}
  BY <1>5 DEF served
<1>11. out \in Lines /\ \A g \in Games : UNION out[g] \subseteq UNION per[g]
  BY <1>2, <1>4, <1>8, <1>10
<1>12. enforced => Count(out, Games) \in Nat /\ Count(out, Games) <= GameBudget
  BY <1>5, <1>6, <1>7, <1>8, <1>9 DEF served
<1> QED BY <1>11, <1>12 DEF out

\* The lines of the games against what was asked for, the other files and the budget.
LinesFine(got, lines, enforced) ==
    LET O == UNION {e.net : e \in OverlapIndex}
    IN  /\ \A g \in Games : UNION lines[g] \subseteq (UNION got[g]) \ O
        /\ lines = Trimmed(got) => \A g \in Games : UNION got[g] \subseteq (UNION lines[g]) \cup O
        /\ enforced => Count(lines, Games) \in Nat /\ Count(lines, Games) <= GameBudget

\* The block of a synchronisation.
LEMMA IncludeRight ==
  ASSUME Files, NEW sel \in SUBSET Games, NEW ripe, NEW dns, NEW enforced \in BOOLEAN
  PROVE  LinesFine(Gathered(sel, ripe, dns),
                   IncludeBlock(Gathered(sel, ripe, dns), sel, enforced).lines, enforced)
<1> DEFINE got == Gathered(sel, ripe, dns)
           per == Trimmed(got)
           block == IncludeBlock(got, sel, enforced)
           O == UNION {e.net : e \in OverlapIndex}
<1>1. \A g \in Games : got[g] \in SUBSET Nets /\ (g \notin sel => got[g] = {})
  BY GatheredType
<1>2. \A g \in Games : per[g] = UNION {TrimCidr(c, OverlapIndex) : c \in got[g]}
  BY DEF Trimmed
<1> HIDE DEF got
<1>3. \A g \in Games : per[g] \in SUBSET Nets /\ UNION per[g] = (UNION got[g]) \ O
  <2> TAKE g \in Games
  <2> DEFINE ns == got[g]
             left == UNION {TrimCidr(c, OverlapIndex) : c \in ns}
  <2>1. ns \in SUBSET Nets
    BY <1>1
  <2>2. per[g] = left
    BY <1>2
  <2> HIDE DEF ns
  <2>3. left \in SUBSET Nets /\ UNION left = (UNION ns) \ O
    BY <2>1, TrimmedSpace
  <2> HIDE DEF left, O, per
  <2> QED BY <2>2, <2>3 DEF ns
<1>4. \A g \in Games \ sel : per[g] = {}
  BY <1>1, <1>2
<1>5. per \in Lines
  <2>1. per = [g \in Games |-> per[g]]
    BY DEF Trimmed
  <2> HIDE DEF per
  <2> QED BY <1>3, <2>1 DEF Lines
<1>6. block = IF UNION {got[g] : g \in Games} = {} THEN [keys |-> {}, lines |-> NoLines]
              ELSE [keys |-> sel, lines |-> WithBudget(per, sel, enforced)]
  BY DEF IncludeBlock
<1> HIDE DEF per, O, block
<1>7. CASE UNION {got[g] : g \in Games} = {}
  <2>1. \A g \in Games : got[g] = {}
    BY <1>7
  <2>2. block.lines = NoLines /\ \A g \in Games : NoLines[g] = {}
    BY <1>6, <1>7 DEF NoLines
  <2>3. NoLines \in Lines
    BY DEF NoLines, Lines
  <2>4. Count(NoLines, Games) = 0
    <3> DEFINE k == [g \in Games |-> Cardinality(NoLines[g])]
    <3>1. \A g \in Games : k[g] = 0
      BY <2>2, FS_EmptySet
    <3>2. IsFiniteSet(Games)
      BY GamesAssumption
    <3>3. Count(NoLines, Games) = Sum(k, Games)
      BY <3>2, CountSum
    <3> HIDE DEF k
    <3> QED BY <3>1, <3>2, <3>3, SumZero
  <2>5. GameBudget \in Nat
    BY BudgetNat
  <2> QED BY <2>1, <2>2, <2>4, <2>5 DEF LinesFine, block, got
<1>8. CASE UNION {got[g] : g \in Games} # {}
  <2> DEFINE out == WithBudget(per, sel, enforced)
  <2>1. block.lines = out
    BY <1>6, <1>8
  <2>2. /\ out \in Lines /\ \A g \in Games : UNION out[g] \subseteq UNION per[g]
        /\ enforced => Count(out, Games) \in Nat /\ Count(out, Games) <= GameBudget
    BY <1>4, <1>5, WithinBudget
  <2> HIDE DEF out
  <2>3. \A g \in Games : UNION out[g] \subseteq (UNION got[g]) \ O
    BY <1>3, <2>2
  <2>4. out = per => \A g \in Games : UNION got[g] \subseteq (UNION out[g]) \cup O
    BY <1>3
  <2> QED BY <2>1, <2>2, <2>3, <2>4 DEF LinesFine, block, O, got, per
<1> QED BY <1>7, <1>8

\* A synchronisation of the game filter.
LEMMA TrimStep ==
  ASSUME RouteInv, NEW sel \in SUBSET Games, NEW ripe, NEW dns, NEW enforced \in BOOLEAN,
         NEW fail, SyncInclude(sel, ripe, dns, enforced, fail)
  PROVE  TrimExact'
<1> DEFINE got == Gathered(sel, ripe, dns)
           block == IncludeBlock(got, sel, enforced)
           lines == block.lines
           O == UNION {e.net : e \in OverlapIndex}
           W == UNION {Space(got[g]) : g \in Games}
<1>1. CASE fail # "none"
  <2>1. last' = Other
    BY <1>1 DEF SyncInclude
  <2>2. last'.op = "other"
    BY <2>1 DEF Other
  <2> QED BY <2>2 DEF TrimExact
<1>2. CASE fail = "none"
  <2>1. /\ inc' = block /\ ap' = ap /\ user' = user /\ exc' = exc
        /\ last' = [op |-> "include", want |-> W, enforced |-> enforced, cut |-> lines # Trimmed(got)]
    BY <1>2 DEF SyncInclude, IncludeIps
  <2>2. Files
    BY DEF RouteInv
  <2>3. /\ \A g \in Games : UNION lines[g] \subseteq (UNION got[g]) \ O
        /\ lines = Trimmed(got) => \A g \in Games : UNION got[g] \subseteq (UNION lines[g]) \cup O
        /\ enforced => Count(lines, Games) \in Nat /\ Count(lines, Games) <= GameBudget
    <3>1. LinesFine(got, lines, enforced)
      BY <2>2, IncludeRight
    <3> HIDE DEF lines, got
    <3> QED BY <3>1 DEF LinesFine
  <2>4. OtherSpace = O
    BY <2>2, IndexFacts DEF OtherSpace, Space
  <2>5. OtherSpace' = OtherSpace /\ NonGameRoutes' = NonGameRoutes
    BY <2>1 DEF OtherSpace, NonGameRoutes
  <2>6. GameSpace' = UNION {UNION lines[g] : g \in Games}
    BY <2>1 DEF GameSpace, Space
  <2>7. W = UNION {UNION got[g] : g \in Games}
    BY DEF Space
  <2>8. Count(inc'.lines, Games) = Count(lines, Games)
    BY <2>1
  <2> DEFINE cut == lines # Trimmed(got)
  <2>9. last'.want = W /\ last'.enforced = enforced /\ (~cut => lines = Trimmed(got)) /\ last'.cut = cut
    BY <2>1
  <2> HIDE DEF got, block, lines, O, W, cut
  <2>10. GameSpace' \subseteq last'.want \ OtherSpace'
    BY <2>3, <2>4, <2>5, <2>6, <2>7, <2>9
  <2>11. ~last'.cut => last'.want \subseteq GameSpace' \cup OtherSpace'
    <3> SUFFICES ASSUME ~last'.cut, NEW a \in W  PROVE a \in (UNION {UNION lines[g] : g \in Games}) \cup O
      BY <2>4, <2>5, <2>6, <2>9
    <3>1. PICK g \in Games : a \in UNION got[g]
      BY <2>7
    <3>2. a \in (UNION lines[g]) \cup O
      BY <2>3, <2>9, <3>1
    <3> QED BY <3>2
  <2>12. last'.enforced => Count(inc'.lines, Games) \in {0} \cup 0 .. (RouteLimit - NonGameRoutes')
    <3> DEFINE n == Count(lines, Games)
    <3>1. /\ NonGameRoutes \in Nat /\ RouteLimit \in Nat
          /\ GameBudget = IF RouteLimit > NonGameRoutes THEN RouteLimit - NonGameRoutes ELSE 0
      BY <2>2, BudgetNat
    <3>2. enforced => n \in Nat /\ n <= GameBudget
      BY <2>3
    <3> HIDE DEF n
    <3>3. enforced => n \in {0} \cup 0 .. (RouteLimit - NonGameRoutes)
      BY <3>1, <3>2
    <3> QED BY <2>5, <2>8, <2>9, <3>3 DEF n
  <2> QED BY <2>10, <2>11, <2>12 DEF TrimExact
<1> QED BY <1>1, <1>2

\* After the game filter is synchronised its routes repeat nothing that another file holds,
\* add nothing that was not asked for, leave nothing out unless the budget made them shorter,
\* and do not take the include files over an enforced limit.
THEOREM TrimIsExact == GamesSpec => []TrimExact
<1>1. GamesInit => RouteInv /\ TrimExact
  <2>1. GamesInit => last.op = "other"
    BY DEF GamesInit, Other
  <2> QED BY <2>1, RouteInit DEF TrimExact
<1>2. RouteInv /\ TrimExact /\ [GamesNext]_gameVars => (RouteInv /\ TrimExact)'
  <2>1. ASSUME RouteInv, TrimExact, UNCHANGED gameVars  PROVE RouteInv' /\ TrimExact'
    BY <2>1, RouteSame DEF gameVars, TrimExact, GameSpace, OtherSpace, NonGameRoutes
  <2>2. ASSUME RouteInv, GamesNext  PROVE TrimExact'
    <3>1. ASSUME NEW sel \in GameKeys, NEW ripe, NEW dns, NEW enforced \in BOOLEAN, NEW fail,
                 SyncInclude(sel, ripe, dns, enforced, fail)
          PROVE  TrimExact'
      BY <2>2, <3>1, TrimStep DEF GameKeys
    <3>2. ASSUME last'.op # "include"  PROVE TrimExact'
      BY <3>2 DEF TrimExact
    <3>3. ASSUME last' = Other  PROVE TrimExact'
      <4>1. last'.op = "other"
        BY <3>3 DEF Other
      <4> QED BY <3>2, <4>1
    <3>4. ASSUME NEW sel, NEW ripe, NEW dns, PlanExclude(sel, ripe, dns)  PROVE TrimExact'
      BY <3>3, <3>4 DEF PlanExclude
    <3>5. ASSUME NEW f \in {"ap", "user", "exc"}, PatchFile(f)  PROVE TrimExact'
      BY <2>2, <3>2, <3>3, <3>5, PatchStep
    <3>6. CASE WriteExclude
      BY <2>2, <3>2, <3>6, WriteStep
    <3>7. CASE ExcludeFails
      BY <3>3, <3>7 DEF ExcludeFails
    <3>8. CASE \/ EnableFile \/ SyncEnabled \/ DisableFile
               \/ PublishList \/ LoseList \/ RestoreSource
      BY <2>2, <3>3, <3>8, ListActions
    <3> QED BY <2>2, <3>1, <3>4, <3>5, <3>6, <3>7, <3>8 DEF GamesNext
  <2> QED BY <2>1, <2>2, RouteStep
<1> QED BY <1>1, <1>2, PTL DEF GamesSpec
=============================================================================
