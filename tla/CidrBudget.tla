----------------------------- MODULE CidrBudget -----------------------------
(***************************************************************************)
(* The total route limit (cidr/route_limits.py, _apply_total_route_limit,  *)
(* and its copy for the preview in cidr/db_pipeline.py): how many routes   *)
(* each provider may keep when all of them together exceed the limit.  The *)
(* argument c gives the number of routes of every provider that has any;   *)
(* o is the request: its limit, the mandatory providers, the preferred     *)
(* ones and the number of routes a preferred provider is promised.         *)
(*                                                                         *)
(* Shares are fractions here and floats in the code: with equal fractions  *)
(* the rounding of a float may break the tie the other way.                *)
(***************************************************************************)
EXTENDS Integers, FiniteSets, Folds

CONSTANTS
    Provider,
    Order           \* the order of the files in the request

ASSUME OrderAssumption ==
    /\ IsFiniteSet(Provider) /\ Order \in [Provider -> Nat]
    /\ \A p, q \in Provider : Order[p] = Order[q] => p = q

Sum(f, S) == MapThenFoldSet(+, 0, LAMBDA p : f[p], LAMBDA s : CHOOSE p \in s : TRUE, S)
Total(f) == Sum(f, DOMAIN f)

Smaller(m, n) == IF m < n THEN m ELSE n
Larger(m, n) == IF m > n THEN m ELSE n

\* sorted(..., reverse=True) is stable: equal keys stay in the order of the files.
Earlier(p, q, Key(_)) == Key(p) > Key(q) \/ (Key(p) = Key(q) /\ Order[p] < Order[q])
Firsts(S, n, Key(_)) == {p \in S : Cardinality({q \in S : Earlier(q, p, Key)}) < n}

Favoured(o) == o.priority \cup o.mandatory

\* Fewer routes than providers: one each, mandatory or preferred providers first.
OneEach(c, o) ==
    LET S == DOMAIN c
        first == IF o.mandatory # {} THEN o.mandatory
                 ELSE IF o.promise > 0 THEN Favoured(o) ELSE {}
        Size(p) == IF p \in first /\ o.mandatory = {} THEN 0 ELSE c[p]
        head == Firsts(S \cap first, o.limit, Size)
        chosen == head \cup Firsts(S \ first, o.limit - Cardinality(head), Size)
    IN  [p \in S |-> IF p \in chosen THEN 1 ELSE 0]

\* Mutant: a mandatory provider has no route of its own.
ReservedNot(c, o) ==
    [p \in DOMAIN c |-> IF p \in Favoured(o) THEN Smaller(c[p], o.promise) ELSE 0]

\* One route for a mandatory provider, the promised number for a preferred one; if that is
\* too much, one for each of them.
Reserved(c, o) ==
    LET base == [p \in DOMAIN c |-> IF p \in o.mandatory THEN 1 ELSE 0]
        wish == [p \in DOMAIN c |-> IF p \in Favoured(o) THEN Larger(base[p], Smaller(c[p], o.promise))
                                    ELSE base[p]]
    IN  IF Total(wish) <= o.limit THEN wish
        ELSE [p \in DOMAIN c |-> IF p \in Favoured(o) THEN 1 ELSE 0]

\* What is left is shared in proportion to what each one still has.
Shared(c, r, o) ==
    LET left == Larger(o.limit - Total(r), 0)
        room == [p \in DOMAIN c |-> c[p] - r[p]]
        all == Total(room)
    IN  [p \in DOMAIN c |-> IF left = 0 \/ all = 0 THEN 0
                            ELSE Smaller(room[p], (room[p] * left) \div all)]

\* The routes lost by rounding go to the largest fraction first, as many as it can take.
Rounding(c, r, s, o) ==
    LET left == Larger(o.limit - Total(r), 0)
        room == [p \in DOMAIN c |-> c[p] - r[p]]
        all == Total(room)
        Fraction(p) == IF all = 0 THEN 0 ELSE (room[p] * left) % all
        spare == [p \in DOMAIN c |-> c[p] - r[p] - s[p]]
        rest == IF left = 0 \/ all = 0 THEN 0 ELSE left - Total(s)
        before == [p \in DOMAIN c |-> Sum(spare, {q \in DOMAIN c : Earlier(q, p, Fraction)})]
    IN  [p \in DOMAIN c |-> Smaller(spare[p], Larger(rest - before[p], 0))]

\* _apply_total_route_limit: the budgets, if the limit is exceeded.
Budgets(c, o) ==
    IF o.limit < Cardinality(DOMAIN c) THEN OneEach(c, o)
    ELSE LET r == Reserved(c, o)
             s == Shared(c, r, o)
             x == Rounding(c, r, s, o)
         IN  [p \in DOMAIN c |-> r[p] + s[p] + x[p]]

-----------------------------------------------------------------------------
\* The copy of the preview, _apply_total_route_limit_counts: on counts, with the sums and
\* bounds that its own loops use.

\* One line of all providers, the preferred ones in front, cut off at the limit.
EstimateOneEach(c, o) ==
    LET front == IF o.mandatory # {} THEN o.mandatory
                 ELSE IF o.promise > 0 THEN Favoured(o) ELSE {}
        Size(p) == IF p \in front /\ o.mandatory = {} THEN 0 ELSE c[p]
        before(p) == {q \in DOMAIN c : \/ q \in front /\ p \notin front
                                       \/ (q \in front <=> p \in front) /\ Earlier(q, p, Size)}
    IN  [p \in DOMAIN c |-> IF Cardinality(before(p)) < o.limit THEN 1 ELSE 0]

\* Twice the largest ones are served alone if more is set aside than there is.
EstimateReserved(c, o) ==
    LET Size(p) == c[p]
        Largest(S) == Firsts(S \cap DOMAIN c, o.limit, Size)
        One(S) == [p \in DOMAIN c |-> IF p \in S THEN 1 ELSE 0]
        must == IF Total(One(o.mandatory)) > o.limit THEN One(Largest(o.mandatory)) ELSE One(o.mandatory)
        wish == [p \in DOMAIN c |-> IF o.promise > 0 /\ p \in Favoured(o)
                                    THEN Larger(must[p], Smaller(c[p], o.promise)) ELSE must[p]]
    IN  IF Total(wish) > o.limit THEN One(Largest(Favoured(o))) ELSE wish

\* Mutant: the last loop is missing.
EstimateSharesFloor(c, r, o) ==
    LET left == Larger(o.limit - Total(r), 0)
        room == [p \in DOMAIN c |-> Larger(0, c[p] - r[p])]
        all == Total(room)
    IN  IF left = 0 \/ all = 0 THEN r
        ELSE [p \in DOMAIN c |-> r[p] + Smaller(room[p], (room[p] * left) \div all)]

\* The shares are added to the budgets, and the last loop fills these up to the counts.
EstimateShares(c, r, o) ==
    LET left == Larger(o.limit - Total(r), 0)
        room == [p \in DOMAIN c |-> Larger(0, c[p] - r[p])]
        all == Total(room)
        Fraction(p) == (room[p] * left) % all
        b == [p \in DOMAIN c |-> r[p] + Smaller(room[p], (room[p] * left) \div all)]
        lack == [p \in DOMAIN c |-> c[p] - b[p]]
        used(p) == Total(b) + Sum(lack, {q \in DOMAIN c : Earlier(q, p, Fraction)})
    IN  IF left = 0 \/ all = 0 THEN r
        ELSE [p \in DOMAIN c |-> b[p] + Smaller(lack[p], Larger(o.limit - used(p), 0))]

EstimateBudgets(c, o) ==
    IF o.limit < Cardinality(DOMAIN c) THEN EstimateOneEach(c, o)
    ELSE LET b == EstimateShares(c, EstimateReserved(c, o), o)
         IN  [p \in DOMAIN c |-> Smaller(c[p], Larger(0, b[p]))]
=============================================================================
