----------------------------- MODULE RouteNets ------------------------------
(***************************************************************************)
(* The arithmetic on IPv4 networks that the route lists are built with     *)
(* (cidr/games.py, cidr/route_limits.py, cidr/parsers.py).  A network is   *)
(* the set of its addresses: an aligned block of 2^k addresses.  The       *)
(* network of prefix length 0, which _normalize_cidrs drops, lies outside  *)
(* the space of the model.                                                 *)
(***************************************************************************)
EXTENDS Integers, FiniteSets, Folds

CONSTANT Bits   \* the address space has 2^Bits addresses

ASSUME NetsAssumption == Bits \in Nat

Block(k, b) == (b * 2^k) .. (b * 2^k + 2^k - 1)

Nets == UNION {{Block(k, b) : b \in 0 .. (2^(Bits - k) - 1)} : k \in 0 .. Bits}

Space(ns) == UNION ns

First(n) == CHOOSE a \in n : \A b \in n : a <= b

\* The networks in the order of sorted(..., key = address), wider ones first.
Address(n) == First(n) * 2^(Bits + 1) - Cardinality(n)

\* The k members of S that come first by the key.
Leading(S, k, Key(_)) == {x \in S : Cardinality({y \in S : Key(y) < Key(x)}) < k}

\* The coarsest set of networks that covers exactly these addresses: what
\* collapse_addresses, cidr_merge and IPSet return.
Canonical(addresses) ==
    {n \in Nets : /\ n \subseteq addresses
                  /\ \A m \in Nets : n \subseteq m /\ m \subseteq addresses => m = n}

Collapse(ns) == Canonical(Space(ns))

Overlapping(c, entries) == {e \in entries : e.net \cap c # {}}

\* An include candidate keeps what no route of the other files covers.
TrimCidr(c, entries) ==
    LET over == Overlapping(c, entries)
    IN  IF over = {} THEN {c} ELSE Canonical(c \ Space({e.net : e \in over}))

\* _compress_cidrs_to_limit: networks inside another one are dropped, and the widest
\* ones are kept if that is not enough.
WidestFirst(n) == First(n) - Cardinality(n) * 2^Bits

CompressToLimit(ns, limit) ==
    LET free == {n \in ns : ~\E m \in ns : n # m /\ n \subseteq m}
    IN  Leading(free, limit, WidestFirst)

\* _summarize_provider_cidrs_no_overlap
Summarize(ns, budget) == CompressToLimit(Collapse(ns), budget)
=============================================================================
