--------------------------- MODULE MCCidrPipeline ---------------------------
EXTENDS CidrPipeline, TLC

CONSTANTS p1, p2, p3

MCOrder == p1 :> 1 @@ p2 :> 2 @@ p3 :> 3
Host(a) == {a}
Half(b) == {2 * b, 2 * b + 1}

\* One network, two that stay two in a file, three that become one, six of which two contain
\* the others.
Few == {Half(1)}
Pair == {Host(0), Half(1)}
Some == {Host(0), Host(1), Half(1)}
Many == {Host(0), Host(1), Host(2), Host(3), Half(0), Half(1)}
Source(ns, geo) == [nets |-> ns, geo |-> geo]
MCSources == p1 :> {Source(Few, FALSE)} @@ p2 :> {Source(Few, FALSE), Source(Many, TRUE)} @@ p3 :> {Source(Pair, TRUE)}
MCHinted == p1 :> {{Host(0), Host(1)}} @@ p2 :> {} @@ p3 :> {}
MCScanned == p1 :> {Many} @@ p2 :> {} @@ p3 :> {}
MCRegion == {Host(0), Half(0), Host(2)}
MCStrictRegion == {Host(0), Half(0)}
MCNoRegion == {Host(1), Half(1)}
MCRu == {Half(1)}
MCBlocked == {{}, {Host(0)}}
MCShipped == p1 :> {Host(3)} @@ p2 :> {Host(3)}
MCSelections == {Provider, {p1}}

Plain == [limit |-> 4, enforced |-> TRUE, mandatory |-> {}, priority |-> {}, promise |-> 0,
          scope |-> "all", strict |-> FALSE, fallback |-> FALSE, ru |-> FALSE, af |-> FALSE]
Tight == [Plain EXCEPT !.limit = 2, !.mandatory = {p1}]
Promise == [Plain EXCEPT !.limit = 7, !.priority = {p2}, !.promise = 2, !.mandatory = {p1}]
Scarce == [Plain EXCEPT !.limit = 2, !.priority = {p3}, !.promise = 2]
Strict == [Plain EXCEPT !.scope = "some", !.strict = TRUE, !.ru = TRUE]
Fallback == [Plain EXCEPT !.scope = "some", !.fallback = TRUE, !.limit = 3]
Blocking == [Plain EXCEPT !.af = TRUE]
MCOptions == {Plain, [Plain EXCEPT !.enforced = FALSE], Tight, Promise, Scarce, Strict, Fallback, Blocking}
MCPublished == {Tight, Strict, Blocking}
MCSymmetry == Permutations(Refresher)
MCDirect == {Fallback}
=============================================================================
