--------------------------- MODULE MCFakeIPProxy ---------------------------
(* Instances of FakeIPProxy for TLC. *)
EXTENDS FakeIPProxy, TLC
CONSTANTS a, b, c

\* Two IPv4 addresses and one IPv6 address; each pool has one host address, so
\* that exhaustion and reuse happen, and the IPv4 range can be moved.
McReal == {a, b, c}
McFamilyOf == (a :> 4) @@ (b :> 4) @@ (c :> 6)
McNets == (4 :> {[base |-> 0, size |-> 3], [base |-> 1, size |-> 3]}) @@ (6 :> {[base |-> 0, size |-> 3]})

\* The IPv4 pool is {1, 2} or, when the setup file moves it, {2}: scans pass claimed
\* addresses, and pools run out.
WideNets == (4 :> {[base |-> 0, size |-> 4], [base |-> 1, size |-> 3]}) @@ (6 :> {[base |-> 0, size |-> 3]})

\* The threads are interchangeable.
ThreadSymmetry == Permutations(Thread)
=============================================================================
