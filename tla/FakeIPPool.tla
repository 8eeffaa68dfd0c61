----------------------------- MODULE FakeIPPool -----------------------------
(***************************************************************************)
(* The address pool of proxy.py (class FakeIPPool).  An address is its     *)
(* integer value, as int(ip_address(...)) gives it; a network is a record  *)
(* [base, size] with size = num_addresses.  A pool is the record of the    *)
(* attributes the class keeps.  0 stands for Python's None: no host        *)
(* address is 0, because its offset in the network is at least 1.          *)
(***************************************************************************)
EXTENDS Integers

None == 0

\* The addresses claim accepts and allocate may return: neither the network
\* address nor the last one.
Hosts(net) == (net.base + 1) .. (net.base + net.size - 2)

NewPool == [used |-> {}, released |-> {}, next_offset |-> 1]

\* Mutants of Ahead and Released: the bound of the scan is one too high; release
\* forgets the address.
AheadOverrun(pool, net) ==
    {a \in (net.base + pool.next_offset) .. (net.base + net.size - 1) : a \notin pool.used}
ReleasedLeak(pool, A) == [pool EXCEPT !.used = @ \ A]

\* Addresses the forward scan of allocate can still reach.
Ahead(pool, net) ==
    {a \in Hosts(net) : a >= net.base + pool.next_offset /\ a \notin pool.used}

\* allocate() returns one of these; set.pop() takes any released address.
Allocations(pool, net) ==
    IF pool.released # {} THEN pool.released
    ELSE {a \in Ahead(pool, net) : \A b \in Ahead(pool, net) : a <= b}

\* The pool after allocate() returned a, or None when nothing was left: the
\* scan has then moved next_offset to the end of the network.
Allocated(pool, net, a) ==
    [used |-> IF a = None THEN pool.used ELSE pool.used \cup {a},
     released |-> pool.released \ {a},
     next_offset |->
        IF pool.released # {} THEN pool.next_offset
        ELSE IF a # None THEN a - net.base + 1
        ELSE IF pool.next_offset < net.size - 1 THEN net.size - 1
        ELSE pool.next_offset]

Released(pool, A) ==
    [pool EXCEPT !.used = @ \ A, !.released = @ \cup (A \cap pool.used)]

\* The pool after claim() accepted every address of A, starting from __init__.
Claimed(A) == [NewPool EXCEPT !.used = A]
=============================================================================
