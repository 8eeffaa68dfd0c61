------------------------- MODULE FakeIPProxyProofs -------------------------
(***************************************************************************)
(* The type and the safety invariants of FakeIPProxy, proved for every     *)
(* value of its constants.  One inductive invariant, MInv, ties the five   *)
(* places an address lives in (pool, table, thread, chain, resolver cache) *)
(* together.                                                               *)
(***************************************************************************)
EXTENDS FakeIPProxy, WellFoundedInduction, TLAPS

-----------------------------------------------------------------------------
(* Types *)

\* What TypeOK needs to be inductive: a thread holds an address and the record
\* it is for exactly inside its critical section, and a dead
\* process flushes nothing.
ReqOK ==
    /\ proc = "down" => flushing = {}
    /\ \A t \in Thread :
        /\ req[t].pc \in {"install", "record"} =>
             req[t].fake \in Address /\ \E r \in req[t].todo : req[t].cur = {r}
        /\ req[t].pc \notin {"install", "record"} => req[t].cur = {}

TInv == TypeOK /\ ReqOK

\* No address is None.
LEMMA AddressPositive == Address \subseteq Nat \ {None}
  BY ConstantsAssumption DEF Address, Hosts, None, Network

\* Every host of a configured network is an address.
LEMMA HostsAreAddresses ==
  ASSUME NEW f \in Family, NEW n \in NetChoices[f]
  PROVE  Hosts(n) \subseteq Address
  BY DEF Address

\* allocate returns an address of the pool's network.
LEMMA AllocationsType ==
  ASSUME TypeOK, NEW f \in Family, NEW a \in Allocations(pools[f], nets[f])
  PROVE  /\ a \in Address
         /\ Allocated(pools[f], nets[f], a) \in PoolType
<1>1. nets[f] \in NetChoices[f] /\ nets[f] \in Network
  BY DEF TypeOK
<1>2. pools[f] \in PoolType
  BY DEF TypeOK
<1>3. a \in Address
  BY <1>1, <1>2, HostsAreAddresses DEF Allocations, Ahead, PoolType
<1>4. pools[f].released = {} => a - nets[f].base + 1 \in Nat
  BY <1>1 DEF Allocations, Ahead, Hosts, Network
<1>5. a # None
  BY <1>3, AddressPositive
<1> QED BY <1>2, <1>3, <1>4, <1>5 DEF Allocated, PoolType

\* A pool that was found exhausted keeps its type.
LEMMA ExhaustedType ==
  ASSUME TypeOK, NEW f \in Family
  PROVE  Allocated(pools[f], nets[f], None) \in PoolType
<1>1. nets[f] \in Network
  BY DEF TypeOK
<1>2. pools[f] \in PoolType
  BY DEF TypeOK
<1>3. pools[f].next_offset < nets[f].size - 1 => nets[f].size - 1 \in Nat
  BY <1>1, <1>2 DEF Network, PoolType
<1> QED BY <1>2, <1>3 DEF Allocated, PoolType

\* So does a pool an address is returned to ...
LEMMA ReleasedType ==
  ASSUME TypeOK, NEW f \in Family, NEW A
  PROVE  Released(pools[f], A) \in PoolType
<1>1. pools[f] \in PoolType
  BY DEF TypeOK
<1> QED BY <1>1 DEF Released, PoolType

\* ... and a new one.
LEMMA NewPoolType ==
  NewPool \in PoolType
  BY DEF NewPool, PoolType

\* A thread without a request.
LEMMA IdleType == Idle \in ReqType
  BY ConstantsAssumption DEF Idle, ReqType, None

\* The process starts down, with chains and cache empty.
LEMMA InitTInv == Init => TInv
<1> SUFFICES ASSUME Init PROVE TInv
  OBVIOUS
<1>1. \A f \in Family : nets[f] \in Network
  BY ConstantsAssumption DEF Init
<1>2. nets \in [Family -> Network]
  BY <1>1 DEF Init
<1>3. cache \in [Address \X Real -> 0 .. MaxTtl]
  BY ConstantsAssumption DEF Init, NoAnswers
<1>4. TypeOK
  <2>1. \A f \in Family : nets[f] \in NetChoices[f]
    BY DEF Init
  <2>2. idle \in [Real -> 0 .. Expiry + 1]
    BY ConstantsAssumption DEF Init, ZeroAges
  <2> QED
    BY <2>1, <2>2, <1>1, <1>2, <1>3, IdleType, NewPoolType
    DEF Init, TypeOK, NoPools, NoEntries, NoRequests, NoSweep, None
<1>5. ReqOK
  BY DEF Init, ReqOK, NoRequests, Idle
<1> QED BY <1>4, <1>5 DEF TInv

\* The TTL of a reply is within the configured limits.
LEMMA ClampType == \A ttl \in UpstreamTtl : Clamp(ttl) \in 0 .. MaxTtl
  BY ConstantsAssumption DEF Clamp

\* resolve and get_fake_ip preserve the types.
LEMMA ResolveTInv ==
  ASSUME TInv, NEW t \in Thread, Resolve(t)
  PROVE  TInv'
<1> USE DEF TInv, host, config
<1>0. req[t] \in ReqType
  BY DEF TInv, TypeOK
<1>1. CASE Upstream(t)
  <2>1. PICK S \in SUBSET Real, ttl \in UpstreamTtl :
          req' = [req EXCEPT ![t] = [Idle EXCEPT !.pc = "loop", !.todo = S, !.ttl = Clamp(ttl)]]
    BY <1>1 DEF Upstream, RealsOf
  <2>2. [Idle EXCEPT !.pc = "loop", !.todo = S, !.ttl = Clamp(ttl)] \in ReqType
    BY IdleType, ClampType DEF ReqType, Idle
  <2>3. TypeOK'
    BY <1>1, <2>1, <2>2 DEF Upstream, TypeOK
  <2>4. ReqOK'
    BY <1>1, <2>1, <2>2 DEF Upstream, TypeOK, ReqOK, Idle
  <2> QED BY <2>3, <2>4
<1>2. ASSUME NEW r \in Real, Hit(t, r) PROVE TInv'
  <2>1. <<fake_ip[r], r>> \in Address \X Real
    BY <1>2 DEF Hit, TypeOK
  <2>2. [req[t] EXCEPT !.todo = @ \ {r}, !.got = @ \cup {<<fake_ip[r], r>>}] \in ReqType
    BY <1>0, <2>1 DEF ReqType
  <2>3. TypeOK'
    <3>1. req[t].age \in 0 .. Expiry + 1
      BY <1>0, ConstantsAssumption, ExpiryAssumption DEF ReqType
    <3> QED BY <1>2, <2>2, <3>1 DEF Hit, TypeOK
  <2>4. ReqOK'
    BY <1>2, <2>2 DEF Hit, TypeOK, ReqOK, ReqType
  <2> QED BY <2>3, <2>4
<1>3. ASSUME NEW r \in Real, Allocate(t, r) PROVE TInv'
  <2> DEFINE f == FamilyOf[r]
  <2>1. f \in Family
    BY ConstantsAssumption
  <2>2. PICK a \in Allocations(pools[f], nets[f]) :
          /\ pools' = [pools EXCEPT ![f] = Allocated(@, nets[f], a)]
          /\ req' = [req EXCEPT ![t].pc = "install", ![t].cur = {r}, ![t].fake = a]
    BY <1>3 DEF Allocate
  <2>3. a \in Address /\ Allocated(pools[f], nets[f], a) \in PoolType
    BY <2>1, AllocationsType
  <2>4. req'[t] \in ReqType
    BY <1>0, <2>2, <2>3 DEF ReqType, TypeOK
  <2>5. TypeOK'
    BY <1>3, <2>1, <2>2, <2>3, <2>4 DEF Allocate, TypeOK
  <2>6. ReqOK'
    BY <1>3, <1>0, <2>2, <2>3, ZenonT(60) DEF Allocate, TypeOK, ReqOK, ReqType
  <2> QED BY <2>5, <2>6
<1>4. ASSUME NEW r \in Real, Exhausted(t, r) PROVE TInv'
  <2>1. FamilyOf[r] \in Family
    BY ConstantsAssumption
  <2>2. TypeOK'
    BY <1>4, <2>1, ExhaustedType, IdleType DEF Exhausted, TypeOK
  <2>3. ReqOK'
    BY <1>4 DEF Exhausted, TypeOK, ReqOK, Idle
  <2> QED BY <2>2, <2>3
<1>5. CASE InstallRule(t)
  <2>1. PICK r \in req[t].cur :
          chain' = [chain EXCEPT ![FamilyOf[r]] = @ \cup {<<req[t].fake, r>>}]
    BY <1>5 DEF InstallRule
  <2>2. r \in Real /\ FamilyOf[r] \in Family /\ req[t].fake \in Address
    BY <1>0, <1>5, ConstantsAssumption DEF InstallRule, ReqOK, ReqType
  <2>3. [req[t] EXCEPT !.pc = "record"] \in ReqType
    BY <1>0 DEF ReqType
  <2>4. TypeOK'
    <3>1. raced' \in BOOLEAN
      BY <1>5 DEF InstallRule
    <3>2. chain' \in [Family -> SUBSET (Address \X Real)]
      BY <2>1, <2>2 DEF TypeOK
    <3> QED BY <1>5, <2>3, <3>1, <3>2 DEF InstallRule, TypeOK
  <2>5. ReqOK'
    BY <1>5, <1>0, ZenonT(60) DEF InstallRule, TypeOK, ReqOK, ReqType
  <2> QED BY <2>4, <2>5
<1>6. CASE InstallFailed(t)
  <2>1. PICK r \in req[t].cur :
          pools' = [pools EXCEPT ![FamilyOf[r]] = Released(@, {req[t].fake})]
    BY <1>6 DEF InstallFailed
  <2>2. FamilyOf[r] \in Family
    BY <1>0, ConstantsAssumption DEF ReqType
  <2>3. TypeOK'
    BY <1>6, <2>1, <2>2, ReleasedType, IdleType DEF InstallFailed, TypeOK
  <2>4. ReqOK'
    BY <1>6 DEF InstallFailed, TypeOK, ReqOK, Idle
  <2> QED BY <2>3, <2>4
<1>7. CASE RecordMapping(t)
  <2>1. PICK r \in req[t].cur :
         /\ fake_ip' = [fake_ip EXCEPT ![r] = req[t].fake]
         /\ idle' = [idle EXCEPT ![r] = req[t].age]
         /\ req' = [req EXCEPT ![t].pc = "loop", ![t].todo = @ \ {r},
                ![t].got = @ \cup {<<req[t].fake, r>>}, ![t].cur = {}, ![t].fake = None]
    BY <1>7 DEF RecordMapping
  <2>2. r \in Real /\ req[t].fake \in Address
    BY <1>0, <1>7 DEF RecordMapping, ReqOK, ReqType
  <2>3. req[t].age \in 0 .. Expiry + 1
    BY <1>0, ConstantsAssumption, ExpiryAssumption DEF ReqType
  <2>4. req'[t] \in ReqType /\ req'[t].pc = "loop" /\ req'[t].cur = {}
    <3>1. req'[t] = [req[t] EXCEPT
                !.pc = "loop", !.todo = @ \ {r}, !.got = @ \cup {<<req[t].fake, r>>},
                !.cur = {}, !.fake = None]
      BY <2>1 DEF TypeOK
    <3>2. <<req[t].fake, r>> \in Address \X Real
      BY <2>2
    <3>3. req[t].got \cup {<<req[t].fake, r>>} \in SUBSET (Address \X Real)
      BY <1>0, <3>2 DEF ReqType
    <3> QED BY <1>0, <3>1, <3>3, ZenonT(60) DEF ReqType
  <2>5. TypeOK'
    BY <1>7, <2>1, <2>2, <2>3, <2>4 DEF RecordMapping, TypeOK
  <2>6. ReqOK'
    BY <1>7, <2>1, <2>4 DEF RecordMapping, TypeOK, ReqOK
  <2> QED BY <2>5, <2>6
<1>8. CASE Reply(t)
  <2>1. cache' \in [Address \X Real -> 0 .. MaxTtl]
    BY <1>0, <1>8 DEF Reply, TypeOK, ReqType
  <2>2. TypeOK'
    BY <1>8, <2>1, IdleType DEF Reply, TypeOK
  <2>3. ReqOK'
    BY <1>8 DEF Reply, TypeOK, ReqOK, Idle
  <2> QED BY <2>2, <2>3
<1> QED BY <1>1, <1>2, <1>3, <1>4, <1>5, <1>6, <1>7, <1>8 DEF Resolve

\* A sweep takes the families in turn.
LEMMA FirstIn == ASSUME NEW F \in SUBSET Family, F # {} PROVE First(F) \in F
<1>1. \E f \in F : \A g \in F : f <= g
  <2>1. \A g \in F : g = 4 \/ g = 6
    BY DEF Family
  <2>2. CASE 4 \in F
    <3> WITNESS 4 \in F
    <3> QED BY <2>1
  <2>3. CASE 4 \notin F
    <3>1. 6 \in F
      BY <2>1, <2>3
    <3> WITNESS 6 \in F
    <3> QED BY <2>1, <2>3
  <2> QED BY <2>2, <2>3
<1> QED BY <1>1 DEF First

\* The cleanup worker preserves the types.
LEMMA CleanupTInv ==
  ASSUME TInv, Cleanup
  PROVE  TInv'
<1> USE DEF TInv, host, config
<1>1. CASE CleanupStart
  <2>1. \A r \in Real : FamilyOf[r] \in Family
    BY ConstantsAssumption
  <2>2. sweep' \in [doomed : SUBSET Real, rest : SUBSET Family]
    BY <1>1, <2>1 DEF CleanupStart
  <2> QED BY <1>1, <2>2 DEF CleanupStart, TypeOK, ReqOK
<1>2. CASE CleanupFamily
  <2> DEFINE f == First(sweep.rest)
             D == {r \in sweep.doomed : FamilyOf[r] = f}
             R == {<<fake_ip[r], r>> : r \in D}
  <2>1. f \in Family
    BY <1>2, FirstIn DEF CleanupFamily, TypeOK
  <2> HIDE DEF f
  <2>2. chain' \in [Family -> SUBSET (Address \X Real)]
    BY <1>2, <2>1 DEF CleanupFamily, TypeOK, f
  <2>3. pools' \in [Family -> PoolType]
    BY <1>2, <2>1, ReleasedType DEF CleanupFamily, TypeOK, f
  <2>4. fake_ip' \in [Real -> Address \cup {None}] /\ idle' \in [Real -> 0 .. Expiry + 1]
    BY <1>2, ConstantsAssumption DEF CleanupFamily, TypeOK
  <2>5. sweep' \in [doomed : SUBSET Real, rest : SUBSET Family]
    BY <1>2 DEF CleanupFamily, TypeOK, NoSweep
  <2> QED BY <1>2, <2>2, <2>3, <2>4, <2>5 DEF CleanupFamily, TypeOK, ReqOK
<1>3. CASE CleanupFails
  BY <1>3 DEF CleanupFails, TypeOK, ReqOK, NoSweep
<1>4. CASE FlushFamily
  <2>1. chain' \in [Family -> SUBSET (Address \X Real)]
    BY <1>4 DEF FlushFamily, TypeOK
  <2>2. flushing' \subseteq families'
    BY <1>4 DEF FlushFamily, TypeOK
  <2> QED BY <1>4, <2>1, <2>2 DEF FlushFamily, TypeOK, ReqOK
<1> QED BY <1>1, <1>2, <1>3, <1>4 DEF Cleanup

\* An empty resolver cache.
LEMMA NoAnswersType == NoAnswers \in [Address \X Real -> 0 .. MaxTtl]
  BY ConstantsAssumption DEF NoAnswers

\* What up.sh leaves in the chains has its type.
LEMMA PreStartType ==
  ASSUME TypeOK, PreStart
  PROVE  cache' \in [Address \X Real -> 0 .. MaxTtl] /\ raced' \in BOOLEAN
<1>1. cache' \in [Address \X Real -> 0 .. MaxTtl]
  BY NoAnswersType DEF PreStart, TypeOK
<1>2. raced' \in BOOLEAN
  BY DEF PreStart
<1> QED BY <1>1, <1>2

\* Deaths, starts, reconfiguration and the clock preserve the types.
LEMMA ServiceTInv ==
  ASSUME TInv, Service \/ Tick
  PROVE  TInv'
<1> USE DEF TInv, host, config, memory
<1>1. CASE Exit \/ Crash
  <2>1. Die
    BY <1>1 DEF Exit, Crash
  <2>2. ZeroAges \in [Real -> 0 .. Expiry + 1]
    BY ConstantsAssumption DEF ZeroAges
  <2>3. TypeOK'
    BY <2>1, <2>2, IdleType, NewPoolType
    DEF Die, TypeOK, NoPools, NoEntries, NoRequests, NoSweep
  <2>4. ReqOK'
    BY <2>1 DEF Die, ReqOK, NoRequests, Idle
  <2> QED BY <2>3, <2>4
<1>2. CASE Start
  <2>1. \A f \in Family : Claimed(Fakes(chain[f])) \in PoolType
    <3> TAKE f \in Family
    <3>1. chain[f] \in SUBSET (Address \X Real)
      BY DEF TypeOK
    <3>2. Fakes(chain[f]) \subseteq Address
      BY <3>1 DEF Fakes
    <3> QED BY <3>2 DEF Claimed, NewPool, PoolType
  <2>2. \A r \in Real : FakeFor(chain[FamilyOf[r]], r) \in Address \cup {None}
    <3> TAKE r \in Real
    <3> DEFINE C == chain[FamilyOf[r]]
    <3>1. C \in SUBSET (Address \X Real)
      BY ConstantsAssumption DEF TypeOK
    <3> HIDE DEF C
    <3>2. ASSUME r \in Reals(C) PROVE \E a \in Fakes(C) : <<a, r>> \in C
      BY <3>1, <3>2 DEF Reals, Fakes
    <3>3. Fakes(C) \subseteq Address
      BY <3>1 DEF Fakes
    <3> QED BY <3>2, <3>3 DEF FakeFor, C
  <2>3. pools' \in [Family -> PoolType]
    BY <1>2, <2>1, NewPoolType DEF Start
  <2>4. fake_ip' \in [Real -> Address \cup {None}]
    BY <1>2, <2>2 DEF Start
  <2> QED BY <1>2, <2>3, <2>4, PreStartType DEF Start, TypeOK, ReqOK
<1>3. CASE StartInvalid
  <2>1. chain' \in [Family -> SUBSET (Address \X Real)]
    BY <1>3 DEF StartInvalid, TypeOK
  <2> QED BY <1>3, <2>1, PreStartType DEF StartInvalid, TypeOK, ReqOK
<1>4. CASE Reconfigure
  <2>1. \A f \in Family : nets'[f] \in NetChoices[f]
    BY <1>4 DEF Reconfigure
  <2>2. nets' \in [Family -> Network]
    BY <1>4, <2>1, ConstantsAssumption DEF Reconfigure
  <2>3. flushing = {}
    BY <1>4 DEF Reconfigure, ReqOK
  <2> QED BY <1>4, <2>1, <2>2, <2>3 DEF Reconfigure, TypeOK, ReqOK
<1>5. CASE CutoverFlush
  <2>1. chain' \in [Family -> SUBSET (Address \X Real)]
    BY <1>5 DEF CutoverFlush, TypeOK
  <2> QED BY <1>5, <2>1 DEF CutoverFlush, TypeOK, ReqOK
<1>6. CASE Tick
  <2>1. idle' \in [Real -> 0 .. Expiry + 1]
    BY <1>6, ConstantsAssumption DEF Tick, TypeOK, Older
  <2>2. cache' \in [Address \X Real -> 0 .. MaxTtl]
    <3>1. \A p \in Address \X Real : cache[p] \in 0 .. MaxTtl
      BY DEF TypeOK
    <3>2. \A p \in Address \X Real :
            (IF cache[p] = 0 THEN 0 ELSE cache[p] - 1) \in 0 .. MaxTtl
      BY <3>1, ConstantsAssumption
    <3> QED BY <1>6, <3>2 DEF Tick, TypeOK
  <2>3. \A t \in Thread : req'[t] \in ReqType /\ req'[t].pc = req[t].pc /\ req'[t].todo = req[t].todo
                          /\ req'[t].cur = req[t].cur /\ req'[t].fake = req[t].fake
    <3> TAKE t \in Thread
    <3>1. req[t] \in ReqType
      BY DEF TypeOK
    <3>2. req'[t] = IF req[t].pc = "idle" THEN req[t] ELSE [req[t] EXCEPT !.age = @ + 1]
      BY <1>6 DEF Tick
    <3>3. req[t].pc # "idle" => req[t].age + 1 \in 0 .. MaxDelay
      BY <1>6, <3>1, ConstantsAssumption DEF Tick, ReqType
    <3> QED BY <3>1, <3>2, <3>3 DEF ReqType
  <2>4. req' \in [Thread -> ReqType]
    BY <1>6, <2>3 DEF Tick
  <2>5. TypeOK'
    BY <1>6, <2>1, <2>2, <2>4 DEF Tick, TypeOK
  <2>6. ReqOK'
    BY <1>6, <2>3 DEF ReqOK, Tick
  <2> QED BY <2>5, <2>6
<1> QED BY <1>1, <1>2, <1>3, <1>4, <1>5, <1>6 DEF Service

\* Every step keeps types and ReqOK.
LEMMA NextTInv == TInv /\ [Next]_vars => TInv'
<1> SUFFICES ASSUME TInv, [Next]_vars PROVE TInv'
  OBVIOUS
<1>1. CASE Next
  BY <1>1, ResolveTInv, CleanupTInv, ServiceTInv DEF Next
<1>2. CASE UNCHANGED vars
  BY <1>2 DEF vars, memory, host, config, TInv, TypeOK, ReqOK
<1> QED BY <1>1, <1>2

\* The proxy's state always has its type, whatever the pools, threads and limits.
THEOREM TypeCorrect == Spec => []TypeOK
<1>1. Spec => []TInv
  BY InitTInv, NextTInv, PTL DEF Spec
<1> QED BY <1>1, PTL DEF TInv

-----------------------------------------------------------------------------
(* The mapping *)

Busy(t) == req[t].pc \in {"install", "record"}

\* One holder of self.lock, and a sweep only in a process that is up.
LockOK ==
    /\ \A t, u \in Thread : Busy(t) /\ Busy(u) => t = u
    /\ sweep # NoSweep => proc = "up" /\ \A t \in Thread : ~Busy(t)

\* What is still to be swept is in the table and has expired.
SweepOK ==
    \A r \in sweep.doomed : FamilyOf[r] \in sweep.rest => fake_ip[r] # None /\ idle[r] > Expiry

\* A dead process has no memory and has loaded nothing.
DownOK ==
    /\ proc = "down" => /\ fake_ip = NoEntries /\ idle = ZeroAges
                        /\ req = NoRequests /\ sweep = NoSweep
    /\ proc # "down" => ~stale

\* Only families with a pool are served, and a thread allocates only for a real
\* address without an entry.
ServedOK ==
    /\ \A r \in Real : fake_ip[r] # None => FamilyOf[r] \in families
    /\ \A t \in Thread : \A r \in req[t].todo : FamilyOf[r] \in families
    /\ \A t \in Thread : \A r \in req[t].cur : fake_ip[r] = None

\* No fake address stands for two real ones, the one in a thread's hand included.
DistinctOK ==
    /\ \A r, s \in Real :
         FamilyOf[r] = FamilyOf[s] /\ fake_ip[r] = fake_ip[s] /\ fake_ip[r] # None => r = s
    /\ \A t \in Thread : \A r \in req[t].cur : \A s \in Real :
         FamilyOf[r] = FamilyOf[s] => fake_ip[s] # req[t].fake

\* Address a of family f is in the table or in a thread's hand.
InTable(f, a) == \E r \in Real : FamilyOf[r] = f /\ fake_ip[r] = a
Held(f, a) == \E t \in Thread : \E r \in req[t].cur : FamilyOf[r] = f /\ req[t].fake = a

Holders(f) == {a \in Address : InTable(f, a) \/ Held(f, a)}

\* PoolExact, address by address, for a pool whose addresses in use are H.
PoolOf(p, n, H) ==
    \A a \in Address :
        /\ a \in p.used <=> a \in H
        /\ ~(a \in p.used /\ a \in p.released)
        /\ a \in p.used \cup p.released => a \in Hosts(n)
        /\ a \in Hosts(n) /\ a < n.base + p.next_offset => a \in p.used \cup p.released
PoolOK == proc # "down" => \A f \in families : PoolOf(pools[f], nets[f], Holders(f))

\* The rule of p belongs to the table, or to a thread about to record it.
Installed(t, p) == req[t].pc = "record" /\ p[2] \in req[t].cur /\ p[1] = req[t].fake
Backed(p) == fake_ip[p[2]] = p[1] \/ \E t \in Thread : Installed(t, p)

\* The rules: one-to-one whoever wrote them; never more than the memory, also
\* while the worker flushes them; and no fewer while the process is up.
ChainOK ==
    /\ \A f \in Family : OneToOne(chain[f]) /\ \A p \in chain[f] : FamilyOf[p[2]] = f
    /\ proc = "down" /\ ~stale => \A f \in families : \A p \in chain[f] : p[1] \in Hosts(nets[f])
    /\ proc # "down" => \A f \in families : \A p \in chain[f] : Backed(p)
    /\ proc = "up" => /\ \A r \in Real : fake_ip[r] # None => <<fake_ip[r], r>> \in chain[FamilyOf[r]]
                      /\ \A t \in Thread : req[t].pc = "record" =>
                           \A r \in req[t].cur : <<req[t].fake, r>> \in chain[FamilyOf[r]]

\* The pairs of a reply in the making are in the table and far from expiry.
GotOK ==
    \A t \in Thread :
        /\ req[t].pc = "idle" => req[t].got = {}
        /\ \A p \in req[t].got :
             fake_ip[p[2]] = p[1] /\ idle[p[2]] <= req[t].age + MaxDelay

\* An answer Knot may still serve expires before its entry does; a family that is
\* no longer served keeps its rules.
Served(p) ==
    IF FamilyOf[p[2]] \in families
    THEN fake_ip[p[2]] = p[1] /\ cache[p] + idle[p[2]] <= Expiry
    ELSE p \in chain[FamilyOf[p[2]]]
Ruled(p) == p \in chain[FamilyOf[p[2]]]
Cached == {p \in Address \X Real : cache[p] > 0}
CacheOK ==
    ~raced =>
        /\ proc = "up" => \A p \in Cached : Served(p)
        /\ proc = "failing" /\ 4 \in flushing => \A p \in Cached : Ruled(p)
        /\ proc = "failing" /\ 4 \notin flushing => chain[4] = {}
        /\ proc = "down" /\ chain[4] # {} => \A p \in Cached : Ruled(p)

MInv ==
    /\ TInv
    /\ LockOK /\ SweepOK /\ DownOK /\ ServedOK
    /\ DistinctOK /\ PoolOK /\ ChainOK
    /\ GotOK /\ CacheOK

-----------------------------------------------------------------------------
LEMMA TypeStep ==
  ASSUME MInv, Next
  PROVE  TInv'
  BY NextTInv DEF MInv

\* A step of a thread is a step of the process.
LEMMA ThreadStep == \A t \in Thread : Resolve(t) => Next
  BY DEF Next

\* The typing facts the steps below use, without the records' definitions.
LEMMA ReqFacts ==
  ASSUME TInv, NEW t \in Thread
  PROVE  /\ req[t] \in ReqType
         /\ req[t].got \subseteq Address \X Real
         /\ req[t].todo \subseteq Real /\ req[t].cur \subseteq Real
         /\ req[t].age \in 0 .. MaxDelay /\ req[t].ttl \in 0 .. MaxTtl
         /\ Busy(t) => req[t].fake \in Address /\ \E r \in req[t].todo : req[t].cur = {r}
         /\ ~Busy(t) => req[t].cur = {}
<1>1. req[t] \in ReqType
  BY DEF TInv, TypeOK
<1> QED BY <1>1 DEF ReqType, TInv, ReqOK, Busy

\* The upstream answer: nothing is held yet.
LEMMA UpstreamMInv ==
  ASSUME MInv, NEW t \in Thread, Upstream(t)
  PROVE  MInv'
<1>0. TInv'
  BY TypeStep, ThreadStep DEF Resolve
<1> USE DEF host, config
<1>1. PICK f \in families : \E S \in SUBSET RealsOf(f) : \E ttl \in UpstreamTtl :
        req' = [req EXCEPT ![t] = [Idle EXCEPT !.pc = "loop", !.todo = S, !.ttl = Clamp(ttl)]]
  BY DEF Upstream
<1>1a. PICK S \in SUBSET RealsOf(f), ttl \in UpstreamTtl :
        req' = [req EXCEPT ![t] = [Idle EXCEPT !.pc = "loop", !.todo = S, !.ttl = Clamp(ttl)]]
  BY <1>1
<1>2. /\ \A u \in Thread : u # t => req'[u] = req[u]
      /\ req'[t].pc = "loop" /\ req'[t].todo = S /\ req'[t].cur = {} /\ req'[t].got = {}
  BY <1>1a DEF MInv, TInv, TypeOK, Idle
<1>3. req[t].pc = "idle" /\ req[t].cur = {}
  BY ReqFacts DEF Upstream, MInv, Busy
<1>4. UNCHANGED <<proc, pools, fake_ip, idle, sweep, flushing, chain, cache, raced, families, nets, stale>>
  BY DEF Upstream
<1>5. \A u \in Thread : req'[u].cur = req[u].cur /\ (Busy(u)' <=> Busy(u))
  BY <1>2, <1>3 DEF Busy
<1>6. LockOK'
  BY <1>4, <1>5 DEF MInv, LockOK
<1>7. SweepOK'
  BY <1>4 DEF MInv, SweepOK
<1>8. DownOK'
  BY <1>4 DEF MInv, DownOK, Upstream
<1>9. ServedOK'
  BY <1>2, <1>4, <1>5 DEF MInv, ServedOK, RealsOf
<1>10. \A u \in Thread : req'[u].fake = req[u].fake \/ req'[u].cur = {}
  BY <1>2
<1>11. DistinctOK'
  BY <1>4, <1>5, <1>10 DEF MInv, DistinctOK
<1>12. \A g, a : Held(g, a)' <=> Held(g, a)
  BY <1>5, <1>10 DEF Held
<1>13. PoolOK'
  BY <1>4, <1>12 DEF MInv, PoolOK, InTable, Holders
<1>14. \A u \in Thread : \A p : Installed(u, p)' <=> Installed(u, p)
  BY <1>2, <1>3, <1>5 DEF Installed
<1>15. ChainOK'
  BY <1>2, <1>4, <1>14 DEF MInv, ChainOK, Backed, OneToOne
<1>16. GotOK'
  BY <1>2, <1>4 DEF MInv, GotOK
<1>17. CacheOK'
  BY <1>4 DEF MInv, CacheOK, Cached, Served, Ruled
<1> QED BY <1>0, <1>6, <1>7, <1>8, <1>9, <1>11, <1>13, <1>15, <1>16, <1>17 DEF MInv

\* A table hit: only idle[r] and the thread's todo and got change.
LEMMA HitMInv ==
  ASSUME MInv, NEW t \in Thread, NEW r \in Real, Hit(t, r)
  PROVE  MInv'
<1>0. TInv'
  BY TypeStep, ThreadStep DEF Resolve
<1> USE DEF host, config
<1>1. req[t] \in ReqType /\ req[t].age \in 0 .. MaxDelay
  BY ReqFacts DEF MInv
<1>2. /\ \A u \in Thread : u # t => req'[u] = req[u]
      /\ req'[t] = [req[t] EXCEPT !.todo = @ \ {r}, !.got = @ \cup {<<fake_ip[r], r>>}]
  BY DEF Hit, MInv, TInv, TypeOK
<1>2a. req[t].pc = "loop"
  BY DEF Hit
<1>3. /\ req'[t].pc = "loop" /\ req'[t].todo = req[t].todo \ {r} /\ req'[t].cur = req[t].cur
      /\ req'[t].got = req[t].got \cup {<<fake_ip[r], r>>} /\ req'[t].fake = req[t].fake
      /\ req'[t].age = req[t].age
  BY <1>1, <1>2, <1>2a DEF ReqType
<1>4. req[t].pc = "loop" /\ sweep = NoSweep /\ fake_ip[r] # None /\ r \in req[t].todo
  BY DEF Hit, LockFree
<1>5. /\ UNCHANGED <<proc, pools, fake_ip, sweep, flushing, chain, cache, raced, families, nets, stale>>
      /\ idle' = [idle EXCEPT ![r] = req[t].age]
  BY DEF Hit
<1>6. \A u \in Thread : /\ req'[u].cur = req[u].cur /\ req'[u].fake = req[u].fake
                        /\ req'[u].pc = req[u].pc /\ req'[u].todo \subseteq req[u].todo
  BY <1>2, <1>3, <1>4
<1>7. LockOK'
  BY <1>5, <1>6 DEF MInv, LockOK, Busy
<1>8. SweepOK'
  BY <1>4, <1>5 DEF SweepOK, NoSweep
<1>9. DownOK'
  <2>1. proc # "down"
    BY <1>4 DEF MInv, DownOK, NoEntries
  <2> QED BY <2>1, <1>5 DEF MInv, DownOK
<1>10. ServedOK'
  BY <1>5, <1>6 DEF MInv, ServedOK
<1>11. DistinctOK'
  BY <1>5, <1>6 DEF MInv, DistinctOK
<1>12. PoolOK'
  <2>1. \A f : Holders(f)' = Holders(f)
    BY <1>5, <1>6 DEF InTable, Held, Holders
  <2> QED BY <1>5, <2>1 DEF MInv, PoolOK
<1>13. ChainOK'
  BY <1>5, <1>6 DEF MInv, ChainOK, Backed, Installed, OneToOne
<1>14. GotOK'
  <2> SUFFICES ASSUME NEW u \in Thread
               PROVE  /\ req'[u].pc = "idle" => req'[u].got = {}
                      /\ \A p \in req'[u].got :
                           fake_ip[p[2]] = p[1] /\ idle'[p[2]] <= req'[u].age + MaxDelay
    BY <1>5 DEF GotOK
  <2>1. req'[u].pc = "idle" => req'[u].got = {}
    BY <1>2, <1>3, <1>6 DEF MInv, GotOK
  <2>2. ASSUME NEW p \in req'[u].got
        PROVE  fake_ip[p[2]] = p[1] /\ idle'[p[2]] <= req'[u].age + MaxDelay
    <3>1. req'[u].age = req[u].age /\ req[u].age \in 0 .. MaxDelay
      BY <1>2, <1>3, ReqFacts DEF MInv
    <3>2. fake_ip[p[2]] = p[1] /\ (p[2] # r => idle[p[2]] <= req[u].age + MaxDelay)
      <4>1. p \in req[u].got \/ p = <<fake_ip[r], r>>
        BY <2>2, <1>2, <1>3
      <4>2. p \in req[u].got => fake_ip[p[2]] = p[1] /\ idle[p[2]] <= req[u].age + MaxDelay
        BY DEF MInv, GotOK
      <4> QED BY <4>1, <4>2
    <3>3. p[2] = r => idle'[p[2]] = req[t].age
      BY <1>5 DEF MInv, TInv, TypeOK
    <3>4. p[2] # r => idle'[p[2]] = idle[p[2]]
      BY <1>5 DEF MInv, TInv, TypeOK
    <3>5. MaxDelay \in Nat
      BY ConstantsAssumption
    <3> QED BY <1>1, <3>1, <3>2, <3>3, <3>4, <3>5
  <2> QED BY <2>1, <2>2
<1>15. CacheOK'
  <2>1. ASSUME NEW p \in Cached, Served(p) PROVE Served(p)'
    <3>1. CASE p[2] # r
      BY <2>1, <3>1, <1>5 DEF Served, Cached, MInv, TInv, TypeOK
    <3>2. CASE p[2] = r
      <4>1. idle'[r] = req[t].age /\ cache'[p] = cache[p] /\ cache[p] \in 0 .. MaxTtl
        BY <1>5 DEF MInv, TInv, TypeOK, Cached
      <4>2. cache'[p] + idle'[r] <= Expiry
        BY <4>1, <1>1, ConstantsAssumption, ExpiryAssumption
      <4> QED BY <2>1, <3>2, <4>2, <1>5 DEF Served
    <3> QED BY <3>1, <3>2
  <2>2. Cached' = Cached /\ \A p : Ruled(p)' <=> Ruled(p)
    BY <1>5 DEF Cached, Ruled
  <2> QED BY <2>1, <2>2, <1>5 DEF MInv, CacheOK
<1> QED BY <1>0, <1>7, <1>8, <1>9, <1>10, <1>11, <1>12, <1>13, <1>14, <1>15 DEF MInv

-----------------------------------------------------------------------------
(* allocate() and release() *)

Less == {p \in Nat \X Nat : p[1] < p[2]}

\* Numbers have no infinite descent.
LEMMA LessWellFounded == IsWellFoundedOn(Less, Nat)
<1>1. OpToRel(<, Nat) = Less
  BY Zenon DEF OpToRel, Less
<1> QED BY <1>1, NatLessThanWellFounded, Zenon

\* The forward scan of allocate finds a first free address when there is one.
LEMMA LeastElement ==
  ASSUME NEW S \in SUBSET Nat, S # {}
  PROVE  \E x \in S : \A y \in S : x <= y
<1>1. PICK x \in S : \A y \in S : ~(<<y, x>> \in Less)
  BY LessWellFounded, WFMin
<1>2. \A y \in Nat : y < x => <<y, x>> \in Less
  BY DEF Less
<1>3. \A y \in S : y \in Nat /\ ~(y < x)
  BY <1>1, <1>2, Zenon
<1> QED BY <1>3

\* allocate returns an address nobody holds, and leaves the pool exact.
LEMMA PoolAllocated ==
  ASSUME NEW p \in PoolType, NEW n \in Network, Hosts(n) \subseteq Address, NEW H,
         PoolOf(p, n, H), NEW a \in Allocations(p, n)
  PROVE  /\ a \in Hosts(n) /\ a \notin p.used
         /\ PoolOf(Allocated(p, n, a), n, H \cup {a})
<1> DEFINE q == Allocated(p, n, a)
<1>1. a \in Hosts(n) /\ a \notin p.used
  BY DEF Allocations, Ahead, PoolOf, PoolType
<1>2. a # None
  BY <1>1, AddressPositive
<1>3. q.used = p.used \cup {a} /\ q.released = p.released \ {a}
  BY <1>2 DEF Allocated
<1>4. ASSUME NEW b \in Address, b \in Hosts(n), b < n.base + q.next_offset
      PROVE  b \in q.used \cup q.released
  <2>1. CASE p.released # {}
    <3>1. q.next_offset = p.next_offset
      BY <2>1 DEF Allocated
    <3> QED BY <3>1, <1>3, <1>4 DEF PoolOf
  <2>2. CASE p.released = {}
    <3>1. q.next_offset = a - n.base + 1
      BY <2>2, <1>2 DEF Allocated
    <3>2. \A c \in Ahead(p, n) : a <= c
      BY <2>2 DEF Allocations
    <3>3. b \in Int /\ a \in Int /\ n.base \in Int
      BY <1>1, <1>4 DEF Hosts, Network
    <3>4. b <= a
      BY <3>1, <3>3, <1>4
    <3>5. CASE b = a
      BY <3>5, <1>3
    <3>6. CASE b # a
      <4>1. b \notin Ahead(p, n)
        BY <3>2, <3>3, <3>4, <3>6
      <4>2. b \in p.used \/ b < n.base + p.next_offset
        BY <4>1, <1>4, <3>3 DEF Ahead, PoolType
      <4>3. b \in p.used \cup p.released
        BY <4>2, <1>4 DEF PoolOf
      <4> QED BY <4>3, <1>3, <3>6
    <3> QED BY <3>5, <3>6
  <2> QED BY <2>1, <2>2
<1> HIDE DEF q
<1>5. PoolOf(q, n, H \cup {a})
  BY <1>1, <1>3, <1>4 DEF PoolOf
<1> QED BY <1>1, <1>5 DEF q

\* When allocate returns None every host address is taken or released.
LEMMA PoolExhausted ==
  ASSUME NEW p \in PoolType, NEW n \in Network, Hosts(n) \subseteq Address, NEW H,
         PoolOf(p, n, H), Allocations(p, n) = {}
  PROVE  PoolOf(Allocated(p, n, None), n, H)
<1> DEFINE q == Allocated(p, n, None)
<1>1. p.released = {}
  BY DEF Allocations
<1>2. Ahead(p, n) = {}
  <2>1. Ahead(p, n) \in SUBSET Nat
    BY AddressPositive DEF Ahead
  <2> QED BY <1>1, <2>1, LeastElement DEF Allocations
<1>3. q.used = p.used /\ q.released = p.released
  BY <1>1 DEF Allocated
<1>4. ASSUME NEW b \in Address, b \in Hosts(n) PROVE b \in p.used \cup p.released
  <2>1. b \in p.used \/ b < n.base + p.next_offset
    BY <1>2, <1>4 DEF Ahead, Hosts, Network, PoolType
  <2> QED BY <2>1, <1>4 DEF PoolOf
<1> HIDE DEF q
<1>5. PoolOf(q, n, H)
  BY <1>3, <1>4 DEF PoolOf
<1> QED BY <1>5 DEF q

\* release gives back the addresses that were in use and no others.
LEMMA PoolReleased ==
  ASSUME NEW p \in PoolType, NEW n, NEW H, NEW A, PoolOf(p, n, H)
  PROVE  PoolOf(Released(p, A), n, H \ A)
<1> DEFINE q == Released(p, A)
<1>1. /\ q.used = p.used \ A /\ q.released = p.released \cup (A \cap p.used)
      /\ q.next_offset = p.next_offset
  BY DEF Released, PoolType
<1> HIDE DEF q
<1>2. PoolOf(q, n, H \ A)
  BY <1>1 DEF PoolOf
<1> QED BY <1>2 DEF q

-----------------------------------------------------------------------------
LEMMA FamilyFacts ==
  ASSUME TInv
  PROVE  /\ \A r \in Real : FamilyOf[r] \in Family
         /\ families \subseteq Family /\ 4 \in families
         /\ \A f \in Family : /\ pools[f] \in PoolType /\ nets[f] \in Network
                              /\ Hosts(nets[f]) \subseteq Address
                              /\ chain[f] \subseteq Address \X Real
<1>1. \A r \in Real : FamilyOf[r] \in Family
  BY ConstantsAssumption
<1>2. families \subseteq Family /\ 4 \in families
  BY DEF TInv, TypeOK, Family
<1>3. \A f \in Family : nets[f] \in NetChoices[f]
  BY DEF TInv, TypeOK
<1>4. \A f \in Family : Hosts(nets[f]) \subseteq Address
  BY <1>3, HostsAreAddresses
<1> QED BY <1>1, <1>2, <1>4 DEF TInv, TypeOK

\* allocate: the address in hand is new to table and chains.
LEMMA AllocateMInv ==
  ASSUME MInv, NEW t \in Thread, NEW r \in Real, Allocate(t, r)
  PROVE  MInv'
<1>0. TInv'
  BY TypeStep, ThreadStep DEF Resolve
<1> USE DEF host, config
<1> DEFINE f == FamilyOf[r]
<1>1. f \in Family /\ f \in families
  BY FamilyFacts DEF MInv, ServedOK, Allocate
<1>2. PICK a \in Allocations(pools[f], nets[f]) :
        /\ pools' = [pools EXCEPT ![f] = Allocated(@, nets[f], a)]
        /\ req' = [req EXCEPT ![t].pc = "install", ![t].cur = {r}, ![t].fake = a]
  BY DEF Allocate
<1>3. /\ UNCHANGED <<proc, fake_ip, idle, sweep, flushing, chain, cache, raced, families, nets, stale>>
      /\ req[t].pc = "loop" /\ r \in req[t].todo /\ fake_ip[r] = None
      /\ sweep = NoSweep /\ \A u \in Thread : ~Busy(u)
  BY DEF Allocate, LockFree, Busy
<1>4. \A u \in Thread : req[u].cur = {}
  BY <1>3, ReqFacts DEF MInv
<1>5. /\ \A u \in Thread : u # t => req'[u] = req[u]
      /\ req'[t].pc = "install" /\ req'[t].cur = {r} /\ req'[t].fake = a
      /\ req'[t].todo = req[t].todo /\ req'[t].got = req[t].got /\ req'[t].age = req[t].age
  <2>1. req[t] \in ReqType
    BY ReqFacts DEF MInv
  <2> QED BY <1>2, <2>1 DEF MInv, TInv, TypeOK, ReqType
<1>6. proc # "down"
  BY <1>3 DEF MInv, DownOK, NoRequests, Idle
<1>7. /\ a \in Hosts(nets[f]) /\ a \notin pools[f].used
      /\ PoolOf(Allocated(pools[f], nets[f], a), nets[f], Holders(f) \cup {a})
  BY <1>1, <1>6, FamilyFacts, PoolAllocated DEF MInv, PoolOK
<1>8. a \in Address /\ a \notin Holders(f) /\ a # None
  BY <1>1, <1>6, <1>7, FamilyFacts, AddressPositive DEF MInv, PoolOK, PoolOf
<1>9. \A g, b : /\ InTable(g, b)' <=> InTable(g, b)
                /\ ~Held(g, b)
                /\ Held(g, b)' <=> g = f /\ b = a
  <2>1. \A g, b : InTable(g, b)' <=> InTable(g, b)
    BY <1>3 DEF InTable
  <2>2. \A g, b : ~Held(g, b)
    BY <1>4 DEF Held
  <2>3. \A u \in Thread : u # t => req'[u].cur = {}
    BY <1>4, <1>5
  <2>4. \A g, b : Held(g, b)' <=> g = f /\ b = a
    BY <2>3, <1>5 DEF Held
  <2> QED BY <2>1, <2>2, <2>4
<1>10. LockOK'
  BY <1>3, <1>5 DEF LockOK, Busy
<1>11. SweepOK'
  BY <1>3 DEF MInv, SweepOK
<1>12. DownOK'
  BY <1>3, <1>6 DEF MInv, DownOK
<1>13. ServedOK'
  BY <1>3, <1>4, <1>5 DEF MInv, ServedOK
<1>14. DistinctOK'
  <2>1. \A s \in Real : FamilyOf[s] = f => fake_ip[s] # a
    BY <1>8 DEF Holders, InTable
  <2> QED BY <2>1, <1>3, <1>4, <1>5 DEF MInv, DistinctOK
<1>15. PoolOK'
  <2> SUFFICES ASSUME NEW g \in families PROVE PoolOf(pools'[g], nets[g], Holders(g)')
    BY <1>3 DEF PoolOK
  <2>1. g \in Family
    BY FamilyFacts DEF MInv
  <2>2. CASE g = f
    <3>1. Holders(g)' = Holders(f) \cup {a}
      BY <2>2, <1>8, <1>9 DEF Holders
    <3>2. pools'[g] = Allocated(pools[f], nets[f], a)
      BY <2>1, <2>2, <1>2 DEF MInv, TInv, TypeOK
    <3> QED BY <2>2, <3>1, <3>2, <1>7
  <2>3. CASE g # f
    <3>1. Holders(g)' = Holders(g)
      BY <2>3, <1>9 DEF Holders
    <3>2. pools'[g] = pools[g]
      BY <2>1, <2>3, <1>2 DEF MInv, TInv, TypeOK
    <3> QED BY <3>1, <3>2, <1>6 DEF MInv, PoolOK
  <2> QED BY <2>2, <2>3
<1>16. \A u \in Thread : \A p : Installed(u, p)' <=> Installed(u, p)
  BY <1>3, <1>4, <1>5 DEF Installed
<1>17. ChainOK'
  BY <1>3, <1>5, <1>16 DEF MInv, ChainOK, Backed, OneToOne
<1>18. GotOK'
  BY <1>3, <1>5 DEF MInv, GotOK
<1>19. CacheOK'
  BY <1>3 DEF MInv, CacheOK, Cached, Served, Ruled
<1> QED BY <1>0, <1>10, <1>11, <1>12, <1>13, <1>14, <1>15, <1>17, <1>18, <1>19 DEF MInv

\* An exhausted pool: the request goes on without the record.
LEMMA ExhaustedMInv ==
  ASSUME MInv, NEW t \in Thread, NEW r \in Real, Exhausted(t, r)
  PROVE  MInv'
<1>0. TInv'
  BY TypeStep, ThreadStep DEF Resolve
<1> USE DEF host, config
<1> DEFINE f == FamilyOf[r]
<1>1. f \in Family /\ f \in families
  BY FamilyFacts DEF MInv, ServedOK, Exhausted
<1>2. /\ UNCHANGED <<proc, fake_ip, idle, sweep, flushing, chain, cache, raced, families, nets, stale>>
      /\ req[t].pc = "loop" /\ \A u \in Thread : ~Busy(u)
      /\ pools' = [pools EXCEPT ![f] = Allocated(@, nets[f], None)]
      /\ Allocations(pools[f], nets[f]) = {}
  BY DEF Exhausted, LockFree, Busy
<1>3. /\ \A u \in Thread : u # t => req'[u] = req[u]
      /\ req'[t] = Idle
  BY DEF Exhausted, MInv, TInv, TypeOK
<1>4. \A u \in Thread : req[u].cur = {} /\ req'[u].cur = {} /\ ~Busy(u)'
  BY <1>2, <1>3, ReqFacts DEF MInv, Idle, Busy
<1>5. proc # "down"
  BY <1>2 DEF MInv, DownOK, NoRequests, Idle
<1>6. PoolOf(Allocated(pools[f], nets[f], None), nets[f], Holders(f))
  BY <1>1, <1>2, <1>5, FamilyFacts, PoolExhausted DEF MInv, PoolOK
<1>7. LockOK'
  BY <1>2, <1>4 DEF MInv, LockOK
<1>8. SweepOK' /\ DownOK'
  BY <1>2, <1>5 DEF MInv, SweepOK, DownOK
<1>9. ServedOK'
  BY <1>2, <1>3, <1>4 DEF MInv, ServedOK, Idle
<1>10. DistinctOK'
  BY <1>2, <1>4 DEF MInv, DistinctOK
<1>11. PoolOK'
  <2>1. \A g : Holders(g)' = Holders(g)
    BY <1>2, <1>4 DEF Holders, InTable, Held
  <2>2. \A g \in Family : pools'[g] = IF g = f THEN Allocated(pools[f], nets[f], None) ELSE pools[g]
    BY <1>1, <1>2 DEF MInv, TInv, TypeOK
  <2> QED BY <2>1, <2>2, <1>2, <1>5, <1>6, FamilyFacts DEF MInv, PoolOK
<1>12. \A u \in Thread : \A p : ~Installed(u, p)' /\ ~Installed(u, p)
  BY <1>4 DEF Installed
<1>13. ChainOK'
  BY <1>2, <1>4, <1>12 DEF MInv, ChainOK, Backed, OneToOne
<1>14. GotOK'
  BY <1>2, <1>3 DEF MInv, GotOK, Idle
<1>15. CacheOK'
  BY <1>2 DEF MInv, CacheOK, Cached, Served, Ruled
<1> QED BY <1>0, <1>7, <1>8, <1>9, <1>10, <1>11, <1>13, <1>14, <1>15 DEF MInv

\* What the thread inside the critical section knows: it is alone there, holds
\* one address for one record of a served family, and nothing else has either.
LEMMA HolderFacts ==
  ASSUME MInv, NEW t \in Thread, Busy(t), NEW r \in req[t].cur
  PROVE  /\ r \in Real /\ r \in req[t].todo /\ req[t].cur = {r} /\ req[t].fake \in Address
         /\ FamilyOf[r] \in Family /\ FamilyOf[r] \in families
         /\ fake_ip[r] = None /\ req[t].fake # None
         /\ proc # "down" /\ sweep = NoSweep
         /\ \A u \in Thread : u # t => ~Busy(u) /\ req[u].cur = {}
<1>1. /\ req[t].todo \subseteq Real /\ req[t].fake \in Address
      /\ \E q \in req[t].todo : req[t].cur = {q}
  BY ReqFacts DEF MInv
<1>2. r \in Real /\ r \in req[t].todo /\ req[t].cur = {r}
  BY <1>1
<1>3. FamilyOf[r] \in Family /\ FamilyOf[r] \in families
  BY <1>2, FamilyFacts DEF MInv, ServedOK
<1>4. fake_ip[r] = None /\ req[t].fake # None
  BY <1>1, AddressPositive DEF MInv, ServedOK
<1>5. proc # "down" /\ sweep = NoSweep
  BY DEF MInv, DownOK, LockOK, NoRequests, Idle, Busy
<1>6. \A u \in Thread : u # t => ~Busy(u) /\ req[u].cur = {}
  BY ReqFacts DEF MInv, LockOK
<1> QED BY <1>1, <1>2, <1>3, <1>4, <1>5, <1>6

\* The rule of the address in hand is installed.
LEMMA InstallRuleMInv ==
  ASSUME MInv, NEW t \in Thread, InstallRule(t)
  PROVE  MInv'
<1>0. TInv'
  BY TypeStep, ThreadStep DEF Resolve
<1> USE DEF host, config
<1>1. PICK r \in req[t].cur : chain' = [chain EXCEPT ![FamilyOf[r]] = @ \cup {<<req[t].fake, r>>}]
  BY DEF InstallRule
<1> DEFINE f == FamilyOf[r]
           a == req[t].fake
<1>2. /\ UNCHANGED <<proc, pools, fake_ip, idle, sweep, flushing, cache, families, nets, stale>>
      /\ req[t].pc = "install" /\ Busy(t) /\ (raced' <=> raced \/ proc = "failing")
  BY DEF InstallRule, Busy
<1>3. /\ r \in Real /\ req[t].cur = {r} /\ a \in Address /\ f \in Family /\ f \in families
      /\ fake_ip[r] = None /\ a # None /\ proc # "down"
      /\ \A u \in Thread : u # t => ~Busy(u) /\ req[u].cur = {}
  BY <1>2, HolderFacts
<1>4. /\ \A u \in Thread : u # t => req'[u] = req[u]
      /\ req'[t].pc = "record" /\ req'[t].cur = {r} /\ req'[t].fake = a
      /\ req'[t].todo = req[t].todo /\ req'[t].got = req[t].got /\ req'[t].age = req[t].age
  <2>1. req[t] \in ReqType
    BY ReqFacts DEF MInv
  <2> QED BY <1>3, <2>1 DEF InstallRule, MInv, TInv, TypeOK, ReqType
<1>5. \A u \in Thread : /\ req'[u].cur = req[u].cur /\ req'[u].fake = req[u].fake
                        /\ req'[u].todo = req[u].todo /\ req'[u].got = req[u].got
                        /\ req'[u].age = req[u].age /\ (Busy(u)' <=> Busy(u))
  BY <1>2, <1>3, <1>4 DEF Busy
<1> HIDE DEF f, a
<1>6. chain'[f] = chain[f] \cup {<<a, r>>} /\ \A g \in Family : g # f => chain'[g] = chain[g]
  BY <1>1, <1>3 DEF MInv, TInv, TypeOK, f, a
<1>7. LockOK' /\ SweepOK' /\ DownOK' /\ ServedOK' /\ DistinctOK'
  <2>1. LockOK'
    BY <1>2, <1>5 DEF MInv, LockOK
  <2>2. SweepOK' /\ DownOK'
    BY <1>2, <1>3 DEF MInv, SweepOK, DownOK
  <2>3. ServedOK' /\ DistinctOK'
    BY <1>2, <1>5 DEF MInv, ServedOK, DistinctOK
  <2> QED BY <2>1, <2>2, <2>3
<1>8. PoolOK'
  <2>1. \A g, b : (InTable(g, b)' <=> InTable(g, b)) /\ (Held(g, b)' <=> Held(g, b))
    BY <1>2, <1>5 DEF InTable, Held
  <2>2. \A g : Holders(g)' = Holders(g)
    BY <2>1 DEF Holders
  <2> QED BY <2>2, <1>2 DEF MInv, PoolOK
<1>9. \A p \in chain[f] : FamilyOf[p[2]] = f /\ fake_ip[p[2]] = p[1] /\ p \in Address \X Real
  <2>1. \A u \in Thread : \A p : ~Installed(u, p)
    BY <1>2, <1>3 DEF Installed
  <2>2. \A p \in chain[f] : FamilyOf[p[2]] = f /\ Backed(p)
    BY <1>3 DEF MInv, ChainOK
  <2> QED BY <2>1, <2>2, <1>3, FamilyFacts DEF Backed, MInv
<1>10. \A p \in chain[f] : p[1] # a /\ p[2] # r
  <2>1. \A s \in Real : FamilyOf[s] = f => fake_ip[s] # a
    BY <1>3 DEF MInv, DistinctOK, f, a
  <2>2. \A p \in chain[f] : p[2] \in Real /\ p[1] \in Address
    BY <1>9
  <2> QED BY <2>1, <2>2, <1>3, <1>9, AddressPositive
<1>11. ChainOK'
  <2>1. \A g \in Family : OneToOne(chain'[g]) /\ \A p \in chain'[g] : FamilyOf[p[2]] = g
    <3>1. OneToOne(chain[f]) /\ \A p \in chain[f] : FamilyOf[p[2]] = f
      BY <1>3 DEF MInv, ChainOK
    <3>2. OneToOne(chain'[f])
      BY <3>1, <1>6, <1>10 DEF OneToOne
    <3>3. FamilyOf[<<a, r>>[2]] = f
      BY DEF f
    <3>4. \A p \in chain'[f] : FamilyOf[p[2]] = f
      BY <3>1, <3>3, <1>6
    <3> QED BY <3>2, <3>4, <1>6 DEF MInv, ChainOK
  <2>2. \A u \in Thread : \A p : Installed(u, p)' <=> (u = t /\ p[2] = r /\ p[1] = a)
    BY <1>3, <1>4, <1>5 DEF Installed, a
  <2>3. \A g \in families : \A p \in chain'[g] : FamilyOf[p[2]] = g /\ Backed(p)'
    <3>5. families \subseteq Family
      BY FamilyFacts DEF MInv
    <3>1. \A u \in Thread : \A p : ~Installed(u, p)
      BY <1>2, <1>3 DEF Installed
    <3>2. \A g \in families : \A p \in chain[g] : FamilyOf[p[2]] = g /\ fake_ip[p[2]] = p[1]
      BY <1>3, <3>1, <3>5 DEF MInv, ChainOK, Backed
    <3>3. \A p : fake_ip[p[2]] = p[1] => Backed(p)'
      BY <1>2 DEF Backed
    <3>4. \A p : p[1] = a /\ p[2] = r => Backed(p)'
      BY <2>2 DEF Backed
    <3>6. ASSUME NEW g \in families, NEW p \in chain'[g] PROVE FamilyOf[p[2]] = g /\ Backed(p)'
      <4>1. p \in chain[g] \/ (g = f /\ p = <<a, r>>)
        BY <3>5, <1>6
      <4>2. CASE p \in chain[g]
        BY <4>2, <3>2, <3>3
      <4>3. CASE g = f /\ p = <<a, r>>
        <5>1. p[1] = a /\ p[2] = r
          BY <4>3
        <5> QED BY <5>1, <4>3, <3>4 DEF f
      <4> QED BY <4>1, <4>2, <4>3
    <3> QED BY <3>6
  <2>4. ASSUME proc = "up", NEW s \in Real, fake_ip[s] # None
        PROVE  <<fake_ip[s], s>> \in chain'[FamilyOf[s]]
    <3>1. <<fake_ip[s], s>> \in chain[FamilyOf[s]] /\ FamilyOf[s] \in Family
      BY <2>4, FamilyFacts DEF MInv, ChainOK
    <3> QED BY <3>1, <1>6
  <2>5. \A u \in Thread : req'[u].pc = "record" =>
           \A s \in req'[u].cur : <<req'[u].fake, s>> \in chain'[FamilyOf[s]]
    BY <1>3, <1>4, <1>6 DEF Busy, f
  <2> QED BY <2>1, <2>3, <2>4, <2>5, <1>2, <1>3 DEF ChainOK
<1>12. GotOK'
  <2>1. \A u \in Thread : req'[u].pc = "idle" => req'[u].got = {}
    BY <1>4 DEF MInv, GotOK
  <2> QED BY <2>1, <1>2, <1>5 DEF MInv, GotOK
<1>13. CacheOK'
  <2> SUFFICES ASSUME ~raced' PROVE CacheOK'
    BY DEF CacheOK
  <2>1. proc = "up" /\ ~raced
    BY <1>2, <1>3 DEF MInv, TInv, TypeOK
  <2>2. \A p \in Cached : Served(p)
    BY <2>1 DEF MInv, CacheOK
  <2>3. ASSUME NEW p \in Cached PROVE Served(p)'
    <3>1. FamilyOf[p[2]] \in Family
      BY FamilyFacts DEF Cached, MInv
    <3> QED BY <3>1, <2>2, <1>2, <1>3, <1>6 DEF Served
  <2>4. Cached' = Cached
    BY <1>2 DEF Cached
  <2> QED BY <2>1, <2>3, <2>4, <1>2 DEF CacheOK
<1> QED BY <1>0, <1>7, <1>8, <1>11, <1>12, <1>13 DEF MInv

\* iptables fails: the address goes back to the pool.
LEMMA InstallFailedMInv ==
  ASSUME MInv, NEW t \in Thread, InstallFailed(t)
  PROVE  MInv'
<1>0. TInv'
  BY TypeStep, ThreadStep DEF Resolve
<1> USE DEF host, config
<1>1. PICK r \in req[t].cur : pools' = [pools EXCEPT ![FamilyOf[r]] = Released(@, {req[t].fake})]
  BY DEF InstallFailed
<1> DEFINE f == FamilyOf[r]
           a == req[t].fake
<1>2. /\ UNCHANGED <<proc, fake_ip, idle, sweep, flushing, chain, cache, raced, families, nets, stale>>
      /\ req[t].pc = "install" /\ Busy(t)
  BY DEF InstallFailed, Busy
<1>3. /\ r \in Real /\ req[t].cur = {r} /\ a \in Address /\ f \in Family /\ f \in families
      /\ fake_ip[r] = None /\ a # None /\ proc # "down"
      /\ \A u \in Thread : u # t => ~Busy(u) /\ req[u].cur = {}
  BY <1>2, HolderFacts
<1>4. /\ \A u \in Thread : u # t => req'[u] = req[u]
      /\ req'[t] = Idle
  BY DEF InstallFailed, MInv, TInv, TypeOK
<1>5. \A u \in Thread : req'[u].cur = {} /\ ~Busy(u)'
  BY <1>3, <1>4 DEF Idle, Busy
<1>6. LockOK' /\ SweepOK' /\ DownOK' /\ ServedOK' /\ DistinctOK'
  <2>1. LockOK' /\ SweepOK' /\ DownOK'
    BY <1>2, <1>3, <1>5 DEF MInv, LockOK, SweepOK, DownOK
  <2>2. ServedOK' /\ DistinctOK'
    BY <1>2, <1>4, <1>5 DEF MInv, ServedOK, DistinctOK, Idle
  <2> QED BY <2>1, <2>2
<1>7. PoolOK'
  <2> SUFFICES ASSUME NEW g \in families PROVE PoolOf(pools'[g], nets[g], Holders(g)')
    BY <1>2 DEF PoolOK
  <2>1. g \in Family /\ pools[g] \in PoolType /\ PoolOf(pools[g], nets[g], Holders(g))
    BY <1>3, FamilyFacts DEF MInv, PoolOK
  <2>2. \A h, b : (InTable(h, b)' <=> InTable(h, b)) /\ ~Held(h, b)'
    BY <1>2, <1>5 DEF InTable, Held
  <2>3. \A h, b : Held(h, b) <=> (h = f /\ b = a)
    BY <1>3 DEF Held
  <2>4. CASE g = f
    <3>1. ~InTable(f, a)
      BY <1>3 DEF InTable, MInv, DistinctOK
    <3>2. Holders(g)' = Holders(f) \ {a}
      BY <2>2, <2>3, <2>4, <3>1 DEF Holders
    <3>3. pools'[g] = Released(pools[f], {a})
      BY <2>1, <2>4, <1>1 DEF MInv, TInv, TypeOK
    <3> QED BY <3>2, <3>3, <2>1, <2>4, PoolReleased
  <2>5. CASE g # f
    <3>1. Holders(g)' = Holders(g)
      BY <2>2, <2>3, <2>5 DEF Holders
    <3>2. pools'[g] = pools[g]
      BY <2>1, <2>5, <1>1 DEF MInv, TInv, TypeOK
    <3> QED BY <3>1, <3>2, <2>1
  <2> QED BY <2>4, <2>5
<1>8. \A u \in Thread : \A p : ~Installed(u, p)' /\ ~Installed(u, p)
  BY <1>2, <1>3, <1>5 DEF Installed
<1>9. ChainOK'
  BY <1>2, <1>5, <1>8 DEF MInv, ChainOK, Backed, OneToOne
<1>10. GotOK'
  BY <1>2, <1>4 DEF MInv, GotOK, Idle
<1>11. CacheOK'
  BY <1>2 DEF MInv, CacheOK, Cached, Served, Ruled
<1> QED BY <1>0, <1>6, <1>7, <1>9, <1>10, <1>11 DEF MInv

\* The entry is recorded: what was in hand is in the table.
LEMMA RecordMappingMInv ==
  ASSUME MInv, NEW t \in Thread, RecordMapping(t)
  PROVE  MInv'
<1>0. TInv'
  BY TypeStep, ThreadStep DEF Resolve
<1> USE DEF host, config
<1>1. PICK r \in req[t].cur :
        /\ fake_ip' = [fake_ip EXCEPT ![r] = req[t].fake]
        /\ idle' = [idle EXCEPT ![r] = req[t].age]
        /\ req' = [req EXCEPT ![t].pc = "loop", ![t].todo = @ \ {r},
               ![t].got = @ \cup {<<req[t].fake, r>>}, ![t].cur = {}, ![t].fake = None]
  BY DEF RecordMapping
<1> DEFINE f == FamilyOf[r]
           a == req[t].fake
<1>2. /\ UNCHANGED <<proc, pools, sweep, flushing, chain, cache, raced, families, nets, stale>>
      /\ req[t].pc = "record" /\ Busy(t)
  BY DEF RecordMapping, Busy
<1>3. /\ r \in Real /\ req[t].cur = {r} /\ a \in Address /\ f \in Family /\ f \in families
      /\ fake_ip[r] = None /\ a # None /\ proc # "down" /\ sweep = NoSweep
      /\ \A u \in Thread : u # t => ~Busy(u) /\ req[u].cur = {}
  BY <1>2, HolderFacts
<1>4. /\ \A u \in Thread : u # t => req'[u] = req[u]
      /\ req'[t].pc = "loop" /\ req'[t].cur = {} /\ req'[t].todo = req[t].todo \ {r}
      /\ req'[t].got = req[t].got \cup {<<a, r>>} /\ req'[t].age = req[t].age
  <2>1. req[t] \in ReqType
    BY ReqFacts DEF MInv
  <2>2. req'[t] = [req[t] EXCEPT
              !.pc = "loop", !.todo = @ \ {r}, !.got = @ \cup {<<req[t].fake, r>>},
              !.cur = {}, !.fake = None]
    BY <1>1 DEF MInv, TInv, TypeOK
  <2>3. \A u \in Thread : u # t => req'[u] = req[u]
    BY <1>1 DEF MInv, TInv, TypeOK
  <2> QED BY <2>1, <2>2, <2>3 DEF ReqType
<1>5. \A u \in Thread : req'[u].cur = {} /\ ~Busy(u)' /\ req'[u].todo \subseteq req[u].todo
  BY <1>3, <1>4 DEF Busy
<1>6. /\ fake_ip'[r] = a /\ \A s \in Real : s # r => fake_ip'[s] = fake_ip[s]
      /\ idle'[r] = req[t].age /\ \A s \in Real : s # r => idle'[s] = idle[s]
  BY <1>1, <1>3 DEF MInv, TInv, TypeOK
<1> HIDE DEF f, a
<1>7. \A s \in Real : FamilyOf[s] = f => fake_ip[s] # a
  BY <1>3 DEF MInv, DistinctOK, f, a
<1>8. LockOK' /\ SweepOK' /\ DownOK'
  <2>1. LockOK'
    BY <1>2, <1>3, <1>5 DEF LockOK
  <2>2. SweepOK' /\ DownOK'
    BY <1>2, <1>3 DEF MInv, SweepOK, DownOK, NoSweep
  <2> QED BY <2>1, <2>2
<1>9. ServedOK'
  <2>1. \A s \in Real : fake_ip'[s] # None => FamilyOf[s] \in families
    BY <1>3, <1>6 DEF MInv, ServedOK, f
  <2> QED BY <2>1, <1>2, <1>5 DEF MInv, ServedOK
<1>10. DistinctOK'
  <2>1. ASSUME NEW s \in Real, NEW q \in Real, FamilyOf[s] = FamilyOf[q],
               fake_ip'[s] = fake_ip'[q], fake_ip'[s] # None
        PROVE  s = q
    <3>1. CASE s # r /\ q # r
      BY <2>1, <3>1, <1>6 DEF MInv, DistinctOK
    <3>2. CASE s = r \/ q = r
      BY <2>1, <3>2, <1>6, <1>7 DEF f
    <3> QED BY <3>1, <3>2
  <2> QED BY <2>1, <1>5 DEF DistinctOK
<1>11. PoolOK'
  <2>1. \A g, b : Held(g, b) <=> (g = f /\ b = a)
    BY <1>3 DEF Held, f, a
  <2>2. \A g, b : ~Held(g, b)'
    BY <1>5 DEF Held
  <2>3. ASSUME NEW g, NEW b \in Address
        PROVE  InTable(g, b)' <=> (InTable(g, b) \/ (g = f /\ b = a))
    <3>1. b # None
      BY AddressPositive
    <3>2. ASSUME InTable(g, b)' PROVE InTable(g, b) \/ (g = f /\ b = a)
      BY <3>2, <1>6 DEF InTable, f
    <3>3. ASSUME InTable(g, b) PROVE InTable(g, b)'
      <4>1. PICK s \in Real : FamilyOf[s] = g /\ fake_ip[s] = b
        BY <3>3 DEF InTable
      <4>2. fake_ip'[s] = b
        BY <4>1, <3>1, <1>3, <1>6
      <4> QED BY <4>1, <4>2 DEF InTable
    <3>4. ASSUME g = f /\ b = a PROVE InTable(g, b)'
      <4>1. FamilyOf[r] = g /\ fake_ip'[r] = b
        BY <3>4, <1>6 DEF f
      <4> QED BY <4>1, <1>3 DEF InTable
    <3> QED BY <3>2, <3>3, <3>4
  <2>4. \A g : Holders(g)' = Holders(g)
    BY <2>1, <2>2, <2>3 DEF Holders
  <2> QED BY <2>4, <1>2 DEF MInv, PoolOK
<1>12. ChainOK'
  <2>1. ASSUME NEW g \in families, NEW p \in chain[g]
        PROVE  FamilyOf[p[2]] = g /\ fake_ip'[p[2]] = p[1]
    <3>1. FamilyOf[p[2]] = g /\ Backed(p) /\ p[2] \in Real /\ p[1] # None
      <4>1. p \in Address \X Real
        BY FamilyFacts DEF MInv
      <4>2. FamilyOf[p[2]] = g /\ Backed(p)
        BY <1>3, FamilyFacts DEF MInv, ChainOK
      <4> QED BY <4>1, <4>2, AddressPositive
    <3>2. CASE fake_ip[p[2]] = p[1]
      BY <3>1, <3>2, <1>3, <1>6
    <3>3. ASSUME NEW u \in Thread, Installed(u, p) PROVE fake_ip'[p[2]] = p[1]
      <4>1. u = t
        BY <3>3, <1>3 DEF Installed
      <4> QED BY <4>1, <3>3, <1>3, <1>6 DEF Installed, a
    <3> QED BY <3>1, <3>2, <3>3 DEF Backed
  <2>2. ASSUME proc = "up", NEW s \in Real, fake_ip'[s] # None
        PROVE  <<fake_ip'[s], s>> \in chain[FamilyOf[s]]
    <3>1. <<a, r>> \in chain[f]
      BY <2>2, <1>2 DEF MInv, ChainOK, f, a
    <3>2. CASE s = r
      BY <3>1, <3>2, <1>6 DEF f
    <3>3. CASE s # r
      BY <2>2, <3>3, <1>6 DEF MInv, ChainOK
    <3> QED BY <3>2, <3>3
  <2>3. \A p : fake_ip'[p[2]] = p[1] => Backed(p)'
    BY DEF Backed
  <2>4. \A g \in families : \A p \in chain[g] : FamilyOf[p[2]] = g /\ Backed(p)'
    BY <2>1, <2>3
  <2>5. \A g \in Family : OneToOne(chain[g]) /\ \A p \in chain[g] : FamilyOf[p[2]] = g
    BY DEF MInv, ChainOK
  <2> QED BY <2>2, <2>4, <2>5, <1>2, <1>3, <1>5 DEF ChainOK
<1>13. GotOK'
  <2> SUFFICES ASSUME NEW u \in Thread
               PROVE  /\ req'[u].pc = "idle" => req'[u].got = {}
                      /\ \A p \in req'[u].got :
                           fake_ip'[p[2]] = p[1] /\ idle'[p[2]] <= req'[u].age + MaxDelay
    BY DEF GotOK
  <2>1. req'[u].pc = "idle" => req'[u].got = {}
    BY <1>4 DEF MInv, GotOK
  <2>2. req'[u].age = req[u].age /\ req[u].age \in 0 .. MaxDelay /\ req[t].age \in 0 .. MaxDelay
    BY <1>4, ReqFacts DEF MInv
  <2>3. ASSUME NEW p \in req[u].got
        PROVE  fake_ip'[p[2]] = p[1] /\ idle'[p[2]] <= req'[u].age + MaxDelay
    <3>1. p[2] \in Real /\ p[1] # None
      BY <2>3, ReqFacts, AddressPositive DEF MInv
    <3>2. fake_ip[p[2]] = p[1] /\ idle[p[2]] <= req[u].age + MaxDelay
      BY DEF MInv, GotOK
    <3> QED BY <3>1, <3>2, <2>2, <1>3, <1>6
  <2>4. fake_ip'[r] = a /\ idle'[r] <= req'[u].age + MaxDelay
    <3>1. MaxDelay \in Nat
      BY ConstantsAssumption
    <3> QED BY <1>6, <2>2, <3>1
  <2>5. \A p \in req'[u].got : p \in req[u].got \/ (p[1] = a /\ p[2] = r)
    BY <1>4
  <2> QED BY <2>1, <2>3, <2>4, <2>5
<1>14. CacheOK'
  <2>1. ASSUME NEW p \in Cached, Served(p) PROVE Served(p)'
    <3>1. p[2] \in Real /\ p[1] # None
      BY AddressPositive DEF Cached
    <3>2. p[2] = r => FALSE
      BY <2>1, <3>1, <1>3 DEF Served, f
    <3> QED BY <2>1, <3>1, <3>2, <1>2, <1>6 DEF Served
  <2>2. Cached' = Cached /\ \A p : Ruled(p)' <=> Ruled(p)
    BY <1>2 DEF Cached, Ruled
  <2> QED BY <2>1, <2>2, <1>2 DEF MInv, CacheOK
<1> QED BY <1>0, <1>8, <1>9, <1>10, <1>11, <1>12, <1>13, <1>14 DEF MInv

\* The reply is cached by the resolver for no longer than its entries live.
LEMMA ReplyMInv ==
  ASSUME MInv, NEW t \in Thread, Reply(t)
  PROVE  MInv'
<1>0. TInv'
  BY TypeStep, ThreadStep DEF Resolve
<1> USE DEF host, config
<1>1. /\ UNCHANGED <<proc, pools, fake_ip, idle, sweep, flushing, chain, families, nets, stale>>
      /\ req[t].pc = "loop" /\ (raced' <=> raced \/ proc = "failing")
  BY DEF Reply
<1>2. /\ \A u \in Thread : u # t => req'[u] = req[u]
      /\ req'[t] = Idle
  BY DEF Reply, MInv, TInv, TypeOK
<1>3. req[t].cur = {}
  BY <1>1, ReqFacts DEF MInv, Busy
<1>4. \A u \in Thread : req'[u].cur = req[u].cur /\ (Busy(u)' <=> Busy(u))
                        /\ (u # t => req'[u].fake = req[u].fake)
  BY <1>1, <1>2, <1>3 DEF Idle, Busy
<1>5. proc # "down"
  BY <1>1 DEF MInv, DownOK, NoRequests, Idle
<1>6. LockOK' /\ SweepOK' /\ DownOK'
  BY <1>1, <1>4, <1>5 DEF MInv, LockOK, SweepOK, DownOK
<1>7. ServedOK' /\ DistinctOK'
  <2>1. ServedOK'
    BY <1>1, <1>2, <1>4 DEF MInv, ServedOK, Idle
  <2>2. DistinctOK'
    BY <1>1, <1>3, <1>4 DEF MInv, DistinctOK
  <2> QED BY <2>1, <2>2
<1>8. PoolOK'
  <2>1. \A g, b : (InTable(g, b)' <=> InTable(g, b)) /\ (Held(g, b)' <=> Held(g, b))
    BY <1>1, <1>3, <1>4 DEF InTable, Held
  <2>2. \A g : Holders(g)' = Holders(g)
    BY <2>1 DEF Holders
  <2> QED BY <2>2, <1>1 DEF MInv, PoolOK
<1>9. ChainOK'
  <2>1. \A u \in Thread : \A p : Installed(u, p)' <=> Installed(u, p)
    BY <1>2, <1>3, <1>4 DEF Installed
  <2> QED BY <2>1, <1>1, <1>2, <1>3, <1>4 DEF MInv, ChainOK, Backed, OneToOne
<1>10. GotOK'
  BY <1>1, <1>2 DEF MInv, GotOK, Idle
<1>11. CacheOK'
  <2> SUFFICES ASSUME ~raced' PROVE CacheOK'
    BY DEF CacheOK
  <2>1. proc = "up" /\ ~raced
    BY <1>1, <1>5 DEF MInv, TInv, TypeOK
  <2>2. ASSUME NEW p \in Cached' PROVE Served(p)'
    <3>1. p \in Address \X Real /\ p[2] \in Real /\ p[1] # None
      BY AddressPositive DEF Cached
    <3>2. cache'[p] = IF p \in req[t].got /\ cache[p] < req[t].ttl THEN req[t].ttl ELSE cache[p]
      BY <3>1 DEF Reply, MInv, TInv, TypeOK
    <3>3. CASE p \in req[t].got /\ cache[p] < req[t].ttl
      <4>1. fake_ip[p[2]] = p[1] /\ idle[p[2]] <= req[t].age + MaxDelay
        BY <3>3 DEF MInv, GotOK
      <4>2. FamilyOf[p[2]] \in families
        BY <4>1, <3>1 DEF MInv, ServedOK
      <4>3. req[t].age \in 0 .. MaxDelay /\ req[t].ttl \in 0 .. MaxTtl /\ idle[p[2]] \in Int
        BY <3>1, ReqFacts DEF MInv, TInv, TypeOK
      <4>4. req[t].ttl + idle[p[2]] <= Expiry
        <5>1. MaxDelay \in Nat /\ MaxTtl \in Nat /\ Expiry \in Nat
          BY ConstantsAssumption
        <5> QED BY <4>1, <4>3, <5>1, ExpiryAssumption
      <4> QED BY <3>2, <3>3, <4>1, <4>2, <4>4, <1>1 DEF Served
    <3>4. CASE ~(p \in req[t].got /\ cache[p] < req[t].ttl)
      <4>1. cache'[p] = cache[p]
        BY <3>2, <3>4
      <4>2. p \in Cached
        BY <4>1, <3>1 DEF Cached
      <4>3. Served(p)
        BY <4>2, <2>1 DEF MInv, CacheOK
      <4> QED BY <4>1, <4>3, <1>1 DEF Served
    <3> QED BY <3>3, <3>4
  <2> QED BY <2>1, <2>2, <1>1 DEF CacheOK
<1> QED BY <1>0, <1>6, <1>7, <1>8, <1>9, <1>10, <1>11 DEF MInv

-----------------------------------------------------------------------------
(* The cleanup worker *)

\* Which addresses are held depends on table and requests only.
LEMMA HoldersFrame ==
  ASSUME UNCHANGED <<fake_ip, req>>
  PROVE  \A g : Holders(g)' = Holders(g)
<1>1. \A g, b : (InTable(g, b)' <=> InTable(g, b)) /\ (Held(g, b)' <=> Held(g, b))
  BY DEF InTable, Held
<1> QED BY <1>1 DEF Holders

\* A sweep takes the lock and selects what has expired.
LEMMA CleanupStartMInv ==
  ASSUME MInv, CleanupStart
  PROVE  MInv'
<1>0. TInv'
  BY TypeStep DEF Next, Cleanup
<1> USE DEF host, config
<1>1. /\ UNCHANGED <<proc, pools, fake_ip, idle, req, flushing, chain, cache, raced, families, nets, stale>>
      /\ proc = "up" /\ \A t \in Thread : ~Busy(t)
      /\ sweep'.doomed = {r \in Real : Expired(r)}
  BY DEF CleanupStart, LockFree, Busy
<1>2. LockOK'
  BY <1>1 DEF LockOK, Busy
<1>3. SweepOK'
  BY <1>1 DEF SweepOK, Expired
<1>4. DownOK' /\ ServedOK' /\ DistinctOK'
  BY <1>1 DEF MInv, DownOK, ServedOK, DistinctOK
<1>5. PoolOK'
  BY <1>1, HoldersFrame DEF MInv, PoolOK
<1>6. ChainOK'
  BY <1>1 DEF MInv, ChainOK, Backed, Installed, OneToOne
<1>7. GotOK' /\ CacheOK'
  BY <1>1 DEF MInv, GotOK, CacheOK, Cached, Served, Ruled
<1> QED BY <1>0, <1>2, <1>3, <1>4, <1>5, <1>6, <1>7 DEF MInv

\* A removal fails: the worker gives the lock back and flushes.
LEMMA CleanupFailsMInv ==
  ASSUME MInv, CleanupFails
  PROVE  MInv'
<1>0. TInv'
  BY TypeStep DEF Next, Cleanup
<1> USE DEF host, config
<1>1. /\ UNCHANGED <<pools, fake_ip, idle, req, chain, cache, raced, families, nets, stale>>
      /\ proc' = "failing" /\ sweep' = NoSweep /\ flushing' = families /\ sweep # NoSweep
  BY DEF CleanupFails, NoSweep
<1>2. proc = "up" /\ 4 \in families
  BY <1>1, FamilyFacts DEF MInv, LockOK
<1>3. LockOK'
  BY <1>1 DEF MInv, LockOK, Busy
<1>4. SweepOK'
  BY <1>1 DEF SweepOK, NoSweep
<1>5. DownOK' /\ ServedOK' /\ DistinctOK'
  BY <1>1, <1>2 DEF MInv, DownOK, ServedOK, DistinctOK
<1>6. PoolOK'
  BY <1>1, <1>2, HoldersFrame DEF MInv, PoolOK
<1>7. ChainOK'
  BY <1>1, <1>2 DEF MInv, ChainOK, Backed, Installed, OneToOne
<1>8. GotOK'
  BY <1>1 DEF MInv, GotOK
<1>9. CacheOK'
  <2>1. ASSUME NEW p \in Cached, Served(p) PROVE Ruled(p)
    <3>1. p = <<p[1], p[2]>> /\ p[2] \in Real /\ p[1] # None
      <4>1. p \in Address \X Real
        BY DEF Cached
      <4>2. p = <<p[1], p[2]>> /\ p[1] \in Address /\ p[2] \in Real
        BY <4>1
      <4> QED BY <4>2, AddressPositive
    <3> QED BY <3>1, <2>1, <1>2 DEF Served, Ruled, MInv, ChainOK
  <2>2. Cached' = Cached /\ \A p : Ruled(p)' <=> Ruled(p)
    BY <1>1 DEF Cached, Ruled
  <2> QED BY <2>1, <2>2, <1>1, <1>2 DEF MInv, CacheOK
<1> QED BY <1>0, <1>3, <1>4, <1>5, <1>6, <1>7, <1>8, <1>9 DEF MInv

\* A family is flushed without the lock.
LEMMA FlushFamilyMInv ==
  ASSUME MInv, FlushFamily
  PROVE  MInv'
<1>0. TInv'
  BY TypeStep DEF Next, Cleanup
<1> USE DEF host, config
<1> DEFINE f == First(flushing)
<1>1. /\ UNCHANGED <<proc, pools, fake_ip, idle, req, sweep, cache, raced, families, nets, stale>>
      /\ proc = "failing" /\ flushing # {}
      /\ chain' = [chain EXCEPT ![f] = {}] /\ flushing' = flushing \ {f}
  BY DEF FlushFamily
<1>2. flushing \subseteq families /\ families \subseteq Family
  BY FamilyFacts DEF MInv, TInv, TypeOK
<1>3. f \in flushing /\ f \in Family /\ (4 \in flushing => f = 4)
  <2>1. f \in flushing
    BY <1>1, <1>2, FirstIn
  <2>2. \E h \in flushing : \A g \in flushing : h <= g
    <3>1. \A g \in flushing : g = 4 \/ g = 6
      BY <1>2 DEF Family
    <3>2. CASE 4 \in flushing
      BY <3>1, <3>2
    <3>3. CASE 4 \notin flushing
      BY <3>1, <3>3, <2>1
    <3> QED BY <3>2, <3>3
  <2>3. \A g \in flushing : f <= g
    BY <2>2 DEF First
  <2>4. f = 4 \/ f = 6
    BY <2>1, <1>2 DEF Family
  <2> QED BY <2>1, <2>3, <2>4, <1>2
<1> HIDE DEF f
<1>4. chain'[f] = {} /\ \A g \in Family : chain'[g] = chain[g] \/ chain'[g] = {}
  BY <1>1, <1>3 DEF MInv, TInv, TypeOK
<1>5. LockOK' /\ SweepOK' /\ DownOK'
  BY <1>1 DEF MInv, LockOK, Busy, SweepOK, DownOK
<1>6. ServedOK' /\ DistinctOK'
  BY <1>1 DEF MInv, ServedOK, DistinctOK
<1>7. PoolOK'
  BY <1>1, HoldersFrame DEF MInv, PoolOK
<1>8. ChainOK'
  <2>1. \A g \in Family : OneToOne(chain'[g]) /\ \A p \in chain'[g] : FamilyOf[p[2]] = g
    BY <1>4 DEF MInv, ChainOK, OneToOne
  <2>2. \A p : Backed(p)' <=> Backed(p)
    BY <1>1 DEF Backed, Installed
  <2>3. \A g \in families : \A p \in chain'[g] : FamilyOf[p[2]] = g /\ Backed(p)'
    BY <2>2, <1>1, <1>2, <1>4 DEF MInv, ChainOK
  <2> QED BY <2>1, <2>3, <1>1 DEF ChainOK
<1>9. GotOK'
  BY <1>1 DEF MInv, GotOK
<1>10. CacheOK'
  <2>1. ASSUME ~raced PROVE 4 \notin flushing' /\ chain'[4] = {}
    <3>1. CASE 4 \in flushing
      BY <3>1, <1>1, <1>3, <1>4
    <3>2. CASE 4 \notin flushing
      <4>1. chain[4] = {}
        BY <2>1, <3>2, <1>1 DEF MInv, CacheOK
      <4> QED BY <3>2, <4>1, <1>1, <1>4 DEF Family
    <3> QED BY <3>1, <3>2
  <2> QED BY <2>1, <1>1 DEF CacheOK
<1> QED BY <1>0, <1>5, <1>6, <1>7, <1>8, <1>9, <1>10 DEF MInv

\* A family is swept: rules, entries and addresses go together.
LEMMA CleanupFamilyMInv ==
  ASSUME MInv, CleanupFamily
  PROVE  MInv'
<1>0. TInv'
  BY TypeStep DEF Next, Cleanup
<1> USE DEF host, config
<1> DEFINE f == First(sweep.rest)
           D == {r \in sweep.doomed : FamilyOf[r] = f}
           R == {<<fake_ip[r], r>> : r \in D}
           A == {fake_ip[r] : r \in D}
<1>1. /\ UNCHANGED <<proc, req, flushing, cache, raced, families, nets, stale>>
      /\ chain' = [chain EXCEPT ![f] = @ \ R]
      /\ pools' = [pools EXCEPT ![f] = Released(@, A)]
      /\ fake_ip' = [r \in Real |-> IF r \in D THEN None ELSE fake_ip[r]]
      /\ idle' = [r \in Real |-> IF r \in D THEN 0 ELSE idle[r]]
      /\ sweep' = NoSweep \/ (sweep'.doomed = sweep.doomed /\ sweep'.rest = sweep.rest \ {f})
      /\ sweep.rest # {} /\ sweep # NoSweep
  BY DEF CleanupFamily, NoSweep, MInv, TInv, TypeOK
<1>2. /\ f \in sweep.rest /\ f \in Family /\ sweep.doomed \subseteq Real
  BY <1>1, FirstIn DEF MInv, TInv, TypeOK
<1>3. proc = "up" /\ \A t \in Thread : ~Busy(t) /\ req[t].cur = {}
  BY <1>1, ReqFacts DEF MInv, LockOK
<1> HIDE DEF f
<1>4. \A r \in D : r \in Real /\ FamilyOf[r] = f /\ fake_ip[r] # None /\ idle[r] > Expiry
  BY <1>2 DEF MInv, SweepOK
<1>5. D \subseteq Real
  BY <1>4
<1> HIDE DEF D
<1>6. \A r \in Real : /\ r \in D => fake_ip'[r] = None /\ idle'[r] = 0
                      /\ r \notin D => fake_ip'[r] = fake_ip[r] /\ idle'[r] = idle[r]
  BY <1>1
<1>7. LockOK' /\ DownOK'
  BY <1>1, <1>3 DEF MInv, LockOK, Busy, DownOK
<1>8. SweepOK'
  <2>1. CASE sweep' = NoSweep
    BY <2>1 DEF SweepOK, NoSweep
  <2>2. CASE sweep'.doomed = sweep.doomed /\ sweep'.rest = sweep.rest \ {f}
    BY <2>2, <1>2, <1>4, <1>6 DEF MInv, SweepOK
  <2> QED BY <1>1, <2>1, <2>2
<1>9. ServedOK' /\ DistinctOK'
  BY <1>1, <1>3, <1>6 DEF MInv, ServedOK, DistinctOK
<1>10. PoolOK'
  <2> SUFFICES ASSUME NEW g \in families PROVE PoolOf(pools'[g], nets[g], Holders(g)')
    BY <1>1 DEF PoolOK
  <2>1. g \in Family /\ pools[g] \in PoolType /\ PoolOf(pools[g], nets[g], Holders(g))
    BY <1>3, FamilyFacts DEF MInv, PoolOK
  <2>2. \A h, b : ~Held(h, b)' /\ ~Held(h, b)
    BY <1>1, <1>3 DEF Held
  <2>3. CASE g = f
    <3>1. ASSUME NEW b \in Address PROVE InTable(g, b)' <=> (InTable(g, b) /\ b \notin A)
      <4>1. b # None
        BY AddressPositive
      <4>2. ASSUME NEW r \in Real, FamilyOf[r] = g, fake_ip'[r] = b
            PROVE  InTable(g, b) /\ b \notin A
        <5>1. r \notin D /\ fake_ip[r] = b
          BY <4>1, <4>2, <1>6
        <5>2. \A s \in D : fake_ip[s] # b
          BY <5>1, <4>1, <4>2, <2>3, <1>4 DEF MInv, DistinctOK
        <5> QED BY <5>1, <5>2, <4>2 DEF InTable
      <4>3. ASSUME NEW r \in Real, FamilyOf[r] = g, fake_ip[r] = b, b \notin A
            PROVE  InTable(g, b)'
        <5>1. fake_ip'[r] = b
          BY <4>3, <1>6
        <5> QED BY <5>1, <4>3 DEF InTable
      <4> QED BY <4>2, <4>3 DEF InTable
    <3>2. Holders(g)' = Holders(g) \ A
      BY <3>1, <2>2 DEF Holders
    <3>3. pools'[g] = Released(pools[g], A)
      BY <2>1, <2>3, <1>1 DEF MInv, TInv, TypeOK
    <3> HIDE DEF A
    <3> QED BY <3>2, <3>3, <2>1, PoolReleased
  <2>4. CASE g # f
    <3>1. \A r \in Real : FamilyOf[r] = g => fake_ip'[r] = fake_ip[r]
      BY <2>4, <1>4, <1>6
    <3>2. \A b : InTable(g, b)' <=> InTable(g, b)
      BY <3>1 DEF InTable
    <3>3. Holders(g)' = Holders(g)
      BY <3>2, <2>2 DEF Holders
    <3>4. pools'[g] = pools[g]
      BY <2>1, <2>4, <1>1 DEF MInv, TInv, TypeOK
    <3> QED BY <3>3, <3>4, <2>1
  <2> QED BY <2>3, <2>4
<1>11. \A g \in Family : chain'[g] = IF g = f THEN chain[f] \ R ELSE chain[g]
  BY <1>1, <1>2 DEF MInv, TInv, TypeOK
<1>12. \A r \in D : <<fake_ip[r], r>> \in R
  OBVIOUS
<1>13. \A r \in Real \ D : <<fake_ip[r], r>> \notin R
  OBVIOUS
<1> HIDE DEF R
<1>14. ChainOK'
  <2>1. \A g \in Family : OneToOne(chain'[g]) /\ \A p \in chain'[g] : FamilyOf[p[2]] = g
    BY <1>11 DEF MInv, ChainOK, OneToOne
  <2>2. \A u \in Thread : \A p : ~Installed(u, p)
    BY <1>3 DEF Installed
  <2>3. ASSUME NEW g \in families, NEW p \in chain'[g] PROVE FamilyOf[p[2]] = g /\ Backed(p)'
    <3>1. g \in Family
      BY FamilyFacts DEF MInv
    <3>2. p \in chain[g] /\ (g = f => p \notin R)
      BY <3>1, <1>11
    <3>3. p \in Address \X Real
      BY <3>1, <3>2, FamilyFacts DEF MInv
    <3>4. p = <<p[1], p[2]>> /\ p[2] \in Real
      BY <3>3
    <3>5. FamilyOf[p[2]] = g /\ fake_ip[p[2]] = p[1]
      BY <3>1, <3>2, <2>2, <1>3 DEF MInv, ChainOK, Backed
    <3>6. p[2] \notin D
      BY <3>2, <3>4, <3>5, <1>4, <1>12
    <3> QED BY <3>4, <3>5, <3>6, <1>6 DEF Backed
  <2>4. ASSUME NEW r \in Real, fake_ip'[r] # None
        PROVE  <<fake_ip'[r], r>> \in chain'[FamilyOf[r]]
    <3>1. r \notin D /\ fake_ip'[r] = fake_ip[r] /\ <<fake_ip[r], r>> \in chain[FamilyOf[r]]
      BY <2>4, <1>3, <1>6 DEF MInv, ChainOK
    <3>2. FamilyOf[r] \in Family
      BY FamilyFacts DEF MInv
    <3> QED BY <3>1, <3>2, <1>11, <1>13
  <2> QED BY <2>1, <2>3, <2>4, <1>1, <1>3 DEF ChainOK
<1>15. GotOK'
  <2>1. ASSUME NEW u \in Thread, NEW p \in req[u].got
        PROVE  p[2] \in Real /\ p[2] \notin D
    <3>1. p[2] \in Real /\ idle[p[2]] <= req[u].age + MaxDelay
      BY ReqFacts DEF MInv, GotOK
    <3>2. req[u].age \in 0 .. MaxDelay /\ MaxDelay \in Nat /\ MaxTtl \in Nat /\ Expiry \in Nat
          /\ idle[p[2]] \in Int
      BY <3>1, ReqFacts, ConstantsAssumption DEF MInv, TInv, TypeOK
    <3>3. ~(idle[p[2]] > Expiry)
      BY <3>1, <3>2, ExpiryAssumption
    <3> QED BY <3>1, <3>3, <1>4
  <2> QED BY <2>1, <1>1, <1>6 DEF MInv, GotOK
<1>16. CacheOK'
  <2>1. ASSUME NEW p \in Cached, Served(p) PROVE Served(p)'
    <3>1. p \in Address \X Real /\ cache[p] \in 0 .. MaxTtl /\ cache[p] > 0
      BY DEF Cached, MInv, TInv, TypeOK
    <3>2. p[2] \in Real /\ FamilyOf[p[2]] \in Family
      BY <3>1, FamilyFacts DEF MInv
    <3>3. CASE FamilyOf[p[2]] \in families
      <4>1. fake_ip[p[2]] = p[1] /\ cache[p] + idle[p[2]] <= Expiry
        BY <2>1, <3>3 DEF Served
      <4>2. idle[p[2]] \in Int /\ Expiry \in Nat
        BY <3>2, ConstantsAssumption DEF MInv, TInv, TypeOK
      <4>3. ~(idle[p[2]] > Expiry)
        BY <3>1, <4>1, <4>2
      <4>4. p[2] \notin D
        BY <4>3, <1>4
      <4> QED BY <3>2, <3>3, <4>1, <4>4, <1>1, <1>6 DEF Served
    <3>4. CASE FamilyOf[p[2]] \notin families
      <4>1. \A r \in D : FamilyOf[r] \in families
        BY <1>4 DEF MInv, ServedOK
      <4>2. p[2] \notin D /\ p \in chain[FamilyOf[p[2]]]
        BY <4>1, <3>4, <2>1 DEF Served
      <4>3. p \notin R
        BY <4>2 DEF R
      <4> QED BY <3>2, <3>4, <4>2, <4>3, <1>1, <1>11 DEF Served
    <3> QED BY <3>3, <3>4
  <2>2. Cached' = Cached
    BY <1>1 DEF Cached
  <2> QED BY <2>1, <2>2, <1>1, <1>3 DEF MInv, CacheOK
<1> QED BY <1>0, <1>7, <1>8, <1>9, <1>10, <1>14, <1>15, <1>16 DEF MInv

-----------------------------------------------------------------------------
(* The process and the host *)

\* The process dies: memory is gone, chains stay.
LEMMA DieMInv ==
  ASSUME MInv, Exit \/ Crash
  PROVE  MInv'
<1>0. TInv'
  BY TypeStep DEF Next, Service
<1> USE DEF host, config
<1>1. /\ proc # "down" /\ proc' = "down"
      /\ fake_ip' = NoEntries /\ idle' = ZeroAges
      /\ req' = NoRequests /\ sweep' = NoSweep
      /\ UNCHANGED <<chain, cache, raced, families, nets, stale>>
  BY DEF Exit, Crash, Die
<1>2. \A u \in Thread : req'[u] = Idle
  BY <1>1 DEF NoRequests
<1>3. \A u \in Thread : /\ req'[u].cur = {} /\ req'[u].todo = {} /\ req'[u].got = {}
                        /\ req'[u].pc = "idle" /\ ~Busy(u)'
  BY <1>2 DEF Idle, Busy
<1>4. \A r \in Real : fake_ip'[r] = None
  BY <1>1 DEF NoEntries
<1>5. LockOK' /\ SweepOK' /\ DownOK'
  BY <1>1, <1>3 DEF LockOK, SweepOK, DownOK, NoSweep
<1>6. ServedOK' /\ DistinctOK' /\ PoolOK' /\ GotOK'
  BY <1>1, <1>3, <1>4 DEF ServedOK, DistinctOK, PoolOK, GotOK
<1>7. ChainOK'
  <2>1. ASSUME NEW f \in families, NEW p \in chain[f] PROVE p[1] \in Hosts(nets[f])
    <3>1. FamilyOf[p[2]] = f /\ Backed(p) /\ f \in Family
      BY <1>1, FamilyFacts DEF MInv, ChainOK
    <3>2. p \in Address \X Real
      BY <3>1, FamilyFacts DEF MInv
    <3>3. p[1] \in Address /\ p[2] \in Real
      BY <3>2
    <3>4. p[1] \in Holders(f)
      <4>1. CASE fake_ip[p[2]] = p[1]
        BY <4>1, <3>1, <3>3 DEF Holders, InTable
      <4>2. ASSUME NEW u \in Thread, Installed(u, p) PROVE p[1] \in Holders(f)
        BY <4>2, <3>1, <3>3 DEF Installed, Holders, Held
      <4> QED BY <3>1, <4>1, <4>2 DEF Backed
    <3>5. PoolOf(pools[f], nets[f], Holders(f))
      BY <1>1 DEF MInv, PoolOK
    <3> QED BY <3>3, <3>4, <3>5 DEF PoolOf
  <2>2. \A f \in Family : OneToOne(chain[f]) /\ \A p \in chain[f] : FamilyOf[p[2]] = f
    BY DEF MInv, ChainOK
  <2> QED BY <2>1, <2>2, <1>1 DEF ChainOK
<1>8. CacheOK'
  <2>1. ASSUME proc = "up", NEW p \in Cached, Served(p) PROVE Ruled(p)
    <3>1. p \in Address \X Real
      BY DEF Cached
    <3>2. p = <<p[1], p[2]>> /\ p[1] \in Address /\ p[2] \in Real
      BY <3>1
    <3>3. p[1] # None
      BY <3>2, AddressPositive
    <3> QED BY <3>2, <3>3, <2>1 DEF Served, Ruled, MInv, ChainOK
  <2>2. Cached' = Cached /\ \A p : Ruled(p)' <=> Ruled(p)
    BY <1>1 DEF Cached, Ruled
  <2>3. proc = "up" \/ proc = "failing"
    BY <1>1 DEF MInv, TInv, TypeOK
  <2> QED BY <2>1, <2>2, <2>3, <1>1 DEF MInv, CacheOK
<1> QED BY <1>0, <1>5, <1>6, <1>7, <1>8 DEF MInv

\* A start rebuilds the table from the chains: each entry has the rule's address.
LEMMA LoadedTable ==
  ASSUME NEW C \in SUBSET (Address \X Real), OneToOne(C), NEW r \in Real
  PROVE  /\ FakeFor(C, r) # None => <<FakeFor(C, r), r>> \in C
         /\ \A a \in Address : <<a, r>> \in C => FakeFor(C, r) = a
<1>1. \A p \in C : p[1] \in Address /\ p[2] \in Real /\ p = <<p[1], p[2]>>
  OBVIOUS
<1>2. ASSUME r \in Reals(C) PROVE <<FakeFor(C, r), r>> \in C
  <2>1. PICK p \in C : p[2] = r
    BY <1>2 DEF Reals
  <2>2. p[1] \in Fakes(C) /\ <<p[1], r>> \in C
    BY <2>1, <1>1 DEF Fakes
  <2> QED BY <1>2, <2>2 DEF FakeFor
<1>3. r \notin Reals(C) => FakeFor(C, r) = None
  BY DEF FakeFor
<1>4. ASSUME NEW a \in Address, <<a, r>> \in C PROVE FakeFor(C, r) = a
  <2>1. r \in Reals(C)
    <3>1. <<a, r>>[2] = r
      OBVIOUS
    <3> QED BY <1>4, <3>1 DEF Reals
  <2>2. <<FakeFor(C, r), r>> \in C
    BY <2>1, <1>2
  <2> HIDE DEF FakeFor
  <2>3. <<FakeFor(C, r), r>>[2] = <<a, r>>[2]
    OBVIOUS
  <2>4. <<FakeFor(C, r), r>>[1] = <<a, r>>[1]
    BY <2>2, <2>3, <1>4 DEF OneToOne
  <2> QED BY <2>4
<1> QED BY <1>2, <1>3, <1>4

\* A start: the chains that were loaded agree with the new table.
LEMMA StartMInv ==
  ASSUME MInv, Start
  PROVE  MInv'
<1>0. TInv'
  BY TypeStep DEF Next, Service
<1> USE DEF host, config
<1>1. /\ proc = "down" /\ proc' = "up" /\ ~stale'
      /\ UNCHANGED <<idle, req, sweep, flushing, chain, families, nets>>
  BY DEF Start
<1>2. /\ \A u \in Thread : req[u] = Idle
      /\ \A r \in Real : idle[r] = 0
      /\ sweep = NoSweep
  BY <1>1 DEF MInv, DownOK, NoRequests, ZeroAges
<1>3. \A u \in Thread : /\ req'[u].cur = {} /\ req'[u].todo = {} /\ req'[u].got = {}
                        /\ req'[u].pc = "idle" /\ ~Busy(u)'
  BY <1>1, <1>2 DEF Idle, Busy
<1>4. \A f \in families : /\ f \in Family /\ chain[f] \in SUBSET (Address \X Real)
                          /\ OneToOne(chain[f]) /\ Fakes(chain[f]) \subseteq Hosts(nets[f])
                          /\ pools'[f] = Claimed(Fakes(chain[f]))
  BY FamilyFacts DEF Start, LoadOk, MInv
<1>5. \A r \in Real :
        /\ FamilyOf[r] \notin families => fake_ip'[r] = None
        /\ FamilyOf[r] \in families =>
             /\ fake_ip'[r] # None => <<fake_ip'[r], r>> \in chain[FamilyOf[r]]
             /\ \A a \in Address : <<a, r>> \in chain[FamilyOf[r]] => fake_ip'[r] = a
  <2> TAKE r \in Real
  <2>1. fake_ip'[r] = IF FamilyOf[r] \in families THEN FakeFor(chain[FamilyOf[r]], r) ELSE None
    BY DEF Start
  <2>2. CASE FamilyOf[r] \notin families
    BY <2>1, <2>2
  <2>3. CASE FamilyOf[r] \in families
    <3>1. fake_ip'[r] = FakeFor(chain[FamilyOf[r]], r)
      BY <2>1, <2>3
    <3> QED BY <2>3, <3>1, <1>4, LoadedTable
  <2> QED BY <2>2, <2>3
<1>6. LockOK' /\ SweepOK' /\ DownOK' /\ GotOK'
  BY <1>1, <1>2, <1>3 DEF LockOK, SweepOK, DownOK, GotOK, NoSweep
<1>7. ServedOK'
  BY <1>1, <1>3, <1>5 DEF ServedOK
<1>8. DistinctOK'
  <2>1. ASSUME NEW r \in Real, NEW s \in Real, FamilyOf[r] = FamilyOf[s],
               fake_ip'[r] = fake_ip'[s], fake_ip'[r] # None
        PROVE  r = s
    <3>1. FamilyOf[r] \in families /\ <<fake_ip'[r], r>> \in chain[FamilyOf[r]]
          /\ <<fake_ip'[r], s>> \in chain[FamilyOf[r]]
      BY <2>1, <1>5
    <3>2. OneToOne(chain[FamilyOf[r]])
      BY <3>1, <1>4
    <3>3. <<fake_ip'[r], r>>[1] = <<fake_ip'[r], s>>[1]
      OBVIOUS
    <3>4. <<fake_ip'[r], r>>[2] = <<fake_ip'[r], s>>[2]
      BY <3>1, <3>2, <3>3 DEF OneToOne
    <3> QED BY <3>4
  <2> QED BY <2>1, <1>3 DEF DistinctOK
<1>9. \A f \in families : \A p \in chain[f] :
        p[1] \in Address /\ p[2] \in Real /\ FamilyOf[p[2]] = f /\ fake_ip'[p[2]] = p[1]
  <2> TAKE f \in families
  <2> TAKE p \in chain[f]
  <2>1. p \in Address \X Real
    BY <1>4
  <2>2. p = <<p[1], p[2]>> /\ p[1] \in Address /\ p[2] \in Real
    BY <2>1
  <2>3. FamilyOf[p[2]] = f
    BY <1>4 DEF MInv, ChainOK
  <2> QED BY <2>2, <2>3, <1>5
<1>10. PoolOK'
  <2> SUFFICES ASSUME NEW f \in families PROVE PoolOf(pools'[f], nets[f], Holders(f)')
    BY <1>1 DEF PoolOK
  <2>1. \A g, b : ~Held(g, b)'
    BY <1>3 DEF Held
  <2>2. ASSUME NEW b \in Address PROVE InTable(f, b)' <=> b \in Fakes(chain[f])
    <3>1. ASSUME NEW r \in Real, FamilyOf[r] = f, fake_ip'[r] = b PROVE b \in Fakes(chain[f])
      <4>1. b # None
        BY AddressPositive
      <4>2. <<b, r>> \in chain[f]
        BY <4>1, <3>1, <1>5
      <4>3. <<b, r>>[1] = b
        OBVIOUS
      <4> QED BY <4>2, <4>3 DEF Fakes
    <3>2. ASSUME NEW p \in chain[f], p[1] = b PROVE InTable(f, b)'
      <4>1. p[2] \in Real /\ FamilyOf[p[2]] = f /\ fake_ip'[p[2]] = b
        BY <3>2, <1>9
      <4> QED BY <4>1 DEF InTable
    <3>3. b \in Fakes(chain[f]) => \E p \in chain[f] : p[1] = b
      BY DEF Fakes
    <3> QED BY <3>1, <3>2, <3>3 DEF InTable
  <2>3. \A b \in Address : b \in Holders(f)' <=> b \in Fakes(chain[f])
    BY <2>1, <2>2 DEF Holders
  <2>4. /\ pools'[f].used = Fakes(chain[f]) /\ pools'[f].released = {}
        /\ pools'[f].next_offset = 1
    BY <1>4 DEF Claimed, NewPool
  <2>5. Fakes(chain[f]) \subseteq Hosts(nets[f])
    BY <1>4
  <2>6. \A a \in Address : ~(a \in Hosts(nets[f]) /\ a < nets[f].base + 1)
    <3>1. nets[f] \in Network
      BY <1>4, FamilyFacts DEF MInv
    <3> QED BY <3>1 DEF Hosts, Network
  <2> QED BY <2>3, <2>4, <2>5, <2>6 DEF PoolOf
<1>11. ChainOK'
  <2>1. \A f \in Family : OneToOne(chain[f]) /\ \A p \in chain[f] : FamilyOf[p[2]] = f
    BY DEF MInv, ChainOK
  <2>2. \A f \in families : \A p \in chain[f] : Backed(p)'
    BY <1>9 DEF Backed
  <2>3. \A r \in Real : fake_ip'[r] # None => <<fake_ip'[r], r>> \in chain[FamilyOf[r]]
    BY <1>5
  <2> QED BY <2>1, <2>2, <2>3, <1>1, <1>3 DEF ChainOK
<1>12. CacheOK'
  <2> SUFFICES ASSUME ~raced', NEW p \in Cached' PROVE Served(p)'
    BY <1>1 DEF CacheOK
  <2>1. p \in Address \X Real
    BY DEF Cached
  <2>2. p = <<p[1], p[2]>> /\ p[1] \in Address /\ p[2] \in Real
    BY <2>1
  <2>3. chain[4] # {} /\ ~raced /\ cache' = cache
    <3>1. CASE chain[4] = {}
      <4>1. cache'[p] = 0
        BY <3>1, <2>1 DEF Start, PreStart, ClearsCache, NoAnswers
      <4> QED BY <4>1 DEF Cached
    <3>2. CASE chain[4] # {}
      BY <3>2 DEF Start, PreStart, ClearsCache
    <3> QED BY <3>1, <3>2
  <2>4. p \in Cached
    BY <2>3 DEF Cached
  <2>5. Ruled(p)
    BY <2>3, <2>4, <1>1 DEF MInv, CacheOK
  <2>6. CASE FamilyOf[p[2]] \in families
    <3>1. <<p[1], p[2]>> \in chain[FamilyOf[p[2]]]
      BY <2>2, <2>5 DEF Ruled
    <3>2. fake_ip'[p[2]] = p[1]
      BY <3>1, <2>2, <2>6, <1>5
    <3>3. cache[p] \in 0 .. MaxTtl
      BY <2>1 DEF MInv, TInv, TypeOK
    <3>4. cache[p] + 0 <= Expiry
      <4>1. MaxDelay \in Nat /\ MaxTtl \in Nat /\ Expiry \in Nat
        BY ConstantsAssumption
      <4> QED BY <3>3, <4>1, ExpiryAssumption
    <3> QED BY <2>2, <2>3, <2>6, <3>2, <3>4, <1>1, <1>2 DEF Served
  <2>7. CASE FamilyOf[p[2]] \notin families
    BY <2>5, <2>7, <1>1 DEF Served, Ruled
  <2> QED BY <2>6, <2>7
<1> QED BY <1>0, <1>6, <1>7, <1>8, <1>10, <1>11, <1>12 DEF MInv

\* The steps that change neither the memory nor the network of a dead process.
LEMMA DownFrame ==
  ASSUME MInv, proc = "down", UNCHANGED <<proc, fake_ip, idle, req, sweep>>
  PROVE  LockOK' /\ SweepOK' /\ DownOK' /\ ServedOK' /\ DistinctOK' /\ PoolOK' /\ GotOK'
<1>1. \A u \in Thread : req[u] = Idle
  BY DEF MInv, DownOK, NoRequests
<1>2. \A u \in Thread : /\ req[u].cur = {} /\ req[u].todo = {} /\ req[u].got = {}
                        /\ req[u].pc = "idle" /\ ~Busy(u)' /\ req' = req
  BY <1>1 DEF Idle, Busy
<1>3. \A r \in Real : fake_ip'[r] = None
  BY DEF MInv, DownOK, NoEntries
<1>4. LockOK' /\ SweepOK' /\ DownOK'
  BY <1>2 DEF MInv, LockOK, SweepOK, DownOK, NoSweep
<1>5. ServedOK' /\ DistinctOK' /\ PoolOK' /\ GotOK'
  BY <1>2, <1>3 DEF ServedOK, DistinctOK, PoolOK, GotOK
<1> QED BY <1>4, <1>5

\* A start that refuses the chains it finds.
LEMMA StartInvalidMInv ==
  ASSUME MInv, StartInvalid
  PROVE  MInv'
<1>0. TInv'
  BY TypeStep DEF Next, Service
<1> USE DEF host, config, memory
<1>1. /\ proc = "down" /\ UNCHANGED <<proc, fake_ip, idle, req, sweep, flushing, families, nets, stale>>
  BY DEF StartInvalid
<1>2. PICK F \in {{}, {4}, families} :
        chain' = [f \in Family |-> IF f \in F THEN {} ELSE chain[f]]
  BY DEF StartInvalid
<1>3. \A f \in Family : chain'[f] = chain[f] \/ chain'[f] = {}
  BY <1>2
<1>4. 4 \in families /\ families \subseteq Family
  BY FamilyFacts DEF MInv
<1>5. chain'[4] = {} \/ \A f \in Family : chain'[f] = chain[f]
  BY <1>2, <1>4 DEF Family
<1>6. ChainOK'
  <2>1. \A f \in Family : OneToOne(chain'[f]) /\ \A p \in chain'[f] : FamilyOf[p[2]] = f
    BY <1>3 DEF MInv, ChainOK, OneToOne
  <2>2. ~stale => \A f \in families : \A p \in chain'[f] : p[1] \in Hosts(nets[f])
    BY <1>1, <1>3, <1>4 DEF MInv, ChainOK
  <2> QED BY <2>1, <2>2, <1>1 DEF ChainOK
<1>7. CacheOK'
  <2> SUFFICES ASSUME ~raced', chain'[4] # {}, NEW p \in Cached' PROVE Ruled(p)'
    BY <1>1 DEF CacheOK
  <2>1. p \in Address \X Real
    BY DEF Cached
  <2>2. FamilyOf[p[2]] \in Family
    BY <2>1, FamilyFacts DEF MInv
  <2>3. \A f \in Family : chain'[f] = chain[f]
    BY <1>5
  <2>4. chain[4] # {}
    BY <2>3 DEF Family
  <2>5. ~raced /\ cache' = cache
    BY <2>4 DEF StartInvalid, PreStart, ClearsCache
  <2>6. Ruled(p)
    BY <2>4, <2>5, <1>1 DEF MInv, CacheOK, Cached
  <2> QED BY <2>2, <2>3, <2>6 DEF Ruled
<1> QED BY <1>0, <1>1, <1>6, <1>7, DownFrame DEF MInv

\* A cutover flushes the chains of a dead process.
LEMMA CutoverFlushMInv ==
  ASSUME MInv, CutoverFlush
  PROVE  MInv'
<1>0. TInv'
  BY TypeStep DEF Next, Service
<1> USE DEF host, config, memory
<1>1. /\ proc = "down"
      /\ UNCHANGED <<proc, fake_ip, idle, req, sweep, flushing, cache, raced, families, nets, stale>>
  BY DEF CutoverFlush
<1>2. PICK F \in {{4}, Family} :
        chain' = [f \in Family |-> IF f \in F THEN {} ELSE chain[f]]
  BY DEF CutoverFlush
<1>3. /\ \A f \in Family : chain'[f] = chain[f] \/ chain'[f] = {}
      /\ chain'[4] = {}
  BY <1>2 DEF Family
<1>4. families \subseteq Family
  BY FamilyFacts DEF MInv
<1>5. ChainOK'
  <2>1. \A f \in Family : OneToOne(chain'[f]) /\ \A p \in chain'[f] : FamilyOf[p[2]] = f
    BY <1>3 DEF MInv, ChainOK, OneToOne
  <2>2. ~stale => \A f \in families : \A p \in chain'[f] : p[1] \in Hosts(nets[f])
    BY <1>1, <1>3, <1>4 DEF MInv, ChainOK
  <2> QED BY <2>1, <2>2, <1>1 DEF ChainOK
<1>6. CacheOK'
  BY <1>1, <1>3 DEF CacheOK
<1> QED BY <1>0, <1>1, <1>5, <1>6, DownFrame DEF MInv

\* The setup file changes.
LEMMA ReconfigureMInv ==
  ASSUME MInv, Reconfigure
  PROVE  MInv'
<1>0. TInv'
  BY TypeStep DEF Next, Service
<1> USE DEF host, memory
<1>1. /\ proc = "down" /\ stale'
      /\ UNCHANGED <<proc, fake_ip, idle, req, sweep, flushing, chain, cache, raced>>
  BY DEF Reconfigure
<1>2. ChainOK'
  BY <1>1 DEF MInv, ChainOK, OneToOne
<1>3. CacheOK'
  BY <1>1 DEF MInv, CacheOK, Cached, Ruled
<1> QED BY <1>0, <1>1, <1>2, <1>3, DownFrame DEF MInv

\* Time passes: every age grows by one, and no answer outlives its entry.
LEMMA TickMInv ==
  ASSUME MInv, Tick
  PROVE  MInv'
<1>0. TInv'
  BY TypeStep DEF Next
<1> USE DEF config
<1>1. UNCHANGED <<proc, pools, fake_ip, sweep, flushing, chain, raced, families, nets, stale>>
  BY DEF Tick
<1>2. \A u \in Thread : /\ req'[u].pc = req[u].pc /\ req'[u].todo = req[u].todo
                        /\ req'[u].cur = req[u].cur /\ req'[u].fake = req[u].fake
                        /\ req'[u].got = req[u].got
                        /\ req[u].pc # "idle" => req'[u].age = req[u].age + 1
  <2> TAKE u \in Thread
  <2>1. req[u] \in ReqType
    BY ReqFacts DEF MInv
  <2>2. req'[u] = IF req[u].pc = "idle" THEN req[u] ELSE [req[u] EXCEPT !.age = @ + 1]
    BY DEF Tick
  <2> QED BY <2>1, <2>2 DEF ReqType
<1>3. \A r \in Real : /\ idle[r] \in 0 .. Expiry + 1 /\ idle'[r] \in Int
                      /\ fake_ip[r] = None => idle'[r] = 0
                      /\ fake_ip[r] # None => idle'[r] <= idle[r] + 1
                      /\ fake_ip[r] # None /\ idle[r] > Expiry => idle'[r] > Expiry
  <2> TAKE r \in Real
  <2>1. idle[r] \in 0 .. Expiry + 1 /\ Expiry \in Nat
    BY ConstantsAssumption DEF MInv, TInv, TypeOK
  <2>2. idle'[r] = IF fake_ip[r] = None THEN 0 ELSE Older(idle[r])
    BY DEF Tick
  <2> QED BY <2>1, <2>2 DEF Older
<1>4. LockOK'
  BY <1>1, <1>2 DEF MInv, LockOK, Busy
<1>5. SweepOK'
  <2>1. sweep.doomed \subseteq Real
    BY DEF MInv, TInv, TypeOK
  <2> QED BY <2>1, <1>1, <1>3 DEF MInv, SweepOK
<1>6. DownOK'
  <2> SUFFICES ASSUME proc = "down" PROVE idle' = ZeroAges /\ req' = NoRequests
    BY <1>1 DEF MInv, DownOK
  <2>1. \A r \in Real : idle'[r] = 0
    BY <1>3 DEF MInv, DownOK, NoEntries
  <2>2. \A u \in Thread : req'[u] = Idle
    BY SMTT(30) DEF MInv, DownOK, NoRequests, Tick, Idle
  <2>3. idle' = [r \in Real |-> 0]
    BY <2>1 DEF Tick
  <2>4. req' = [u \in Thread |-> Idle]
    BY <2>2 DEF Tick
  <2> QED BY <2>3, <2>4 DEF ZeroAges, NoRequests
<1>7. ServedOK' /\ DistinctOK'
  BY <1>1, <1>2 DEF MInv, ServedOK, DistinctOK
<1>8. PoolOK'
  <2>1. \A g, b : (InTable(g, b)' <=> InTable(g, b)) /\ (Held(g, b)' <=> Held(g, b))
    BY <1>1, <1>2 DEF InTable, Held
  <2>2. \A g : Holders(g)' = Holders(g)
    BY <2>1 DEF Holders
  <2> QED BY <2>2, <1>1 DEF MInv, PoolOK
<1>9. ChainOK'
  <2>1. \A u \in Thread : \A p : Installed(u, p)' <=> Installed(u, p)
    BY <1>2 DEF Installed
  <2> QED BY <2>1, <1>1, <1>2 DEF MInv, ChainOK, Backed, OneToOne
<1>10. GotOK'
  <2> SUFFICES ASSUME NEW u \in Thread
               PROVE  /\ req'[u].pc = "idle" => req'[u].got = {}
                      /\ \A p \in req'[u].got :
                           fake_ip[p[2]] = p[1] /\ idle'[p[2]] <= req'[u].age + MaxDelay
    BY <1>1 DEF GotOK
  <2>1. req'[u].pc = "idle" => req'[u].got = {}
    BY <1>2 DEF MInv, GotOK
  <2>2. ASSUME NEW p \in req[u].got
        PROVE  fake_ip[p[2]] = p[1] /\ idle'[p[2]] <= req'[u].age + MaxDelay
    <3>1. p \in Address \X Real /\ req[u].age \in 0 .. MaxDelay
      BY ReqFacts DEF MInv
    <3>2. p[2] \in Real /\ p[1] # None
      BY <3>1, AddressPositive
    <3>3. fake_ip[p[2]] = p[1] /\ idle[p[2]] <= req[u].age + MaxDelay /\ req[u].pc # "idle"
      BY DEF MInv, GotOK
    <3>4. idle'[p[2]] <= idle[p[2]] + 1 /\ idle[p[2]] \in Int /\ idle'[p[2]] \in Int
      BY <3>2, <3>3, <1>3
    <3>5. MaxDelay \in Nat
      BY ConstantsAssumption
    <3> QED BY <3>1, <3>3, <3>4, <3>5, <1>2
  <2> QED BY <2>1, <2>2, <1>2
<1>11. CacheOK'
  <2>1. ASSUME NEW p \in Cached'
        PROVE  p \in Cached /\ p \in Address \X Real /\ cache'[p] = cache[p] - 1 /\ cache[p] \in Int
    <3>1. p \in Address \X Real
      BY DEF Cached
    <3>2. cache'[p] = (IF cache[p] = 0 THEN 0 ELSE cache[p] - 1) /\ cache[p] \in 0 .. MaxTtl
      BY <3>1 DEF Tick, MInv, TInv, TypeOK
    <3>3. cache'[p] > 0
      BY DEF Cached
    <3> QED BY <3>1, <3>2, <3>3 DEF Cached
  <2>2. ASSUME NEW p \in Cached', Served(p) PROVE Served(p)'
    <3>1. CASE FamilyOf[p[2]] \in families
      <4>1. p[2] \in Real /\ p[1] # None /\ cache'[p] = cache[p] - 1 /\ cache[p] \in Int
        BY <2>1, AddressPositive
      <4>2. fake_ip[p[2]] = p[1] /\ cache[p] + idle[p[2]] <= Expiry
        BY <2>2, <3>1 DEF Served
      <4>3. idle'[p[2]] <= idle[p[2]] + 1 /\ idle[p[2]] \in Int /\ idle'[p[2]] \in Int
        BY <4>1, <4>2, <1>3
      <4>4. Expiry \in Nat
        BY ConstantsAssumption
      <4>5. cache'[p] + idle'[p[2]] <= Expiry
        BY <4>1, <4>2, <4>3, <4>4
      <4> QED BY <3>1, <4>2, <4>5, <1>1 DEF Served
    <3>2. CASE FamilyOf[p[2]] \notin families
      BY <2>2, <3>2, <1>1 DEF Served
    <3> QED BY <3>1, <3>2
  <2>3. \A p : Ruled(p)' <=> Ruled(p)
    BY <1>1 DEF Ruled
  <2> QED BY <2>1, <2>2, <2>3, <1>1 DEF MInv, CacheOK
<1> QED BY <1>0, <1>4, <1>5, <1>6, <1>7, <1>8, <1>9, <1>10, <1>11 DEF MInv

-----------------------------------------------------------------------------
LEMMA InitMInv == Init => MInv
<1> SUFFICES ASSUME Init PROVE MInv
  OBVIOUS
<1>0. TInv
  BY InitTInv
<1>1. /\ proc = "down" /\ fake_ip = NoEntries /\ idle = ZeroAges /\ req = NoRequests
      /\ sweep = NoSweep /\ cache = NoAnswers /\ ~stale /\ \A f \in Family : chain[f] = {}
  BY DEF Init
<1>2. \A u \in Thread : /\ req[u].cur = {} /\ req[u].todo = {} /\ req[u].got = {} /\ ~Busy(u)
  BY <1>1 DEF NoRequests, Idle, Busy
<1>3. \A r \in Real : fake_ip[r] = None
  BY <1>1 DEF NoEntries
<1>4. LockOK /\ SweepOK /\ DownOK
  BY <1>1, <1>2 DEF LockOK, SweepOK, DownOK, NoSweep
<1>5. ServedOK /\ DistinctOK /\ PoolOK /\ GotOK
  BY <1>1, <1>2, <1>3 DEF ServedOK, DistinctOK, PoolOK, GotOK
<1>6. ChainOK
  <2>1. families \subseteq Family
    BY <1>0, FamilyFacts
  <2> QED BY <2>1, <1>1 DEF ChainOK, OneToOne
<1>7. CacheOK
  BY <1>1 DEF CacheOK, Family
<1> QED BY <1>0, <1>4, <1>5, <1>6, <1>7 DEF MInv

\* Every step keeps the invariant.
LEMMA NextMInv == MInv /\ [Next]_vars => MInv'
<1> SUFFICES ASSUME MInv, [Next]_vars PROVE MInv'
  OBVIOUS
<1>1. ASSUME NEW t \in Thread, Resolve(t) PROVE MInv'
  <2>1. ASSUME NEW r \in Real, Hit(t, r) \/ Allocate(t, r) \/ Exhausted(t, r) PROVE MInv'
    BY <2>1, HitMInv, AllocateMInv, ExhaustedMInv
  <2> QED BY <1>1, <2>1, UpstreamMInv, InstallRuleMInv, InstallFailedMInv, RecordMappingMInv,
             ReplyMInv DEF Resolve
<1>2. CASE Cleanup
  BY <1>2, CleanupStartMInv, CleanupFamilyMInv, CleanupFailsMInv, FlushFamilyMInv DEF Cleanup
<1>3. CASE Service
  BY <1>3, DieMInv, StartMInv, StartInvalidMInv, ReconfigureMInv, CutoverFlushMInv DEF Service
<1>4. CASE Tick
  BY <1>4, TickMInv
<1>5. CASE UNCHANGED vars
  <2> USE <1>5 DEF vars, memory, host, config
  <2>0. TInv'
    BY NextTInv DEF MInv
  <2>1. LockOK' /\ SweepOK' /\ DownOK' /\ ServedOK' /\ DistinctOK'
    BY DEF MInv, LockOK, Busy, SweepOK, DownOK, ServedOK, DistinctOK
  <2>2. PoolOK'
    BY HoldersFrame DEF MInv, PoolOK
  <2>3. ChainOK'
    BY DEF MInv, ChainOK, Backed, Installed, OneToOne
  <2>4. GotOK' /\ CacheOK'
    BY DEF MInv, GotOK, CacheOK, Cached, Served, Ruled
  <2> QED BY <2>0, <2>1, <2>2, <2>3, <2>4 DEF MInv
<1> QED BY <1>1, <1>2, <1>3, <1>4, <1>5 DEF Next

\* The inductive invariant holds in every state.
THEOREM MappingInvariant == Spec => []MInv
  BY InitMInv, NextMInv, PTL DEF Spec

-----------------------------------------------------------------------------
(* What follows from it *)

\* What an entry of the table implies.
LEMMA EntryFacts ==
  ASSUME MInv, NEW f \in Family
  PROVE  /\ Entries(f) \subseteq Address \X Real
         /\ \A p \in Address \X Real :
              p \in Entries(f) <=> FamilyOf[p[2]] = f /\ fake_ip[p[2]] = p[1]
<1>1. \A r \in Real : fake_ip[r] \in Address \cup {None}
  BY DEF MInv, TInv, TypeOK
<1>2. Entries(f) \subseteq Address \X Real
  BY <1>1 DEF Entries, Mapped
<1>3. ASSUME NEW p \in Address \X Real
      PROVE  p \in Entries(f) <=> FamilyOf[p[2]] = f /\ fake_ip[p[2]] = p[1]
  <2>1. p = <<p[1], p[2]>> /\ p[1] \in Address /\ p[2] \in Real /\ p[1] # None
    <3>1. p = <<p[1], p[2]>> /\ p[1] \in Address /\ p[2] \in Real
      OBVIOUS
    <3> QED BY <3>1, AddressPositive
  <2>2. ASSUME p \in Entries(f) PROVE FamilyOf[p[2]] = f /\ fake_ip[p[2]] = p[1]
    <3>1. PICK r \in Mapped(f) : p = <<fake_ip[r], r>>
      BY <2>2 DEF Entries
    <3> QED BY <3>1 DEF Mapped
  <2>3. ASSUME FamilyOf[p[2]] = f, fake_ip[p[2]] = p[1] PROVE p \in Entries(f)
    BY <2>1, <2>3 DEF Entries, Mapped
  <2> QED BY <2>2, <2>3
<1> QED BY <1>2, <1>3

\* In every state two real addresses have two fake ones, and the rules a process
\* leaves behind are accepted by the next one.
THEOREM Mapping == Spec => []MappingOneToOne
<1>1. MInv => MappingOneToOne
  <2> SUFFICES ASSUME MInv PROVE MappingOneToOne
    OBVIOUS
  <2>1. ASSUME NEW f \in Family PROVE OneToOne(Entries(f))
    <3>1. ASSUME NEW p \in Entries(f), NEW q \in Entries(f) PROVE p[1] = q[1] <=> p[2] = q[2]
      <4>1. p \in Address \X Real /\ q \in Address \X Real
        BY EntryFacts
      <4>2. FamilyOf[p[2]] = f /\ fake_ip[p[2]] = p[1] /\ FamilyOf[q[2]] = f /\ fake_ip[q[2]] = q[1]
        BY <4>1, EntryFacts
      <4>3. p[2] \in Real /\ q[2] \in Real /\ p[1] # None
        BY <4>1, AddressPositive
      <4> QED BY <4>2, <4>3 DEF MInv, DistinctOK
    <3> QED BY <3>1 DEF OneToOne
  <2>2. ASSUME ~stale, NEW f \in families, NEW p \in chain[f] PROVE p[1] \in Hosts(nets[f])
    <3>1. CASE proc = "down"
      BY <2>2, <3>1 DEF MInv, ChainOK
    <3>2. CASE proc # "down"
      <4>1. f \in Family /\ FamilyOf[p[2]] = f /\ Backed(p)
        BY <3>2, FamilyFacts DEF MInv, ChainOK
      <4>2. p \in Address \X Real
        BY <4>1, FamilyFacts DEF MInv
      <4>3. p[1] \in Holders(f)
        <5>1. CASE fake_ip[p[2]] = p[1]
          BY <5>1, <4>1, <4>2 DEF Holders, InTable
        <5>2. ASSUME NEW u \in Thread, Installed(u, p) PROVE p[1] \in Holders(f)
          BY <5>2, <4>1, <4>2 DEF Installed, Holders, Held
        <5> QED BY <4>1, <5>1, <5>2 DEF Backed
      <4> QED BY <3>2, <4>2, <4>3 DEF MInv, PoolOK, PoolOf
    <3> QED BY <3>1, <3>2
  <2>3. ~stale => LoadOk
    <3>1. families \subseteq Family
      BY FamilyFacts DEF MInv
    <3> QED BY <2>2, <3>1 DEF LoadOk, Fakes, MInv, ChainOK
  <2> QED BY <2>1, <2>3 DEF MappingOneToOne, MInv, ChainOK
<1> QED BY <1>1, MappingInvariant, PTL

\* While the process is healthy the firewall is the table, rule for rule.
THEOREM Firewall == Spec => []FirewallMatchesTable
<1>1. MInv => FirewallMatchesTable
  <2> SUFFICES ASSUME MInv, proc = "up", NEW f \in families
               PROVE  chain[f] = Entries(f) \cup RuleInHand(f)
    BY DEF FirewallMatchesTable
  <2>1. f \in Family /\ chain[f] \subseteq Address \X Real
    BY FamilyFacts DEF MInv
  <2>2. RuleInHand(f) \subseteq Address \X Real /\ Entries(f) \subseteq Address \X Real
    BY <2>1, EntryFacts DEF RuleInHand
  <2>3. ASSUME NEW p \in Address \X Real
        PROVE  p \in RuleInHand(f) <=> FamilyOf[p[2]] = f /\ \E t \in Thread : Installed(t, p)
    BY DEF RuleInHand, Installed
  <2>4. ASSUME NEW p \in Address \X Real
        PROVE  p \in chain[f] <=> p \in Entries(f) \/ p \in RuleInHand(f)
    <3>1. p = <<p[1], p[2]>> /\ p[1] \in Address /\ p[2] \in Real /\ p[1] # None
      <4>1. p = <<p[1], p[2]>> /\ p[1] \in Address /\ p[2] \in Real
        OBVIOUS
      <4> QED BY <4>1, AddressPositive
    <3>2. p \in Entries(f) <=> FamilyOf[p[2]] = f /\ fake_ip[p[2]] = p[1]
      BY <2>1, EntryFacts
    <3>3. ASSUME p \in chain[f] PROVE p \in Entries(f) \/ p \in RuleInHand(f)
      BY <3>2, <3>3, <2>1, <2>3 DEF MInv, ChainOK, Backed
    <3>4. ASSUME p \in Entries(f) PROVE p \in chain[f]
      BY <3>1, <3>2, <3>4 DEF MInv, ChainOK
    <3>5. ASSUME NEW t \in Thread, Installed(t, p), FamilyOf[p[2]] = f PROVE p \in chain[f]
      BY <3>1, <3>5 DEF MInv, ChainOK, Installed
    <3> QED BY <3>3, <3>4, <3>5, <2>3
  <2> QED BY <2>1, <2>2, <2>4
<1> QED BY <1>1, MappingInvariant, PTL

\* No address of the pool is offered twice and none is lost.
THEOREM Pool == Spec => []PoolExact
<1>1. MInv => PoolExact
  <2> SUFFICES ASSUME MInv, proc # "down", NEW f \in families
               PROVE  /\ pools[f].used = Fakes(Entries(f)) \cup InHand(f)
                      /\ pools[f].used \cap pools[f].released = {}
                      /\ pools[f].used \cup pools[f].released \subseteq Hosts(nets[f])
                      /\ \A a \in Hosts(nets[f]) : a < nets[f].base + pools[f].next_offset =>
                           a \in pools[f].used \cup pools[f].released
    BY DEF PoolExact
  <2>1. f \in Family /\ pools[f] \in PoolType /\ Hosts(nets[f]) \subseteq Address
    BY FamilyFacts DEF MInv
  <2>2. PoolOf(pools[f], nets[f], Holders(f))
    BY DEF MInv, PoolOK
  <2>3. \A a \in Address : a \in Fakes(Entries(f)) <=> InTable(f, a)
    <3> TAKE a \in Address
    <3>1. ASSUME NEW p \in Entries(f), p[1] = a PROVE InTable(f, a)
      <4>1. p \in Address \X Real
        BY <2>1, EntryFacts
      <4> QED BY <3>1, <4>1, <2>1, EntryFacts DEF InTable
    <3>2. ASSUME NEW r \in Real, FamilyOf[r] = f, fake_ip[r] = a PROVE a \in Fakes(Entries(f))
      <4>1. a # None
        BY AddressPositive
      <4>2. <<a, r>> \in Entries(f)
        BY <3>2, <4>1 DEF Entries, Mapped
      <4>3. <<a, r>>[1] = a
        OBVIOUS
      <4> QED BY <4>2, <4>3 DEF Fakes
    <3> QED BY <3>1, <3>2 DEF Fakes, InTable
  <2>4. \A a : a \in InHand(f) <=> Held(f, a)
    BY DEF InHand, Held
  <2>5. Fakes(Entries(f)) \subseteq Address
    BY <2>1, EntryFacts DEF Fakes
  <2>6. InHand(f) \subseteq Address
    <3>1. ASSUME NEW t \in Thread, NEW r \in req[t].cur PROVE req[t].fake \in Address
      BY ReqFacts DEF MInv
    <3> QED BY <3>1 DEF InHand
  <2>7. pools[f].used \subseteq Address /\ pools[f].released \subseteq Address
    BY <2>1 DEF PoolType
  <2>8. \A a \in Address : a \in pools[f].used <=> a \in Fakes(Entries(f)) \cup InHand(f)
    BY <2>2, <2>3, <2>4 DEF PoolOf, Holders
  <2>9. pools[f].used = Fakes(Entries(f)) \cup InHand(f)
    BY <2>5, <2>6, <2>7, <2>8
  <2> QED BY <2>1, <2>2, <2>7, <2>9 DEF PoolOf
<1> QED BY <1>1, MappingInvariant, PTL

\* An answer Knot may still serve is routed to the address it was given for.
THEOREM Cache == Spec => []CacheRouted
<1>1. MInv => CacheRouted
  <2> SUFFICES ASSUME MInv, proc = "up", ~raced, NEW p \in DOMAIN cache, cache[p] > 0
               PROVE  p \in chain[FamilyOf[p[2]]]
    BY DEF CacheRouted
  <2>1. p \in Address \X Real
    BY DEF MInv, TInv, TypeOK
  <2>2. p = <<p[1], p[2]>> /\ p[1] \in Address /\ p[2] \in Real
    BY <2>1
  <2>3. p[1] # None
    BY <2>2, AddressPositive
  <2>4. Served(p)
    BY <2>1 DEF MInv, CacheOK, Cached
  <2> QED BY <2>2, <2>3, <2>4 DEF Served, MInv, ChainOK
<1> QED BY <1>1, MappingInvariant, PTL
=============================================================================
