----------------------- MODULE ScannerFirewallProofs -----------------------
(***************************************************************************)
(* The safety invariants of ScannerFirewall, proved for any addresses,     *)
(* threads, durations and bounds.                                          *)
(***************************************************************************)
EXTENDS ScannerFirewall, TLAPS

\* A record of scanner_blocks.json: what is said of its attempts is not needed.
Fields == {"strikes", "ban", "att", "since", "grace"}
IsRecord(r) == DOMAIN r = Fields /\ r.ban \in Nat /\ r.grace \in Nat

Working == {"count", "touch", "look", "check", "ban", "release"}
Thread == [pc : Working \cup {"idle", "psync", "papply", "restart"}, ip : Entries, now : Nat,
           then : {"idle", "psync", "release"}, snap : SUBSET Entries, on : BOOLEAN]

TypeOK ==
    /\ DOMAIN entries = IPs /\ \A ip \in IPs : IsRecord(entries[ip])
    /\ kset \in [IPs -> Nat] /\ legacy \subseteq IPs
    /\ port \in [on : BOOLEAN, allow : SUBSET Entries]
    /\ env \subseteq Entries /\ tfile \in [IPs -> Nat]
    /\ prot \in [scan : BOOLEAN, dwell : BOOLEAN, port : BOOLEAN] /\ direct \in BOOLEAN
    /\ perm \in [Procs -> SUBSET Entries] /\ temp \in [Procs -> [IPs -> Nat]]
    /\ lock \in [Procs -> Threads \cup {NoThread}]
    /\ th \in [Threads -> Thread]
    /\ up \in BOOLEAN /\ clock \in Nat
    /\ dirty \in BOOLEAN /\ alone \in BOOLEAN /\ granted \subseteq IPs /\ promised \in [IPs -> Nat]

\* What a thread works on; the command line tool counts no requests; no thread of
\* the panel outlives its process.
ThreadsOK ==
    /\ \A t \in Threads :
         /\ th[t].now <= clock
         /\ th[t].pc \in Working \/ th[t].then = "release" => th[t].ip \in IPs
    /\ th[Cli].pc \in {"idle", "psync", "papply", "release", "restart"}
    /\ ~up => \A t \in Panel : th[t].pc = "idle"

\* A thread that is about to ban holds _scanner_lock.
LockOK == \A t \in Panel : th[t].pc \in {"check", "ban"} => lock["panel"] = t

\* The copies of the panel and the files differ in expired entries at most.
CopiesOK ==
    up /\ th[Cli].pc = "idle" =>
        /\ perm["panel"] = env
        /\ \A ip \in IPs : \/ temp["panel"][ip] = tfile[ip]
                           \/ temp["panel"][ip] <= clock /\ tfile[ip] <= clock

\* The kernel does not know the address, its DROP rule present or not.
Unknown(ip) == kset[ip] <= clock /\ ip \notin legacy
Listed(ip) == ip \in perm["panel"] \/ temp["panel"][ip] > clock

OrphanOK == ~dirty => \A ip \in IPs : Unknown(ip) \/ entries[ip].ban > 0

\* Nobody has decided to ban an address that was released for its entry.
GrantedOK ==
    up => \A ip \in granted : Listed(ip) =>
        /\ Unknown(ip) /\ entries[ip].ban <= clock
        /\ \A t \in Panel : ~(th[t].pc = "ban" /\ th[t].ip = ip)

\* The pause on record is the one promised.
GraceOK ==
    \A ip \in IPs : clock < promised[ip] =>
        promised[ip] <= entries[ip].grace /\ entries[ip].ban <= clock /\ Unknown(ip)

\* Updates that have not overlapped are made one at a time, and the last one saw
\* the whitelist as it is, unless another update is due.
PortOK ==
    /\ alone => \A t, u \in Threads : th[t].pc = "papply" /\ th[u].pc = "papply" => t = u
    /\ up /\ alone /\ th[Cli].pc = "idle" /\ (\A t \in Panel : th[t].pc # "psync") =>
         /\ \A t \in Panel : th[t].pc = "papply" /\ th[t].on => perm["panel"] \subseteq th[t].snap
         /\ (\A t \in Panel : th[t].pc # "papply") /\ port.on => perm["panel"] \subseteq port.allow

SInv == TypeOK /\ ThreadsOK /\ LockOK /\ CopiesOK /\ OrphanOK /\ GrantedOK /\ GraceOK /\ PortOK

-----------------------------------------------------------------------------
(* What the operators do *)

\* The two processes and their threads.
LEMMA ThreadSets ==
  /\ Cli \in Threads /\ Panel \subseteq Threads /\ Cli \notin Panel
  /\ \A t \in Threads : t \in Panel <=> t # Cli
  /\ \A t \in Threads : Proc(t) \in Procs /\ (t \in Panel => Proc(t) = "panel")
  /\ Proc(Cli) = "cli" /\ "panel" \in Procs /\ "cli" \in Procs
  /\ \A t \in Panel : t # NoThread
  BY ScannerAssumption DEF Threads, Proc, Procs

\* What a whitelist may hold.
LEMMA EntrySets == IPs \subseteq Entries /\ Net \in Entries /\ Office \in Entries
  BY DEF Entries

\* The type of a thread's record.
LEMMA ThreadFacts ==
  ASSUME TypeOK, NEW t \in Threads
  PROVE  /\ th[t] \in Thread /\ th[t].now \in Nat /\ th[t].ip \in Entries
         /\ th[t].snap \subseteq Entries /\ th[t].on \in BOOLEAN
         /\ th[t].then \in {"idle", "psync", "release"}
<1>1. th[t] \in Thread
  BY DEF TypeOK
<1> QED BY <1>1 DEF Thread

\* A thread that gets a record of its own, and the others that keep theirs.
ThreadSet(t, pc, ip, then) ==
    /\ th' \in [Threads -> Thread]
    /\ \A u \in Threads : u # t => th'[u] = th[u]
    /\ th'[t].pc = pc /\ th'[t].ip = ip /\ th'[t].then = then
    /\ th'[t].now = 0 /\ th'[t].snap = {} /\ th'[t].on = FALSE

Pcs == Working \cup {"idle", "psync", "papply", "restart"}

\* The record of a thread with nothing to do.
LEMMA IdleFacts ==
  /\ Idle \in Thread /\ Idle.pc = "idle" /\ Idle.ip = Net /\ Idle.then = "idle"
  /\ Idle.now = 0 /\ Idle.snap = {} /\ Idle.on = FALSE
<1>1. Idle \in Thread
  BY EntrySets DEF Idle, Thread
<1> QED BY <1>1 DEF Idle

\* Assigning a whole record to a thread.
LEMMA RecordSets ==
  ASSUME TypeOK, NEW t \in Threads, NEW r \in Thread, th' = [th EXCEPT ![t] = r],
         r.now = 0, r.snap = {}, r.on = FALSE
  PROVE  ThreadSet(t, r.pc, r.ip, r.then)
<1>1. th'[t] = r /\ \A u \in Threads : u # t => th'[u] = th[u]
  BY DEF TypeOK
<1>2. th' \in [Threads -> Thread]
  BY DEF TypeOK
<1> QED BY <1>1, <1>2 DEF ThreadSet

\* A thread that begins an operation.
LEMMA ThenSets ==
  ASSUME TypeOK, NEW t \in Threads, NEW pc \in Pcs, NEW ip \in Entries,
         NEW then \in {"idle", "psync", "release"}, Then(t, pc, ip, then)
  PROVE  ThreadSet(t, pc, ip, then)
<1> DEFINE r == [Idle EXCEPT !.pc = pc, !.ip = ip, !.then = then]
<1>1. /\ r \in Thread /\ r.pc = pc /\ r.ip = ip /\ r.then = then
      /\ r.now = 0 /\ r.snap = {} /\ r.on = FALSE
  BY IdleFacts DEF Thread, Pcs
<1>2. th' = [th EXCEPT ![t] = r]
  BY DEF Then
<1> HIDE DEF r
<1> QED BY <1>1, <1>2, RecordSets

\* A thread that is done.
LEMMA DoneSets ==
  ASSUME TypeOK, NEW t \in Threads, Done(t)
  PROVE  ThreadSet(t, "idle", Net, "idle")
  BY IdleFacts, RecordSets DEF Done

\* A thread goes on with what its operation asked for; the command line tool ends with a restart.
LEMMA ContinueSets ==
  ASSUME TypeOK, NEW t \in Threads, Continue(t)
  PROVE  IF th[t].then # "idle" THEN ThreadSet(t, th[t].then, th[t].ip, "idle")
         ELSE ThreadSet(t, IF t = Cli THEN "restart" ELSE "idle", Net, "idle")
<1>0. th[t].ip \in Entries /\ th[t].then \in {"idle", "psync", "release"}
  BY ThreadFacts
<1>1. CASE th[t].then # "idle"
  <2> DEFINE r == [Idle EXCEPT !.pc = th[t].then, !.ip = th[t].ip]
  <2>1. th' = [th EXCEPT ![t] = r]
    BY <1>1 DEF Continue, TypeOK
  <2>2. /\ r \in Thread /\ r.pc = th[t].then /\ r.ip = th[t].ip /\ r.then = "idle"
        /\ r.now = 0 /\ r.snap = {} /\ r.on = FALSE
    BY IdleFacts, <1>0, <1>1 DEF Thread, Working
  <2> HIDE DEF r
  <2>3. ThreadSet(t, r.pc, r.ip, r.then)
    BY <2>1, <2>2, RecordSets
  <2> QED BY <1>1, <2>2, <2>3
<1>2. CASE th[t].then = "idle" /\ t = Cli
  <2> DEFINE r == [Idle EXCEPT !.pc = "restart"]
  <2>1. th' = [th EXCEPT ![t] = r]
    BY <1>2 DEF Continue, TypeOK
  <2>2. /\ r \in Thread /\ r.pc = "restart" /\ r.ip = Net /\ r.then = "idle"
        /\ r.now = 0 /\ r.snap = {} /\ r.on = FALSE
    BY IdleFacts DEF Thread
  <2> HIDE DEF r
  <2>3. ThreadSet(t, r.pc, r.ip, r.then)
    BY <2>1, <2>2, RecordSets
  <2> QED BY <1>2, <2>2, <2>3
<1>3. CASE th[t].then = "idle" /\ t # Cli
  <2>1. Done(t)
    BY <1>3 DEF Continue, TypeOK, Done
  <2> QED BY <1>3, <2>1, DoneSets
<1> QED BY <1>1, <1>2, <1>3

\* A thread moves on and keeps what it works on.
LEMMA GotoSets ==
  ASSUME TypeOK, NEW t \in Threads, NEW pc \in Pcs, Goto(t, pc)
  PROVE  /\ th' \in [Threads -> Thread]
         /\ \A u \in Threads : u # t => th'[u] = th[u]
         /\ th'[t].pc = pc /\ th'[t].ip = th[t].ip /\ th'[t].then = th[t].then
         /\ th'[t].now = th[t].now
<1>1. th[t] \in Thread
  BY ThreadFacts
<1>2. th'[t] = [th[t] EXCEPT !.pc = pc] /\ \A u \in Threads : u # t => th'[u] = th[u]
  BY DEF Goto, TypeOK
<1>3. th'[t] \in Thread
  BY <1>1, <1>2 DEF Thread, Pcs
<1>4. th' \in [Threads -> Thread]
  BY <1>3 DEF Goto, TypeOK
<1> QED BY <1>1, <1>2, <1>4 DEF Thread

\* purge_expired changes no answer; the file follows the memory when it is written.
LEMMA PurgeFacts ==
  ASSUME TypeOK, NEW p \in Procs, Purge(p)
  PROVE  /\ temp' \in [Procs -> [IPs -> Nat]] /\ tfile' \in [IPs -> Nat]
         /\ \A q \in Procs : q # p => temp'[q] = temp[q]
         /\ \A ip \in IPs : temp'[p][ip] = IF temp[p][ip] > clock THEN temp[p][ip] ELSE 0
         /\ tfile' = temp'[p] \/ (tfile' = tfile /\ temp' = temp)
<1> DEFINE left == [ip \in IPs |-> IF ip \in Live(p) THEN temp[p][ip] ELSE 0]
<1>1. temp' = [temp EXCEPT ![p] = left] /\ tfile' = IF left = temp[p] THEN tfile ELSE left
  BY DEF Purge
<1>2. temp[p] \in [IPs -> Nat]
  BY DEF TypeOK
<1>3. left \in [IPs -> Nat]
  BY <1>2
<1>4. \A ip \in IPs : left[ip] = IF temp[p][ip] > clock THEN temp[p][ip] ELSE 0
  BY DEF Live
<1> HIDE DEF left
<1>5. temp' \in [Procs -> [IPs -> Nat]] /\ temp'[p] = left /\ \A q \in Procs : q # p => temp'[q] = temp[q]
  BY <1>1, <1>3 DEF TypeOK
<1>6. left = temp[p] => temp' = temp
  BY <1>1 DEF TypeOK
<1>7. tfile' \in [IPs -> Nat]
  BY <1>1, <1>3 DEF TypeOK
<1> QED BY <1>1, <1>4, <1>5, <1>6, <1>7

\* purge_expired takes nobody off the whitelist.
LEMMA PurgeListed ==
  ASSUME TypeOK, NEW p \in Procs, Purge(p), UNCHANGED <<perm, clock>>
  PROVE  \A ip \in IPs : Listed(ip)' <=> Listed(ip)
<1>1. \A ip \in IPs : temp'["panel"][ip] > clock <=> temp["panel"][ip] > clock
  <2> TAKE ip \in IPs
  <2>1. temp["panel"][ip] \in Nat /\ clock \in Nat
    BY DEF TypeOK, Procs
  <2>2. temp'["panel"][ip] = temp["panel"][ip] \/
        temp'["panel"][ip] = IF temp["panel"][ip] > clock THEN temp["panel"][ip] ELSE 0
    BY PurgeFacts DEF Procs
  <2> QED BY <2>1, <2>2
<1> QED BY <1>1 DEF Listed

\* Nothing the kernel or the store knows of changes.
LEMMA KernelFrame ==
  ASSUME OrphanOK, GraceOK, UNCHANGED <<entries, kset, legacy, clock, promised>>, dirty => dirty'
  PROVE  OrphanOK' /\ GraceOK'
  BY DEF OrphanOK, GraceOK, Unknown

\* Released addresses stay released when the store and the kernel are left alone, no
\* entry is new, and nobody newly decides to ban.
LEMMA GrantedFrame ==
  ASSUME GrantedOK, UNCHANGED <<entries, kset, legacy, clock>>, up' => up,
         granted' \subseteq granted,
         \A ip \in granted' : Listed(ip)' => Listed(ip),
         \A t \in Panel : th'[t].pc = "ban" => th[t].pc = "ban" /\ th'[t].ip = th[t].ip
  PROVE  GrantedOK'
  BY DEF GrantedOK, Unknown

\* The port rules are current while no update is read or made ...
LEMMA PortFrame ==
  ASSUME PortOK, UNCHANGED <<port, alone>>, up' => up, perm'["panel"] = perm["panel"],
         th'[Cli].pc = "idle" => th[Cli].pc = "idle",
         \A u \in Threads : /\ th[u].pc = "psync" => th'[u].pc = "psync"
                            /\ th'[u].pc = "papply" <=> th[u].pc = "papply"
                            /\ th'[u].pc = "papply" => th'[u].snap = th[u].snap /\ th'[u].on = th[u].on
  PROVE  PortOK'
<1>1. Panel \subseteq Threads
  BY ThreadSets
<1> QED BY <1>1 DEF PortOK

\* ... and another update is due.
LEMMA PortDue ==
  ASSUME PortOK, alone' => alone,
         \A u \in Threads : th'[u].pc = "papply" => th[u].pc = "papply",
         ~up' \/ th'[Cli].pc # "idle" \/ \E t \in Panel : th'[t].pc = "psync"
  PROVE  PortOK'
  BY DEF PortOK

\* A thread that was idle and begins an operation of the administrator.
LEMMA BeginFrame ==
  ASSUME SInv, NEW t \in Threads, th[t].pc = "idle", UNCHANGED <<lock, up, clock>>,
         t \in Panel => up, NEW pc \in {"psync", "release"}, NEW ip \in Entries,
         NEW then \in {"idle", "psync", "release"}, ThreadSet(t, pc, ip, then),
         pc = "release" \/ then = "release" => ip \in IPs
  PROVE  /\ ThreadsOK' /\ LockOK'
         /\ \A u \in Threads : th'[u].pc = "papply" => th[u].pc = "papply"
         /\ \A u \in Panel : th'[u].pc = "ban" => th[u].pc = "ban" /\ th'[u].ip = th[u].ip
         /\ th'[Cli].pc = "idle" => th[Cli].pc = "idle" /\ t \in Panel
<1>1. clock \in Nat
  BY DEF SInv, TypeOK
<1>2. \A u \in Threads : /\ th'[u].now <= clock
                         /\ th'[u].pc \in Working \/ th'[u].then = "release" => th'[u].ip \in IPs
  BY <1>1 DEF SInv, ThreadsOK, ThreadSet, Working
<1>3. th'[Cli].pc \in {"idle", "psync", "papply", "release", "restart"}
  BY ThreadSets DEF SInv, ThreadsOK, ThreadSet
<1>4. ~up => \A u \in Panel : th'[u].pc = "idle"
  BY ThreadSets DEF SInv, ThreadsOK, ThreadSet
<1>5. ThreadsOK'
  BY <1>2, <1>3, <1>4 DEF ThreadsOK
<1>6. LockOK'
  BY ThreadSets DEF SInv, LockOK, ThreadSet
<1> QED BY <1>5, <1>6, ThreadSets DEF ThreadSet

\* The command line tool reads the files, the panel its memory.
LEMMA ViewFacts ==
  ASSUME TypeOK, NEW t \in Threads
  PROVE  PermOf(t) \subseteq Entries /\ TempOf(t) \in [IPs -> Nat]
  BY DEF TypeOK, PermOf, TempOf, Procs

\* add_ip: the entry is new, so nothing is claimed of it before its release.
LEMMA AddIpSInv ==
  ASSUME SInv, NEW t \in Threads, NEW e \in IPs \cup {Net}, AddIp(t, e)
  PROVE  SInv'
<1>1. /\ UNCHANGED <<entries, kset, legacy, port, direct, lock, up, clock, prot, tfile, dirty, promised, alone>>
      /\ th[t].pc = "idle" /\ (t \in Panel => up) /\ granted' = granted \ {e}
      /\ perm' = [perm EXCEPT ![Proc(t)] = PermOf(t) \cup {e}] /\ env' = PermOf(t) \cup {e}
      /\ temp' = [temp EXCEPT ![Proc(t)] = TempOf(t)]
  BY DEF AddIp, Admin, SetPerm, LoadTemp, kernel
<1>2. e \in Entries /\ PermOf(t) \subseteq Entries /\ TempOf(t) \in [IPs -> Nat] /\ TypeOK
  BY EntrySets, ViewFacts DEF SInv
<1>3. ThreadSet(t, "psync", e, IF e \in IPs THEN "release" ELSE "idle")
  <2>1. (IF e \in IPs THEN "release" ELSE "idle") \in {"idle", "psync", "release"}
    OBVIOUS
  <2> QED BY <1>2, <2>1, ThenSets DEF AddIp, Pcs
<1>4. TypeOK'
  <2>1. perm' \in [Procs -> SUBSET Entries] /\ env' \subseteq Entries
    BY <1>1, <1>2 DEF TypeOK
  <2>2. temp' \in [Procs -> [IPs -> Nat]]
    BY <1>1, <1>2 DEF TypeOK
  <2> QED BY <1>1, <1>2, <1>3, <2>1, <2>2 DEF TypeOK, ThreadSet
<1>5. /\ ThreadsOK' /\ LockOK'
      /\ \A u \in Threads : th'[u].pc = "papply" => th[u].pc = "papply"
      /\ \A u \in Panel : th'[u].pc = "ban" => th[u].pc = "ban" /\ th'[u].ip = th[u].ip
      /\ th'[Cli].pc = "idle" => th[Cli].pc = "idle" /\ t \in Panel
  <2>1. (IF e \in IPs THEN "release" ELSE "idle") = "release" => e \in IPs
    OBVIOUS
  <2> QED BY <1>1, <1>2, <1>3, <2>1, BeginFrame
<1>6. OrphanOK' /\ GraceOK'
  BY <1>1, KernelFrame DEF SInv
<1>7. temp'["panel"] = temp["panel"] /\ (t = Cli => perm'["panel"] = perm["panel"])
      /\ (t \in Panel => perm'["panel"] = perm["panel"] \cup {e} /\ env' = perm'["panel"])
  BY <1>1, <1>2, ThreadSets DEF TypeOK, PermOf, TempOf
<1>8. CopiesOK'
  BY <1>1, <1>5, <1>7 DEF SInv, CopiesOK
<1>9. GrantedOK'
  <2>1. \A ip \in granted' : Listed(ip)' => Listed(ip)
    BY <1>1, <1>7, ThreadSets DEF Listed
  <2> QED BY <2>1, <1>1, <1>5, GrantedFrame DEF SInv
<1>10. PortOK'
  <2>1. th'[Cli].pc # "idle" \/ \E u \in Panel : th'[u].pc = "psync"
    BY <1>3, ThreadSets DEF ThreadSet
  <2> QED BY <2>1, <1>1, <1>5, PortDue DEF SInv
<1> QED BY <1>4, <1>5, <1>6, <1>8, <1>9, <1>10 DEF SInv

\* add_temporary_ip, likewise; the port rules are due after the release.
LEMMA AddTemporaryIpSInv ==
  ASSUME SInv, NEW t \in Threads, NEW e \in IPs, AddTemporaryIp(t, e)
  PROVE  SInv'
<1>1. /\ UNCHANGED <<entries, kset, legacy, port, direct, lock, up, clock, prot, env, dirty, promised, alone>>
      /\ th[t].pc = "idle" /\ (t \in Panel => up) /\ granted' = granted \ {e}
      /\ perm' = [perm EXCEPT ![Proc(t)] = PermOf(t)]
      /\ temp' = [temp EXCEPT ![Proc(t)] = [TempOf(t) EXCEPT ![e] = clock + TempTime]]
      /\ tfile' = [TempOf(t) EXCEPT ![e] = clock + TempTime]
  BY DEF AddTemporaryIp, Admin, SetTemp, LoadPerm, kernel
<1>2. e \in Entries /\ PermOf(t) \subseteq Entries /\ TempOf(t) \in [IPs -> Nat] /\ TypeOK
  BY EntrySets, ViewFacts DEF SInv
<1>3. ThreadSet(t, "release", e, "psync")
  BY <1>2, ThenSets DEF AddTemporaryIp, Pcs, Working
<1>4. TypeOK'
  <2>1. perm' \in [Procs -> SUBSET Entries]
    BY <1>1, <1>2 DEF TypeOK
  <2>2. clock + TempTime \in Nat
    BY ScannerAssumption, <1>2 DEF TypeOK
  <2>3. [TempOf(t) EXCEPT ![e] = clock + TempTime] \in [IPs -> Nat]
    BY <1>2, <2>2
  <2>4. temp' \in [Procs -> [IPs -> Nat]] /\ tfile' \in [IPs -> Nat]
    BY <1>1, <1>2, <2>3 DEF TypeOK
  <2> QED BY <1>1, <1>2, <1>3, <2>1, <2>4 DEF TypeOK, ThreadSet
<1>5. /\ ThreadsOK' /\ LockOK'
      /\ \A u \in Threads : th'[u].pc = "papply" => th[u].pc = "papply"
      /\ \A u \in Panel : th'[u].pc = "ban" => th[u].pc = "ban" /\ th'[u].ip = th[u].ip
      /\ th'[Cli].pc = "idle" => th[Cli].pc = "idle" /\ t \in Panel
  BY <1>1, <1>2, <1>3, BeginFrame
<1>6. OrphanOK' /\ GraceOK'
  BY <1>1, KernelFrame DEF SInv
<1>7. /\ perm'["panel"] = perm["panel"]
      /\ t = Cli => temp'["panel"] = temp["panel"]
      /\ t \in Panel => /\ temp'["panel"] = tfile'
                        /\ \A ip \in IPs : ip # e => temp'["panel"][ip] = temp["panel"][ip]
  BY <1>1, <1>2, ThreadSets DEF TypeOK, PermOf, TempOf
<1>8. CopiesOK'
  BY <1>1, <1>5, <1>7 DEF SInv, CopiesOK
<1>9. GrantedOK'
  <2>1. granted \subseteq IPs
    BY <1>2 DEF TypeOK
  <2>2. \A ip \in granted' : Listed(ip)' => Listed(ip)
    BY <2>1, <1>1, <1>7, ThreadSets DEF Listed
  <2> QED BY <2>2, <1>1, <1>5, GrantedFrame DEF SInv
<1>10. PortOK'
  BY <1>1, <1>3, <1>5, <1>7, PortFrame DEF SInv, ThreadSet
<1> QED BY <1>4, <1>5, <1>6, <1>8, <1>9, <1>10 DEF SInv

\* remove_ip_any: memory and files change together.
LEMMA RemoveIpAnySInv ==
  ASSUME SInv, NEW t \in Threads, NEW e \in Entries, RemoveIpAny(t, e)
  PROVE  SInv'
<1> DEFINE f == [ip \in IPs |-> IF ip = e THEN 0 ELSE TempOf(t)[ip]]
<1>1. /\ UNCHANGED <<entries, kset, legacy, port, direct, lock, up, clock, prot, dirty, promised, alone>>
      /\ th[t].pc = "idle" /\ (t \in Panel => up) /\ granted' = granted \ {e}
      /\ perm' = [perm EXCEPT ![Proc(t)] = PermOf(t) \ {e}] /\ env' = PermOf(t) \ {e}
      /\ temp' = [temp EXCEPT ![Proc(t)] = f] /\ tfile' = f
  BY DEF RemoveIpAny, Admin, SetPerm, SetTemp, kernel
<1>2. PermOf(t) \subseteq Entries /\ TempOf(t) \in [IPs -> Nat] /\ TypeOK
  BY ViewFacts DEF SInv
<1>3. ThreadSet(t, "psync", Net, "idle")
  BY <1>2, ThenSets, EntrySets DEF RemoveIpAny, Pcs
<1>4. TypeOK'
  <2>1. perm' \in [Procs -> SUBSET Entries] /\ env' \subseteq Entries
    BY <1>1, <1>2 DEF TypeOK
  <2>2. f \in [IPs -> Nat]
    BY <1>2
  <2>3. temp' \in [Procs -> [IPs -> Nat]] /\ tfile' \in [IPs -> Nat]
    BY <1>1, <1>2, <2>2 DEF TypeOK
  <2> QED BY <1>1, <1>2, <1>3, <2>1, <2>3 DEF TypeOK, ThreadSet
<1>5. /\ ThreadsOK' /\ LockOK'
      /\ \A u \in Threads : th'[u].pc = "papply" => th[u].pc = "papply"
      /\ \A u \in Panel : th'[u].pc = "ban" => th[u].pc = "ban" /\ th'[u].ip = th[u].ip
      /\ th'[Cli].pc = "idle" => th[Cli].pc = "idle" /\ t \in Panel
  BY <1>1, <1>2, <1>3, BeginFrame, EntrySets
<1>6. OrphanOK' /\ GraceOK'
  BY <1>1, KernelFrame DEF SInv
<1>7. /\ t = Cli => perm'["panel"] = perm["panel"] /\ temp'["panel"] = temp["panel"]
      /\ t \in Panel => /\ perm'["panel"] = perm["panel"] \ {e} /\ env' = perm'["panel"]
                        /\ temp'["panel"] = tfile'
                        /\ \A ip \in IPs : ip # e => temp'["panel"][ip] = temp["panel"][ip]
  BY <1>1, <1>2, ThreadSets DEF TypeOK, PermOf, TempOf
<1>8. CopiesOK'
  BY <1>1, <1>5, <1>7 DEF SInv, CopiesOK
<1>9. GrantedOK'
  <2>1. granted \subseteq IPs
    BY <1>2 DEF TypeOK
  <2>2. \A ip \in granted' : Listed(ip)' => Listed(ip)
    BY <2>1, <1>1, <1>7, ThreadSets DEF Listed
  <2> QED BY <2>2, <1>1, <1>5, GrantedFrame DEF SInv
<1>10. PortOK'
  <2>1. th'[Cli].pc # "idle" \/ \E u \in Panel : th'[u].pc = "psync"
    BY <1>3, ThreadSets DEF ThreadSet
  <2> QED BY <2>1, <1>1, <1>5, PortDue DEF SInv
<1> QED BY <1>4, <1>5, <1>6, <1>8, <1>9, <1>10 DEF SInv

\* enable_ips, clear_all: the claim is kept for entries that stay.
LEMMA ReplaceWhitelistSInv ==
  ASSUME SInv, NEW t \in Threads, NEW S \in {{}, IPs, {Office}}, ReplaceWhitelist(t, S)
  PROVE  SInv'
<1>1. /\ UNCHANGED <<entries, kset, legacy, port, direct, lock, up, clock, prot, dirty, promised, alone>>
      /\ t \in Panel /\ th[t].pc = "idle" /\ up
      /\ granted' = granted \cap S \cap (perm["panel"] \cup Live("panel"))
      /\ perm' = [perm EXCEPT !["panel"] = S] /\ env' = S
      /\ IF S = {} THEN temp' = [temp EXCEPT !["panel"] = [ip \in IPs |-> 0]] /\ tfile' = [ip \in IPs |-> 0]
                   ELSE temp' = [temp EXCEPT !["panel"] = temp["panel"]] /\ tfile' = tfile
  BY ThreadSets DEF ReplaceWhitelist, Admin, SetPerm, SetTemp, LoadTemp, TempOf, kernel
<1>2. S \subseteq Entries /\ TypeOK
  BY EntrySets DEF SInv
<1>3. ThreadSet(t, "psync", Net, "idle")
  BY <1>2, ThenSets, EntrySets DEF ReplaceWhitelist, Pcs
<1>4. TypeOK'
  <2>1. perm' \in [Procs -> SUBSET Entries] /\ env' \subseteq Entries
    BY <1>1, <1>2 DEF TypeOK
  <2>2. temp' \in [Procs -> [IPs -> Nat]] /\ tfile' \in [IPs -> Nat]
    <3>1. [ip \in IPs |-> 0] \in [IPs -> Nat] /\ temp["panel"] \in [IPs -> Nat]
      BY <1>2 DEF TypeOK, Procs
    <3> DEFINE z == [ip \in IPs |-> 0]
    <3>2. CASE S = {}
      <4>1. temp' = [temp EXCEPT !["panel"] = z] /\ tfile' = z /\ z \in [IPs -> Nat]
        BY <1>1, <3>1, <3>2
      <4> HIDE DEF z
      <4> QED BY <1>2, <4>1 DEF TypeOK
    <3>3. CASE S # {}
      BY <1>1, <1>2, <3>1, <3>3 DEF TypeOK
    <3> QED BY <3>2, <3>3
  <2> QED BY <1>1, <1>2, <1>3, <2>1, <2>2 DEF TypeOK, ThreadSet
<1>5. /\ ThreadsOK' /\ LockOK'
      /\ \A u \in Threads : th'[u].pc = "papply" => th[u].pc = "papply"
      /\ \A u \in Panel : th'[u].pc = "ban" => th[u].pc = "ban" /\ th'[u].ip = th[u].ip
      /\ th'[Cli].pc = "idle" => th[Cli].pc = "idle" /\ t \in Panel
  BY <1>1, <1>2, <1>3, BeginFrame, EntrySets
<1>6. OrphanOK' /\ GraceOK'
  BY <1>1, KernelFrame DEF SInv
<1>7. /\ perm'["panel"] = S
      /\ S = {} => temp'["panel"] = tfile'
      /\ S # {} => temp'["panel"] = temp["panel"] /\ tfile' = tfile
  BY <1>1, <1>2 DEF TypeOK, Procs
<1>8. CopiesOK'
  BY <1>1, <1>5, <1>7 DEF SInv, CopiesOK
<1>9. GrantedOK'
  <2>1. \A ip \in granted' : Listed(ip)
    BY <1>1 DEF Listed, Live
  <2> QED BY <2>1, <1>1, <1>5, GrantedFrame DEF SInv
<1>10. PortOK'
  <2>1. \E u \in Panel : th'[u].pc = "psync"
    BY <1>1, <1>3 DEF ThreadSet
  <2> QED BY <2>1, <1>1, <1>5, PortDue DEF SInv
<1> QED BY <1>4, <1>5, <1>6, <1>8, <1>9, <1>10 DEF SInv

\* set_scanner_protection only makes an update of the port rules due.
LEMMA SetProtectionSInv ==
  ASSUME SInv, NEW t \in Threads, NEW on \in BOOLEAN,
         SetProtection(t, [scan |-> on, dwell |-> ~on, port |-> on])
  PROVE  SInv'
<1>1. /\ UNCHANGED <<entries, kset, legacy, port, direct, lock, up, clock, env, tfile, perm, temp,
                     dirty, granted, promised, alone>>
      /\ t \in Panel /\ th[t].pc = "idle" /\ up
  BY DEF SetProtection, Admin, kernel, files, memory, history
<1>2. TypeOK
  BY DEF SInv
<1>3. ThreadSet(t, "psync", Net, "idle")
  BY <1>2, ThenSets, EntrySets DEF SetProtection, Pcs
<1>4. TypeOK'
  <2>1. prot' \in [scan : BOOLEAN, dwell : BOOLEAN, port : BOOLEAN]
    BY <1>2 DEF SetProtection, TypeOK
  <2> QED BY <1>1, <1>2, <1>3, <2>1 DEF TypeOK, ThreadSet
<1>5. /\ ThreadsOK' /\ LockOK'
      /\ \A u \in Threads : th'[u].pc = "papply" => th[u].pc = "papply"
      /\ \A u \in Panel : th'[u].pc = "ban" => th[u].pc = "ban" /\ th'[u].ip = th[u].ip
      /\ th'[Cli].pc = "idle" => th[Cli].pc = "idle" /\ t \in Panel
  BY <1>1, <1>2, <1>3, BeginFrame, EntrySets
<1>6. OrphanOK' /\ GraceOK'
  BY <1>1, KernelFrame DEF SInv
<1>8. CopiesOK'
  BY <1>1, <1>5 DEF SInv, CopiesOK
<1>9. GrantedOK'
  <2>1. \A ip \in granted' : Listed(ip)' => Listed(ip)
    BY <1>1 DEF Listed
  <2> QED BY <2>1, <1>1, <1>5, GrantedFrame DEF SInv
<1>10. PortOK'
  <2>1. \E u \in Panel : th'[u].pc = "psync"
    BY <1>1, <1>3 DEF ThreadSet
  <2> QED BY <2>1, <1>1, <1>5, PortDue DEF SInv
<1> QED BY <1>4, <1>5, <1>6, <1>8, <1>9, <1>10 DEF SInv

\* purge_expired writes the memory of the panel, or the command line tool is at work.
LEMMA PurgeCopies ==
  ASSUME TypeOK, CopiesOK, NEW p \in Procs, Purge(p), UNCHANGED <<clock, env, perm>>, up' => up,
         th'[Cli].pc = "idle" => th[Cli].pc = "idle" /\ p = "panel"
  PROVE  CopiesOK'
<1>1. tfile' = temp'[p] \/ (tfile' = tfile /\ temp' = temp)
  BY PurgeFacts
<1> QED BY <1>1 DEF CopiesOK

\* check_ip_access: the thread takes the time with it.
LEMMA RequestSInv ==
  ASSUME SInv, NEW t \in Panel, NEW ip \in IPs, NEW page \in BOOLEAN, Request(t, ip, page)
  PROVE  SInv'
<1> DEFINE r == [Idle EXCEPT !.pc = Verdict(ip, page), !.ip = ip, !.now = clock]
<1>1. /\ UNCHANGED <<entries, kset, legacy, port, direct, lock, up, clock, prot, env, perm,
                     dirty, granted, promised, alone>>
      /\ up /\ th[t].pc = "idle" /\ Purge("panel") /\ th' = [th EXCEPT ![t] = r]
  BY DEF Request, kernel, history
<1>2. TypeOK /\ t \in Threads /\ ip \in Entries /\ clock \in Nat /\ "panel" \in Procs
  BY EntrySets, ThreadSets DEF SInv, TypeOK
<1>3. Verdict(ip, page) \in {"release", "touch", "count", "look"}
  BY DEF Verdict
<1>4. r \in Thread /\ r.pc = Verdict(ip, page) /\ r.ip = ip /\ r.now = clock /\ r.then = "idle"
  BY <1>2, <1>3, IdleFacts DEF Thread, Working
<1> HIDE DEF r
<1>5. th' \in [Threads -> Thread] /\ th'[t] = r /\ \A u \in Threads : u # t => th'[u] = th[u]
  BY <1>1, <1>2, <1>4 DEF TypeOK
<1>6. TypeOK'
  BY <1>1, <1>2, <1>5, PurgeFacts DEF TypeOK
<1>7. ThreadsOK' /\ LockOK'
  <2>1. \A u \in Threads : /\ th'[u].now <= clock
                           /\ th'[u].pc \in Working \/ th'[u].then = "release" => th'[u].ip \in IPs
    BY <1>2, <1>4, <1>5 DEF SInv, ThreadsOK
  <2>2. th'[Cli].pc \in {"idle", "psync", "papply", "release", "restart"}
    BY <1>5, ThreadSets DEF SInv, ThreadsOK
  <2>3. LockOK'
    BY <1>1, <1>3, <1>4, <1>5, ThreadSets DEF SInv, LockOK
  <2> QED BY <1>1, <2>1, <2>2, <2>3 DEF ThreadsOK
<1>8. OrphanOK' /\ GraceOK'
  BY <1>1, KernelFrame DEF SInv
<1>9. th'[Cli] = th[Cli]
  BY <1>5, ThreadSets
<1>10. CopiesOK'
  BY <1>1, <1>2, <1>9, PurgeCopies DEF SInv
<1>11. GrantedOK'
  <2>1. \A x \in granted' : Listed(x)' => Listed(x)
    BY <1>1, <1>2, PurgeListed DEF TypeOK
  <2>2. \A u \in Panel : th'[u].pc = "ban" => th[u].pc = "ban" /\ th'[u].ip = th[u].ip
    BY <1>3, <1>4, <1>5, ThreadSets
  <2> QED BY <2>1, <2>2, <1>1, GrantedFrame DEF SInv
<1>12. PortOK'
  <2>1. \A u \in Threads : /\ th'[u].pc = "psync" <=> th[u].pc = "psync"
                           /\ th'[u].pc = "papply" <=> th[u].pc = "papply"
                           /\ th'[u].pc = "papply" => th'[u].snap = th[u].snap /\ th'[u].on = th[u].on
    BY <1>1, <1>3, <1>4, <1>5
  <2> QED BY <2>1, <1>1, <1>9, PortFrame DEF SInv
<1> QED BY <1>6, <1>7, <1>8, <1>10, <1>11, <1>12 DEF SInv

\* sync_whitelist_port_firewall reads the whitelist as it is now.
LEMMA PortReadSInv ==
  ASSUME SInv, NEW t \in Threads, PortRead(t)
  PROVE  SInv'
<1> DEFINE S == perm[Proc(t)] \cup Live(Proc(t))
<1> DEFINE on == PortActive(Proc(t))
<1>1. /\ UNCHANGED <<entries, kset, legacy, port, direct, lock, up, clock, env, perm, dirty, granted, promised>>
      /\ th[t].pc = "psync" /\ Purge(Proc(t)) /\ alone' = (Syncing = {})
      /\ th' = [th EXCEPT ![t].pc = "papply", ![t].on = on, ![t].snap = S]
      /\ prot' = IF direct THEN prot ELSE [prot EXCEPT !.port = FALSE]
  BY DEF PortRead, kernel, bounds
<1>2. TypeOK /\ th[t] \in Thread /\ Proc(t) \in Procs
  BY ThreadFacts, ThreadSets DEF SInv
<1>3. S \subseteq Entries /\ on \in BOOLEAN
  <2>1. perm[Proc(t)] \subseteq Entries
    BY <1>2 DEF TypeOK
  <2> QED BY <2>1, EntrySets, <1>2 DEF Live, PortActive, Enabled, TypeOK
<1> HIDE DEF on
<1>4. th'[t] = [th[t] EXCEPT !.pc = "papply", !.on = on, !.snap = S] /\ \A u \in Threads : u # t => th'[u] = th[u]
  BY <1>1, <1>2 DEF TypeOK
<1>5. /\ th'[t] \in Thread /\ th'[t].pc = "papply" /\ th'[t].snap = S
      /\ th'[t].ip = th[t].ip /\ th'[t].now = th[t].now /\ th'[t].then = th[t].then
  BY <1>2, <1>3, <1>4 DEF Thread
<1> HIDE DEF S
<1>6. th' \in [Threads -> Thread]
  <2>1. th' = [u \in Threads |-> th'[u]]
    BY <1>1, <1>2 DEF TypeOK
  <2>2. \A u \in Threads : th'[u] \in Thread
    BY <1>2, <1>4, <1>5 DEF TypeOK
  <2> QED BY <2>1, <2>2
<1>7. TypeOK'
  <2>1. prot' \in [scan : BOOLEAN, dwell : BOOLEAN, port : BOOLEAN]
    BY <1>1, <1>2 DEF TypeOK
  <2> QED BY <2>1, <1>1, <1>2, <1>6, PurgeFacts DEF TypeOK
<1>8. ThreadsOK' /\ LockOK'
  <2>1. \A u \in Threads : /\ th'[u].now <= clock
                           /\ th'[u].pc \in Working \/ th'[u].then = "release" => th'[u].ip \in IPs
    BY <1>4, <1>5 DEF SInv, ThreadsOK, Working
  <2>2. th'[Cli].pc \in {"idle", "psync", "papply", "release", "restart"}
    BY <1>4, <1>5, ThreadSets DEF SInv, ThreadsOK
  <2>3. ~up => \A u \in Panel : th'[u].pc = "idle"
    BY <1>1, <1>4, <1>5, ThreadSets DEF SInv, ThreadsOK
  <2>4. LockOK'
    BY <1>1, <1>4, <1>5, ThreadSets DEF SInv, LockOK
  <2> QED BY <1>1, <2>1, <2>2, <2>3, <2>4 DEF ThreadsOK
<1>9. OrphanOK' /\ GraceOK'
  BY <1>1, KernelFrame DEF SInv
<1>10. CopiesOK'
  <2>1. th'[Cli].pc = "idle" => th[Cli].pc = "idle" /\ Proc(t) = "panel"
    BY <1>4, <1>5, ThreadSets
  <2> QED BY <2>1, <1>1, <1>2, PurgeCopies DEF SInv
<1>11. GrantedOK'
  <2>1. \A x \in granted' : Listed(x)' => Listed(x)
    BY <1>1, <1>2, PurgeListed DEF TypeOK
  <2>2. \A u \in Panel : th'[u].pc = "ban" => th[u].pc = "ban" /\ th'[u].ip = th[u].ip
    BY <1>4, <1>5, ThreadSets
  <2> QED BY <2>1, <2>2, <1>1, GrantedFrame DEF SInv
<1>12. PortOK'
  <2>0. alone' => Syncing = {}
    BY <1>1
  <2>1. alone' => \A u \in Threads : th'[u].pc = "papply" <=> u = t
    BY <2>0, <1>4, <1>5 DEF Syncing
  <2>2. th'[Cli].pc = "idle" => t \in Panel /\ perm'["panel"] \subseteq th'[t].snap
    BY <1>1, <1>5, ThreadSets DEF S
  <2> QED BY <2>1, <2>2, ThreadSets DEF PortOK
<1> QED BY <1>7, <1>8, <1>9, <1>10, <1>11, <1>12 DEF SInv

-----------------------------------------------------------------------------
(* Steps of the threads *)

\* A thread that ends one part of its work.
LEMMA ContinueFrame ==
  ASSUME SInv, NEW t \in Threads, Continue(t), th[t].pc # "idle", UNCHANGED <<lock, up, clock>>
  PROVE  /\ ThreadsOK' /\ LockOK' /\ th' \in [Threads -> Thread]
         /\ \A u \in Threads : u # t => th'[u] = th[u]
         /\ th'[t].pc \in {"idle", "psync", "release", "restart"}
         /\ th'[Cli].pc = "idle" => th[Cli].pc = "idle" /\ t \in Panel
         /\ \A u \in Panel : th'[u].pc = "ban" => th[u].pc = "ban" /\ th'[u].ip = th[u].ip
<1>1. TypeOK /\ clock \in Nat /\ th[t].then \in {"idle", "psync", "release"}
  BY ThreadFacts DEF SInv, TypeOK
<1>2. PICK pc \in {"idle", "psync", "release", "restart"}, ip \in Entries :
        /\ ThreadSet(t, pc, ip, "idle") /\ (pc = "release" => ip \in IPs)
        /\ (t = Cli => pc # "idle") /\ (t # Cli => pc # "restart")
  <2>1. CASE th[t].then # "idle"
    <3>1. ThreadSet(t, th[t].then, th[t].ip, "idle")
      BY <1>1, <2>1, ContinueSets
    <3>2. th[t].ip \in Entries /\ (th[t].then = "release" => th[t].ip \in IPs)
      BY <1>1, ThreadFacts DEF SInv, ThreadsOK
    <3> QED BY <1>1, <2>1, <3>1, <3>2
  <2>2. CASE th[t].then = "idle"
    <3>1. ThreadSet(t, IF t = Cli THEN "restart" ELSE "idle", Net, "idle")
      BY <1>1, <2>2, ContinueSets
    <3> QED BY <3>1, EntrySets
  <2> QED BY <2>1, <2>2
<1>3. \A u \in Threads : /\ th'[u].now <= clock
                         /\ th'[u].pc \in Working \/ th'[u].then = "release" => th'[u].ip \in IPs
  BY <1>1, <1>2 DEF SInv, ThreadsOK, ThreadSet, Working
<1>4. th'[Cli].pc \in {"idle", "psync", "papply", "release", "restart"}
  BY <1>2, ThreadSets DEF SInv, ThreadsOK, ThreadSet
<1>5. ~up => \A u \in Panel : th'[u].pc = "idle"
  BY <1>2, ThreadSets DEF SInv, ThreadsOK, ThreadSet
<1>6. ThreadsOK'
  BY <1>3, <1>4, <1>5 DEF ThreadsOK
<1>7. LockOK'
  BY <1>2, ThreadSets DEF SInv, LockOK, ThreadSet
<1> QED BY <1>2, <1>6, <1>7, ThreadSets DEF ThreadSet

\* The only update under way fills the port rules with what it read.
LEMMA PortApplySInv ==
  ASSUME SInv, NEW t \in Threads, PortApply(t)
  PROVE  SInv'
<1>1. PICK fail \in BOOLEAN :
        /\ IF fail THEN \E S \in SUBSET th[t].snap : port' = [PortRules(t) EXCEPT !.allow = S]
                   ELSE port' = PortRules(t)
        /\ alone' = (alone /\ ~fail)
  BY DEF PortApply
<1>2. /\ UNCHANGED <<entries, kset, legacy, env, tfile, prot, direct, lock, up, clock, dirty, granted, promised>>
      /\ th[t].pc = "papply" /\ Continue(t) /\ Forget(t)
  BY DEF PortApply, kernel, files
<1>3. TypeOK /\ th[t].snap \subseteq Entries /\ th[t].on \in BOOLEAN
  BY ThreadFacts DEF SInv
<1>4. /\ ThreadsOK' /\ LockOK' /\ th' \in [Threads -> Thread]
      /\ \A u \in Threads : u # t => th'[u] = th[u]
      /\ th'[t].pc \in {"idle", "psync", "release", "restart"}
      /\ th'[Cli].pc = "idle" => th[Cli].pc = "idle" /\ t \in Panel
      /\ \A u \in Panel : th'[u].pc = "ban" => th[u].pc = "ban" /\ th'[u].ip = th[u].ip
  BY <1>2, ContinueFrame
<1>5. /\ perm'["panel"] = perm["panel"] /\ temp'["panel"] = temp["panel"]
      /\ perm' \in [Procs -> SUBSET Entries] /\ temp' \in [Procs -> [IPs -> Nat]]
  <2>1. CASE t = Cli
    <3> DEFINE z == [ip \in IPs |-> 0]
    <3>1. z \in [IPs -> Nat] /\ perm' = [perm EXCEPT !["cli"] = {}] /\ temp' = [temp EXCEPT !["cli"] = z]
      BY <1>2, <2>1 DEF Forget
    <3> HIDE DEF z
    <3> QED BY <1>3, <3>1 DEF TypeOK, Procs
  <2>2. CASE t # Cli
    BY <1>2, <1>3, <2>2 DEF Forget, memory, TypeOK
  <2> QED BY <2>1, <2>2
<1>6. port' \in [on : BOOLEAN, allow : SUBSET Entries]
  <2>1. PortRules(t) \in [on : BOOLEAN, allow : SUBSET Entries]
    BY <1>3 DEF PortRules
  <2> QED BY <1>1, <1>3, <2>1
<1>7. TypeOK'
  <2>1. alone' \in BOOLEAN
    BY <1>1
  <2> QED BY <1>2, <1>3, <1>4, <1>5, <1>6, <2>1 DEF TypeOK
<1>8. OrphanOK' /\ GraceOK'
  BY <1>2, KernelFrame DEF SInv
<1>9. CopiesOK'
  BY <1>2, <1>4, <1>5 DEF SInv, CopiesOK
<1>10. GrantedOK'
  <2>1. \A x \in granted' : Listed(x)' => Listed(x)
    BY <1>2, <1>5 DEF Listed
  <2> QED BY <2>1, <1>2, <1>4, GrantedFrame DEF SInv
<1>11. PortOK'
  <2>1. SUFFICES ASSUME alone' PROVE PortOK'
    BY DEF PortOK
  <2>2. alone /\ port' = PortRules(t)
    BY <1>1, <2>1
  <2>3. \A u \in Threads : th'[u].pc # "papply"
    BY <1>2, <1>4, <2>2 DEF SInv, PortOK
  <2>4. ASSUME up', th'[Cli].pc = "idle", \A u \in Panel : th'[u].pc # "psync", port'.on
        PROVE  perm'["panel"] \subseteq port'.allow
    <3>1. t \in Panel /\ th[Cli].pc = "idle" /\ up
      BY <1>2, <1>4, <2>4
    <3>2. \A u \in Panel : th[u].pc # "psync"
      BY <1>2, <1>4, <2>4, ThreadSets
    <3>3. th[t].on => perm["panel"] \subseteq th[t].snap
      BY <1>2, <2>2, <3>1, <3>2 DEF SInv, PortOK
    <3>4. th[t].on /\ port'.allow = th[t].snap
      BY <2>2, <2>4 DEF PortRules
    <3> QED BY <1>5, <3>3, <3>4
  <2> QED BY <2>3, <2>4, ThreadSets DEF PortOK
<1> QED BY <1>4, <1>7, <1>8, <1>9, <1>10, <1>11 DEF SInv

\* The records that the store's calls write.
LEMMA ReleasedFacts ==
  ASSUME NEW r, IsRecord(r)
  PROVE  IsRecord(Released(r)) /\ Released(r).ban = 0 /\ Released(r).grace = r.grace
  BY DEF IsRecord, Released, Fields

\* unban_ip writes the pause.
LEMMA UnbannedFacts ==
  ASSUME NEW r, IsRecord(r), clock \in Nat
  PROVE  IsRecord(Unbanned(r)) /\ Unbanned(r).ban = 0 /\ Unbanned(r).grace = clock + Grace
<1>1. IsRecord(Released(r)) /\ Released(r).ban = 0
  BY ReleasedFacts
<1>2. clock + Grace \in Nat
  BY ScannerAssumption
<1> QED BY <1>1, <1>2 DEF IsRecord, Unbanned, Fields

\* is_banned takes a ban off a record.
LEMMA LiftedFacts ==
  ASSUME NEW r, IsRecord(r)
  PROVE  LET u == [r EXCEPT !.ban = 0] IN IsRecord(u) /\ u.ban = 0 /\ u.grace = r.grace
  BY DEF IsRecord, Fields

\* Counting a visit changes neither the ban nor the pause.
LEMMA RecordedFacts ==
  ASSUME NEW t, NEW r, IsRecord(r)
  PROVE  IsRecord(Recorded(t, r)) /\ Recorded(t, r).ban = r.ban /\ Recorded(t, r).grace = r.grace
<1> DEFINE a == Attempts(r, th[t].now)
<1> DEFINE n == th[t].now
<1>1. Recorded(t, r) = IF th[t].pc = "count" THEN [r EXCEPT !.att = a]
                       ELSE IF th[t].pc = "touch" /\ r.since = 0 THEN [r EXCEPT !.since = n] ELSE r
  BY DEF Recorded
<1> HIDE DEF a, n
<1> QED BY <1>1 DEF IsRecord, Fields

\* A store call replaces one record.
LEMMA SaveFacts ==
  ASSUME TypeOK, NEW ip \in IPs, NEW r, IsRecord(r), Save(ip, r)
  PROVE  /\ DOMAIN entries' = IPs /\ \A x \in IPs : IsRecord(entries'[x])
         /\ entries'[ip] = r /\ \A x \in IPs : x # ip => entries'[x] = entries[x]
<1>1. DOMAIN entries' = IPs /\ entries'[ip] = r /\ \A x \in IPs : x # ip => entries'[x] = entries[x]
  BY DEF Save, TypeOK
<1> QED BY <1>1 DEF TypeOK

\* _firewall_remove forgets one address.
LEMMA RemoveFacts ==
  ASSUME TypeOK, NEW ip \in IPs, FirewallRemove(ip)
  PROVE  /\ kset' \in [IPs -> Nat] /\ legacy' \subseteq legacy /\ ip \notin legacy' /\ kset'[ip] = 0
         /\ \A x \in IPs : x # ip => kset'[x] = kset[x] /\ (x \in legacy' <=> x \in legacy)
  BY DEF FirewallRemove, TypeOK

\* The address has no ban, in the store or in the kernel.
Free(ip) == Unknown(ip) /\ entries[ip].ban <= clock

\* The three facts about bans, when the store and the kernel forget at most.
LEMMA GrantedKept ==
  ASSUME GrantedOK, up' => up, granted' \subseteq granted,
         \A ip \in granted : Free(ip) => Free(ip)',
         \A ip \in granted' : Listed(ip)' => Listed(ip),
         \A t \in Panel : th'[t].pc = "ban" => th[t].pc = "ban" /\ th'[t].ip = th[t].ip
  PROVE  GrantedOK'
  BY DEF GrantedOK, Free

\* ... for the pause after an unban.
LEMMA PauseKept ==
  ASSUME GraceOK, UNCHANGED <<clock, promised>>,
         \A ip \in IPs : entries'[ip].grace = entries[ip].grace /\ (Free(ip) => Free(ip)')
  PROVE  GraceOK'
  BY DEF GraceOK, Free

\* A thread that is not at work on the port rules changes nothing about them.
LEMMA PortStep ==
  ASSUME PortOK, UNCHANGED <<port, alone, perm>>, up' => up, NEW t \in Panel,
         \A u \in Threads : u # t => th'[u] = th[u],
         th[t].pc \notin {"psync", "papply"}, th'[t].pc # "papply"
  PROVE  PortOK'
<1>1. th'[Cli] = th[Cli]
  BY ThreadSets
<1> QED BY <1>1, ThreadSets, PortFrame

\* A thread that serves a request works on a client's address, at a time that is over.
LEMMA WorkerFacts ==
  ASSUME SInv, NEW t \in Threads, th[t].pc \in Working
  PROVE  /\ th[t].ip \in IPs /\ th[t].now \in Nat /\ th[t].now <= clock
         /\ th[t].pc # "release" => t \in Panel /\ Proc(t) = "panel" /\ up
         /\ IsRecord(entries[th[t].ip]) /\ entries[th[t].ip].ban \in Nat /\ entries[th[t].ip].grace \in Nat
<1>1. th[t].ip \in IPs /\ th[t].now <= clock
  BY DEF SInv, ThreadsOK
<1>2. th[t].now \in Nat
  BY ThreadFacts DEF SInv
<1>3. th[t].pc # "release" => t \in Panel
  BY ThreadSets DEF SInv, ThreadsOK, Working
<1>4. t \in Panel => up
  BY DEF SInv, ThreadsOK, Working
<1>5. IsRecord(entries[th[t].ip])
  BY <1>1 DEF SInv, TypeOK
<1> QED BY <1>1, <1>2, <1>3, <1>4, <1>5, ThreadSets DEF IsRecord

\* A thread of the panel that is done.
LEMMA DoneFrame ==
  ASSUME SInv, NEW t \in Panel, Done(t), UNCHANGED <<up, clock>>,
         \A u \in Panel : u # t /\ th[u].pc \in {"check", "ban"} => lock'["panel"] = u
  PROVE  /\ ThreadsOK' /\ LockOK' /\ th' \in [Threads -> Thread]
         /\ \A u \in Threads : u # t => th'[u] = th[u]
         /\ th'[t].pc = "idle" /\ th'[Cli] = th[Cli]
         /\ \A u \in Panel : th'[u].pc = "ban" => th[u].pc = "ban" /\ th'[u].ip = th[u].ip
<1>1. ThreadSet(t, "idle", Net, "idle") /\ clock \in Nat
  BY DoneSets, ThreadSets DEF SInv, TypeOK
<1>2. \A u \in Threads : /\ th'[u].now <= clock
                         /\ th'[u].pc \in Working \/ th'[u].then = "release" => th'[u].ip \in IPs
  BY <1>1 DEF SInv, ThreadsOK, ThreadSet, Working
<1>3. th'[Cli] = th[Cli]
  BY <1>1, ThreadSets DEF ThreadSet
<1>4. ~up => \A u \in Panel : th'[u].pc = "idle"
  BY <1>1, ThreadSets DEF SInv, ThreadsOK, ThreadSet
<1>5. ThreadsOK'
  BY <1>2, <1>3, <1>4 DEF ThreadsOK, SInv
<1>6. LockOK'
  BY <1>1, ThreadSets DEF LockOK, ThreadSet
<1> QED BY <1>1, <1>3, <1>5, <1>6, ThreadSets DEF ThreadSet

\* A thread of the panel that goes on to decide about a ban.
LEMMA GotoFrame ==
  ASSUME SInv, NEW t \in Panel, NEW pc \in {"check", "ban"}, Goto(t, pc), th[t].pc \in Working,
         UNCHANGED <<up, clock>>, lock'["panel"] = t,
         \A u \in Panel : u # t => th[u].pc \notin {"check", "ban"}
  PROVE  /\ ThreadsOK' /\ LockOK' /\ th' \in [Threads -> Thread]
         /\ \A u \in Threads : u # t => th'[u] = th[u]
         /\ th'[t].pc = pc /\ th'[t].ip = th[t].ip /\ th'[Cli] = th[Cli]
<1>1. pc \in Pcs /\ TypeOK /\ t \in Threads
  BY ThreadSets DEF Pcs, Working, SInv
<1>2. /\ th' \in [Threads -> Thread] /\ \A u \in Threads : u # t => th'[u] = th[u]
      /\ th'[t].pc = pc /\ th'[t].ip = th[t].ip /\ th'[t].then = th[t].then /\ th'[t].now = th[t].now
  BY <1>1, GotoSets
<1>3. \A u \in Threads : /\ th'[u].now <= clock
                         /\ th'[u].pc \in Working \/ th'[u].then = "release" => th'[u].ip \in IPs
  BY <1>1, <1>2 DEF SInv, ThreadsOK
<1>4. th'[Cli] = th[Cli] /\ up
  BY <1>2, ThreadSets DEF SInv, ThreadsOK, Working
<1>5. ThreadsOK'
  BY <1>3, <1>4 DEF ThreadsOK, SInv
<1>6. LockOK'
  BY <1>2, ThreadSets DEF LockOK
<1> QED BY <1>2, <1>4, <1>5, <1>6

\* release_firewall_for_ip waits for _scanner_lock: no thread of the panel is about to ban.
LEMMA ReleaseSInv ==
  ASSUME SInv, NEW t \in Threads, Release(t)
  PROVE  SInv'
<1>0. PICK ip \in IPs : ip = th[t].ip
  BY WorkerFacts DEF Release, Working
<1>1. /\ UNCHANGED <<port, env, tfile, prot, direct, perm, temp, lock, up, clock, dirty, promised, alone>>
      /\ th[t].pc = "release" /\ lock[Proc(t)] = NoThread /\ Continue(t)
  BY DEF Release, files, memory
<1>2. \/ UNCHANGED <<entries, kset, legacy, granted>>
      \/ /\ FirewallRemove(ip) /\ Save(ip, Released(entries[ip]))
         /\ granted' = granted \/ (t \in Panel /\ granted' = granted \cup {ip})
  BY <1>0 DEF Release, kernel
<1>3. TypeOK /\ ip \in IPs /\ IsRecord(entries[ip]) /\ clock \in Nat
  BY <1>0, <1>1, WorkerFacts DEF SInv, TypeOK, Working
<1>4. /\ ThreadsOK' /\ LockOK' /\ th' \in [Threads -> Thread]
      /\ \A u \in Threads : u # t => th'[u] = th[u]
      /\ th'[t].pc \in {"idle", "psync", "release", "restart"}
      /\ th'[Cli].pc = "idle" => th[Cli].pc = "idle" /\ t \in Panel
      /\ \A u \in Panel : th'[u].pc = "ban" => th[u].pc = "ban" /\ th'[u].ip = th[u].ip
  BY <1>1, ContinueFrame
<1>5. CopiesOK'
  BY <1>1, <1>4 DEF SInv, CopiesOK
<1>6. PortOK'
  <2>1. \A u \in Threads : /\ th[u].pc = "psync" => th'[u].pc = "psync"
                           /\ th'[u].pc = "papply" <=> th[u].pc = "papply"
                           /\ th'[u].pc = "papply" => th'[u].snap = th[u].snap /\ th'[u].on = th[u].on
    BY <1>1, <1>4
  <2> QED BY <2>1, <1>1, <1>4, PortFrame DEF SInv
<1>7. \A x \in granted : Listed(x)' => Listed(x)
  BY <1>1 DEF Listed
<1>8. CASE UNCHANGED <<entries, kset, legacy, granted>>
  <2>1. TypeOK'
    BY <1>1, <1>3, <1>4, <1>8 DEF TypeOK
  <2>2. OrphanOK' /\ GraceOK'
    BY <1>1, <1>8, KernelFrame DEF SInv
  <2>3. GrantedOK'
    BY <1>1, <1>4, <1>7, <1>8, GrantedFrame DEF SInv
  <2> QED BY <2>1, <2>2, <2>3, <1>4, <1>5, <1>6 DEF SInv
<1>9. CASE /\ FirewallRemove(ip) /\ Save(ip, Released(entries[ip]))
           /\ granted' = granted \/ (t \in Panel /\ granted' = granted \cup {ip})
  <2>1. IsRecord(Released(entries[ip])) /\ Released(entries[ip]).ban = 0 /\ Released(entries[ip]).grace = entries[ip].grace
    BY <1>3, ReleasedFacts
  <2>2. /\ DOMAIN entries' = IPs /\ \A x \in IPs : IsRecord(entries'[x])
        /\ entries'[ip].ban = 0 /\ entries'[ip].grace = entries[ip].grace
        /\ \A x \in IPs : x # ip => entries'[x] = entries[x]
    BY <1>3, <1>9, <2>1, SaveFacts
  <2>3. /\ kset' \in [IPs -> Nat] /\ legacy' \subseteq legacy /\ ip \notin legacy' /\ kset'[ip] = 0
        /\ \A x \in IPs : x # ip => kset'[x] = kset[x] /\ (x \in legacy' <=> x \in legacy)
    BY <1>3, <1>9, RemoveFacts
  <2>4. Unknown(ip)' /\ Free(ip)'
    BY <1>1, <1>3, <2>2, <2>3 DEF Unknown, Free
  <2>5. \A x \in IPs : x # ip => (Unknown(x)' <=> Unknown(x)) /\ (Free(x)' <=> Free(x))
    BY <1>1, <2>2, <2>3 DEF Unknown, Free
  <2>6. TypeOK'
    BY <1>1, <1>3, <1>4, <1>9, <2>2, <2>3 DEF TypeOK
  <2>7. OrphanOK'
    BY <1>1, <2>2, <2>4, <2>5 DEF SInv, OrphanOK
  <2>8. GraceOK'
    BY <1>1, <2>2, <2>4, <2>5, PauseKept DEF SInv
  <2>9. GrantedOK'
    <3>1. t \in Panel => \A u \in Panel : th'[u].pc # "ban"
      BY <1>1, <1>4, ThreadSets DEF SInv, LockOK
    <3>2. ASSUME up', NEW x \in granted', Listed(x)'
          PROVE  Free(x)' /\ \A u \in Panel : ~(th'[u].pc = "ban" /\ th'[u].ip = x)
      <4>1. CASE x \in granted
        <5>1. Free(x) /\ \A u \in Panel : ~(th[u].pc = "ban" /\ th[u].ip = x)
          BY <1>1, <1>7, <3>2, <4>1 DEF SInv, GrantedOK, Free
        <5>2. x \in IPs
          BY <1>3, <4>1 DEF TypeOK
        <5> QED BY <5>1, <5>2, <2>4, <2>5, <1>4
      <4>2. CASE x \notin granted
        BY <1>9, <3>1, <3>2, <4>2, <2>4
      <4> QED BY <4>1, <4>2
    <3> QED BY <3>2 DEF GrantedOK, Free
  <2> QED BY <2>6, <2>7, <2>8, <2>9, <1>4, <1>5, <1>6 DEF SInv
<1> QED BY <1>2, <1>8, <1>9

\* Steps that leave the threads, the files and the memory alone.
LEMMA QuietFrame ==
  ASSUME SInv, UNCHANGED <<port, env, perm, temp, tfile, lock, th, up, clock, alone>>
  PROVE  /\ ThreadsOK' /\ LockOK' /\ CopiesOK' /\ PortOK'
         /\ \A x : Listed(x)' => Listed(x)
         /\ \A u \in Panel : th'[u].pc = "ban" => th[u].pc = "ban" /\ th'[u].ip = th[u].ip
<1>1. ThreadsOK' /\ LockOK' /\ CopiesOK'
  BY DEF SInv, ThreadsOK, LockOK, CopiesOK
<1>2. PortOK'
  BY PortFrame DEF SInv
<1> QED BY <1>1, <1>2 DEF Listed

\* unban_scanner_ip: the pause begins with the release.
LEMMA UnbanSInv ==
  ASSUME SInv, NEW t \in Threads, NEW ip \in IPs, Unban(t, ip)
  PROVE  SInv'
<1>1. UNCHANGED <<port, env, tfile, prot, direct, perm, temp, lock, th, up, clock, dirty, granted, alone>>
  BY DEF Unban, Admin, files, memory
<1>2. \/ UNCHANGED <<entries, kset, legacy, promised>>
      \/ /\ FirewallRemove(ip) /\ Save(ip, Unbanned(entries[ip]))
         /\ promised' = [promised EXCEPT ![ip] = clock + Grace]
  BY DEF Unban, kernel
<1>3. TypeOK /\ clock \in Nat /\ IsRecord(entries[ip]) /\ clock + Grace \in Nat
  BY ScannerAssumption DEF SInv, TypeOK
<1>4. /\ ThreadsOK' /\ LockOK' /\ CopiesOK' /\ PortOK'
      /\ \A x : Listed(x)' => Listed(x)
      /\ \A u \in Panel : th'[u].pc = "ban" => th[u].pc = "ban" /\ th'[u].ip = th[u].ip
  BY <1>1, QuietFrame
<1>5. CASE UNCHANGED <<entries, kset, legacy, promised>>
  <2>1. TypeOK'
    BY <1>1, <1>3, <1>5 DEF TypeOK
  <2>2. OrphanOK' /\ GraceOK'
    BY <1>1, <1>5, KernelFrame DEF SInv
  <2>3. GrantedOK'
    BY <1>1, <1>4, <1>5, GrantedFrame DEF SInv
  <2> QED BY <1>4, <2>1, <2>2, <2>3 DEF SInv
<1>6. CASE /\ FirewallRemove(ip) /\ Save(ip, Unbanned(entries[ip]))
           /\ promised' = [promised EXCEPT ![ip] = clock + Grace]
  <2>1. IsRecord(Unbanned(entries[ip])) /\ Unbanned(entries[ip]).ban = 0 /\ Unbanned(entries[ip]).grace = clock + Grace
    BY <1>3, UnbannedFacts
  <2>2. /\ DOMAIN entries' = IPs /\ \A x \in IPs : IsRecord(entries'[x])
        /\ entries'[ip].ban = 0 /\ entries'[ip].grace = clock + Grace
        /\ \A x \in IPs : x # ip => entries'[x] = entries[x]
    BY <1>3, <1>6, <2>1, SaveFacts
  <2>3. /\ kset' \in [IPs -> Nat] /\ legacy' \subseteq legacy /\ ip \notin legacy' /\ kset'[ip] = 0
        /\ \A x \in IPs : x # ip => kset'[x] = kset[x] /\ (x \in legacy' <=> x \in legacy)
    BY <1>3, <1>6, RemoveFacts
  <2>4. Unknown(ip)' /\ Free(ip)'
    BY <1>1, <1>3, <2>2, <2>3 DEF Unknown, Free
  <2>5. \A x \in IPs : x # ip => (Unknown(x)' <=> Unknown(x)) /\ (Free(x)' <=> Free(x))
    BY <1>1, <2>2, <2>3 DEF Unknown, Free
  <2>6. /\ promised' \in [IPs -> Nat] /\ promised'[ip] = clock + Grace
        /\ \A x \in IPs : x # ip => promised'[x] = promised[x]
    BY <1>3, <1>6 DEF TypeOK
  <2>7. TypeOK'
    BY <1>1, <1>3, <2>2, <2>3, <2>6 DEF TypeOK
  <2>8. OrphanOK'
    BY <1>1, <2>2, <2>4, <2>5 DEF SInv, OrphanOK
  <2>9. GraceOK'
    <3>1. \A x \in IPs : x # ip => (clock' < promised'[x] =>
             promised'[x] <= entries'[x].grace /\ entries'[x].ban <= clock' /\ Unknown(x)')
      BY <1>1, <2>2, <2>5, <2>6 DEF SInv, GraceOK
    <3>2. promised'[ip] <= entries'[ip].grace /\ entries'[ip].ban <= clock' /\ Unknown(ip)'
      BY <1>1, <1>3, <2>2, <2>4, <2>6
    <3> QED BY <3>1, <3>2 DEF GraceOK
  <2>10. GrantedOK'
    <3>1. \A x \in granted : Free(x) => Free(x)'
      BY <1>3, <2>4, <2>5 DEF TypeOK
    <3> QED BY <1>1, <1>4, <3>1, GrantedKept DEF SInv
  <2> QED BY <1>4, <2>7, <2>8, <2>9, <2>10 DEF SInv
<1> QED BY <1>2, <1>5, <1>6

\* clear_all: records go only when both families were emptied.
LEMMA ClearBansSInv ==
  ASSUME SInv, NEW t \in Threads, ClearBans(t)
  PROVE  SInv'
<1>1. /\ UNCHANGED <<port, env, tfile, prot, direct, perm, temp, lock, th, up, clock, dirty, granted, alone>>
      /\ promised' = [ip \in IPs |-> 0]
  BY DEF ClearBans, Admin, files, memory
<1>2. PICK bad \in SUBSET Families :
        /\ kset' = [ip \in IPs |-> IF Family(ip) \in bad THEN kset[ip] ELSE 0]
        /\ legacy' = {ip \in legacy : Family(ip) \in bad}
        /\ entries' = IF bad = {} THEN [ip \in IPs |-> NoRecord] ELSE entries
  BY DEF ClearBans
<1>3. TypeOK /\ clock \in Nat
  BY DEF SInv, TypeOK
<1>4. /\ ThreadsOK' /\ LockOK' /\ CopiesOK' /\ PortOK'
      /\ \A x : Listed(x)' => Listed(x)
      /\ \A u \in Panel : th'[u].pc = "ban" => th[u].pc = "ban" /\ th'[u].ip = th[u].ip
  BY <1>1, QuietFrame
<1>5. IsRecord(NoRecord) /\ NoRecord.ban = 0
  BY DEF IsRecord, NoRecord, Fields
<1>6. /\ DOMAIN entries' = IPs /\ \A x \in IPs : IsRecord(entries'[x])
      /\ \A x \in IPs : entries'[x] = entries[x] \/ (bad = {} /\ entries'[x].ban = 0)
  <2>1. CASE bad = {}
    <3>1. entries' = [ip \in IPs |-> NoRecord]
      BY <1>2, <2>1
    <3> QED BY <1>5, <2>1, <3>1
  <2>2. CASE bad # {}
    BY <1>2, <1>3, <2>2 DEF TypeOK
  <2> QED BY <2>1, <2>2
<1>7. kset' \in [IPs -> Nat] /\ \A x \in IPs : kset'[x] = 0 \/ (kset'[x] = kset[x] /\ bad # {})
  BY <1>2, <1>3 DEF TypeOK
<1>8. TypeOK'
  <2>1. promised' \in [IPs -> Nat]
    BY <1>1
  <2>2. legacy' \subseteq IPs
    BY <1>2, <1>3 DEF TypeOK
  <2> QED BY <1>1, <1>3, <1>6, <1>7, <2>1, <2>2 DEF TypeOK
<1>9. \A x \in IPs : (Unknown(x) \/ bad = {}) => Unknown(x)'
  BY <1>1, <1>2, <1>3, <1>7 DEF Unknown
<1>10. OrphanOK'
  BY <1>1, <1>6, <1>9 DEF SInv, OrphanOK
<1>11. GraceOK'
  BY <1>1, <1>3 DEF GraceOK
<1>12. GrantedOK'
  <2>1. \A x \in granted : x \in IPs
    BY <1>3 DEF TypeOK
  <2>2. \A x \in granted : Free(x) => Free(x)'
    BY <1>1, <1>3, <1>6, <1>9, <2>1 DEF Free
  <2> QED BY <1>1, <1>4, <2>2, GrantedKept DEF SInv
<1> QED BY <1>4, <1>8, <1>10, <1>11, <1>12 DEF SInv

\* The settings page clears what has run out.
LEMMA ViewSettingsSInv ==
  ASSUME SInv, NEW t \in Threads, ViewSettings(t)
  PROVE  SInv'
<1>1. /\ UNCHANGED <<port, env, prot, direct, perm, lock, th, up, clock, granted, promised, alone>>
      /\ Purge("panel")
  BY DEF ViewSettings, Admin
<1> DEFINE over == {ip \in IPs : Expired(ip, clock)}
<1>2. PICK bad \in SUBSET {ip \in over : InSet(ip)} :
        /\ entries' = [ip \in IPs |-> IF ip \in over THEN [entries[ip] EXCEPT !.ban = 0] ELSE entries[ip]]
        /\ kset' = [ip \in IPs |-> IF ip \in over \ bad THEN 0 ELSE kset[ip]]
        /\ legacy' = legacy \ over
        /\ dirty' = (dirty \/ bad # {})
  BY DEF ViewSettings
<1>3. TypeOK /\ clock \in Nat /\ "panel" \in Procs
  BY ThreadSets DEF SInv, TypeOK
<1>4. over \subseteq IPs
  OBVIOUS
<1> HIDE DEF over
<1>5. /\ DOMAIN entries' = IPs /\ \A x \in IPs : IsRecord(entries'[x])
      /\ \A x \in IPs : entries'[x].grace = entries[x].grace
      /\ \A x \in IPs : entries'[x] = entries[x] \/ (x \in over /\ entries'[x].ban = 0)
  <2>1. DOMAIN entries' = IPs
    BY <1>2
  <2>2. ASSUME NEW x \in IPs
        PROVE  /\ IsRecord(entries'[x]) /\ entries'[x].grace = entries[x].grace
               /\ entries'[x] = entries[x] \/ (x \in over /\ entries'[x].ban = 0)
    <3>1. IsRecord(entries[x])
      BY <1>3 DEF TypeOK
    <3>2. CASE x \in over
      <4>1. entries'[x] = [entries[x] EXCEPT !.ban = 0]
        BY <1>2, <3>2
      <4> QED BY <3>1, <3>2, <4>1, LiftedFacts
    <3>3. CASE x \notin over
      <4>1. entries'[x] = entries[x]
        BY <1>2, <3>3
      <4> QED BY <3>1, <4>1
    <3> QED BY <3>2, <3>3
  <2> QED BY <2>1, <2>2
<1>6. kset' \in [IPs -> Nat] /\ \A x \in IPs : kset'[x] = IF x \in over \ bad THEN 0 ELSE kset[x]
  BY <1>2, <1>3 DEF TypeOK
<1>7. dirty' \in BOOLEAN
  BY <1>2, <1>3 DEF TypeOK
<1>8. TypeOK'
  BY <1>1, <1>2, <1>3, <1>5, <1>6, <1>7, PurgeFacts DEF TypeOK
<1>9. \A x \in IPs : (Unknown(x) \/ x \in over \ bad) => Unknown(x)'
  BY <1>1, <1>2, <1>3, <1>6 DEF Unknown
<1>10. OrphanOK'
  <2>1. SUFFICES ASSUME ~dirty', NEW x \in IPs
                 PROVE  Unknown(x)' \/ entries'[x].ban > 0
    BY DEF OrphanOK
  <2>2. ~dirty /\ bad = {}
    BY <1>2, <2>1
  <2> QED BY <1>5, <1>9, <2>2 DEF SInv, OrphanOK
<1>11. \A x \in IPs : Free(x) => Free(x)'
  BY <1>1, <1>3, <1>5, <1>9 DEF Free
<1>12. GraceOK'
  BY <1>1, <1>5, <1>11, PauseKept DEF SInv
<1>13. GrantedOK'
  <2>1. \A x \in granted : x \in IPs
    BY <1>3 DEF TypeOK
  <2>2. \A x \in granted' : Listed(x)' => Listed(x)
    BY <1>1, <1>3, <2>1, PurgeListed
  <2> QED BY <1>1, <1>11, <2>1, <2>2, GrantedKept DEF SInv
<1>14. ThreadsOK' /\ LockOK'
  BY <1>1 DEF SInv, ThreadsOK, LockOK
<1>15. CopiesOK'
  BY <1>1, <1>3, PurgeCopies DEF SInv
<1>16. PortOK'
  BY <1>1, PortFrame DEF SInv
<1> QED BY <1>8, <1>10, <1>12, <1>13, <1>14, <1>15, <1>16 DEF SInv

\* _apply_ban_locked asks the whitelist once more, and bans nobody who is on it.
LEMMA CheckAgainSInv ==
  ASSUME SInv, NEW t \in Threads, CheckAgain(t)
  PROVE  SInv'
<1>1. /\ UNCHANGED <<entries, kset, legacy, port, env, prot, direct, perm, up, clock, dirty, granted, promised, alone>>
      /\ th[t].pc = "check" /\ Purge(Proc(t))
  BY DEF CheckAgain, kernel, bounds, history
<1>2. TypeOK /\ t \in Panel /\ Proc(t) = "panel" /\ th[t].ip \in IPs /\ "panel" \in Procs
  BY <1>1, WorkerFacts, ThreadSets DEF SInv, Working
<1>3. lock["panel"] = t /\ \A u \in Panel : u # t => th[u].pc \notin {"check", "ban"}
  BY <1>1, <1>2 DEF SInv, LockOK
<1>4. \/ Done(t) /\ lock' = [lock EXCEPT !["panel"] = NoThread]
      \/ ~Allowed("panel", th[t].ip) /\ Goto(t, "ban") /\ lock' = lock
  BY <1>2 DEF CheckAgain
<1>5. lock' \in [Procs -> Threads \cup {NoThread}]
  BY <1>2, <1>4 DEF TypeOK
<1>6. OrphanOK' /\ GraceOK'
  BY <1>1, KernelFrame DEF SInv
<1>7. \A x \in granted' : Listed(x)' => Listed(x)
  BY <1>1, <1>2, PurgeListed DEF TypeOK
<1>8. /\ ThreadsOK' /\ LockOK' /\ th' \in [Threads -> Thread]
      /\ \A u \in Threads : u # t => th'[u] = th[u]
      /\ th'[t].pc \in {"idle", "ban"} /\ th'[Cli] = th[Cli]
      /\ \A u \in Panel : th'[u].pc = "ban" => th'[u].ip = th[u].ip
      /\ th'[t].pc = "ban" => ~Allowed("panel", th[t].ip)
  <2>1. CASE Done(t) /\ lock' = [lock EXCEPT !["panel"] = NoThread]
    BY <1>1, <1>2, <1>3, <2>1, DoneFrame
  <2>2. CASE ~Allowed("panel", th[t].ip) /\ Goto(t, "ban") /\ lock' = lock
    <3>1. th[t].pc \in Working /\ lock'["panel"] = t
      BY <1>1, <1>3, <2>2 DEF Working
    <3> QED BY <1>1, <1>2, <1>3, <2>2, <3>1, GotoFrame, ThreadSets
  <2> QED BY <1>4, <2>1, <2>2
<1>9. TypeOK'
  BY <1>1, <1>2, <1>5, <1>8, PurgeFacts DEF TypeOK
<1>10. CopiesOK'
  BY <1>1, <1>2, <1>8, PurgeCopies DEF SInv
<1>11. PortOK'
  BY <1>1, <1>2, <1>8, PortStep DEF SInv
<1>12. GrantedOK'
  <2>1. th'[t].pc = "ban" => ~Listed(th[t].ip)
    BY <1>2, <1>8 DEF Allowed, Listed, Live
  <2>2. ASSUME up', NEW x \in granted', Listed(x)'
        PROVE  Free(x)' /\ \A u \in Panel : ~(th'[u].pc = "ban" /\ th'[u].ip = x)
    <3>1. Listed(x) /\ x \in granted /\ up
      BY <1>1, <1>7, <2>2
    <3>2. Free(x) /\ \A u \in Panel : ~(th[u].pc = "ban" /\ th[u].ip = x)
      BY <3>1 DEF SInv, GrantedOK, Free
    <3>3. Free(x)'
      BY <1>1, <3>2 DEF Free, Unknown
    <3>4. \A u \in Panel : ~(th'[u].pc = "ban" /\ th'[u].ip = x)
      BY <1>2, <1>8, <2>1, <3>1, <3>2, ThreadSets
    <3> QED BY <3>3, <3>4
  <2> QED BY <2>2 DEF GrantedOK, Free
<1> QED BY <1>6, <1>8, <1>9, <1>10, <1>11, <1>12 DEF SInv

\* _firewall_add touches one address.
LEMMA AddFacts ==
  ASSUME TypeOK, NEW ip \in IPs, NEW seconds \in Nat, NEW fail, FirewallAdd(ip, seconds, fail)
  PROVE  /\ kset' \in [IPs -> Nat] /\ legacy' = legacy
         /\ \A x \in IPs : x # ip => kset'[x] = kset[x]
<1>1. clock + seconds \in Nat
  BY DEF TypeOK
<1> QED BY <1>1 DEF FirewallAdd, TypeOK, kernel

\* No pause was promised to an address that register_ban bans.
LEMMA NoPause ==
  ASSUME SInv, NEW t \in Threads, th[t].pc \in Working, ~InGrace(th[t].ip, th[t].now)
  PROVE  ~(clock < promised[th[t].ip])
<1>1. th[t].ip \in IPs /\ th[t].now <= clock /\ th[t].now \in Nat /\ entries[th[t].ip].grace \in Nat
  BY WorkerFacts
<1>2. clock \in Nat /\ promised[th[t].ip] \in Nat
  BY <1>1 DEF SInv, TypeOK
<1>3. clock < promised[th[t].ip] => promised[th[t].ip] <= entries[th[t].ip].grace
  BY <1>1 DEF SInv, GraceOK
<1> QED BY <1>1, <1>2, <1>3 DEF InGrace

\* register_ban: neither a released nor an unbanned address.
LEMMA BanSInv ==
  ASSUME SInv, NEW t \in Threads, Ban(t)
  PROVE  SInv'
<1>1. /\ UNCHANGED <<port, env, tfile, prot, direct, perm, temp, up, clock, dirty, granted, promised, alone>>
      /\ th[t].pc = "ban" /\ Done(t) /\ lock' = [lock EXCEPT ![Proc(t)] = NoThread]
  BY DEF Ban, files, memory, history
<1>2. TypeOK /\ t \in Panel /\ Proc(t) = "panel" /\ th[t].ip \in IPs /\ up /\ clock \in Nat
      /\ th[t].now \in Nat /\ IsRecord(entries[th[t].ip])
  BY <1>1, WorkerFacts DEF SInv, Working, TypeOK
<1>3. lock["panel"] = t /\ \A u \in Panel : u # t => th[u].pc \notin {"check", "ban"}
  BY <1>1, <1>2 DEF SInv, LockOK
<1>4. lock' \in [Procs -> Threads \cup {NoThread}]
  BY <1>1, <1>2 DEF TypeOK
<1>5. /\ ThreadsOK' /\ LockOK' /\ th' \in [Threads -> Thread]
      /\ \A u \in Threads : u # t => th'[u] = th[u]
      /\ th'[t].pc = "idle" /\ th'[Cli] = th[Cli]
      /\ \A u \in Panel : th'[u].pc = "ban" => th[u].pc = "ban" /\ th'[u].ip = th[u].ip
  BY <1>1, <1>2, <1>3, DoneFrame
<1>6. CopiesOK'
  BY <1>1, <1>5 DEF SInv, CopiesOK
<1>7. PortOK'
  BY <1>1, <1>2, <1>5, PortStep DEF SInv
<1>8. \A x \in granted' : Listed(x)' => Listed(x)
  BY <1>1 DEF Listed
<1>9. PICK ip \in IPs, fail \in BOOLEAN : ip = th[t].ip /\ RegisterBan(ip, th[t].now, fail)
  BY <1>2 DEF Ban
<1>10. CASE InGrace(ip, th[t].now)
  <2>1. UNCHANGED <<entries, kset, legacy>>
    BY <1>9, <1>10 DEF RegisterBan, kernel
  <2>2. TypeOK'
    BY <1>1, <1>2, <1>4, <1>5, <2>1 DEF TypeOK
  <2>3. OrphanOK' /\ GraceOK'
    BY <1>1, <2>1, KernelFrame DEF SInv
  <2>4. GrantedOK'
    BY <1>1, <1>5, <1>8, <2>1, GrantedFrame DEF SInv
  <2> QED BY <1>5, <1>6, <1>7, <2>2, <2>3, <2>4 DEF SInv
<1>11. CASE ~InGrace(ip, th[t].now)
  <2> DEFINE s == entries[ip].strikes + 1
  <2> DEFINE seconds == IF s >= StrikesForYear THEN YearBan ELSE BanTime
  <2>1. /\ Save(ip, [entries[ip] EXCEPT !.strikes = s, !.since = 0, !.att = << >>, !.ban = th[t].now + seconds])
        /\ FirewallAdd(ip, seconds, fail)
    BY <1>9, <1>11 DEF RegisterBan
  <2>2. seconds \in Nat \ {0}
    BY ScannerAssumption
  <2> HIDE DEF s, seconds
  <2> DEFINE b == th[t].now + seconds
  <2>3. b \in Nat /\ b > 0
    BY <1>2, <2>2
  <2> DEFINE r == [entries[ip] EXCEPT !.strikes = s, !.since = 0, !.att = << >>, !.ban = b]
  <2>0. Save(ip, r)
    BY <2>1
  <2> HIDE DEF b
  <2>4. IsRecord(r) /\ r.ban > 0
    <3>1. IsRecord(entries[ip])
      BY <1>2, <1>9
    <3>2. IsRecord(r) /\ r.ban = b
      BY <2>3, <3>1 DEF IsRecord, Fields
    <3> QED BY <2>3, <3>2
  <2> HIDE DEF r
  <2>5. /\ DOMAIN entries' = IPs /\ \A x \in IPs : IsRecord(entries'[x])
        /\ entries'[ip].ban > 0 /\ \A x \in IPs : x # ip => entries'[x] = entries[x]
    BY <1>2, <2>0, <2>4, SaveFacts
  <2>6. /\ kset' \in [IPs -> Nat] /\ legacy' = legacy /\ \A x \in IPs : x # ip => kset'[x] = kset[x]
    BY <1>2, <2>1, <2>2, AddFacts
  <2>7. TypeOK'
    BY <1>1, <1>2, <1>4, <1>5, <2>5, <2>6 DEF TypeOK
  <2>8. \A x \in IPs : x # ip => (Unknown(x)' <=> Unknown(x)) /\ (Free(x)' <=> Free(x))
    BY <1>1, <2>5, <2>6 DEF Unknown, Free
  <2>9. OrphanOK'
    BY <1>1, <2>5, <2>8 DEF SInv, OrphanOK
  <2>10. GraceOK'
    <3>1. ~(clock < promised[ip])
      BY <1>1, <1>9, <1>11, NoPause DEF Working
    <3> QED BY <1>1, <2>5, <2>8, <3>1 DEF SInv, GraceOK
  <2>11. GrantedOK'
    <3>1. ASSUME NEW x \in granted', Listed(x)'
          PROVE  Free(x)' /\ \A u \in Panel : ~(th'[u].pc = "ban" /\ th'[u].ip = x)
      <4>1. Listed(x) /\ x \in granted /\ x \in IPs
        BY <1>1, <1>2, <1>8, <3>1 DEF TypeOK
      <4>2. Free(x) /\ \A u \in Panel : ~(th[u].pc = "ban" /\ th[u].ip = x)
        BY <1>2, <4>1 DEF SInv, GrantedOK, Free
      <4>3. x # ip
        BY <1>1, <1>2, <1>9, <4>2
      <4> QED BY <4>1, <4>2, <4>3, <1>5, <2>8
    <3> QED BY <3>1 DEF GrantedOK, Free
  <2> QED BY <1>5, <1>6, <1>7, <2>7, <2>9, <2>10, <2>11 DEF SInv
<1> QED BY <1>10, <1>11

\* is_banned and the count of visits; the lock is taken by whoever goes on to ban.
LEMMA WatchSInv ==
  ASSUME SInv, NEW t \in Threads, Watch(t)
  PROVE  SInv'
<1>1. /\ UNCHANGED <<port, env, tfile, prot, direct, perm, temp, up, clock, granted, promised, alone>>
      /\ th[t].pc = "look" \/ (th[t].pc \in {"count", "touch"} /\ lock[Proc(t)] = NoThread)
  BY DEF Watch, files, memory
<1>2. TypeOK /\ t \in Panel /\ Proc(t) = "panel" /\ th[t].ip \in IPs /\ up /\ clock \in Nat
      /\ th[t].now \in Nat /\ th[t].now <= clock /\ IsRecord(entries[th[t].ip]) /\ th[t].pc \in Working
  BY <1>1, WorkerFacts DEF SInv, Working, TypeOK
<1>3. \A x \in granted' : Listed(x)' => Listed(x)
  BY <1>1 DEF Listed
<1>4. \A u \in Panel : th[u].pc \in {"check", "ban"} => lock["panel"] = u
  BY DEF SInv, LockOK
<1>5. PICK ip \in IPs : ip = th[t].ip
  BY <1>2
<1>6. CASE entries[ip].ban > th[t].now
  <2>1. Done(t) /\ UNCHANGED <<entries, kset, legacy, lock, dirty>>
    BY <1>5, <1>6 DEF Watch, kernel
  <2>2. /\ ThreadsOK' /\ LockOK' /\ th' \in [Threads -> Thread]
        /\ \A u \in Threads : u # t => th'[u] = th[u]
        /\ th'[t].pc = "idle" /\ th'[Cli] = th[Cli]
        /\ \A u \in Panel : th'[u].pc = "ban" => th[u].pc = "ban" /\ th'[u].ip = th[u].ip
    BY <1>1, <1>2, <1>4, <2>1, DoneFrame
  <2>3. TypeOK'
    BY <1>1, <1>2, <2>1, <2>2 DEF TypeOK
  <2>4. OrphanOK' /\ GraceOK'
    BY <1>1, <2>1, KernelFrame DEF SInv
  <2>5. GrantedOK'
    BY <1>1, <1>3, <2>1, <2>2, GrantedFrame DEF SInv
  <2>6. CopiesOK'
    BY <1>1, <2>2 DEF SInv, CopiesOK
  <2>7. PortOK'
    BY <1>1, <1>2, <2>2, PortStep DEF SInv
  <2> QED BY <2>2, <2>3, <2>4, <2>5, <2>6, <2>7 DEF SInv
<1>7. CASE ~(entries[ip].ban > th[t].now)
  <2> DEFINE r == Recorded(t, [entries[ip] EXCEPT !.ban = 0])
  <2>1. PICK fail \in BOOLEAN :
          /\ IF Expired(ip, th[t].now) /\ ~fail THEN FirewallRemove(ip) ELSE UNCHANGED kernel
          /\ dirty' = (dirty \/ fail)
          /\ Save(ip, r)
          /\ IF Exceeds(t, r) THEN Goto(t, "check") /\ lock' = [lock EXCEPT !["panel"] = t]
                              ELSE Done(t) /\ UNCHANGED lock
    BY <1>2, <1>5, <1>7 DEF Watch
  <2>2. IsRecord(r) /\ r.ban = 0 /\ r.grace = entries[ip].grace
    <3> DEFINE q == [entries[ip] EXCEPT !.ban = 0]
    <3>1. IsRecord(q) /\ q.ban = 0 /\ q.grace = entries[ip].grace
      BY <1>2, <1>5, LiftedFacts
    <3> HIDE DEF q
    <3>2. IsRecord(Recorded(t, q)) /\ Recorded(t, q).ban = 0 /\ Recorded(t, q).grace = entries[ip].grace
      BY <3>1, RecordedFacts
    <3> QED BY <3>2 DEF q
  <2> HIDE DEF r
  <2>3. /\ DOMAIN entries' = IPs /\ \A x \in IPs : IsRecord(entries'[x])
        /\ entries'[ip].ban = 0 /\ entries'[ip].grace = entries[ip].grace
        /\ \A x \in IPs : x # ip => entries'[x] = entries[x]
    BY <1>2, <2>1, <2>2, SaveFacts
  <2>4. /\ kset' \in [IPs -> Nat] /\ legacy' \subseteq IPs
        /\ \A x \in IPs : x # ip => kset'[x] = kset[x] /\ (x \in legacy' <=> x \in legacy)
        /\ Unknown(ip) => Unknown(ip)'
        /\ Expired(ip, th[t].now) /\ ~fail => Unknown(ip)'
    <3>1. CASE Expired(ip, th[t].now) /\ ~fail
      <4>1. /\ kset' \in [IPs -> Nat] /\ legacy' \subseteq legacy /\ ip \notin legacy' /\ kset'[ip] = 0
            /\ \A x \in IPs : x # ip => kset'[x] = kset[x] /\ (x \in legacy' <=> x \in legacy)
        BY <1>2, <2>1, <3>1, RemoveFacts
      <4> QED BY <1>1, <1>2, <4>1 DEF Unknown, TypeOK
    <3>2. CASE ~(Expired(ip, th[t].now) /\ ~fail)
      <4>1. UNCHANGED <<kset, legacy>>
        BY <2>1, <3>2 DEF kernel
      <4> QED BY <1>1, <1>2, <3>2, <4>1 DEF Unknown, TypeOK
    <3> QED BY <3>1, <3>2
  <2>5. \A x \in IPs : x # ip => (Unknown(x)' <=> Unknown(x)) /\ (Free(x)' <=> Free(x))
    BY <1>1, <2>3, <2>4 DEF Unknown, Free
  <2>6. Free(ip) => Free(ip)'
    BY <1>1, <1>2, <2>3, <2>4 DEF Free
  <2>7. OrphanOK'
    <3>1. SUFFICES ASSUME ~dirty', NEW x \in IPs
                   PROVE  Unknown(x)' \/ entries'[x].ban > 0
      BY DEF OrphanOK
    <3>2. ~dirty /\ ~fail
      BY <2>1, <3>1
    <3>3. CASE x # ip
      BY <2>3, <2>5, <3>2, <3>3 DEF SInv, OrphanOK
    <3>4. CASE x = ip
      <4>1. entries[ip].ban \in Nat
        BY <1>2, <1>5 DEF IsRecord
      <4>2. ~Expired(ip, th[t].now) => entries[ip].ban = 0
        BY <1>2, <1>7, <4>1 DEF Expired
      <4>3. ~Expired(ip, th[t].now) => Unknown(ip)
        BY <3>2, <4>2 DEF SInv, OrphanOK
      <4> QED BY <2>4, <3>2, <3>4, <4>3
    <3> QED BY <3>3, <3>4
  <2>8. GraceOK'
    BY <1>1, <2>3, <2>5, <2>6, PauseKept DEF SInv
  <2>9. /\ ThreadsOK' /\ LockOK' /\ th' \in [Threads -> Thread]
        /\ \A u \in Threads : u # t => th'[u] = th[u]
        /\ th'[t].pc \in {"idle", "check"} /\ th'[Cli] = th[Cli]
        /\ lock' \in [Procs -> Threads \cup {NoThread}]
    <3>1. CASE Exceeds(t, r)
      <4>1. Goto(t, "check") /\ lock' = [lock EXCEPT !["panel"] = t]
        BY <2>1, <3>1
      <4>2. lock["panel"] = NoThread
        BY <1>1, <1>2, <3>1 DEF Exceeds
      <4>3. \A u \in Panel : u # t => th[u].pc \notin {"check", "ban"}
        BY <1>4, <4>2, ThreadSets
      <4>4. lock'["panel"] = t /\ lock' \in [Procs -> Threads \cup {NoThread}]
        BY <1>2, <4>1, ThreadSets DEF TypeOK
      <4> QED BY <1>1, <1>2, <4>1, <4>3, <4>4, GotoFrame
    <3>2. CASE ~Exceeds(t, r)
      <4>1. Done(t) /\ UNCHANGED lock
        BY <2>1, <3>2
      <4>2. lock' \in [Procs -> Threads \cup {NoThread}]
        BY <1>2, <4>1 DEF TypeOK
      <4> QED BY <1>1, <1>2, <1>4, <4>1, <4>2, DoneFrame
    <3> QED BY <3>1, <3>2
  <2>10. TypeOK'
    <3>1. dirty' \in BOOLEAN
      BY <1>2, <2>1 DEF TypeOK
    <3> QED BY <1>1, <1>2, <2>3, <2>4, <2>9, <3>1 DEF TypeOK
  <2>11. GrantedOK'
    <3>1. \A x \in granted : Free(x) => Free(x)'
      BY <1>2, <2>5, <2>6 DEF TypeOK
    <3>2. \A u \in Panel : th'[u].pc = "ban" => th[u].pc = "ban" /\ th'[u].ip = th[u].ip
      BY <2>9, ThreadSets
    <3> QED BY <1>1, <1>3, <3>1, <3>2, GrantedKept DEF SInv
  <2>12. CopiesOK'
    BY <1>1, <2>9 DEF SInv, CopiesOK
  <2>13. PortOK'
    BY <1>1, <1>2, <2>9, PortStep DEF SInv
  <2> QED BY <2>7, <2>8, <2>9, <2>10, <2>11, <2>12, <2>13 DEF SInv
<1> QED BY <1>6, <1>7

-----------------------------------------------------------------------------
(* Steps of the processes *)

\* Time passes: bans and entries end, nothing begins.
LEMMA TickSInv ==
  ASSUME SInv, Tick
  PROVE  SInv'
<1>1. /\ UNCHANGED <<entries, kset, legacy, port, env, tfile, prot, direct, perm, temp, lock, th, up,
                     dirty, granted, promised, alone>>
      /\ clock' = clock + 1 /\ clock \in Nat
  BY DEF Tick, kernel, files, memory, history, SInv, TypeOK
<1>2. TypeOK /\ TypeOK'
  BY <1>1 DEF SInv, TypeOK
<1>3. ThreadsOK' /\ LockOK'
  <2>1. \A t \in Threads : th[t].now \in Nat
    BY <1>2, ThreadFacts
  <2> QED BY <1>1, <2>1 DEF SInv, ThreadsOK, LockOK
<1>4. CopiesOK'
  <2>1. \A ip \in IPs : temp["panel"][ip] \in Nat /\ tfile[ip] \in Nat
    BY <1>2 DEF TypeOK, Procs
  <2> QED BY <1>1, <2>1 DEF SInv, CopiesOK
<1>5. \A ip \in IPs : (Unknown(ip) => Unknown(ip)') /\ (Listed(ip)' => Listed(ip)) /\ (Free(ip) => Free(ip)')
  <2> TAKE ip \in IPs
  <2>1. kset[ip] \in Nat /\ temp["panel"][ip] \in Nat /\ entries[ip].ban \in Nat
    BY <1>2 DEF TypeOK, Procs, IsRecord
  <2> QED BY <1>1, <2>1 DEF Unknown, Listed, Free
<1>6. OrphanOK'
  BY <1>1, <1>5 DEF SInv, OrphanOK
<1>7. GraceOK'
  <2>1. \A ip \in IPs : promised[ip] \in Nat
    BY <1>2 DEF TypeOK
  <2>2. \A ip \in IPs : clock' < promised'[ip] => clock < promised[ip]
    BY <1>1, <2>1
  <2> QED BY <1>1, <1>5, <2>2 DEF SInv, GraceOK, Free
<1>8. GrantedOK'
  <2>1. granted \subseteq IPs
    BY <1>2 DEF TypeOK
  <2> QED BY <1>1, <1>5, <2>1, GrantedKept DEF SInv
<1>9. PortOK'
  BY <1>1, PortFrame DEF SInv
<1> QED BY <1>2, <1>3, <1>4, <1>6, <1>7, <1>8, <1>9 DEF SInv

\* The restart waits for the threads of the panel.
LEMMA RestartSInv ==
  ASSUME SInv, Restart
  PROVE  SInv'
<1>1. /\ UNCHANGED <<entries, kset, legacy, port, env, tfile, prot, direct, perm, temp, lock, clock,
                     dirty, granted, promised, alone>>
      /\ up' = FALSE /\ Done(Cli) /\ \A t \in Panel : th[t].pc = "idle"
  BY DEF Restart, kernel, files, memory, bounds, history
<1>2. ThreadSet(Cli, "idle", Net, "idle") /\ clock \in Nat
  BY <1>1, DoneSets, ThreadSets DEF SInv, TypeOK
<1>3. TypeOK'
  BY <1>1, <1>2 DEF SInv, TypeOK, ThreadSet
<1>4. ThreadsOK' /\ LockOK'
  <2>1. \A u \in Threads : /\ th'[u].now <= clock
                           /\ th'[u].pc \in Working \/ th'[u].then = "release" => th'[u].ip \in IPs
    BY <1>2 DEF SInv, ThreadsOK, ThreadSet, Working
  <2>2. th'[Cli].pc = "idle" /\ \A t \in Panel : th'[t].pc = "idle"
    BY <1>1, <1>2, ThreadSets DEF ThreadSet
  <2> QED BY <1>1, <2>1, <2>2 DEF ThreadsOK, LockOK
<1>5. CopiesOK' /\ GrantedOK'
  BY <1>1 DEF CopiesOK, GrantedOK
<1>6. OrphanOK' /\ GraceOK'
  BY <1>1, KernelFrame DEF SInv
<1>7. PortOK'
  <2>1. \A u \in Threads : th'[u].pc = "papply" => th[u].pc = "papply"
    BY <1>2 DEF ThreadSet
  <2> QED BY <1>1, <2>1, PortDue DEF SInv
<1> QED BY <1>3, <1>4, <1>5, <1>6, <1>7 DEF SInv

\* The kernel forgets everything.
LEMMA RebootSInv ==
  ASSUME SInv, Reboot
  PROVE  SInv'
<1>1. /\ UNCHANGED <<entries, env, tfile, prot, direct, perm, temp, clock, dirty, granted, promised>>
      /\ up' = FALSE /\ alone' = FALSE /\ legacy' = {} /\ kset' = [ip \in IPs |-> 0]
      /\ port' = [on |-> FALSE, allow |-> {}]
      /\ th' = [t \in Threads |-> Idle] /\ lock' = [p \in Procs |-> NoThread]
  BY DEF Reboot, files, memory
<1>2. TypeOK /\ clock \in Nat
  BY DEF SInv, TypeOK
<1>3. TypeOK'
  <2>1. th' \in [Threads -> Thread] /\ lock' \in [Procs -> Threads \cup {NoThread}]
    BY <1>1, IdleFacts
  <2>2. kset' \in [IPs -> Nat] /\ port' \in [on : BOOLEAN, allow : SUBSET Entries]
    BY <1>1
  <2> QED BY <1>1, <1>2, <2>1, <2>2 DEF TypeOK
<1>4. ThreadsOK' /\ LockOK'
  <2>1. \A u \in Threads : th'[u] = Idle
    BY <1>1
  <2>2. \A u \in Threads : th'[u].pc = "idle" /\ th'[u].now = 0 /\ th'[u].then = "idle"
    BY <2>1, IdleFacts
  <2> QED BY <1>1, <1>2, <2>2, ThreadSets DEF ThreadsOK, LockOK, Working
<1>5. CopiesOK' /\ GrantedOK'
  BY <1>1 DEF CopiesOK, GrantedOK
<1>6. \A ip \in IPs : Unknown(ip)'
  BY <1>1, <1>2 DEF Unknown
<1>7. OrphanOK' /\ GraceOK'
  BY <1>1, <1>6 DEF SInv, OrphanOK, GraceOK
<1>8. PortOK'
  BY <1>1 DEF PortOK
<1> QED BY <1>3, <1>4, <1>5, <1>7, <1>8 DEF SInv

\* A store call that was cut short keeps the pause.
LEMMA KillSInv ==
  ASSUME SInv, Kill
  PROVE  SInv'
<1>1. /\ UNCHANGED <<entries, port, env, tfile, prot, direct, perm, temp, clock, granted, promised>>
      /\ up' = FALSE /\ dirty' = TRUE /\ alone' = FALSE
      /\ th' = [t \in Threads |-> IF t \in Panel THEN Idle ELSE th[t]]
      /\ lock' = [lock EXCEPT !["panel"] = NoThread]
  BY DEF Kill, files, memory
<1>2. TypeOK /\ clock \in Nat /\ BanTime \in Nat
  BY ScannerAssumption DEF SInv, TypeOK
<1>3. /\ kset' \in [IPs -> Nat] /\ legacy' \subseteq IPs
      /\ \A x \in IPs : clock < promised[x] /\ Unknown(x) => Unknown(x)'
  <2>1. CASE UNCHANGED kernel
    BY <1>1, <1>2, <2>1 DEF kernel, Unknown, TypeOK
  <2>2. ASSUME NEW t \in Panel, th[t].pc = "ban", ~InGrace(th[t].ip, th[t].now),
               FirewallAdd(th[t].ip, BanTime, FALSE)
        PROVE  /\ kset' \in [IPs -> Nat] /\ legacy' \subseteq IPs
               /\ \A x \in IPs : clock < promised[x] /\ Unknown(x) => Unknown(x)'
    <3>1. t \in Threads /\ th[t].ip \in IPs /\ ~(clock < promised[th[t].ip])
      BY <2>2, NoPause, WorkerFacts, ThreadSets DEF Working
    <3>2. /\ kset' \in [IPs -> Nat] /\ legacy' = legacy
          /\ \A x \in IPs : x # th[t].ip => kset'[x] = kset[x]
      BY <1>2, <2>2, <3>1, AddFacts
    <3> QED BY <1>1, <1>2, <3>1, <3>2 DEF Unknown, TypeOK
  <2>3. ASSUME NEW t \in Panel, th[t].pc = "release", FirewallRemove(th[t].ip)
        PROVE  /\ kset' \in [IPs -> Nat] /\ legacy' \subseteq IPs
               /\ \A x \in IPs : clock < promised[x] /\ Unknown(x) => Unknown(x)'
    <3>1. t \in Threads /\ th[t].ip \in IPs
      BY <2>3, WorkerFacts, ThreadSets DEF Working
    <3>2. /\ kset' \in [IPs -> Nat] /\ legacy' \subseteq legacy /\ kset'[th[t].ip] = 0
          /\ \A x \in IPs : x # th[t].ip => kset'[x] = kset[x]
      BY <1>2, <2>3, <3>1, RemoveFacts
    <3> QED BY <1>1, <1>2, <3>1, <3>2 DEF Unknown, TypeOK
  <2> QED BY <2>1, <2>2, <2>3 DEF Kill
<1>4. /\ th' \in [Threads -> Thread] /\ th'[Cli] = th[Cli]
      /\ \A t \in Panel : th'[t].pc = "idle"
      /\ \A t \in Threads : th'[t] = th[t] \/ th'[t] = Idle
  BY <1>1, <1>2, IdleFacts, ThreadSets DEF TypeOK
<1>5. TypeOK'
  <2>1. lock' \in [Procs -> Threads \cup {NoThread}]
    BY <1>1, <1>2 DEF TypeOK
  <2> QED BY <1>1, <1>2, <1>3, <1>4, <2>1 DEF TypeOK
<1>6. ThreadsOK' /\ LockOK'
  <2>1. \A u \in Threads : /\ th'[u].now <= clock
                           /\ th'[u].pc \in Working \/ th'[u].then = "release" => th'[u].ip \in IPs
    BY <1>2, <1>4, IdleFacts DEF SInv, ThreadsOK, Working
  <2> QED BY <1>1, <1>4, <2>1 DEF SInv, ThreadsOK, LockOK
<1>7. CopiesOK' /\ GrantedOK' /\ OrphanOK'
  BY <1>1 DEF CopiesOK, GrantedOK, OrphanOK
<1>8. GraceOK'
  BY <1>1, <1>3 DEF SInv, GraceOK
<1>9. PortOK'
  BY <1>1 DEF PortOK
<1> QED BY <1>5, <1>6, <1>7, <1>8, <1>9 DEF SInv

\* init_app: files, store and kernel are brought in line before a request is served.
LEMMA StartSInv ==
  ASSUME SInv, NEW pub \in BOOLEAN, Start(pub)
  PROVE  SInv'
<1> DEFINE left == [ip \in IPs |-> IF tfile[ip] > clock THEN tfile[ip] ELSE 0]
<1>1. /\ UNCHANGED <<port, env, prot, lock, clock, promised, alone>> /\ ~up /\ up' = TRUE /\ direct' = pub
      /\ \E t \in Panel : Then(t, "psync", Net, "idle")
  BY DEF Start
<1>2. PICK good \in SUBSET Families :
        /\ perm' = [perm EXCEPT !["panel"] = env]
        /\ temp' = [temp EXCEPT !["panel"] = left] /\ tfile' = left
        /\ entries' = [ip \in IPs |-> IF ip \in Freed(left) THEN Released(entries[ip]) ELSE entries[ip]]
        /\ kset' = [ip \in IPs |-> IF ip \in Freed(left) THEN 0 ELSE SyncFromStore(good)[ip]]
        /\ legacy' = LegacyLeft(good) \ Freed(left)
        /\ dirty' = (dirty /\ good # Families)
        /\ granted' = Freed(left)
  BY DEF Start
<1>3. TypeOK /\ clock \in Nat /\ Freed(left) \subseteq IPs /\ \A t \in Panel : th[t].pc = "idle"
  BY <1>1 DEF SInv, TypeOK, Freed, ThreadsOK
<1>4. left \in [IPs -> Nat]
  BY <1>3 DEF TypeOK
<1> HIDE DEF left
<1>5. PICK t \in Panel : ThreadSet(t, "psync", Net, "idle")
  BY <1>1, <1>3, ThenSets, EntrySets, ThreadSets DEF Pcs
<1>6. /\ DOMAIN entries' = IPs /\ \A x \in IPs : IsRecord(entries'[x])
      /\ \A x \in IPs : entries'[x].grace = entries[x].grace
      /\ \A x \in IPs : IF x \in Freed(left) THEN entries'[x].ban = 0 ELSE entries'[x] = entries[x]
  <2>1. DOMAIN entries' = IPs
    BY <1>2
  <2>2. ASSUME NEW x \in IPs
        PROVE  /\ IsRecord(entries'[x]) /\ entries'[x].grace = entries[x].grace
               /\ IF x \in Freed(left) THEN entries'[x].ban = 0 ELSE entries'[x] = entries[x]
    <3>1. IsRecord(entries[x])
      BY <1>3 DEF TypeOK
    <3>2. CASE x \in Freed(left)
      <4>1. entries'[x] = Released(entries[x])
        BY <1>2, <3>2
      <4> QED BY <3>1, <3>2, <4>1, ReleasedFacts
    <3>3. CASE x \notin Freed(left)
      <4>1. entries'[x] = entries[x]
        BY <1>2, <3>3
      <4> QED BY <3>1, <3>3, <4>1
    <3> QED BY <3>2, <3>3
  <2> QED BY <2>1, <2>2
<1>7. /\ kset' \in [IPs -> Nat]
      /\ \A x \in IPs : kset'[x] = IF x \in Freed(left) THEN 0
                                   ELSE IF Family(x) \in good
                                        THEN IF entries[x].ban > clock THEN entries[x].ban ELSE 0
                                        ELSE kset[x]
  <2>1. \A x \in IPs : SyncFromStore(good)[x] =
           IF Family(x) \in good THEN IF entries[x].ban > clock THEN entries[x].ban ELSE 0 ELSE kset[x]
    BY DEF SyncFromStore, SyncFamily
  <2>2. \A x \in IPs : SyncFromStore(good)[x] \in Nat
    BY <1>3, <2>1 DEF TypeOK, IsRecord
  <2> QED BY <1>2, <2>1, <2>2
<1>8. TypeOK'
  <2>1. perm' \in [Procs -> SUBSET Entries] /\ temp' \in [Procs -> [IPs -> Nat]] /\ tfile' \in [IPs -> Nat]
    BY <1>2, <1>3, <1>4 DEF TypeOK
  <2>2. legacy' \subseteq IPs /\ granted' \subseteq IPs /\ dirty' \in BOOLEAN
    BY <1>2, <1>3 DEF TypeOK, LegacyLeft
  <2> QED BY <1>1, <1>3, <1>5, <1>6, <1>7, <2>1, <2>2 DEF TypeOK, ThreadSet
<1>9. ThreadsOK' /\ LockOK'
  <2>1. \A u \in Threads : /\ th'[u].now <= clock
                           /\ th'[u].pc \in Working \/ th'[u].then = "release" => th'[u].ip \in IPs
    BY <1>3, <1>5 DEF SInv, ThreadsOK, ThreadSet, Working
  <2>2. th'[Cli] = th[Cli] /\ \A u \in Panel : th'[u].pc \in {"idle", "psync"}
    BY <1>3, <1>5, ThreadSets DEF ThreadSet
  <2> QED BY <1>1, <2>1, <2>2 DEF SInv, ThreadsOK, LockOK
<1>10. CopiesOK'
  <2>1. perm'["panel"] = env' /\ temp'["panel"] = tfile'
    BY <1>1, <1>2, <1>3 DEF TypeOK, Procs
  <2> QED BY <2>1 DEF CopiesOK
<1>11. \A x \in Freed(left) : Free(x)'
  BY <1>1, <1>2, <1>3, <1>6, <1>7 DEF Free, Unknown
<1>12. \A x \in IPs : Free(x) => Free(x)'
  <2>1. ASSUME NEW x \in IPs, Free(x), x \notin Freed(left)
        PROVE  Free(x)'
    BY <1>1, <1>2, <1>3, <1>6, <1>7, <2>1 DEF Free, Unknown, LegacyLeft
  <2> QED BY <1>11, <2>1
<1>13. GraceOK'
  BY <1>1, <1>6, <1>12, PauseKept DEF SInv
<1>14. GrantedOK'
  <2>1. \A u \in Panel : th'[u].pc # "ban"
    BY <1>3, <1>5, ThreadSets DEF ThreadSet
  <2> QED BY <1>2, <1>11, <2>1 DEF GrantedOK, Free
<1>15. OrphanOK'
  <2>1. SUFFICES ASSUME ~dirty', NEW x \in IPs, x \notin Freed(left)
                 PROVE  Unknown(x)' \/ entries'[x].ban > 0
    BY <1>11 DEF OrphanOK, Free
  <2>2. ~dirty \/ good = Families
    BY <1>2, <2>1
  <2>3. entries[x].ban \in Nat /\ entries'[x] = entries[x] /\ Family(x) \in Families
    BY <1>3, <1>6, <2>1 DEF TypeOK, IsRecord, Family, Families
  <2>4. CASE Family(x) \in good
    BY <1>1, <1>2, <1>3, <1>7, <2>1, <2>3, <2>4 DEF Unknown, LegacyLeft
  <2>5. CASE Family(x) \notin good
    <3>1. Unknown(x) \/ entries[x].ban > 0
      BY <2>2, <2>3, <2>5 DEF SInv, OrphanOK
    <3> QED BY <1>1, <1>2, <1>7, <2>1, <2>3, <2>5, <3>1 DEF Unknown, LegacyLeft
  <2> QED BY <2>4, <2>5
<1>16. PortOK'
  <2>1. \A u \in Threads : th'[u].pc = "papply" => th[u].pc = "papply"
    BY <1>5 DEF ThreadSet
  <2>2. th'[t].pc = "psync"
    BY <1>5 DEF ThreadSet
  <2> QED BY <1>1, <2>1, <2>2, PortDue DEF SInv
<1> QED BY <1>8, <1>9, <1>10, <1>13, <1>14, <1>15, <1>16 DEF SInv

\* The invariant holds at the first start.
LEMMA InitSInv == Init => SInv
<1> SUFFICES ASSUME Init PROVE SInv
  OBVIOUS
<1>1. \A t \in Threads : th[t] = Idle
  BY DEF Init
<1>2. \A t \in Threads : th[t].pc = "idle" /\ th[t].now = 0 /\ th[t].then = "idle"
  BY <1>1, IdleFacts
<1>3. clock = 1 /\ up = FALSE /\ dirty = TRUE
  BY DEF Init
<1>4. TypeOK
  <2>1. DOMAIN entries = IPs /\ \A ip \in IPs : IsRecord(entries[ip])
    <3> DEFINE r == [NoRecord EXCEPT !.strikes = StrikesForYear - 1]
    <3>1. IsRecord(r)
      BY DEF NoRecord, IsRecord, Fields
    <3>2. entries = [ip \in IPs |-> r]
      BY DEF Init
    <3> HIDE DEF r
    <3> QED BY <3>1, <3>2
  <2>2. kset \in [IPs -> Nat] /\ legacy \subseteq IPs /\ tfile \in [IPs -> Nat] /\ promised \in [IPs -> Nat]
    BY ScannerAssumption DEF Init
  <2>3. port \in [on : BOOLEAN, allow : SUBSET Entries] /\ prot \in [scan : BOOLEAN, dwell : BOOLEAN, port : BOOLEAN]
    BY DEF Init
  <2>4. env \subseteq Entries /\ perm \in [Procs -> SUBSET Entries]
    BY EntrySets DEF Init
  <2>5. temp \in [Procs -> [IPs -> Nat]]
    BY <2>2 DEF Init
  <2>6. th \in [Threads -> Thread] /\ lock \in [Procs -> Threads \cup {NoThread}]
    BY IdleFacts DEF Init
  <2>7. direct \in BOOLEAN /\ up \in BOOLEAN /\ clock \in Nat /\ dirty \in BOOLEAN /\ alone \in BOOLEAN /\ granted \subseteq IPs
    BY DEF Init
  <2> QED BY <2>1, <2>2, <2>3, <2>4, <2>5, <2>6, <2>7 DEF TypeOK
<1>5. ThreadsOK /\ LockOK
  BY <1>2, <1>3, ThreadSets DEF ThreadsOK, LockOK, Working
<1>6. CopiesOK /\ OrphanOK /\ GrantedOK
  BY <1>3 DEF CopiesOK, OrphanOK, GrantedOK
<1>7. GraceOK
  BY <1>3 DEF Init, GraceOK
<1>8. PortOK
  BY <1>2, <1>3 DEF PortOK
<1> QED BY <1>4, <1>5, <1>6, <1>7, <1>8 DEF SInv

\* Every step keeps the invariant.
LEMMA NextSInv ==
  ASSUME SInv, [Next]_vars
  PROVE  SInv'
<1>1. CASE UNCHANGED vars
  <2>1. UNCHANGED <<entries, kset, legacy, port, env, tfile, prot, direct, perm, temp, lock, th, up, clock,
                    dirty, granted, promised, alone>>
    BY <1>1 DEF vars, kernel, files, memory, bounds, history
  <2>2. TypeOK' /\ OrphanOK' /\ GraceOK'
    BY <2>1, KernelFrame DEF SInv, TypeOK
  <2>3. /\ ThreadsOK' /\ LockOK' /\ CopiesOK' /\ PortOK'
        /\ \A x : Listed(x)' => Listed(x)
        /\ \A u \in Panel : th'[u].pc = "ban" => th[u].pc = "ban" /\ th'[u].ip = th[u].ip
    BY <2>1, QuietFrame
  <2>4. GrantedOK'
    BY <2>1, <2>3, GrantedFrame DEF SInv
  <2> QED BY <2>2, <2>3, <2>4 DEF SInv
<1>2. ASSUME NEW t \in Threads, Whitelisting(t) PROVE SInv'
  BY <1>2, AddIpSInv, RemoveIpAnySInv, AddTemporaryIpSInv DEF Whitelisting
<1>3. ASSUME NEW t \in Threads, Administration(t) PROVE SInv'
  BY <1>3, UnbanSInv, ReplaceWhitelistSInv, SetProtectionSInv, ClearBansSInv, ViewSettingsSInv DEF Administration
<1>4. ASSUME NEW t \in Threads, Serve(t) PROVE SInv'
  BY <1>4, PortReadSInv, PortApplySInv, WatchSInv, CheckAgainSInv, BanSInv, ReleaseSInv DEF Serve
<1>5. ASSUME NEW t \in Panel, NEW ip \in IPs, NEW page \in BOOLEAN, Request(t, ip, page) PROVE SInv'
  BY <1>5, RequestSInv
<1>6. CASE Kill \/ Restart \/ Reboot \/ Tick
  BY <1>6, KillSInv, RestartSInv, RebootSInv, TickSInv
<1>7. ASSUME NEW pub \in BOOLEAN, Start(pub) PROVE SInv'
  BY <1>7, StartSInv
<1> QED BY <1>1, <1>2, <1>3, <1>4, <1>5, <1>6, <1>7 DEF Next

-----------------------------------------------------------------------------
(* The theorems *)

\* In every state the copies, the store, the kernel and the threads of the panel
\* fit together: the invariant that the properties follow from.
THEOREM Invariance == Spec => []SInv
<1>1. Init => SInv
  BY InitSInv
<1>2. SInv /\ [Next]_vars => SInv'
  BY NextSInv
<1> QED BY <1>1, <1>2, PTL DEF Spec

\* An address that the kernel does not know is not dropped.
LEMMA UnknownPasses ==
  ASSUME TypeOK, NEW ip \in IPs, Unknown(ip)
  PROVE  ~Dropped(ip)
<1>1. kset[ip] \in Nat /\ clock \in Nat
  BY DEF TypeOK
<1> QED BY <1>1 DEF Unknown, Dropped, InSet

\* Whatever the kernel drops is on record, so that the settings page can list and end
\* it, unless a death of the process or a failed removal is not yet made good.
THEOREM OrphanTheorem == Spec => []NoOrphanBan
<1>1. SInv => NoOrphanBan
  BY UnknownPasses DEF SInv, OrphanOK, NoOrphanBan
<1> QED BY <1>1, Invariance, PTL

\* Whoever add_ip, add_temporary_ip or a start released stays free while the entry
\* lasts: a ban decided before the release cannot come after it.
THEOREM ReleaseTheorem == Spec => []WhitelistReleased
<1>1. ASSUME SInv PROVE WhitelistReleased
  <2>1. SUFFICES ASSUME NEW ip \in granted, up, ip \in perm["panel"] \/ ip \in Live("panel")
                 PROVE  ~Dropped(ip) /\ entries[ip].ban <= clock
    BY DEF WhitelistReleased
  <2>2. ip \in IPs /\ Listed(ip)
    BY <1>1, <2>1 DEF SInv, TypeOK, Listed, Live
  <2>3. Unknown(ip) /\ entries[ip].ban <= clock
    BY <1>1, <2>1, <2>2 DEF SInv, GrantedOK
  <2> QED BY <1>1, <2>2, <2>3, UnknownPasses DEF SInv
<1> QED BY <1>1, Invariance, PTL

\* The pause that unban_scanner_ip promises is kept through restarts and against
\* requests whose time was read before the unban.
THEOREM GraceTheorem == Spec => []GraceKept
<1>1. SInv => GraceKept
  BY UnknownPasses DEF SInv, GraceOK, GraceKept
<1> QED BY <1>1, Invariance, PTL

\* The port rules let in every entry of .env once the updates, none of which
\* overlapped another, have been made.
THEOREM PortTheorem == Spec => []PortOpenToWhitelist
<1>1. ASSUME SInv PROVE PortOpenToWhitelist
  <2>1. SUFFICES ASSUME up, alone, port.on, \A t \in Threads : th[t].pc = "idle"
                 PROVE  env \subseteq port.allow
    BY DEF PortOpenToWhitelist
  <2>2. th[Cli].pc = "idle" /\ \A t \in Panel : th[t].pc = "idle"
    BY <2>1, ThreadSets
  <2>3. perm["panel"] = env
    BY <1>1, <2>1, <2>2 DEF SInv, CopiesOK
  <2>4. perm["panel"] \subseteq port.allow
    BY <1>1, <2>1, <2>2 DEF SInv, PortOK
  <2> QED BY <2>3, <2>4
<1> QED BY <1>1, Invariance, PTL

\* While no command line call is under way, the memory of the panel answers as the
\* two files would.
THEOREM CopiesTheorem == Spec => []CopiesAgree
<1>1. ASSUME SInv PROVE CopiesAgree
  <2>1. SUFFICES ASSUME up, th[Cli].pc = "idle"
                 PROVE  perm["panel"] = env /\ Live("panel") = {ip \in IPs : tfile[ip] > clock}
    BY DEF CopiesAgree
  <2>2. clock \in Nat /\ \A ip \in IPs : temp["panel"][ip] \in Nat /\ tfile[ip] \in Nat
    BY <1>1 DEF SInv, TypeOK, Procs
  <2>3. \A ip \in IPs : temp["panel"][ip] > clock <=> tfile[ip] > clock
    BY <1>1, <2>1, <2>2 DEF SInv, CopiesOK
  <2> QED BY <1>1, <2>1, <2>3 DEF SInv, CopiesOK, Live
<1> QED BY <1>1, Invariance, PTL
=============================================================================
