---------------------------- MODULE TinyBalancer ----------------------------
(***************************************************************************)
(* tinybalancer's HTTPProxy over the balancer its algorithm Builds.  Request*)
(* goroutines run ServeHTTP (Balance, Inc, proxy to the host, Done), one   *)
(* healthCheck goroutine per host probes its backend on every tick and     *)
(* Removes or re-Adds it, and the backends go down and come up.  A host's  *)
(* load is an unsigned integer of LoadBits bits (uint64 in the code).      *)
(* P2C and LeastLoad count load; the TemplateBalancer family (round-robin, *)
(* random, ip-hash, consistent-hash) keeps TemplateBalancer's Inc, which   *)
(* panics.                                                                 *)
(***************************************************************************)
EXTENDS Integers, Sequences, SequencesExt, FiniteSets

CONSTANTS
  Hosts,      \* the target hosts
  HostList,   \* the hosts slice handed to Build, in order
  Algorithms, \* the algorithms NewHTTPProxy may be given
  IdxPeriod,  \* RoundRobin.i is kept modulo IdxPeriod
  Keys,       \* client IPs GetIP may return; "" picks at random in P2C
  Crc,        \* Crc[key]: crc32.ChecksumIEEE(key)
  CrcSalt,    \* CrcSalt[key]: crc32.ChecksumIEEE(key + Salt)
  Reqs,       \* request goroutines, each serving one request after another
  LoadBits,   \* width of host.load
  MaxFlips,   \* times the backends go down or come up
  None

VARIABLES
  members,  \* P2C's r.hosts (the loadMap has the same keys), or the heap's hosts
  load,     \* load[h]: host.load of h's entry, while h is a member
  alive,    \* HTTPProxy.alive
  backend,  \* backend[h]: IsBackendAlive(h) would succeed
  hc,       \* hc[h]: where h's healthCheck goroutine is
  rq,       \* rq[r]: where request goroutine r is and the host it balanced to
  flips,    \* backend changes so far
  algo,     \* the algorithm the balancer was Built for
  rrI,      \* RoundRobin.i, modulo IdxPeriod
  rrWin     \* the latest round-robin picks since the members last changed

vars == <<members, load, alive, backend, hc, rq, flips, algo, rrI, rrWin>>

(* Build's factories; "bounded" has none, so NewHTTPProxy fails with      *)
(* AlgorithmNotSupportedError and no proxy runs.                           *)
Supported == {"p2c", "least-load", "round-robin", "random", "ip-hash", "consistent-hash"}
LoadCounting == {"p2c", "least-load"}

(* r.i % len(r.hosts) = (i % IdxPeriod) % len(r.hosts) for every length   *)
(* up to the number of hosts.                                              *)
ASSUME /\ Algorithms \subseteq Supported
       /\ \A n \in 1..Cardinality(Hosts) : IdxPeriod % n = 0

LoadMax == 2^LoadBits

IsMember(h) == h \in ToSet(members)

TypeOK ==
  /\ members \in Seq(Hosts) /\ IsInjective(members)
  /\ load \in [Hosts -> 0..(LoadMax - 1)]
  /\ alive \in [Hosts -> BOOLEAN] /\ backend \in [Hosts -> BOOLEAN]
  /\ hc \in [Hosts -> {"tick", "probe2"}]
  /\ rq \in [Reqs -> [pc : {"idle", "inc", "serve"}, host : Hosts \cup {None}]]
  /\ flips \in 0..MaxFlips
  /\ algo \in Algorithms /\ rrI \in 0..(IdxPeriod - 1) /\ rrWin \in Seq(Hosts)

(* NewHTTPProxy marks every host alive and Builds the balancer for its    *)
(* algorithm, with the hosts in order and load 0 (RoundRobin's i = 0); the *)
(* backends are in any state.                                              *)
Init ==
  /\ members = HostList
  /\ load = [h \in Hosts |-> 0]
  /\ alive = [h \in Hosts |-> TRUE]
  /\ backend \in [Hosts -> BOOLEAN]
  /\ hc = [h \in Hosts |-> "tick"]
  /\ rq = [r \in Reqs |-> [pc |-> "idle", host |-> None]]
  /\ flips = 0
  /\ algo \in Algorithms /\ rrI = 0 /\ rrWin = <<>>

-----------------------------------------------------------------------------
(* The balancers' operations, under the balancer's lock.  Consistent's    *)
(* Add and Remove go to its hash ring, which also ignores a host it has.   *)

(* TemplateBalancer.Add: a host already present is left alone; a new one  *)
(* is appended.                                                            *)
AddHost(h) == members' = IF IsMember(h) THEN members ELSE Append(members, h)

(* P2C.Add and LeastLoad.Add: a new host gets a fresh entry of load 0.     *)
LoadAdd(h) ==
  /\ AddHost(h)
  /\ load' = IF IsMember(h) THEN load ELSE [load EXCEPT ![h] = 0]

BalancerAdd(h) ==
  IF algo \in LoadCounting THEN LoadAdd(h) ELSE AddHost(h) /\ UNCHANGED load

(* Remove: drop the host from r.hosts and the loadMap, or from the heap.   *)
RemoveHost(h) == members' = Remove(members, h)

(* Round-robin picks are counted afresh whenever the members change.       *)
ResetWindow == rrWin' = IF members' = members THEN rrWin ELSE <<>>

(* P2C.hash: two hosts by the key's checksums modulo the number of hosts,  *)
(* or two random ones for an empty key.                                    *)
P2CPair(key) ==
  IF key # ""
  THEN {<<members[(Crc[key] % Len(members)) + 1],
          members[(CrcSalt[key] % Len(members)) + 1]>>}
  ELSE {<<members[i], members[j]>> : i, j \in DOMAIN members}

(* The host each balancer's Balance returns for key, from r.hosts.        *)

(* P2C.Balance: the first of the pair unless the second has less load.     *)
P2CBalance(key) ==
  {IF load[p[1]] <= load[p[2]] THEN p[1] ELSE p[2] : p \in P2CPair(key)}

(* LeastLoad.Balance: the heap's minimum, any of the least loaded.         *)
LLBalance == {h \in ToSet(members) : \A g \in ToSet(members) : load[h] <= load[g]}

(* RoundRobin.Balance: hosts[i % len] (r.i++ is RRNext).                   *)
RRBalance == {members[(rrI % Len(members)) + 1]}

(* Random.Balance: hosts[rnd.Intn(len)].                                   *)
RandomBalance == ToSet(members)

(* IPHash.Balance: the key's crc32 modulo len.                             *)
IPHashBalance(key) == {members[(Crc[key] % Len(members)) + 1]}

(* Consistent.Balance: ch.Get(key), the ring's host for the key, which the *)
(* model lets be any member.                                               *)
ConsistentBalance == ToSet(members)

Picks(key) ==
  CASE algo = "p2c"         -> P2CBalance(key)
    [] algo = "least-load"  -> LLBalance
    [] algo = "round-robin" -> RRBalance
    [] algo = "random"      -> RandomBalance
    [] algo = "ip-hash"     -> IPHashBalance(key)
    [] algo = "consistent-hash" -> ConsistentBalance

(* RoundRobin.Balance without its r.i++.                                   *)
RRNextStuck(i) == i

(* RoundRobin.Balance: r.i++ after the pick.                               *)
RRNext(i) == (i + 1) % IdxPeriod

(* Inc: load++ on a member (uint64 arithmetic); nothing on another host.   *)
IncLoad(l) == (l + 1) % LoadMax

(* P2C.Done without its guard: load-- even at 0.                           *)
P2CDoneNoGuard(l) == (l - 1) % LoadMax

(* P2C.Done: load-- only while it is above 0.                              *)
P2CDone(l) == IF l > 0 THEN l - 1 ELSE l

(* LeastLoad.Done: load-- on the uint64, with no guard.                    *)
LLDone(l) == (l - 1) % LoadMax

DoneLoad(l) == IF algo = "p2c" THEN P2CDone(l) ELSE LLDone(l)

-----------------------------------------------------------------------------
(* HTTPProxy.ServeHTTP.                                                    *)

(* h.lb.Balance(GetIP(r)): no host answers 502 and the request ends.  A    *)
(* round-robin pick advances r.i in the same critical section.             *)
Balance(r) ==
  /\ rq[r].pc = "idle"
  /\ \E key \in Keys :
       IF members = <<>>
       THEN UNCHANGED <<rq, rrI, rrWin>>
       ELSE \E h \in Picks(key) :
              /\ rq' = [rq EXCEPT ![r] = [pc |-> "inc", host |-> h]]
              /\ IF algo = "round-robin"
                 THEN /\ rrI' = RRNext(rrI)
                      /\ LET w == Append(rrWin, h)
                         IN  rrWin' = IF Len(w) > Len(members) THEN Tail(w) ELSE w
                 ELSE UNCHANGED <<rrI, rrWin>>
  /\ UNCHANGED <<members, load, alive, backend, hc, flips, algo>>

(* h.lb.Inc(host), a separate lock acquisition; the host may be gone.      *)
Inc(r) ==
  LET h == rq[r].host IN
  /\ rq[r].pc = "inc"
  /\ algo \in LoadCounting
  /\ load' = IF IsMember(h) THEN [load EXCEPT ![h] = IncLoad(@)] ELSE load
  /\ rq' = [rq EXCEPT ![r].pc = "serve"]
  /\ UNCHANGED <<members, alive, backend, hc, flips, algo, rrI, rrWin>>

(* TemplateBalancer.Inc panics before Done is deferred.  ServeHTTP's       *)
(* deferred recover writes 502 and then panics again on err.(error), a     *)
(* string; net/http recovers that and drops the connection.  The request   *)
(* ends without reaching the host.                                         *)
IncPanics(r) ==
  /\ rq[r].pc = "inc"
  /\ algo \notin LoadCounting
  /\ rq' = [rq EXCEPT ![r] = [pc |-> "idle", host |-> None]]
  /\ UNCHANGED <<members, load, alive, backend, hc, flips, algo, rrI, rrWin>>

(* hostMap[host].ServeHTTP returns; the deferred h.lb.Done(host).          *)
Done(r) ==
  LET h == rq[r].host IN
  /\ rq[r].pc = "serve"
  /\ load' = IF IsMember(h) THEN [load EXCEPT ![h] = DoneLoad(@)] ELSE load
  /\ rq' = [rq EXCEPT ![r] = [pc |-> "idle", host |-> None]]
  /\ UNCHANGED <<members, alive, backend, hc, flips, algo, rrI, rrWin>>

-----------------------------------------------------------------------------
(* healthCheck(host), on each tick.  Only this goroutine reads or writes   *)
(* alive[host], and only it Adds or Removes host, so SetAlive and the      *)
(* balancer call are one step as far as any other goroutine can tell.      *)

(* First IsBackendAlive: unreachable and marked alive, so mark it dead and *)
(* Remove it; otherwise go on to the else-if branch.                       *)
Probe1(h) ==
  /\ hc[h] = "tick"
  /\ IF ~backend[h] /\ alive[h]
     THEN /\ alive' = [alive EXCEPT ![h] = FALSE]
          /\ RemoveHost(h)
          /\ UNCHANGED <<hc, load>>
     ELSE /\ hc' = [hc EXCEPT ![h] = "probe2"]
          /\ UNCHANGED <<alive, members, load>>
  /\ ResetWindow
  /\ UNCHANGED <<backend, rq, flips, algo, rrI>>

(* healthCheck with the else-if branch testing h.ReadAlive(host), not its  *)
(* negation.                                                               *)
Probe2SameAlive(h) ==
  /\ hc[h] = "probe2"
  /\ IF backend[h] /\ alive[h]
     THEN /\ alive' = [alive EXCEPT ![h] = TRUE]
          /\ BalancerAdd(h)
     ELSE UNCHANGED <<alive, members, load>>
  /\ hc' = [hc EXCEPT ![h] = "tick"]
  /\ ResetWindow
  /\ UNCHANGED <<backend, rq, flips, algo, rrI>>

(* Second IsBackendAlive, which may answer otherwise than the first:       *)
(* reachable and marked dead, so mark it alive and Add it.                 *)
Probe2(h) ==
  /\ hc[h] = "probe2"
  /\ IF backend[h] /\ ~alive[h]
     THEN /\ alive' = [alive EXCEPT ![h] = TRUE]
          /\ BalancerAdd(h)
     ELSE UNCHANGED <<alive, members, load>>
  /\ hc' = [hc EXCEPT ![h] = "tick"]
  /\ ResetWindow
  /\ UNCHANGED <<backend, rq, flips, algo, rrI>>

(* A backend goes down or comes up.                                        *)
Flip(h) ==
  /\ flips < MaxFlips
  /\ backend' = [backend EXCEPT ![h] = ~@]
  /\ flips' = flips + 1
  /\ UNCHANGED <<members, load, alive, hc, rq, algo, rrI, rrWin>>

Request(r) == Balance(r) \/ Inc(r) \/ IncPanics(r) \/ Done(r)
Check(h) == Probe1(h) \/ Probe2(h)

Next ==
  \/ \E r \in Reqs : Request(r)
  \/ \E h \in Hosts : Check(h) \/ Flip(h)

(* The ticker fires every interval, and a request's handler runs on.       *)
Spec == Init /\ [][Next]_vars
          /\ \A r \in Reqs : WF_vars(Request(r))
          /\ \A h \in Hosts : WF_vars(Check(h))

-----------------------------------------------------------------------------

(* Requests holding host h: past Inc, before Done.                          *)
InFlight(h) == Cardinality({r \in Reqs : rq[r].pc = "serve" /\ rq[r].host = h})

(* Under P2C, a member's load never exceeds the requests that are still   *)
(* on it, even when healthCheck Removes and re-Adds the host while a       *)
(* request that Inc'd the old entry has not yet called Done on the new     *)
(* one.  (LeastLoad's Done has no guard, and there the load wraps.)        *)
LoadNotOvercounted ==
  algo = "p2c" => \A h \in ToSet(members) : load[h] <= InFlight(h)

(* Under round-robin, while the members stay the same, any len(r.hosts)   *)
(* consecutive Balance calls, from whichever request goroutines and with   *)
(* health checks running between them, return every member once.           *)
RoundRobinCoversMembers ==
  algo = "round-robin" /\ Len(rrWin) = Len(members) => ToSet(rrWin) = ToSet(members)

(* Once the backends stop changing, every host's alive mark and its place  *)
(* in the balancer come to match whether its backend is reachable.         *)
HealthConverges ==
  <>[](\A h \in Hosts : alive[h] = backend[h] /\ (IsMember(h) <=> backend[h]))

=============================================================================
