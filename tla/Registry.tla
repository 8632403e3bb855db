------------------------------ MODULE Registry ------------------------------
(***************************************************************************)
(* The registry with heartbeat of spec section 4.7.  The registry package  *)
(* is imported by registry_test.go (registry.HandleHTTP,                   *)
(* registry.Heartbeat(registry, addr, 0)) but is not in the repository,    *)
(* so this module follows the spec: a mutex-guarded map from address to    *)
(* last-seen time, a POST that records "now" for an address, a GET that    *)
(* lists the addresses seen within TTL, and one heartbeat loop per server  *)
(* that POSTs its address every Interval for the life of its process.      *)
(*                                                                         *)
(* Time is discrete.  Instead of a clock, the state keeps ages, capped     *)
(* where a larger value makes no difference: seen[a] stops at TTL + 1.     *)
(* Tick is the passage of one unit of time; it waits for a heartbeat that  *)
(* is due and for a POST that has taken MaxDelay, which are the timing     *)
(* assumptions (the ticker fires on time, a POST arrives within MaxDelay). *)
(***************************************************************************)
EXTENDS Naturals

CONSTANTS
  Addrs,       \* server addresses, each with a heartbeat loop
  TTL,         \* the registry's time to live of an entry
  Interval,    \* the heartbeat period
  MaxDelay,    \* the longest a heartbeat POST is in flight
  MaxCrashes,  \* server crashes (each followed by a possible restart)
  None

VARIABLES
  seen,     \* seen[a]: time since the registry last recorded a, or None
  up,       \* up[a]: the server process at a is running
  hbWait,   \* hbWait[a]: time until a's heartbeat ticker fires
  ping,     \* ping[a]: age of a's heartbeat POST in flight, or None
  joined,   \* joined[a]: a POST of a's running process has been recorded (history)
  downFor,  \* downFor[a]: time since a's process crashed, capped, or None (history)
  crashes   \* crashes so far

rvars == <<seen, up, hbWait, ping, joined, downFor, crashes>>

Expired == TTL + 1

(* The longest a crashed server's POST can still be in flight, plus the    *)
(* time its entry then takes to age past the TTL.                          *)
DropBound == MaxDelay + TTL + 1

TypeOK ==
  /\ seen \in [Addrs -> 0..Expired \cup {None}]
  /\ up \in [Addrs -> BOOLEAN] /\ joined \in [Addrs -> BOOLEAN]
  /\ hbWait \in [Addrs -> 0..Interval]
  /\ ping \in [Addrs -> 0..MaxDelay \cup {None}]
  /\ downFor \in [Addrs -> 0..DropBound \cup {None}]
  /\ crashes \in 0..MaxCrashes

(* Every server has started and called Heartbeat, whose first POST is due  *)
(* at once; the registry's map is empty.                                   *)
Init ==
  /\ seen = [a \in Addrs |-> None]
  /\ up = [a \in Addrs |-> TRUE]
  /\ hbWait = [a \in Addrs |-> 0]
  /\ ping = [a \in Addrs |-> None]
  /\ joined = [a \in Addrs |-> FALSE]
  /\ downFor = [a \in Addrs |-> None]
  /\ crashes = 0

(* GET listing every address it has ever recorded.                        *)
AliveServersNoExpiry == {a \in Addrs : seen[a] # None}

(* GET dropping an entry whose age equals the TTL.                        *)
AliveServersStrict == {a \in Addrs : seen[a] # None /\ seen[a] < TTL}

(* GET: the addresses whose last heartbeat does not exceed the TTL.       *)
AliveServers == {a \in Addrs : seen[a] # None /\ seen[a] <= TTL}

(* The heartbeat ticker fired: POST the address, wait another Interval.   *)
SendHeartbeat(a) ==
  /\ up[a] /\ hbWait[a] = 0 /\ ping[a] = None
  /\ ping' = [ping EXCEPT ![a] = 0]
  /\ hbWait' = [hbWait EXCEPT ![a] = Interval]
  /\ UNCHANGED <<seen, up, joined, downFor, crashes>>

(* POST handler, under the registry's mutex: record now for the address. *)
(* A POST sent before its server crashed still arrives.                   *)
PutServer(a) ==
  /\ ping[a] # None
  /\ seen' = [seen EXCEPT ![a] = 0]
  /\ ping' = [ping EXCEPT ![a] = None]
  /\ joined' = [joined EXCEPT ![a] = up[a]]
  /\ UNCHANGED <<up, hbWait, downFor, crashes>>

(* The server process ends, and its heartbeat loop with it.                *)
Crash(a) ==
  /\ up[a] /\ crashes < MaxCrashes
  /\ up' = [up EXCEPT ![a] = FALSE]
  /\ joined' = [joined EXCEPT ![a] = FALSE]
  /\ downFor' = [downFor EXCEPT ![a] = 0]
  /\ crashes' = crashes + 1
  /\ UNCHANGED <<seen, hbWait, ping>>

(* A new process at the same address starts and calls Heartbeat again.   *)
Restart(a) ==
  /\ ~up[a]
  /\ up' = [up EXCEPT ![a] = TRUE]
  /\ hbWait' = [hbWait EXCEPT ![a] = 0]
  /\ downFor' = [downFor EXCEPT ![a] = None]
  /\ UNCHANGED <<seen, ping, joined, crashes>>

HeartbeatDue(a) == up[a] /\ hbWait[a] = 0 /\ ping[a] = None

(* One unit of time passes.                                                *)
Tick ==
  /\ \A a \in Addrs : ~HeartbeatDue(a) /\ ping[a] \in {None} \cup 0..(MaxDelay - 1)
  /\ seen' = [a \in Addrs |-> IF seen[a] \in {None, Expired} THEN seen[a] ELSE seen[a] + 1]
  /\ hbWait' = [a \in Addrs |-> IF hbWait[a] > 0 THEN hbWait[a] - 1 ELSE 0]
  /\ ping' = [a \in Addrs |-> IF ping[a] = None THEN None ELSE ping[a] + 1]
  /\ downFor' = [a \in Addrs |-> IF downFor[a] \in {None, DropBound} THEN downFor[a]
                                  ELSE downFor[a] + 1]
  /\ UNCHANGED <<up, joined, crashes>>

RegistryNext ==
  \E a \in Addrs : SendHeartbeat(a) \/ PutServer(a) \/ Crash(a) \/ Restart(a)

-----------------------------------------------------------------------------

(* A running server whose heartbeat has reached the registry is in every  *)
(* GET answer from then on: the heartbeat period plus the POST's delay     *)
(* never lets its entry age past the TTL, also at the boundary where the   *)
(* age equals the TTL.                                                     *)
LiveServerListed == \A a \in Addrs : up[a] /\ joined[a] => a \in AliveServers

(* A server that has crashed is out of every GET answer once DropBound    *)
(* has passed: the POST it sent before the crash lands within MaxDelay,   *)
(* and its entry then ages past the TTL.                                   *)
DeadServerDropped ==
  \A a \in Addrs : downFor[a] = DropBound => a \notin AliveServers

=============================================================================
