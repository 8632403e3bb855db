--------------------------- MODULE RegistryDiscovery ---------------------------
(***************************************************************************)
(* Discovery refreshed from the registry (spec sections 4.6 and 4.7; the   *)
(* test's xclient.NewGeeRegistryDiscovery(registry, 0)): a                 *)
(* MultiServerDiscovery whose list Refresh replaces with the registry's    *)
(* GET answer once its last update is older than Timeout.  Refresh holds   *)
(* the discovery's lock across the GET, so Get, Update and a second        *)
(* Refresh wait for it.  The owner may still Update the list by hand.     *)
(* The servers at Addrs heartbeat to the registry (module Registry).      *)
(***************************************************************************)
EXTENDS Naturals, Sequences, SequencesExt

CONSTANTS
  Addrs, MaxServers, InitIndexBound, RRBound,  \* the Discovery
  TTL, Interval, MaxDelay, MaxCrashes,         \* the registry and heartbeats
  Timeout,   \* the discovery's refresh timeout
  None

VARIABLES
  servers, index, got, rrCount,                 \* the Discovery
  seen, up, hbWait, ping, joined, downFor, crashes,  \* the registry and servers
  dAge,      \* time since the discovery's lastUpdate, capped at Timeout
  answer     \* the registry's GET answer on its way to Refresh, or None

D == INSTANCE Discovery
R == INSTANCE Registry

dvars == <<servers, index, got, rrCount>>
rvars == <<seen, up, hbWait, ping, joined, downFor, crashes>>
vars == <<dvars, rvars, dAge, answer>>

(* The discovery starts with no servers, a random index and a lastUpdate   *)
(* of zero time, so the first Refresh goes to the registry.                *)
Init ==
  /\ R!Init
  /\ servers = <<>> /\ index \in 0..InitIndexBound /\ got = None /\ rrCount = <<>>
  /\ dAge = Timeout
  /\ answer = None

(* Refresh with the test of lastUpdate + timeout turned around.            *)
RefreshGetSwapped ==
  /\ answer = None /\ dAge < Timeout
  /\ answer' = R!AliveServers
  /\ UNCHANGED <<dvars, rvars, dAge>>

(* Refresh with lastUpdate + timeout in the past: GET the registry, which *)
(* answers with the servers it holds alive now.                            *)
RefreshGet ==
  /\ answer = None /\ dAge >= Timeout
  /\ answer' = R!AliveServers
  /\ UNCHANGED <<dvars, rvars, dAge>>

(* The answer arrives: its comma-joined list, in the map's order, becomes *)
(* the server list and lastUpdate is now.  The index is kept.             *)
RefreshApply ==
  /\ answer # None
  /\ \E l \in SetToSeqs(answer) : D!Update(l)
  /\ dAge' = 0 /\ answer' = None
  /\ UNCHANGED rvars

(* The GET fails: Refresh returns the error and the list is kept.          *)
RefreshFail ==
  /\ answer # None
  /\ answer' = None
  /\ UNCHANGED <<dvars, rvars, dAge>>

(* Get and Update take the discovery's lock, which Refresh holds.          *)
Owner(A) == answer = None /\ A /\ UNCHANGED <<rvars, dAge, answer>>

(* Time passes for the registry, the heartbeats and the discovery alike.  *)
Tick ==
  /\ R!Tick
  /\ dAge' = IF dAge < Timeout THEN dAge + 1 ELSE Timeout
  /\ UNCHANGED <<dvars, answer>>

Next ==
  \/ Owner(D!DiscoveryNext)
  \/ R!RegistryNext /\ UNCHANGED <<dvars, dAge, answer>>
  \/ RefreshGet \/ RefreshApply \/ RefreshFail
  \/ Tick

(* Time passes, every heartbeat loop and POST handler runs, a caller keeps *)
(* using the discovery so that a stale list is refreshed, and a registry   *)
(* that is asked again and again eventually answers.                       *)
Spec ==
  /\ Init /\ [][Next]_vars
  /\ WF_vars(Tick) /\ WF_vars(RefreshGet) /\ SF_vars(RefreshApply)
  /\ \A a \in Addrs : WF_vars(R!SendHeartbeat(a) /\ UNCHANGED <<dvars, dAge, answer>>)
                   /\ WF_vars(R!PutServer(a) /\ UNCHANGED <<dvars, dAge, answer>>)

-----------------------------------------------------------------------------

(* Round-robin Gets on an unchanged list visit its positions in turn.      *)
RoundRobinBalanced == D!RoundRobinBalanced

(* A running server whose heartbeat reached the registry is in every GET   *)
(* answer while it runs, at the TTL boundary included.                     *)
LiveServerListed == R!LiveServerListed

(* A crashed server's address leaves the registry's answers within        *)
(* DropBound, so a Refresh after that no longer brings it back             *)
(* (registry_test.go:28).                                                   *)
DeadServerDropped == R!DeadServerDropped

(* Every running server eventually shows up in the discovery's list: its  *)
(* heartbeat reaches the registry, a later Refresh finds the list stale,   *)
(* and a GET answered after the heartbeat brings it in, however GETs fail  *)
(* and the owner's Updates interleave.                                     *)
RunningServerDiscovered ==
  \A a \in Addrs : up[a] ~> (a \in ToSet(servers) \/ ~up[a])

=============================================================================
