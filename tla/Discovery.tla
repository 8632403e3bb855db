------------------------------ MODULE Discovery ------------------------------
(***************************************************************************)
(* MultiServerDiscovery (xclient/discovery.go): a server list and a        *)
(* round-robin index behind one mutex.  Every method holds the lock for    *)
(* its whole body, so each is one atomic step.                             *)
(*                                                                         *)
(* The index starts at r.Intn(math.MaxInt32 - 1).  Only its residues       *)
(* modulo the list lengths matter, so it starts in 0..InitIndexBound,      *)
(* with InitIndexBound + 1 a multiple of every length 1..MaxServers.       *)
(***************************************************************************)
EXTENDS Naturals, Sequences, SequencesExt

CONSTANTS
  Addrs,           \* server addresses ("tcp@host:port")
  MaxServers,      \* longest server list given to Update or the constructor
  InitIndexBound,  \* bound on the initial random index
  RRBound,         \* round-robin Gets counted between two list changes
  None

VARIABLES
  servers,   \* d.servers
  index,     \* d.index
  got,       \* what the last Get returned: an address or "err"
  rrCount    \* round-robin Gets per list position since the list was set

dvars == <<servers, index, got, rrCount>>

(* The lists a caller can hand to NewMultiServerDiscovery or Update:       *)
(* any slice of addresses, empty or with repeats.                          *)
ServerLists == BoundedSeq(Addrs, MaxServers)

Positions == 1..Len(servers)

NoCounts(l) == [i \in 1..Len(l) |-> 0]

TypeOK ==
  /\ servers \in ServerLists
  /\ index \in 0..InitIndexBound
  /\ got \in Addrs \cup {None, "err"}
  /\ rrCount \in [Positions -> 0..RRBound]

(* NewMultiServerDiscovery(servers): the list as given, a random index.    *)
Init ==
  /\ servers \in ServerLists
  /\ index \in 0..InitIndexBound
  /\ got = None
  /\ rrCount = NoCounts(servers)

(* Update: replace the list wholesale; the index is kept.                  *)
Update(l) ==
  /\ servers' = l
  /\ rrCount' = NoCounts(l)
  /\ UNCHANGED <<index, got>>

(* Get(RandomSelect): d.servers[d.r.Intn(n)], or an error on an empty     *)
(* list.                                                                   *)
GetRandom ==
  /\ IF servers = <<>>
     THEN got' = "err"
     ELSE \E i \in Positions : got' = servers[i]
  /\ UNCHANGED <<servers, index, rrCount>>

(* Get(RoundRobinSelect) that forgets to advance the index.                *)
GetRoundRobinNoAdvance ==
  LET n == Len(servers)
      i == (index % n) + 1
  IN
  /\ IF n = 0
     THEN /\ got' = "err"
          /\ UNCHANGED <<index, rrCount>>
     ELSE /\ got' = servers[i]
          /\ index' = index % n
          /\ rrCount' = [rrCount EXCEPT ![i] = @ + 1]
  /\ UNCHANGED servers

(* Get(RoundRobinSelect): s := d.servers[d.index%n], then                  *)
(* d.index = (d.index + 1) % n; an error on an empty list.                 *)
GetRoundRobin ==
  LET n == Len(servers)
      i == (index % n) + 1
  IN
  /\ IF n = 0
     THEN /\ got' = "err"
          /\ UNCHANGED <<index, rrCount>>
     ELSE /\ got' = servers[i]
          /\ index' = (index + 1) % n
          /\ rrCount' = [rrCount EXCEPT ![i] = @ + 1]
  /\ UNCHANGED servers

(* GetAll: a copy of the list; it changes nothing.                         *)
GetAll == servers

(* The bound on the round-robin Gets counted in one list's lifetime.       *)
RRAllowed == \A i \in Positions : rrCount[i] < RRBound

DiscoveryNext ==
  \/ \E l \in ServerLists : Update(l)
  \/ GetRandom
  \/ RRAllowed /\ GetRoundRobin

-----------------------------------------------------------------------------

(* Round-robin Gets on an unchanged list of M servers visit the positions  *)
(* in cyclic order: after N Gets each position was returned N/M times,     *)
(* give or take one (the spec's round-robin balance).                      *)
RoundRobinBalanced ==
  \A i, j \in Positions : rrCount[i] <= rrCount[j] + 1

=============================================================================
