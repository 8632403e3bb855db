--------------------------- MODULE MCTinyBalancer ---------------------------
EXTENDS TinyBalancer

CONSTANTS h1, h2, r1, r2

MCHosts == {h1, h2}
MCHostList == <<h1, h2>>
(* A client with an address, whose two checksums pick different hosts of  *)
(* two, and requests without one.                                          *)
MCKeys == {"", "ip"}
MCCrc == [k \in MCKeys |-> 4]
MCCrcSalt == [k \in MCKeys |-> 7]
MCReqs == {r1, r2}
(* Every algorithm Build supports.                                         *)
MCAlgorithms == {"p2c", "least-load", "round-robin", "random", "ip-hash", "consistent-hash"}

=============================================================================
