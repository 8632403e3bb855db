------------------------- MODULE MCRegistryDiscovery -------------------------
(* Model-checking instance of RegistryDiscovery: two servers, hand-made    *)
(* lists of up to two entries, so an initial index in 0..1 covers every    *)
(* residue; a heartbeat period plus POST delay equal to the TTL.          *)
EXTENDS RegistryDiscovery

CONSTANTS a1, a2

MCAddrs == {a1, a2}
=============================================================================
