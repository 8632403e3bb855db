------------------------------ MODULE MCXClient ------------------------------
(* Model-checking instance of XClient: two addresses, one of them down,   *)
(* two callers, and a Broadcast over lists of up to two servers.          *)
EXTENDS XClient

CONSTANTS a1, a2, c1, c2

MCAddrs == {a1, a2}
MCCallers == {c1, c2}
MCDown == {a2}
=============================================================================
