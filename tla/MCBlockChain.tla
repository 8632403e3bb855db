---------------------------- MODULE MCBlockChain ----------------------------
EXTENDS BlockChain

CONSTANTS a1, a2, bad

MCAddrs == {a1, a2}
(* An address typed with a wrong checksum.                                 *)
MCBadAddrs == {bad}

=============================================================================
