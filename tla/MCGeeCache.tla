----------------------------- MODULE MCGeeCache -----------------------------
EXTENDS GeeCache

CONSTANTS n1, n2, k1, k2, v1, v2

MCNodes == {n1, n2}
MCKeys == {k1, k2}
MCVals == {v1, v2}
MCKeyLen == [k \in MCKeys |-> 1]
(* Two values of one length: the source answers the same size each time.  *)
MCValLen == [v \in MCVals |-> 1]
MCSource == [k \in MCKeys |-> IF k = k1 THEN {v1} ELSE {v2, "err"}]
(* Both nodes were Set with the same list. *)
MCPeers == [n \in MCNodes |-> <<n1, n2>>]
(* Two replicas per node: n1's points 3 and 6, n2's points 1 and 6; the   *)
(* collision at 6 goes to n2, written last.  k1 hashes onto the point 3,  *)
(* k2 past the last point, wrapping to 1.                                  *)
MCVHash == [o \in {0, 1} \X MCNodes |->
             CASE o = <<0, n1>> -> 3 [] o = <<1, n1>> -> 6
               [] o = <<0, n2>> -> 1 [] o = <<1, n2>> -> 6]
MCKHash == [k \in MCKeys |-> IF k = k1 THEN 3 ELSE 7]

(* The Getter's data changes between loads: k1 reads as an empty value,   *)
(* then as one three bytes long.                                           *)
MCValLenVaried == [v \in MCVals |-> IF v = v1 THEN 0 ELSE 3]
MCSourceVaried == [k \in MCKeys |-> MCVals]

=============================================================================
