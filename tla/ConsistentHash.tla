---------------------------- MODULE ConsistentHash ----------------------------
(***************************************************************************)
(* geecache's consistenthash.Map, as operators over the list of nodes     *)
(* handed to Add.  The hash function is a table: VHash[i, node] is         *)
(* hash(strconv.Itoa(i) + node) for the i-th replica, KHash[key] is        *)
(* hash(key).                                                              *)
(***************************************************************************)
EXTENDS Integers, Sequences, SequencesExt, FiniteSetsExt, TLC

CONSTANTS Replicas, VHash, KHash

Replica == 0..(Replicas - 1)

(* The (node, replica) pairs in the order Add visits them.                 *)
Order(nodes) == [p \in 1..(Len(nodes) * Replicas) |->
                   <<(p - 1) % Replicas, nodes[(p - 1) \div Replicas + 1]>>]

(* m.keys after Add: every replica's hash, duplicates kept, sorted.        *)
RingKeys(nodes) ==
  SortSeq([p \in DOMAIN Order(nodes) |-> VHash[Order(nodes)[p]]], <)

(* m.hashMap[h]: the node written last for hash h.                         *)
HashMap(nodes, h) ==
  LET ps == {p \in DOMAIN Order(nodes) : VHash[Order(nodes)[p]] = h}
  IN Order(nodes)[Max(ps)][2]

(* Get with sort.Search for the first key >= hash, but taking the first   *)
(* key > hash.                                                             *)
GetStrict(nodes, key) ==
  LET keys == RingKeys(nodes)
      idx  == SelectInSeq(keys, LAMBDA x : x > KHash[key])
  IN IF keys = <<>> THEN ""
     ELSE HashMap(nodes, keys[IF idx = 0 THEN 1 ELSE idx])

(* Get: "" on an empty ring; else the first key >= hash, wrapping to       *)
(* m.keys[0] when idx = len(m.keys).                                       *)
Get(nodes, key) ==
  LET keys == RingKeys(nodes)
      idx  == SelectInSeq(keys, LAMBDA x : x >= KHash[key])
  IN IF keys = <<>> THEN ""
     ELSE HashMap(nodes, keys[IF idx = 0 THEN 1 ELSE idx])

(* What a hash ring promises: the node of the nearest point at or after   *)
(* the key's hash, going round to the lowest point.                        *)
Reference(nodes, key) ==
  LET pts   == {VHash[o] : o \in Replica \X ToSet(nodes)}
      after == {x \in pts : x >= KHash[key]}
  IN IF nodes = <<>> THEN ""
     ELSE HashMap(nodes, IF after # {} THEN Min(after) ELSE Min(pts))

=============================================================================
