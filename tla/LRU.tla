--------------------------------- MODULE LRU ---------------------------------
(***************************************************************************)
(* geecache's lru.Cache, as operators on a cache value, so that a model    *)
(* can hold one cache per node.  A cache value is a record:                *)
(*   ll      the list, front first (ll.PushFront / ll.Back),               *)
(*   ent     the map from a key to the value in its entry, or None,        *)
(*   nBytes  c.nBytes,                                                     *)
(*   hung    Add's eviction loop never ends (it holds cache.mu forever).  *)
(* A key and a value count for their lengths KeyLen[k] and ValLen[v].     *)
(***************************************************************************)
EXTENDS Integers, Sequences, SequencesExt

CONSTANTS
  Keys, Vals,
  KeyLen,     \* [Keys -> Nat]: len(key)
  ValLen,     \* [Vals -> Nat]: value.Len()
  MaxBytes,   \* c.maxBytes; 0 is unbounded
  None

New == [ll |-> <<>>, ent |-> [k \in Keys |-> None], nBytes |-> 0, hung |-> FALSE]

MoveToFront(l, k) == Cons(k, Remove(l, k))

(* Get: on a hit, move the entry to the front.                            *)
Get(c, k) == IF c.ent[k] = None THEN c ELSE [c EXCEPT !.ll = MoveToFront(@, k)]

(* RemoveOldest that leaves the map entry of the evicted key in place.    *)
RemoveOldestKeepMap(c) ==
  IF c.ll = <<>> THEN c
  ELSE LET k == Last(c.ll)
       IN [c EXCEPT !.ll = Front(@),
                    !.nBytes = @ - (KeyLen[k] + ValLen[c.ent[k]])]

(* RemoveOldest: drop the back of the list and its map entry, and give    *)
(* back its key and value bytes; nothing on an empty list.                *)
RemoveOldest(c) ==
  IF c.ll = <<>> THEN c
  ELSE LET k == Last(c.ll)
       IN [c EXCEPT !.ll = Front(@), !.ent[k] = None,
                    !.nBytes = @ - (KeyLen[k] + ValLen[c.ent[k]])]

(* The first half of Add.  On an update the entry is moved to the front   *)
(* and nBytes moves by the difference of the lengths, but the entry keeps *)
(* its old value: kv.value is never assigned.                             *)
Put(c, k, v) ==
  IF c.ent[k] # None
  THEN [c EXCEPT !.ll = MoveToFront(@, k),
                 !.nBytes = @ + ValLen[v] - ValLen[c.ent[k]]]
  ELSE [c EXCEPT !.ll = Cons(k, @), !.ent[k] = v,
                 !.nBytes = @ + KeyLen[k] + ValLen[v]]

(* `for c.maxBytes != 0 && c.maxBytes < c.nBytes { c.RemoveOldest() }`.   *)
(* On an empty list RemoveOldest changes nothing, so with nBytes still    *)
(* over the limit the loop spins forever.                                  *)
RECURSIVE Evict(_)
Evict(c) ==
  IF MaxBytes # 0 /\ MaxBytes < c.nBytes
  THEN IF c.ll = <<>> THEN [c EXCEPT !.hung = TRUE] ELSE Evict(RemoveOldest(c))
  ELSE c

Add(c, k, v) == Evict(Put(c, k, v))

-----------------------------------------------------------------------------

(* The list and the map hold the same keys, each key once.                 *)
IndexConsistent(c) ==
  /\ \A i, j \in DOMAIN c.ll : i # j => c.ll[i] # c.ll[j]
  /\ \A k \in Keys : (c.ent[k] # None) <=> Contains(c.ll, k)

(* nBytes is the sum of the lengths of the keys and values held.           *)
RECURSIVE BytesOf(_, _)
BytesOf(c, l) ==
  IF l = <<>> THEN 0
  ELSE KeyLen[Head(l)] + ValLen[c.ent[Head(l)]] + BytesOf(c, Tail(l))

BytesAccounted(c) == c.nBytes = BytesOf(c, c.ll)

=============================================================================
