------------------------------ MODULE GeeCache ------------------------------
(***************************************************************************)
(* A geecache cluster serving one Group: every node has its mainCache (an  *)
(* lru.Cache behind cache.mu), its singleflight loader, and an HTTPPool    *)
(* whose ring was Set from its own list of peers.  A request is a          *)
(* goroutine running Group.Get on one node, for a client or for the        *)
(* ServeHTTP of a peer that picked this node; fetching from a peer starts  *)
(* a child request on that peer and waits for its answer.                  *)
(***************************************************************************)
EXTENDS Integers, Sequences, FiniteSets

CONSTANTS
  Nodes, Keys, Vals, KeyLen, ValLen, CacheBytes,
  Source,        \* [Keys -> SUBSET (Vals \cup {"err"})]: what the Getter may return
  Peers,         \* [Nodes -> Seq(Nodes)]: the list each node's HTTPPool.Set got
  Replicas, VHash, KHash,
  PeerCanFail,   \* http.Get to a peer may fail
  MaxClientGets, \* Group.Get calls made by clients
  MaxReqs,       \* request slots, client and peer
  None

VARIABLES
  cache,   \* cache[n]: node n's mainCache.lru, None until the first add
  flight,  \* flight[n][k]: the request whose call is in node n's loader.m[k], or None
  rq,      \* rq[i]: request i
  nclient  \* client Gets made so far

gvars == <<cache, flight, rq, nclient>>

L == INSTANCE LRU WITH MaxBytes <- CacheBytes
H == INSTANCE ConsistentHash

Reqs == 1..MaxReqs

(* A request's goroutine: where it is, which node and key it serves, the  *)
(* request whose ServeHTTP started it (0 for a client), what it returns,   *)
(* the request it waits on (a call leader or a peer fetch), and whether    *)
(* the call it leads has had c.wg.Done().                                  *)
Pcs == {"none", "get", "do", "pick", "peer", "local", "done", "del", "wait",
        "stuck", "ret"}
NoReq == [pc |-> "none", node |-> None, key |-> None, parent |-> 0,
          res |-> None, on |-> 0, wg |-> FALSE]

TypeOK ==
  /\ rq \in [Reqs -> [pc : Pcs, node : Nodes \cup {None}, key : Keys \cup {None},
                      parent : 0..MaxReqs, res : Vals \cup {"err", None},
                      on : 0..MaxReqs, wg : BOOLEAN]]
  /\ flight \in [Nodes -> [Keys -> Reqs \cup {None}]]
  /\ nclient \in 0..MaxClientGets

Init ==
  /\ cache = [n \in Nodes |-> None]
  /\ flight = [n \in Nodes |-> [k \in Keys |-> None]]
  /\ rq = [i \in Reqs |-> NoReq]
  /\ nclient = 0

Free == {i \in Reqs : rq[i].pc = "none"}

(* Slots are handed out lowest first; which slot a goroutine gets does not *)
(* matter.                                                                 *)
NextSlot == CHOOSE i \in Free : \A j \in Free : i <= j

NewReq(n, k, parent) ==
  [NoReq EXCEPT !.pc = "get", !.node = n, !.key = k, !.parent = parent]

Goto(i, pc) == [rq EXCEPT ![i].pc = pc]

(* The mainCache's methods, under cache.mu.                                *)

(* cache.get: a nil lru is a miss; otherwise lru.Get.                      *)
CacheLookup(c, k) == IF c = None THEN None ELSE c.ent[k]

(* cache.add: the lru is created with cacheBytes on the first add.         *)
CacheAdd(c, k, v) == L!Add(IF c = None THEN L!New ELSE c, k, v)

(* Node n's cache.mu is held forever by an add that never returned.        *)
Hung(n) == cache[n] # None /\ cache[n].hung

-----------------------------------------------------------------------------

(* A client calls Group.Get(k) on node n.                                  *)
ClientGet(n, k) ==
  /\ nclient < MaxClientGets /\ Free # {}
  /\ rq' = [rq EXCEPT ![NextSlot] = NewReq(n, k, 0)]
  /\ nclient' = nclient + 1
  /\ UNCHANGED <<cache, flight>>

(* Group.Get: mainCache.get under cache.mu; a hit returns, a miss loads.   *)
(* Nothing runs on a node whose cache.mu is held forever.                  *)
Get(i) ==
  LET n == rq[i].node  k == rq[i].key IN
  /\ rq[i].pc = "get" /\ ~Hung(n)
  /\ IF CacheLookup(cache[n], k) # None
     THEN /\ cache' = [cache EXCEPT ![n] = L!Get(@, k)]
          /\ rq' = [rq EXCEPT ![i].pc = "ret", ![i].res = CacheLookup(cache[n], k)]
     ELSE /\ rq' = Goto(i, "do")
          /\ UNCHANGED cache
  /\ UNCHANGED <<flight, nclient>>

(* singleflight.Do without looking for a call in flight.                   *)
DoNoCheck(i) ==
  LET n == rq[i].node  k == rq[i].key IN
  /\ rq[i].pc = "do"
  /\ flight' = [flight EXCEPT ![n][k] = i]
  /\ rq' = Goto(i, "pick")
  /\ UNCHANGED <<cache, nclient>>

(* singleflight.Do under g.mu: wait on the call in flight for the key, or  *)
(* put a new call in g.m and run fn.                                       *)
Do(i) ==
  LET n == rq[i].node  k == rq[i].key IN
  /\ rq[i].pc = "do"
  /\ IF flight[n][k] # None
     THEN /\ rq' = [rq EXCEPT ![i].pc = "wait", ![i].on = flight[n][k]]
          /\ UNCHANGED flight
     ELSE /\ flight' = [flight EXCEPT ![n][k] = i]
          /\ rq' = Goto(i, "pick")
  /\ UNCHANGED <<cache, nclient>>

(* The owner of key k on node n's ring, as HTTPPool.PickPeer sees it.      *)
Owner(n, k) == H!Get(Peers[n], k)

(* fn: PickPeer; a peer other than self gets an HTTP GET, served by a new *)
(* request on that peer.  A failed http.Get, or no peer, falls back to     *)
(* getLocally.                                                             *)
Pick(i) ==
  LET n == rq[i].node  k == rq[i].key  p == Owner(n, k) IN
  /\ rq[i].pc = "pick"
  /\ IF p \notin {"", n}
     THEN \/ /\ Free # {}
             /\ rq' = [rq EXCEPT ![i].pc = "peer", ![i].on = NextSlot,
                                 ![NextSlot] = NewReq(p, k, i)]
          \/ /\ PeerCanFail
             /\ rq' = Goto(i, "local")
     ELSE rq' = Goto(i, "local")
  /\ UNCHANGED <<cache, flight, nclient>>

(* The response ServeHTTP writes once the peer request j's Group.Get has  *)
(* returned: 500 with the error, or 200 with the value as the body.  The   *)
(* path httpGetter built always splits into the group and the key, and    *)
(* the group exists on every node, so the 400 and 404 answers never occur. *)
ServeHTTP(j) ==
  IF rq[j].res = "err" THEN [status |-> 500, body |-> None]
  ELSE [status |-> 200, body |-> rq[j].res]

(* httpGetter.Get on the response: a status other than 200 is an error,   *)
(* otherwise the decoded value.                                            *)
HTTPGet(resp) == IF resp.status # 200 THEN "err" ELSE resp.body

(* getFromPeer: a value returns it from fn (it is not put in mainCache),  *)
(* an error falls back to getLocally.                                      *)
PeerAnswer(i) ==
  LET j == rq[i].on
      v == HTTPGet(ServeHTTP(j))
  IN
  /\ rq[i].pc = "peer" /\ rq[j].pc = "ret"
  /\ rq' = IF v # "err"
           THEN [rq EXCEPT ![i].pc = "done", ![i].res = v]
           ELSE Goto(i, "local")
  /\ UNCHANGED <<cache, flight, nclient>>

(* getLocally, in a Do whose fn returns early on the Getter's error,      *)
(* before c.wg.Done() and the delete.                                      *)
LocalErrSkipsDone(i) ==
  LET n == rq[i].node  k == rq[i].key IN
  /\ rq[i].pc = "local" /\ ~Hung(n)
  /\ \E v \in Source[k] :
       IF v = "err"
       THEN /\ rq' = [rq EXCEPT ![i].pc = "ret", ![i].res = "err"]
            /\ UNCHANGED cache
       ELSE /\ cache' = [cache EXCEPT ![n] = CacheAdd(@, k, v)]
            /\ rq' = [rq EXCEPT ![i].pc = IF cache'[n].hung THEN "stuck" ELSE "done",
                                ![i].res = v]
  /\ UNCHANGED <<flight, nclient>>

(* getLocally: the Getter's answer; a value is copied into mainCache       *)
(* (cache.add under cache.mu, which may evict, or spin forever).           *)
Local(i) ==
  LET n == rq[i].node  k == rq[i].key IN
  /\ rq[i].pc = "local" /\ ~Hung(n)
  /\ \E v \in Source[k] :
       IF v = "err"
       THEN /\ rq' = [rq EXCEPT ![i].pc = "done", ![i].res = "err"]
            /\ UNCHANGED cache
       ELSE /\ cache' = [cache EXCEPT ![n] = CacheAdd(@, k, v)]
            /\ rq' = [rq EXCEPT ![i].pc = IF cache'[n].hung THEN "stuck" ELSE "done",
                                ![i].res = v]
  /\ UNCHANGED <<flight, nclient>>

(* c.val, c.err = fn(); c.wg.Done(): the waiters may go.                   *)
CallDone(i) ==
  /\ rq[i].pc = "done"
  /\ rq' = [rq EXCEPT ![i].pc = "del", ![i].wg = TRUE]
  /\ UNCHANGED <<cache, flight, nclient>>

(* delete(g.m, key) under g.mu, then return c.val, c.err.                  *)
Forget(i) ==
  LET n == rq[i].node  k == rq[i].key IN
  /\ rq[i].pc = "del"
  /\ flight' = [flight EXCEPT ![n][k] = None]
  /\ rq' = Goto(i, "ret")
  /\ UNCHANGED <<cache, nclient>>

(* c.wg.Wait() returned: the waiter returns the leader's c.val, c.err.     *)
Wait(i) ==
  LET c == rq[i].on IN
  /\ rq[i].pc = "wait" /\ rq[c].wg
  /\ rq' = [rq EXCEPT ![i].pc = "ret", ![i].res = rq[c].res]
  /\ UNCHANGED <<cache, flight, nclient>>

Step(i) ==
  \/ Get(i) \/ Do(i) \/ Pick(i) \/ PeerAnswer(i) \/ Local(i)
  \/ CallDone(i) \/ Forget(i) \/ Wait(i)

Next ==
  \/ \E n \in Nodes, k \in Keys : ClientGet(n, k)
  \/ \E i \in Reqs : Step(i)

(* Every goroutine that can run eventually does.                           *)
Spec == Init /\ [][Next]_gvars /\ \A i \in Reqs : WF_gvars(Step(i))

-----------------------------------------------------------------------------

(* singleflight: on a node, at most one goroutine runs fn for a key at a   *)
(* time, however the Gets that missed the cache interleave with the        *)
(* leader's Done and delete.                                               *)
OneLoadPerKey ==
  \A i, j \in Reqs :
    /\ i # j
    /\ rq[i].pc \in {"pick", "peer", "local"}
    /\ rq[j].pc \in {"pick", "peer", "local"}
    => rq[i].node # rq[j].node \/ rq[i].key # rq[j].key

(* Every node's mainCache keeps its list and its map in step across the   *)
(* Adds and the evictions that Gets on all keys cause.                     *)
CachesConsistent == \A n \in Nodes : cache[n] # None => L!IndexConsistent(cache[n])

(* Every peer fetch goes to the node of the nearest ring point clockwise   *)
(* from the key's hash on the fetching node's ring, also for a key that   *)
(* hashes exactly onto a point or past the last one.                       *)
PeerIsSuccessor ==
  \A i \in Reqs :
    rq[i].pc = "peer" => rq[rq[i].on].node = H!Reference(Peers[rq[i].node], rq[i].key)

(* Every Group.Get returns: a client's call, and each peer fetch it        *)
(* causes, finishes under fair scheduling.                                 *)
GetReturns == \A i \in Reqs : rq[i].pc \in {"get", "do"} ~> rq[i].pc \in {"ret", "none"}

(* No cache.add spins forever in its eviction loop holding cache.mu.       *)
AddReturns == \A n \in Nodes : ~Hung(n)

=============================================================================
