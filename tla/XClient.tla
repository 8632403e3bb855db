------------------------------- MODULE XClient -------------------------------
(***************************************************************************)
(* The load-balanced client (xclient/xclient.go) over a                   *)
(* MultiServerDiscovery.                                                   *)
(*                                                                         *)
(* A slot is a goroutine that runs xc.Call once: a caller of XClient.Call, *)
(* or the i-th fan-out branch of Broadcast.  dial runs entirely under      *)
(* xc.mu (XDial included), so it is one step; CallTimeout on the returned  *)
(* *Client is the next.  A Client is abstracted to its availability:       *)
(* "live", "dead" (its receive loop failed and set shutdown), "closed"     *)
(* (Close set closing); "none" is an id not yet created.                   *)
(***************************************************************************)
EXTENDS Naturals, Sequences, SequencesExt

CONSTANTS
  Addrs, MaxServers, InitIndexBound, RRBound,
  Callers,       \* goroutines each making one XClient.Call
  Down,          \* addresses where XDial fails (nothing listening)
  FailAddrs,     \* addresses whose server answers the call with an error
  MaxClients,    \* bound on the Clients XDial creates
  CanDie,        \* whether a cached Client's connection may fail
  CanUpdate,     \* whether the owner calls Discovery.Update
  CanBroadcast,  \* whether the owner calls Broadcast once
  CanClose,      \* whether the owner calls XClient.Close
  None

VARIABLES
  servers, index, got, rrCount,   \* the Discovery
  clients,    \* xc.clients: address -> Client id
  cstate,     \* each Client's availability
  nextId,     \* next Client id XDial hands out
  spc,        \* program counter of each slot
  target,     \* the address each slot calls
  held,       \* the *Client dial returned to each slot (None for nil)
  res,        \* the error xc.Call returned to each slot ("pending" before)
  crashed,    \* a goroutine panicked and the process is gone
  bpc,        \* Broadcast: "idle", "wait" (wg.Wait), "returned"
  bservers,   \* Broadcast's GetAll snapshot
  bcancel,    \* the fan-out context has been cancelled
  be,         \* Broadcast's e: the first error recorded, "nil" before
  replyDone   \* Broadcast has copied a clone into the caller's reply

D == INSTANCE Discovery

ClientIds == 1..MaxClients
BranchSlots == 1..MaxServers
Slots == Callers \cup BranchSlots
Errors == {"err", "shutdown", "ctx", "dialErr", "badAddr"}
Results == {"pending", "ok"} \cup Errors

dvars == <<servers, index, got, rrCount>>
xvars == <<clients, cstate, nextId, spc, target, held, res, crashed>>
bvars == <<bpc, bservers, bcancel, be, replyDone>>
vars == <<dvars, xvars, bvars>>

TypeOK ==
  /\ D!TypeOK
  /\ clients \in [Addrs -> ClientIds \cup {None}]
  /\ cstate \in [ClientIds -> {"none", "live", "dead", "closed"}]
  /\ nextId \in 1..MaxClients + 1
  /\ spc \in [Slots -> {"idle", "call", "record", "done"}]
  /\ target \in [Slots -> Addrs \cup {"", None}]
  /\ held \in [Slots -> ClientIds \cup {None}]
  /\ res \in [Slots -> Results]
  /\ crashed \in BOOLEAN
  /\ bpc \in {"idle", "wait", "returned"}
  /\ bservers \in D!ServerLists
  /\ bcancel \in BOOLEAN /\ be \in Errors \cup {"nil"} /\ replyDone \in BOOLEAN

(* NewXClient over NewMultiServerDiscovery; a non-nil reply for Broadcast. *)
Init ==
  /\ D!Init
  /\ clients = [a \in Addrs |-> None]
  /\ cstate = [i \in ClientIds |-> "none"]
  /\ nextId = 1
  /\ spc = [s \in Slots |-> "idle"]
  /\ target = [s \in Slots |-> None]
  /\ held = [s \in Slots |-> None]
  /\ res = [s \in Slots |-> "pending"]
  /\ crashed = FALSE
  /\ bpc = "idle" /\ bservers = <<>>
  /\ bcancel = FALSE /\ be = "nil" /\ replyDone = FALSE

(* Where a slot goes once xc.Call has returned.                            *)
AfterCall(s) == IF s \in Callers THEN "done" ELSE "record"

(* dial that drops a cached Client which is no longer available without   *)
(* closing it.                                                             *)
DialNoClose(s, a) ==
  LET cached == IF a \in Addrs THEN clients[a] ELSE None
      stale == cached # None /\ cstate[cached] # "live"
      fresh == cached = None \/ stale
      dialOk == a \in Addrs \ Down
  IN
  /\ fresh /\ dialOk => nextId <= MaxClients
  /\ cstate' = IF fresh /\ dialOk THEN [cstate EXCEPT ![nextId] = "live"] ELSE cstate
  /\ nextId' = IF fresh /\ dialOk THEN nextId + 1 ELSE nextId
  /\ clients' = IF fresh /\ dialOk THEN [clients EXCEPT ![a] = nextId]
                ELSE IF stale THEN [clients EXCEPT ![a] = None] ELSE clients
  /\ target' = [target EXCEPT ![s] = a]
  /\ held' = [held EXCEPT ![s] = IF fresh THEN None ELSE cached]
  /\ res' = [res EXCEPT ![s] = IF fresh /\ ~dialOk
                                THEN IF a \in Addrs THEN "dialErr" ELSE "badAddr"
                                ELSE "pending"]
  /\ spc' = [spc EXCEPT ![s] = IF fresh /\ ~dialOk THEN AfterCall(s) ELSE "call"]

(* xc.dial(rpcAddr) under xc.mu.  A cached Client that is not available    *)
(* is closed and deleted.  With none left, client.XDial runs: an address   *)
(* without "@" fails with the format error, an unreachable server with a   *)
(* dial error; a new Client is cached.  The inner `c, err :=` declares a   *)
(* new c, so dial then returns the outer c, which is nil.                  *)
Dial(s, a) ==
  LET cached == IF a \in Addrs THEN clients[a] ELSE None
      stale == cached # None /\ cstate[cached] # "live"
      fresh == cached = None \/ stale
      dialOk == a \in Addrs \ Down
      closed == IF stale THEN [cstate EXCEPT ![cached] = "closed"] ELSE cstate
  IN
  /\ fresh /\ dialOk => nextId <= MaxClients
  /\ cstate' = IF fresh /\ dialOk THEN [closed EXCEPT ![nextId] = "live"] ELSE closed
  /\ nextId' = IF fresh /\ dialOk THEN nextId + 1 ELSE nextId
  /\ clients' = IF fresh /\ dialOk THEN [clients EXCEPT ![a] = nextId]
                ELSE IF stale THEN [clients EXCEPT ![a] = None] ELSE clients
  /\ target' = [target EXCEPT ![s] = a]
  /\ held' = [held EXCEPT ![s] = IF fresh THEN None ELSE cached]
  /\ res' = [res EXCEPT ![s] = IF fresh /\ ~dialOk
                                THEN IF a \in Addrs THEN "dialErr" ELSE "badAddr"
                                ELSE "pending"]
  /\ spc' = [spc EXCEPT ![s] = IF fresh /\ ~dialOk THEN AfterCall(s) ELSE "call"]

(* XClient.Call(rpcAddr, ...): the address is used as given; an empty one  *)
(* goes to XDial like any other.                                           *)
Call(c) ==
  /\ ~crashed
  /\ spc[c] = "idle"
  /\ \E a \in Addrs \cup {""} : Dial(c, a)
  /\ UNCHANGED <<dvars, crashed, bvars>>

(* What CallTimeout can return on a Client: ErrShutdown once it is not     *)
(* available, else the server's answer; a cancelled ctx races the answer.  *)
Outcomes(s) ==
  LET answer == IF cstate[held[s]] # "live" THEN "shutdown"
                ELSE IF target[s] \in FailAddrs THEN "err" ELSE "ok"
  IN  IF s \in BranchSlots /\ bcancel THEN {answer, "ctx"} ELSE {answer}

(* c.CallTimeout(ctx, ...).  On a nil *Client, send's c.sending.Lock()     *)
(* dereferences nil and the panic ends the process.                        *)
CallTimeout(s) ==
  /\ ~crashed
  /\ spc[s] = "call"
  /\ IF held[s] = None
     THEN /\ crashed' = TRUE
          /\ UNCHANGED <<spc, res>>
     ELSE /\ \E r \in Outcomes(s) : res' = [res EXCEPT ![s] = r]
          /\ spc' = [spc EXCEPT ![s] = AfterCall(s)]
          /\ UNCHANGED crashed
  /\ UNCHANGED <<dvars, clients, cstate, nextId, target, held, bvars>>

-----------------------------------------------------------------------------
(* Broadcast                                                               *)

(* d.GetAll(), then one goroutine per address (wg.Add); each runs          *)
(* xc.Call with the cancellable ctx.                                       *)
BroadcastStart ==
  /\ ~crashed
  /\ CanBroadcast /\ bpc = "idle"
  /\ bservers' = D!GetAll
  /\ bpc' = "wait"
  /\ UNCHANGED <<dvars, xvars, bcancel, be, replyDone>>

(* Branch i starts: xc.Call(rpcAddr, ctx, ...) begins with dial.           *)
BranchCall(i) ==
  /\ ~crashed
  /\ bpc = "wait" /\ i \in DOMAIN bservers
  /\ spc[i] = "idle"
  /\ Dial(i, bservers[i])
  /\ UNCHANGED <<dvars, crashed, bvars>>

(* Branch i recording its result as e whenever e is still nil, without   *)
(* checking err != nil.                                                    *)
BranchRecordAnyResult(i) ==
  LET failed == res[i] # "ok"
  IN
  /\ ~crashed
  /\ spc[i] = "record"
  /\ IF be = "nil"
     THEN be' = res[i] /\ bcancel' = TRUE
     ELSE UNCHANGED <<be, bcancel>>
  /\ replyDone' = (replyDone \/ ~failed)
  /\ spc' = [spc EXCEPT ![i] = "done"]
  /\ UNCHANGED <<dvars, clients, cstate, nextId, target, held, res, crashed>>
  /\ UNCHANGED <<bpc, bservers>>

(* Branch i, under mu: the first error is kept and cancels the ctx; the    *)
(* first success is copied into the reply.  Then wg.Done.                  *)
BranchRecord(i) ==
  LET failed == res[i] # "ok"
  IN
  /\ ~crashed
  /\ spc[i] = "record"
  /\ IF failed /\ be = "nil"
     THEN be' = res[i] /\ bcancel' = TRUE
     ELSE UNCHANGED <<be, bcancel>>
  /\ replyDone' = (replyDone \/ ~failed)
  /\ spc' = [spc EXCEPT ![i] = "done"]
  /\ UNCHANGED <<dvars, clients, cstate, nextId, target, held, res, crashed>>
  /\ UNCHANGED <<bpc, bservers>>

(* wg.Wait returning while branches that have not yet begun are not       *)
(* counted, as when wg.Add(1) runs inside the goroutine.                   *)
BroadcastReturnEarly ==
  /\ ~crashed
  /\ bpc = "wait"
  /\ \A i \in DOMAIN bservers : spc[i] \in {"idle", "done"}
  /\ bpc' = "returned" /\ bcancel' = TRUE
  /\ UNCHANGED <<dvars, xvars, bservers, be, replyDone>>

(* wg.Wait returns once every branch is done; cancel(); return e.          *)
BroadcastReturn ==
  /\ ~crashed
  /\ bpc = "wait"
  /\ \A i \in DOMAIN bservers : spc[i] = "done"
  /\ bpc' = "returned" /\ bcancel' = TRUE
  /\ UNCHANGED <<dvars, xvars, bservers, be, replyDone>>

-----------------------------------------------------------------------------
(* The environment and the owner                                           *)

(* A cached Client's connection fails: its receive loop sets shutdown and *)
(* IsAvailable turns false.                                                *)
ClientDies(id) ==
  /\ ~crashed
  /\ CanDie /\ cstate[id] = "live"
  /\ cstate' = [cstate EXCEPT ![id] = "dead"]
  /\ UNCHANGED <<dvars, clients, nextId, spc, target, held, res, crashed, bvars>>

(* XClient.Close under xc.mu: Close every cached Client and delete it.     *)
Close ==
  /\ ~crashed
  /\ CanClose
  /\ cstate' = [i \in ClientIds |->
                  IF \E a \in Addrs : clients[a] = i THEN "closed" ELSE cstate[i]]
  /\ clients' = [a \in Addrs |-> None]
  /\ UNCHANGED <<dvars, nextId, spc, target, held, res, crashed, bvars>>

(* The owner replaces the discovery's server list.                         *)
Update ==
  /\ ~crashed
  /\ CanUpdate
  /\ \E l \in D!ServerLists : D!Update(l)
  /\ UNCHANGED <<xvars, bvars>>

Next ==
  \/ \E c \in Callers : Call(c)
  \/ \E s \in Slots : CallTimeout(s)
  \/ BroadcastStart
  \/ \E i \in BranchSlots : BranchCall(i) \/ BranchRecord(i)
  \/ BroadcastReturn
  \/ \E id \in ClientIds : ClientDies(id)
  \/ Close
  \/ Update

Spec == Init /\ [][Next]_vars

-----------------------------------------------------------------------------

(* Every Client XDial created and nobody closed is still in xc.clients, so *)
(* XClient.Close reaches it: dial closes an unavailable Client before it   *)
(* drops it from the cache (xclient.go:47-51), and Close closes what it    *)
(* deletes.  A Client left out leaks its conn and receive goroutine.       *)
NoClientLeak ==
  \A id \in ClientIds :
    cstate[id] \in {"live", "dead"} => \E a \in Addrs : clients[a] = id


(* What Broadcast returned stays true of its branches: e is nil exactly   *)
(* when every server answered, and then one answer was copied into the     *)
(* caller's reply.  The first error cancels the shared ctx (xclient.go:97) *)
(* so healthy branches may fail late with the ctx error; wg.Wait must not  *)
(* return before they record it, nor may a reply be lost without an error. *)
BroadcastResult ==
  bpc = "returned" =>
    /\ (be = "nil") = (\A i \in DOMAIN bservers : res[i] = "ok")
    /\ be = "nil" /\ bservers # <<>> => replyDone

=============================================================================
