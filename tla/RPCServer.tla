------------------------------ MODULE RPCServer ------------------------------
(***************************************************************************)
(* The geerpc server side of one connection (server/server.go,            *)
(* serveCodec and below).                                                  *)
(*                                                                         *)
(* The serveCodec goroutine reads request frames; each request it parses   *)
(* is handed to a handleRequest goroutine, which starts a goroutine that   *)
(* calls the method and then sends the response.  The two talk over the   *)
(* unbuffered channels `called` and `sent`; the handler races `called`     *)
(* against the handle timeout.  Responses are written under the           *)
(* connection's `sending` mutex, one whole frame at a time.                *)
(*                                                                         *)
(* Requests are numbered in the order serveCodec reads them; k is the      *)
(* k-th request of the connection.                                         *)
(***************************************************************************)
EXTENDS Naturals, Sequences, GobCodec

CONSTANTS
  Registered,     \* "Service.Method" names findService resolves (module Service)
  Failing,        \* registered methods whose call returns a non-nil error
  HandleTimeout,  \* TRUE when the effective handle timeout is not 0
  MaxSeq,         \* number of requests the connection can carry
  None

VARIABLES
  spc,        \* serveCodec: "read", "wait" (wg.Wait), "closed", "crashed"
  nreq,       \* number of requests handed to handlers or answered in the loop
  req,        \* the k-th request frame
  hpc,        \* program counter of the k-th handleRequest goroutine
  gpc,        \* program counter of the k-th method-calling goroutine
  desync,     \* a header was read whose body was left on the stream
  responses,  \* history: each sendResponse call, with the request it answers
  toServer, toClient, cliClosed, srvClosed, broken

Reqs == 1..MaxSeq

serverVars == <<spc, nreq, req, hpc, gpc, desync, responses>>
wire == <<toServer, toClient, cliClosed, srvClosed, broken>>

TypeOK ==
  /\ spc \in {"read", "wait", "closed", "crashed"}
  /\ nreq \in 0..MaxSeq
  /\ hpc \in [Reqs -> {"none", "select", "waitSent", "exit"}]
  /\ gpc \in [Reqs -> {"none", "run", "called", "respond", "sent", "exit"}]
  /\ desync \in BOOLEAN

Init ==
  /\ spc = "read"
  /\ nreq = 0
  /\ req = [k \in Reqs |-> None]
  /\ hpc = [k \in Reqs |-> "none"]
  /\ gpc = [k \in Reqs |-> "none"]
  /\ desync = FALSE
  /\ responses = <<>>

(* A server goroutine runs only while the process is alive.                *)
Alive == spc # "crashed"

(* sendResponse: cc.Write of header and body under `sending`; an error is  *)
(* only logged, but GobCodec.Write has closed the conn.                    *)
SendResponse(k, r) ==
  /\ \E o \in WriteOutcomes(srvClosed, cliClosed, broken) :
       /\ toClient' = IF o = "ok" THEN Append(toClient, r) ELSE toClient
       /\ srvClosed' = (srvClosed \/ o = "fail")
  /\ responses' = Append(responses, [req |-> k, frame |-> r])

(* serveCodec's loop body without the `continue` after the error response: *)
(* a request whose body failed to decode is also dispatched.               *)
ReadRequestNoContinue ==
  LET o == IF desync THEN "fail" ELSE ReadOutcome(srvClosed, cliClosed, broken, toServer)
      f == Head(toServer)
      k == nreq + 1
  IN
  /\ Alive /\ spc = "read"
  /\ o # "block"
  /\ IF o = "fail"
     THEN /\ spc' = "wait"
          /\ UNCHANGED <<nreq, req, hpc, gpc, desync, responses, toServer, toClient, srvClosed>>
     ELSE /\ toServer' = Tail(toServer)
          /\ nreq' = k
          /\ req' = [req EXCEPT ![k] = f]
          /\ desync' = (f.method \notin Registered)
          /\ IF f.method \in Registered /\ f.bad
             THEN SendResponse(k, [seq |-> f.seq, err |-> "badreq", body |-> None])
             ELSE UNCHANGED <<responses, toClient, srvClosed>>
          /\ hpc' = [hpc EXCEPT ![k] = "select"]
          /\ gpc' = [gpc EXCEPT ![k] = "run"]
          /\ UNCHANGED spc
  /\ UNCHANGED <<cliClosed, broken>>

(* One pass of serveCodec's loop: readRequest, then dispatch or answer.    *)
(* A header read error ends the loop.  readRequest returns (req, nil) when *)
(* findService fails, so an unresolved request is dispatched with a nil    *)
(* service and its body is left unread.  A body decode error is answered   *)
(* at once with an error response and the loop continues.                  *)
ReadRequest ==
  LET o == IF desync THEN "fail" ELSE ReadOutcome(srvClosed, cliClosed, broken, toServer)
      f == Head(toServer)
      k == nreq + 1
  IN
  /\ Alive /\ spc = "read"
  /\ o # "block"
  /\ IF o = "fail"
     THEN /\ spc' = "wait"
          /\ UNCHANGED <<nreq, req, hpc, gpc, desync, responses, toServer, toClient, srvClosed>>
     ELSE /\ toServer' = Tail(toServer)
          /\ nreq' = k
          /\ req' = [req EXCEPT ![k] = f]
          /\ desync' = (f.method \notin Registered)
          /\ IF f.method \in Registered /\ f.bad
             THEN /\ SendResponse(k, [seq |-> f.seq, err |-> "badreq", body |-> None])
                  /\ UNCHANGED <<hpc, gpc>>
             ELSE /\ hpc' = [hpc EXCEPT ![k] = "select"]
                  /\ gpc' = [gpc EXCEPT ![k] = "run"]
                  /\ UNCHANGED <<responses, toClient, srvClosed>>
          /\ UNCHANGED spc
  /\ UNCHANGED <<cliClosed, broken>>

(* The method goroutine: svc.Call(mType, argv, replyv).  With a nil        *)
(* service (an unresolved method) Service.Call dereferences nil and the    *)
(* panic ends the process, whose sockets the kernel then closes.           *)
MethodCall(k) ==
  /\ Alive
  /\ gpc[k] = "run"
  /\ IF req[k].method \in Registered
     THEN /\ gpc' = [gpc EXCEPT ![k] = "called"]
          /\ UNCHANGED <<spc, srvClosed>>
     ELSE /\ spc' = "crashed"
          /\ srvClosed' = TRUE
          /\ UNCHANGED gpc
  /\ UNCHANGED <<nreq, req, hpc, desync, responses>>
  /\ UNCHANGED <<toServer, toClient, cliClosed, broken>>

(* `called <- struct{}{}` meets the handler's `<-called` (in its select,   *)
(* or its plain receive when no timeout applies).                          *)
CalledHandoff(k) ==
  /\ Alive
  /\ gpc[k] = "called" /\ hpc[k] = "select"
  /\ gpc' = [gpc EXCEPT ![k] = "respond"]
  /\ hpc' = [hpc EXCEPT ![k] = "waitSent"]
  /\ UNCHANGED <<spc, nreq, req, desync, responses>>
  /\ UNCHANGED wire

(* The method goroutine sends the response: the method's error in h.Error  *)
(* with an empty body, or replyv.                                          *)
Respond(k) ==
  LET f == req[k]
      failed == f.method \in Failing
  IN
  /\ Alive
  /\ gpc[k] = "respond"
  /\ SendResponse(k, [seq |-> f.seq, err |-> IF failed THEN "app" ELSE "nil",
                   body |-> IF failed THEN None ELSE f.arg])
  /\ gpc' = [gpc EXCEPT ![k] = "sent"]
  /\ UNCHANGED <<spc, nreq, req, hpc, desync>>
  /\ UNCHANGED <<toServer, cliClosed, broken>>

(* `sent <- struct{}{}` meets the handler's `<-sent`; both goroutines end  *)
(* and the handler's deferred wg.Done runs.                                *)
SentHandoff(k) ==
  /\ Alive
  /\ gpc[k] = "sent" /\ hpc[k] = "waitSent"
  /\ gpc' = [gpc EXCEPT ![k] = "exit"]
  /\ hpc' = [hpc EXCEPT ![k] = "exit"]
  /\ UNCHANGED <<spc, nreq, req, desync, responses>>
  /\ UNCHANGED wire

(* The select's time.After case: the handler answers with the handle       *)
(* timeout error and returns (wg.Done).  The method goroutine is left      *)
(* behind, blocked forever on the unbuffered `called` once it returns.     *)
HandleTimeoutFires(k) ==
  /\ Alive
  /\ HandleTimeout
  /\ hpc[k] = "select"
  /\ SendResponse(k, [seq |-> req[k].seq, err |-> "timeout", body |-> None])
  /\ hpc' = [hpc EXCEPT ![k] = "exit"]
  /\ UNCHANGED <<spc, nreq, req, gpc, desync>>
  /\ UNCHANGED <<toServer, cliClosed, broken>>

(* wg.Done moved into the method goroutine: wg.Wait also waits for the    *)
(* goroutines that call the methods.                                       *)
ServerCloseWaitsAll ==
  /\ spc = "wait"
  /\ \A k \in Reqs : hpc[k] \in {"none", "exit"} /\ gpc[k] \in {"none", "exit"}
  /\ spc' = "closed"
  /\ srvClosed' = TRUE
  /\ UNCHANGED <<nreq, req, hpc, gpc, desync, responses>>
  /\ UNCHANGED <<toServer, toClient, cliClosed, broken>>

(* After the loop: wg.Wait for every handler, then cc.Close (and the       *)
(* deferred conn.Close of ServeConn).                                      *)
ServerClose ==
  /\ spc = "wait"
  /\ \A k \in Reqs : hpc[k] \in {"none", "exit"}
  /\ spc' = "closed"
  /\ srvClosed' = TRUE
  /\ UNCHANGED <<nreq, req, hpc, gpc, desync, responses>>
  /\ UNCHANGED <<toServer, toClient, cliClosed, broken>>

HandlerStep(k) ==
  \/ MethodCall(k) \/ CalledHandoff(k) \/ Respond(k) \/ SentHandoff(k)
  \/ HandleTimeoutFires(k)

ServerNext ==
  \/ ReadRequest \/ ServerClose
  \/ \E k \in Reqs : HandlerStep(k)

=============================================================================
