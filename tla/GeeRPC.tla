------------------------------- MODULE GeeRPC -------------------------------
(***************************************************************************)
(* One geerpc connection: the client of client/client.go and the server    *)
(* side of server/server.go over a TCP stream that may be reset.          *)
(* The handshake (Option) has completed; both ends use the gob codec.      *)
(***************************************************************************)
EXTENDS Naturals, Sequences, FiniteSets

CONSTANTS
  Callers, DeadlineCallers, Methods, ArgKinds, CanClose,
  Registered, Failing, HandleTimeout,
  CanReset,   \* whether the network may reset the connection
  None

VARIABLES
  seq, pending, closing, shutdown, sending, calls, doneSent, doneBuf,
  cpc, ctxDone, ret, recv,
  spc, nreq, req, hpc, gpc, desync, responses,
  toServer, toClient, cliClosed, srvClosed, broken

MaxSeq == Cardinality(Callers)

C == INSTANCE RPCClient
S == INSTANCE RPCServer

clientVars == <<seq, pending, closing, shutdown, sending, calls, doneSent,
                doneBuf, cpc, ctxDone, ret, recv>>
serverVars == <<spc, nreq, req, hpc, gpc, desync, responses>>
wire == <<toServer, toClient, cliClosed, srvClosed, broken>>
vars == <<clientVars, serverVars, wire>>

Init ==
  /\ C!Init
  /\ S!Init
  /\ toServer = <<>> /\ toClient = <<>>
  /\ cliClosed = FALSE /\ srvClosed = FALSE /\ broken = FALSE

(* A step of a client goroutine, or of a server goroutine.                 *)
Cl(A) == A /\ UNCHANGED serverVars
Sv(A) == A /\ UNCHANGED clientVars

(* The network resets the connection: both ends' reads and writes fail    *)
(* from now on and the bytes in flight are gone.                           *)
NetworkReset ==
  /\ CanReset
  /\ ~broken
  /\ broken' = TRUE
  /\ toServer' = <<>> /\ toClient' = <<>>
  /\ UNCHANGED <<cliClosed, srvClosed>>
  /\ UNCHANGED <<clientVars, serverVars>>

Next ==
  \/ Cl(C!ClientNext)
  \/ Sv(S!ServerNext)
  \/ NetworkReset

(* Every goroutine that can run is eventually scheduled, and a ctx         *)
(* deadline or a handle timeout that is armed eventually expires.  The     *)
(* owner's Close and the network reset are not forced.                     *)
Fairness ==
  /\ \A c \in Callers :
       /\ WF_vars(Cl(C!Send(c))) /\ WF_vars(Cl(C!WriteRequest(c)))
       /\ WF_vars(Cl(C!CtxExpire(c)))
       /\ WF_vars(Cl(C!ReturnDone(c) \/ C!ReturnCtx(c)))
  /\ WF_vars(Cl(C!RecvHeader)) /\ WF_vars(Cl(C!RecvBody))
  /\ WF_vars(Cl(C!TerminateCalls))
  /\ WF_vars(Sv(S!ReadRequest)) /\ WF_vars(Sv(S!ServerClose))
  /\ \A k \in S!Reqs : WF_vars(Sv(S!HandlerStep(k)))

Spec == Init /\ [][Next]_vars /\ Fairness

-----------------------------------------------------------------------------

TypeOK ==
  /\ C!TypeOK
  /\ S!TypeOK
  /\ toServer \in Seq(C!Request) /\ toClient \in Seq(C!Response)
  /\ responses \in Seq([req : S!Reqs, frame : C!Response])
  /\ cliClosed \in BOOLEAN /\ srvClosed \in BOOLEAN /\ broken \in BOOLEAN

(* A Call's completion is delivered at most once: neither the receive     *)
(* loop, a failed write, nor terminateCalls completes a Call that another  *)
(* of them has completed (spec section 3, "delivered exactly once").       *)
DoneAtMostOnce == \A c \in Callers : doneSent[c] <= 1

Range(f) == {f[i] : i \in DOMAIN f}

(* What CallTimeout returns from a server answer is what the server sent   *)
(* for that caller's request: a nil error only with a response for its own *)
(* sequence number and its reply holding that response's body, its own     *)
(* Args echoed; a remote error only when the server sent that error for    *)
(* its sequence number (sequence numbers correlate calls, client.go).      *)
ReturnMatchesResponse ==
  \A c \in Callers :
    ret[c] \in {"nil", "app", "timeout", "badreq"} =>
      /\ \E r \in Range(responses) :
           r.frame.seq = calls[c].seq /\ r.frame.err = ret[c]
      /\ ret[c] = "nil" => calls[c].reply = c

(* The server sends at most one response per request: once the handle      *)
(* timeout has answered, the method's own result is never written (spec    *)
(* 4.3), and a request answered with a decode error is not also run.       *)
AtMostOneResponse ==
  \A i, j \in DOMAIN responses :
    i # j => responses[i].req # responses[j].req

(* Every CallTimeout returns: by the response, by its ctx deadline, or by  *)
(* terminateCalls when the connection fails or is closed.                  *)
AllCallsReturn == \A c \in Callers : <>(cpc[c] = "returned")

(* Once the client has closed its end, the server's serveCodec loop ends   *)
(* and it closes the codec, or the process has died.                       *)
ServerEventuallyCloses == cliClosed ~> spc \in {"closed", "crashed"}

(* The Client implements CallFuture: a caller is idle until Go, waiting    *)
(* until CallTimeout returns; its slot is filled by the first call.done()  *)
(* with the Call's Error and Reply as they are then; it got what           *)
(* CallTimeout returned.                                                   *)
CallValue(c) == [err |-> calls[c].err, reply |-> calls[c].reply]

F == INSTANCE CallFuture WITH
       Deadline <- DeadlineCallers,
       Values <- [err : C!ErrKinds, reply : Callers \cup {None}],
       CtxError <- [err |-> "ctx", reply |-> None],
       st <- [c \in Callers |-> CASE cpc[c] = "idle" -> "idle"
                                 [] cpc[c] = "returned" -> "returned"
                                 [] OTHER -> "waiting"],
       slot <- [c \in Callers |-> IF doneSent[c] = 0 THEN None ELSE CallValue(c)],
       got <- [c \in Callers |-> CASE ret[c] = "pending" -> None
                                  [] ret[c] = "ctx" -> [err |-> "ctx", reply |-> None]
                                  [] OTHER -> [err |-> ret[c], reply |-> calls[c].reply]]

(* Every behaviour of the client is one of CallFuture: a Call's result is  *)
(* set once, by whichever of the receive loop, a failed write or           *)
(* terminateCalls completes it first, and never changed afterwards; the    *)
(* caller returns either that result or its ctx error.                     *)
CallFutureRefined == F!Spec

-----------------------------------------------------------------------------
(* Properties the spec states and the code does not keep; each is checked  *)
(* by a run that expects a violation.                                      *)

(* Once CallTimeout has returned, nothing more is written into the         *)
(* caller's reply (spec section 5: the call is removed from the pending    *)
(* table and "no further action occurs if the response does arrive         *)
(* afterward").                                                            *)
NoReplyWriteAfterReturn ==
  [][\A c \in Callers : ret[c] # "pending" => calls'[c].reply = calls[c].reply]_vars

(* The server closes the codec only after every dispatched call has       *)
(* finished (spec 4.3: "the server always waits for all in-flight          *)
(* dispatches to finish before closing the codec").                        *)
ClosedAfterDispatches ==
  spc = "closed" => \A k \in S!Reqs : gpc[k] \in {"none", "exit"}

=============================================================================
