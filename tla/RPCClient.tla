------------------------------ MODULE RPCClient ------------------------------
(***************************************************************************)
(* The geerpc client of one connection (client/client.go).                 *)
(*                                                                         *)
(* Each caller c is a goroutine making one CallTimeout: Go allocates a     *)
(* Call with a Done channel of capacity 1, send takes the `sending` mutex, *)
(* registers the Call in `pending` under seq and writes the request; then  *)
(* the caller selects between call.Done and ctx.Done.  The receive         *)
(* goroutine reads response frames, removes the matching Call and         *)
(* completes it; on a read error it runs terminateCalls.  Close may be     *)
(* called by the owner of the Client at any time.                          *)
(*                                                                         *)
(* A Call's Args is the caller itself, so a reply body tells whose request *)
(* it answers.                                                             *)
(***************************************************************************)
EXTENDS Naturals, Sequences, FiniteSets, GobCodec

CONSTANTS
  Callers,          \* goroutines each making one CallTimeout
  DeadlineCallers,  \* those whose ctx has a deadline (Client.Call uses 10s)
  Methods,          \* service methods the callers may name
  ArgKinds,         \* "good", and "bad" for Args the server cannot decode
  CanClose,         \* whether the Client's owner calls Close
  MaxSeq,           \* number of sequence numbers the callers can use
  None

VARIABLES
  seq, pending, closing, shutdown, sending,  \* Client fields
  calls,      \* the Call struct of each caller: seq, method, bad Args, Error, Reply
  doneSent,   \* number of call.done() sends into each caller's Done channel
  doneBuf,    \* number of values buffered in each caller's Done channel (cap 1)
  cpc,        \* program counter of each caller goroutine
  ctxDone,    \* whether each caller's ctx is done
  ret,        \* what CallTimeout returned to each caller ("pending" before)
  recv,       \* the receive goroutine: pc, the frame being read, its Call
  toServer, toClient, cliClosed, srvClosed, broken   \* the connection

Seqs == 1..MaxSeq
ErrKinds == {"nil", "shutdown", "transport", "app", "timeout", "badreq"}
Request == [seq : Seqs, method : Methods, arg : Callers, bad : BOOLEAN]
Response == [seq : Seqs, err : ErrKinds, body : Callers \cup {None}]

clientVars == <<seq, pending, closing, shutdown, sending, calls, doneSent,
                doneBuf, cpc, ctxDone, ret, recv>>
wire == <<toServer, toClient, cliClosed, srvClosed, broken>>

TypeOK ==
  /\ seq \in 1..MaxSeq + 1
  /\ pending \in [Seqs -> Callers \cup {None}]
  /\ closing \in BOOLEAN /\ shutdown \in BOOLEAN
  /\ sending \in Callers \cup {None}
  /\ calls \in [Callers -> [seq : 0..MaxSeq, method : Methods \cup {None},
                            bad : BOOLEAN, err : ErrKinds,
                            reply : Callers \cup {None}]]
  /\ doneSent \in [Callers -> Nat] /\ doneBuf \in [Callers -> 0..1]
  /\ cpc \in [Callers -> {"idle", "write", "select", "returned"}]
  /\ ctxDone \in [Callers -> BOOLEAN]
  /\ ret \in [Callers -> ErrKinds \cup {"pending", "ctx"}]
  /\ recv \in [pc : {"header", "body", "terminate", "exit"},
               frame : Response \cup {None}, call : Callers \cup {None}]
  /\ toServer \in Seq(Request)

Init ==
  /\ seq = 1
  /\ pending = [s \in Seqs |-> None]
  /\ closing = FALSE /\ shutdown = FALSE
  /\ sending = None
  /\ calls = [c \in Callers |-> [seq |-> 0, method |-> None, bad |-> FALSE,
                                 err |-> "nil", reply |-> None]]
  /\ doneSent = [c \in Callers |-> 0] /\ doneBuf = [c \in Callers |-> 0]
  /\ cpc = [c \in Callers |-> "idle"]
  /\ ctxDone = [c \in Callers |-> FALSE]
  /\ ret = [c \in Callers |-> "pending"]
  /\ recv = [pc |-> "header", frame |-> None, call |-> None]

(* Call.done: send the Call on its Done channel; with the buffer full the  *)
(* sender blocks, so the step is not enabled.                              *)
Done(c) ==
  /\ doneBuf[c] < 1
  /\ doneSent' = [doneSent EXCEPT ![c] = @ + 1]
  /\ doneBuf' = [doneBuf EXCEPT ![c] = @ + 1]

(* removeCall: delete the map entry, whoever it belongs to.               *)
RemoveCall(s) ==
  pending' = IF s \in Seqs THEN [pending EXCEPT ![s] = None] ELSE pending

(* registerCall that forgets to advance seq.                               *)
RegisterCallNoIncrement(c, call) ==
  /\ calls' = [calls EXCEPT ![c] = [call EXCEPT !.seq = seq]]
  /\ pending' = [pending EXCEPT ![seq] = c]
  /\ seq' = seq

(* registerCall after its closing/shutdown check: the Call takes the      *)
(* current seq, is stored in pending, and seq advances.                    *)
RegisterCall(c, call) ==
  /\ calls' = [calls EXCEPT ![c] = [call EXCEPT !.seq = seq]]
  /\ pending' = [pending EXCEPT ![seq] = c]
  /\ seq' = seq + 1

(* Go and send up to the write: take `sending`, then registerCall.  On a   *)
(* closing or shut-down client the Call completes with ErrShutdown and the *)
(* lock is released by the defer.                                          *)
Send(c) ==
  /\ cpc[c] = "idle"
  /\ sending = None
  /\ \E m \in Methods, k \in ArgKinds :
       LET call == [calls[c] EXCEPT !.method = m, !.bad = (k = "bad")]
       IN  IF closing \/ shutdown
           THEN /\ calls' = [calls EXCEPT ![c] = [call EXCEPT !.err = "shutdown"]]
                /\ Done(c)
                /\ cpc' = [cpc EXCEPT ![c] = "select"]
                /\ UNCHANGED <<seq, pending, sending>>
           ELSE /\ RegisterCall(c, call)
                /\ sending' = c
                /\ cpc' = [cpc EXCEPT ![c] = "write"]
                /\ UNCHANGED <<doneSent, doneBuf>>
  /\ UNCHANGED <<closing, shutdown, ctxDone, ret, recv>>
  /\ UNCHANGED wire

(* The rest of send: cc.Write of the shared header and Args, then release  *)
(* `sending`.  On a write error the codec has closed the conn, and the     *)
(* Call found under the seq, if any is left there, completes with the      *)
(* error.                                                                  *)
WriteRequest(c) ==
  LET s == calls[c].seq
      f == [seq |-> s, method |-> calls[c].method, arg |-> c, bad |-> calls[c].bad]
      owner == pending[s]
  IN
  /\ cpc[c] = "write"
  /\ \E o \in WriteOutcomes(cliClosed, srvClosed, broken) :
       /\ toServer' = IF o = "ok" THEN Append(toServer, f) ELSE toServer
       /\ cliClosed' = (cliClosed \/ o = "fail")
       /\ IF o = "fail"
          THEN /\ RemoveCall(s)
               /\ IF owner # None
                  THEN /\ calls' = [calls EXCEPT ![owner].err = "transport"]
                       /\ Done(owner)
                  ELSE UNCHANGED <<calls, doneSent, doneBuf>>
          ELSE UNCHANGED <<pending, calls, doneSent, doneBuf>>
  /\ sending' = None
  /\ cpc' = [cpc EXCEPT ![c] = "select"]
  /\ UNCHANGED <<seq, closing, shutdown, ctxDone, ret, recv>>
  /\ UNCHANGED <<toClient, srvClosed, broken>>

(* The ctx of a caller with a deadline expires; the timer runs from the    *)
(* creation of the ctx, before Go, until CallTimeout returns.              *)
CtxExpire(c) ==
  /\ c \in DeadlineCallers
  /\ ~ctxDone[c]
  /\ cpc[c] # "returned"
  /\ ctxDone' = [ctxDone EXCEPT ![c] = TRUE]
  /\ UNCHANGED <<seq, pending, closing, shutdown, sending, calls, doneSent,
                 doneBuf, cpc, ret, recv>>
  /\ UNCHANGED wire

(* CallTimeout's select, the call.Done case: return call.Error.            *)
ReturnDone(c) ==
  /\ cpc[c] = "select"
  /\ doneBuf[c] = 1
  /\ doneBuf' = [doneBuf EXCEPT ![c] = 0]
  /\ ret' = [ret EXCEPT ![c] = calls[c].err]
  /\ cpc' = [cpc EXCEPT ![c] = "returned"]
  /\ UNCHANGED <<seq, pending, closing, shutdown, sending, calls, doneSent,
                 ctxDone, recv>>
  /\ UNCHANGED wire

(* CallTimeout's select, the ctx.Done case: removeCall(call.Seq) and       *)
(* return the context error.                                               *)
ReturnCtx(c) ==
  /\ cpc[c] = "select"
  /\ ctxDone[c]
  /\ RemoveCall(calls[c].seq)
  /\ ret' = [ret EXCEPT ![c] = "ctx"]
  /\ cpc' = [cpc EXCEPT ![c] = "returned"]
  /\ UNCHANGED <<seq, closing, shutdown, sending, calls, doneSent, doneBuf,
                 ctxDone, recv>>
  /\ UNCHANGED wire

(* Client.Close: the first call sets closing and closes the codec; later   *)
(* calls return ErrShutdown and change nothing.                            *)
Close ==
  /\ CanClose
  /\ ~closing
  /\ closing' = TRUE
  /\ cliClosed' = TRUE
  /\ UNCHANGED <<seq, pending, shutdown, sending, calls, doneSent, doneBuf,
                 cpc, ctxDone, ret, recv>>
  /\ UNCHANGED <<toServer, toClient, srvClosed, broken>>

(* receive reading the header and looking the Call up without deleting   *)
(* it from pending.                                                        *)
RecvHeaderNoRemove ==
  LET o == ReadOutcome(cliClosed, srvClosed, broken, toClient)
      f == Head(toClient)
  IN
  /\ recv.pc = "header"
  /\ o # "block"
  /\ IF o = "fail"
     THEN /\ recv' = [recv EXCEPT !.pc = "terminate"]
          /\ UNCHANGED toClient
     ELSE /\ recv' = [pc |-> "body", frame |-> f, call |-> pending[f.seq]]
          /\ toClient' = Tail(toClient)
  /\ UNCHANGED <<pending, seq, closing, shutdown, sending, calls, doneSent, doneBuf,
                 cpc, ctxDone, ret>>
  /\ UNCHANGED <<toServer, cliClosed, srvClosed, broken>>

(* receive: ReadHeader, then removeCall(h.Seq).  A read error ends the     *)
(* loop.                                                                   *)
RecvHeader ==
  LET o == ReadOutcome(cliClosed, srvClosed, broken, toClient)
      f == Head(toClient)
  IN
  /\ recv.pc = "header"
  /\ o # "block"
  /\ IF o = "fail"
     THEN /\ recv' = [recv EXCEPT !.pc = "terminate"]
          /\ UNCHANGED <<pending, toClient>>
     ELSE /\ recv' = [pc |-> "body", frame |-> f, call |-> pending[f.seq]]
          /\ RemoveCall(f.seq)
          /\ toClient' = Tail(toClient)
  /\ UNCHANGED <<seq, closing, shutdown, sending, calls, doneSent, doneBuf,
                 cpc, ctxDone, ret>>
  /\ UNCHANGED <<toServer, cliClosed, srvClosed, broken>>

(* receive, the switch on the Call: no Call - ReadBody(nil) discards the   *)
(* body; h.Error set - the Call takes the error; otherwise ReadBody        *)
(* decodes the body into call.Reply.  The Call is then completed.          *)
RecvBody ==
  LET f == recv.frame
      c == recv.call
  IN
  /\ recv.pc = "body"
  /\ IF c = None
     THEN UNCHANGED <<calls, doneSent, doneBuf>>
     ELSE /\ calls' = IF f.err # "nil"
                      THEN [calls EXCEPT ![c].err = f.err]
                      ELSE [calls EXCEPT ![c].reply = f.body]
          /\ Done(c)
  /\ recv' = [pc |-> "header", frame |-> None, call |-> None]
  /\ UNCHANGED <<seq, pending, closing, shutdown, sending, cpc, ctxDone, ret>>
  /\ UNCHANGED wire

PendingCalls == {pending[s] : s \in Seqs} \ {None}

(* terminateCalls that sets shutdown but forgets to complete the Calls.   *)
TerminateCallsNoDone ==
  /\ recv.pc = "terminate"
  /\ sending = None
  /\ shutdown' = TRUE
  /\ recv' = [recv EXCEPT !.pc = "exit"]
  /\ UNCHANGED <<calls, doneSent, doneBuf>>
  /\ UNCHANGED <<seq, pending, closing, sending, cpc, ctxDone, ret>>
  /\ UNCHANGED wire

(* terminateCalls that completes every Call the client ever registered,   *)
(* including those already removed and completed.                          *)
TerminateCallsAll ==
  LET held == {c \in Callers : calls[c].seq # 0}
  IN
  /\ recv.pc = "terminate"
  /\ sending = None
  /\ shutdown' = TRUE
  /\ calls' = [c \in Callers |-> IF c \in held
                                 THEN [calls[c] EXCEPT !.err = "transport"]
                                 ELSE calls[c]]
  /\ doneSent' = [c \in Callers |-> doneSent[c] + (IF c \in held THEN 1 ELSE 0)]
  /\ doneBuf' = [c \in Callers |-> doneBuf[c] + (IF c \in held THEN 1 ELSE 0)]
  /\ recv' = [recv EXCEPT !.pc = "exit"]
  /\ UNCHANGED <<seq, pending, closing, sending, cpc, ctxDone, ret>>
  /\ UNCHANGED wire

(* terminateCalls that sets the error on every Call the client ever       *)
(* registered, though it completes only those still pending.               *)
TerminateCallsMarkAll ==
  LET held == {c \in Callers : calls[c].seq # 0}
  IN
  /\ recv.pc = "terminate"
  /\ sending = None
  /\ \A c \in PendingCalls : doneBuf[c] = 0
  /\ shutdown' = TRUE
  /\ calls' = [c \in Callers |-> IF c \in held
                                 THEN [calls[c] EXCEPT !.err = "transport"]
                                 ELSE calls[c]]
  /\ doneSent' = [c \in Callers |-> doneSent[c] + (IF c \in PendingCalls THEN 1 ELSE 0)]
  /\ doneBuf' = [c \in Callers |-> doneBuf[c] + (IF c \in PendingCalls THEN 1 ELSE 0)]
  /\ recv' = [recv EXCEPT !.pc = "exit"]
  /\ UNCHANGED <<seq, pending, closing, sending, cpc, ctxDone, ret>>
  /\ UNCHANGED wire

(* terminateCalls: under `sending` and mu, set shutdown and complete every *)
(* Call still in pending with the read error.  The entries stay in the     *)
(* map.  Each done() blocks while its channel is full.                     *)
TerminateCalls ==
  /\ recv.pc = "terminate"
  /\ sending = None
  /\ \A c \in PendingCalls : doneBuf[c] = 0
  /\ shutdown' = TRUE
  /\ calls' = [c \in Callers |-> IF c \in PendingCalls
                                 THEN [calls[c] EXCEPT !.err = "transport"]
                                 ELSE calls[c]]
  /\ doneSent' = [c \in Callers |-> doneSent[c] + (IF c \in PendingCalls THEN 1 ELSE 0)]
  /\ doneBuf' = [c \in Callers |-> doneBuf[c] + (IF c \in PendingCalls THEN 1 ELSE 0)]
  /\ recv' = [recv EXCEPT !.pc = "exit"]
  /\ UNCHANGED <<seq, pending, closing, sending, cpc, ctxDone, ret>>
  /\ UNCHANGED wire

CallerStep(c) ==
  \/ Send(c) \/ WriteRequest(c) \/ CtxExpire(c) \/ ReturnDone(c) \/ ReturnCtx(c)

ClientNext ==
  \/ \E c \in Callers : CallerStep(c)
  \/ Close \/ RecvHeader \/ RecvBody \/ TerminateCalls

=============================================================================
