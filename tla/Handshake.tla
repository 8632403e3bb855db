------------------------------ MODULE Handshake ------------------------------
(***************************************************************************)
(* Setting up one geerpc connection: the dialer (client.go DialTimeout,    *)
(* NewClient, NewHTTPClient) and the server side (server.go Accept,        *)
(* ServeHTTP, ServeConn), up to the serve loop reading requests.           *)
(*                                                                         *)
(* The peer is a geerpc client dialing in "tcp" or "http" mode, or a raw  *)
(* peer that writes its own Option.  DialTimeout runs the connect          *)
(* function f in a goroutine that hands its result over the unbuffered     *)
(* channel ch, and races ch against the connect timeout.  After the        *)
(* handshake the serve loop is abstracted to reading request frames.       *)
(***************************************************************************)
EXTENDS Naturals, Sequences

CONSTANTS
  Modes,              \* protocols XDial may be given: "tcp", "http"
  ClientCodecs,       \* codec types a dialer may put in its Option
  ConnectTimeouts,    \* which of opt.ConnectTimeout # 0 (TRUE) and = 0 (FALSE) occur
  DialCanFail,        \* net.DialTimeout may fail
  AcceptCanFail,      \* lis.Accept may return an error
  RawPeer,            \* a peer that is not a geerpc client may connect
  MaxReqs,            \* requests the client writes after the handshake
  None

VARIABLES
  peer, mode, ccodec,  \* who dials, the protocol, the codec it asks for
  timed,               \* opt.ConnectTimeout # 0
  dpc, dres,           \* DialTimeout's goroutine and what it returned
  gpc, gres,           \* the goroutine running f, and f's result
  cliClosed, srvClosed,
  toServer, toClient,
  conn,                \* the connection: "none", "pending" (in the backlog), "accepted"
  spc,                 \* the server's goroutine for the connection
  sopt,                \* the Option the server decoded
  sent, served         \* requests written by the client, read by the server

hvars == <<peer, mode, ccodec, timed, dpc, dres, gpc, gres, cliClosed, srvClosed,
           toServer, toClient, conn, spc, sopt, sent, served>>

(* codec.NewCodecFuncMap: only the gob codec is registered.                *)
CodecFuncMap == {"gob"}

(* The Option as far as the handshake looks at it: its codec type.  The   *)
(* magic number is only logged on a mismatch, so it is left out.          *)
Option == [codec : ClientCodecs \cup CodecFuncMap]
Item == [k : {"connect"}] \cup [k : {"opt"}, opt : Option] \cup [k : {"req"}, n : 1..MaxReqs]

(* The status line is a sequence of words.  ServeHTTP writes "HTTP/1.0"    *)
(* and Connected with no space between, so the version and the status     *)
(* code run together into one word.                                        *)
Connected == <<"200", "Connected", "to", "Gee", "RPC">>
StatusLine == <<"HTTP/1.0" \o Head(Connected)>> \o Tail(Connected)

(* http.ReadResponse: the first word is the protocol version, which must   *)
(* be HTTP/x.y; resp.Status is the rest.  NewHTTPClient then compares it   *)
(* with Connected.                                                         *)
StatusOK(line) ==
  /\ Len(line) > 0
  /\ line[1] \in {"HTTP/1.0", "HTTP/1.1"}
  /\ Tail(line) = Connected

TypeOK ==
  /\ peer \in {"geerpc", "raw"} /\ mode \in Modes /\ ccodec \in ClientCodecs
  /\ dpc \in {"connect", "wait", "returned"}
  /\ dres \in {"none", "ok", "err", "timeout"}
  /\ gpc \in {"none", "start", "status", "newclient", "send", "exit"}
  /\ gres \in {"none", "ok", "codecErr", "writeErr", "statusErr"}
  /\ cliClosed \in BOOLEAN /\ srvClosed \in BOOLEAN
  /\ toServer \in Seq(Item)
  /\ conn \in {"none", "pending", "accepted"}
  /\ spc \in {"idle", "httpreq", "decode", "serve", "closed", "crashed"}
  /\ sopt \in Option \cup {None}
  /\ sent \in 0..MaxReqs /\ served \subseteq 1..MaxReqs

Init ==
  /\ peer \in IF RawPeer THEN {"geerpc", "raw"} ELSE {"geerpc"}
  /\ mode \in IF peer = "raw" THEN {"tcp"} \cap Modes ELSE Modes
  /\ ccodec \in ClientCodecs
  /\ timed \in ConnectTimeouts
  /\ dpc = IF peer = "raw" THEN "returned" ELSE "connect"
  /\ dres = "none" /\ gpc = "none" /\ gres = "none"
  /\ cliClosed = FALSE /\ srvClosed = FALSE
  /\ toServer = <<>> /\ toClient = <<>>
  /\ conn = "none" /\ spc = "idle" /\ sopt = None
  /\ sent = 0 /\ served = {}

-----------------------------------------------------------------------------
(* The dialer                                                              *)

(* DialTimeout: net.DialTimeout; on success the connection waits in the   *)
(* server's backlog and f starts in a goroutine.                           *)
Connect ==
  /\ dpc = "connect"
  /\ \/ /\ conn' = "pending"
        /\ dpc' = "wait" /\ gpc' = "start"
        /\ UNCHANGED dres
     \/ /\ DialCanFail
        /\ dpc' = "returned" /\ dres' = "err"
        /\ UNCHANGED <<conn, gpc>>
  /\ UNCHANGED <<peer, mode, ccodec, timed, gres, cliClosed, srvClosed, toServer,
                 toClient, spc, sopt, sent, served>>

(* NewHTTPClient: write the CONNECT request (the write error is ignored).  *)
HTTPWriteConnect ==
  /\ gpc = "start" /\ mode = "http"
  /\ toServer' = IF cliClosed THEN toServer ELSE Append(toServer, [k |-> "connect"])
  /\ gpc' = "status"
  /\ UNCHANGED <<peer, mode, ccodec, timed, dpc, dres, gres, cliClosed, srvClosed,
                 toClient, conn, spc, sopt, sent, served>>

(* NewHTTPClient: http.ReadResponse, then the status check.  A read on a   *)
(* closed conn, or on one whose server process died, fails.                *)
HTTPReadStatus ==
  /\ gpc = "status"
  /\ \/ /\ ~cliClosed /\ toClient # <<>>
        /\ toClient' = Tail(toClient)
        /\ IF StatusOK(Head(toClient))
           THEN gpc' = "newclient" /\ UNCHANGED gres
           ELSE gpc' = "send" /\ gres' = "statusErr"
     \/ /\ cliClosed \/ spc = "crashed"
        /\ gpc' = "send" /\ gres' = "writeErr"
        /\ UNCHANGED toClient
  /\ UNCHANGED <<peer, mode, ccodec, timed, dpc, dres, cliClosed, srvClosed, toServer,
                 conn, spc, sopt, sent, served>>

(* NewClient: look the codec up, then json-encode the Option onto the      *)
(* conn (closing it on error) and start the receive goroutine.             *)
NewClient ==
  /\ \/ gpc = "newclient"
     \/ gpc = "start" /\ mode = "tcp"
  /\ gpc' = "send"
  /\ IF ccodec \notin CodecFuncMap
     THEN gres' = "codecErr" /\ UNCHANGED <<toServer, cliClosed>>
     ELSE IF cliClosed
     THEN gres' = "writeErr" /\ UNCHANGED <<toServer, cliClosed>>
     ELSE /\ gres' = "ok"
          /\ toServer' = Append(toServer, [k |-> "opt", opt |-> [codec |-> ccodec]])
          /\ UNCHANGED cliClosed
  /\ UNCHANGED <<peer, mode, ccodec, timed, dpc, dres, srvClosed, toClient, conn,
                 spc, sopt, sent, served>>

(* `ch <- clientResult{...}` meets the select's `<-ch`: DialTimeout        *)
(* returns f's result, and its deferred func closes the conn when that     *)
(* result is an error.                                                     *)
HandOver ==
  /\ gpc = "send" /\ dpc = "wait"
  /\ gpc' = "exit" /\ dpc' = "returned"
  /\ dres' = IF gres = "ok" THEN "ok" ELSE "err"
  /\ cliClosed' = (cliClosed \/ gres # "ok")
  /\ UNCHANGED <<peer, mode, ccodec, timed, gres, srvClosed, toServer, toClient,
                 conn, spc, sopt, sent, served>>

(* The select's time.After case: DialTimeout returns the connect-timeout   *)
(* error and its deferred func closes the conn.  The goroutine running f   *)
(* is left to block on ch.                                                 *)
ConnectTimeout ==
  /\ timed
  /\ dpc = "wait"
  /\ dpc' = "returned" /\ dres' = "timeout"
  /\ cliClosed' = TRUE
  /\ UNCHANGED <<peer, mode, ccodec, timed, gpc, gres, srvClosed, toServer, toClient,
                 conn, spc, sopt, sent, served>>

(* The caller of a Client that Dial returned writes its next request.      *)
WriteRequest ==
  /\ dres = "ok" /\ ~cliClosed
  /\ sent < MaxReqs
  /\ sent' = sent + 1
  /\ toServer' = Append(toServer, [k |-> "req", n |-> sent + 1])
  /\ UNCHANGED <<peer, mode, ccodec, timed, dpc, dres, gpc, gres, cliClosed, srvClosed,
                 toClient, conn, spc, sopt, served>>

(* A peer that is not a geerpc client connects and writes an Option of     *)
(* its own followed by a request.                                          *)
RawConnect ==
  /\ peer = "raw" /\ conn = "none"
  /\ conn' = "pending"
  /\ \E o \in Option :
       toServer' = <<[k |-> "opt", opt |-> o], [k |-> "req", n |-> 1]>>
  /\ sent' = 1
  /\ UNCHANGED <<peer, mode, ccodec, timed, dpc, dres, gpc, gres, cliClosed, srvClosed,
                 toClient, spc, sopt, served>>

-----------------------------------------------------------------------------
(* The server                                                              *)

(* Accept's loop takes the connection and runs ServeConn on it; in http    *)
(* mode net/http reads the request and calls ServeHTTP.  An Accept error   *)
(* is only logged and ServeConn(nil) runs: its deferred conn.Close() and   *)
(* the json decoder dereference the nil conn, a panic.                     *)
Accept ==
  /\ spc = "idle"
  /\ \/ /\ conn = "pending"
        /\ conn' = "accepted"
        /\ spc' = IF mode = "http" THEN "httpreq" ELSE "decode"
     \/ /\ AcceptCanFail /\ mode = "tcp"
        /\ spc' = "crashed"
        /\ UNCHANGED conn
  /\ UNCHANGED <<peer, mode, ccodec, timed, dpc, dres, gpc, gres, cliClosed, srvClosed,
                 toServer, toClient, sopt, sent, served>>

(* ServeHTTP that hands the hijacked conn to ServeConn without writing    *)
(* the status line.                                                        *)
ServeHTTPNoStatus ==
  /\ spc = "httpreq"
  /\ toServer # <<>> /\ Head(toServer).k = "connect"
  /\ toServer' = Tail(toServer)
  /\ spc' = "decode"
  /\ UNCHANGED <<peer, mode, ccodec, timed, dpc, dres, gpc, gres, cliClosed, srvClosed,
                 toClient, conn, sopt, sent, served>>

(* ServeHTTP on the CONNECT request: hijack the conn, write the status     *)
(* line, and run ServeConn.                                                *)
ServeHTTP ==
  /\ spc = "httpreq"
  /\ toServer # <<>> /\ Head(toServer).k = "connect"
  /\ toServer' = Tail(toServer)
  /\ toClient' = IF cliClosed THEN toClient ELSE Append(toClient, StatusLine)
  /\ spc' = "decode"
  /\ UNCHANGED <<peer, mode, ccodec, timed, dpc, dres, gpc, gres, cliClosed, srvClosed,
                 conn, sopt, sent, served>>

(* ServeConn: json.NewDecoder(conn).Decode(&opt).  The decoder fills its   *)
(* buffer from the conn, so the frames that arrived behind the Option are  *)
(* read into it too, and the codec built on conn never sees them.  The    *)
(* magic number check only logs; a codec type missing from the map leaves  *)
(* f nil, and f(conn) panics.  A decode error (EOF) returns and the        *)
(* deferred conn.Close runs.                                               *)
ServeConn ==
  /\ spc = "decode"
  /\ \/ /\ toServer # <<>> /\ Head(toServer).k = "opt"
        /\ \E k \in 0..(Len(toServer) - 1) :
             toServer' = SubSeq(toServer, k + 2, Len(toServer))
        /\ sopt' = Head(toServer).opt
        /\ spc' = IF Head(toServer).opt.codec \in CodecFuncMap THEN "serve" ELSE "crashed"
        /\ UNCHANGED srvClosed
     \/ /\ toServer = <<>> /\ cliClosed
        /\ spc' = "closed" /\ srvClosed' = TRUE
        /\ UNCHANGED <<toServer, sopt>>
  /\ UNCHANGED <<peer, mode, ccodec, timed, dpc, dres, gpc, gres, cliClosed, toClient,
                 conn, sent, served>>

(* serveCodec reading the next request frame; at EOF the loop ends and the *)
(* codec is closed.                                                        *)
ServeRequest ==
  /\ spc = "serve"
  /\ \/ /\ toServer # <<>>
        /\ served' = served \cup {Head(toServer).n}
        /\ toServer' = Tail(toServer)
        /\ UNCHANGED <<spc, srvClosed>>
     \/ /\ toServer = <<>> /\ cliClosed
        /\ spc' = "closed" /\ srvClosed' = TRUE
        /\ UNCHANGED <<served, toServer>>
  /\ UNCHANGED <<peer, mode, ccodec, timed, dpc, dres, gpc, gres, cliClosed, toClient,
                 conn, sopt, sent>>

(* The client's owner closes the Client it got.                            *)
ClientClose ==
  /\ dres = "ok" /\ ~cliClosed
  /\ cliClosed' = TRUE
  /\ UNCHANGED <<peer, mode, ccodec, timed, dpc, dres, gpc, gres, srvClosed, toServer,
                 toClient, conn, spc, sopt, sent, served>>

Next ==
  \/ Connect \/ HTTPWriteConnect \/ HTTPReadStatus \/ NewClient
  \/ HandOver \/ ConnectTimeout \/ WriteRequest \/ RawConnect
  \/ Accept \/ ServeHTTP \/ ServeConn \/ ServeRequest \/ ClientClose

(* Every goroutine that can run eventually does, and an armed connect      *)
(* timer eventually fires; the owner's Close is not forced.                *)
Fairness ==
  /\ WF_hvars(Connect) /\ WF_hvars(HTTPWriteConnect) /\ WF_hvars(HTTPReadStatus)
  /\ WF_hvars(NewClient) /\ WF_hvars(HandOver) /\ WF_hvars(ConnectTimeout)
  /\ WF_hvars(Accept) /\ WF_hvars(ServeHTTP) /\ WF_hvars(ServeConn)
  /\ WF_hvars(ServeRequest)

Spec == Init /\ [][Next]_hvars /\ Fairness

-----------------------------------------------------------------------------

(* Every request a client wrote after the handshake is still on the wire,  *)
(* or the serve loop has read it, or the connection is gone (spec 6: the   *)
(* Option, then (Header, Body) pairs, on one stream).                      *)
NoRequestSwallowed ==
  \A n \in 1..sent :
    n \in served \/ (\E i \in DOMAIN toServer : toServer[i] = [k |-> "req", n |-> n])
      \/ spc \in {"closed", "crashed"}

(* Dial and DialHTTP return: with no connect timeout DialTimeout waits on  *)
(* ch alone, so the connect function must always finish, also in http mode *)
(* where it waits for the server's status line.                            *)
DialReturns == peer = "geerpc" => <>(dpc = "returned")

=============================================================================
