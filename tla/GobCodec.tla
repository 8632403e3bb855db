------------------------------ MODULE GobCodec ------------------------------
(***************************************************************************)
(* The outcome of a codec read or write on one end of a geerpc connection *)
(* (codec/gob.go).  A frame is one header plus its body: GobCodec.Write    *)
(* encodes both into a bufio.Writer and flushes them together, and both    *)
(* ends write under a mutex, so frames never interleave on the stream.     *)
(*                                                                         *)
(* `mine` is TRUE when this end's conn has been closed (by Client.Close,   *)
(* by cc.Close on the server, or by Write closing the codec after an       *)
(* error), `peer` when the other end's conn is closed, `reset` when the    *)
(* network has reset the connection.                                       *)
(***************************************************************************)
EXTENDS Sequences

(* GobCodec.Write: an encode/flush on a closed or reset conn fails, and    *)
(* the deferred handler then closes the codec.  A write to a conn whose    *)
(* peer has closed may still be accepted by the kernel and vanish ("lost") *)
(* or fail.                                                                *)
WriteOutcomes(mine, peer, reset) ==
  IF mine \/ reset THEN {"fail"}
  ELSE IF peer THEN {"lost", "fail"}
  ELSE {"ok"}

(* GobCodec.ReadHeader / dec.Decode: reading a closed or reset conn fails *)
(* at once; otherwise a buffered frame is read; with nothing buffered the  *)
(* read fails with EOF once the peer has closed, and blocks before that.   *)
ReadOutcome(mine, peer, reset, q) ==
  IF mine \/ reset THEN "fail"
  ELSE IF q # <<>> THEN "frame"
  ELSE IF peer THEN "fail"
  ELSE "block"

=============================================================================
