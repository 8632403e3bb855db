------------------------------ MODULE Service ------------------------------
(***************************************************************************)
(* Service registration and lookup (service/service.go NewService and     *)
(* registerMethods; server/server.go Register and findService), as pure    *)
(* operators over the server's service map.                                *)
(*                                                                         *)
(* Reflection is abstracted to what registration reads of a type: a        *)
(* receiver is [type, ptr], registered by pointer or by value; a type is   *)
(* [name, exported, methods]; a method is [name, ptrRecv, numIn, numOut,   *)
(* outError, arg, reply], with numIn counting the receiver, and arg and    *)
(* reply types [exported, builtin] (builtin: an empty PkgPath).  A         *)
(* "Service.Method" string is the sequence of its "."-separated segments.  *)
(***************************************************************************)
EXTENDS Naturals, Sequences, SequencesExt

(* isExportedOrBuiltinType                                                 *)
IsExportedOrBuiltinType(t) == t.exported \/ t.builtin

(* s.Typ.Method(i) for i < s.Typ.NumMethod(): a pointer type has every     *)
(* method, a value type only those with a value receiver.                  *)
MethodSet(rcvr) == {m \in rcvr.type.methods : rcvr.ptr \/ ~m.ptrRecv}

(* registerMethods: keep the methods of shape                              *)
(* func (t T) Name(Arg, *Reply) error whose Arg and Reply are exported or  *)
(* builtin; s.Method maps each name to its MethodType.                     *)
RegisterMethods(rcvr) ==
  LET ok == {m \in MethodSet(rcvr) :
               /\ m.numIn = 3 /\ m.numOut = 1 /\ m.outError
               /\ IsExportedOrBuiltinType(m.arg) /\ IsExportedOrBuiltinType(m.reply)}
  IN  [n \in {m.name : m \in ok} |-> CHOOSE m \in ok : m.name = n]

(* NewService: the name is that of the type pointed to; an unexported (or *)
(* empty) name is log.Fatalf, which ends the process.                      *)
NewService(rcvr) ==
  [name |-> rcvr.type.name, method |-> RegisterMethods(rcvr),
   fatal |-> ~rcvr.type.exported]

(* Server.Register: serviceMap.LoadOrStore keeps the first service of a   *)
(* name and reports the duplicate.  A fatal NewService ends the program,  *)
(* and so the registration sequence.                                       *)
Register(st, rcvr) ==
  LET svc == NewService(rcvr) IN
  CASE st.fatal -> st
    [] svc.fatal -> [st EXCEPT !.fatal = TRUE]
    [] svc.name \in DOMAIN st.map -> [st EXCEPT !.errs = st.errs + 1]
    [] OTHER -> [st EXCEPT !.map = st.map @@ (svc.name :> svc)]

(* The server's state after the program registers rcvrs in order.          *)
RegisterAll(rcvrs) ==
  FoldLeft(Register, [map |-> <<>>, errs |-> 0, fatal |-> FALSE], rcvrs)

(* findService: split at the last "."; look the service up in the map,    *)
(* then the method in the service.  A service name with a "." in it is no *)
(* Go type name, so it is never in the map.                                *)
FindService(smap, sm) ==
  LET svcName == Front(sm)
      found == Len(svcName) = 1 /\ svcName[1] \in DOMAIN smap
  IN  CASE Len(sm) < 2 -> "ill-formed"
        [] ~found -> "no service"
        [] Last(sm) \notin DOMAIN smap[svcName[1]].method -> "no method"
        [] OTHER -> "nil"

=============================================================================
