------------------------------ MODULE MCGeeRPC ------------------------------
(* Model-checking instance of GeeRPC: two callers on one connection.       *)
EXTENDS GeeRPC

CONSTANTS c1, c2

Svc == INSTANCE Service

MCCallers == {c1, c2}

(* The test's Foo (geerpc_test.go): Sum(args Args, reply *int) error on a  *)
(* value receiver, beside a Fail of the same shape whose error is not nil *)
(* and a Helper that takes no reply argument, which registerMethods skips.*)
ArgsType == [exported |-> TRUE, builtin |-> FALSE]
IntPtr == [exported |-> FALSE, builtin |-> TRUE]
RPCMethod(n) == [name |-> n, ptrRecv |-> FALSE, numIn |-> 3, numOut |-> 1,
                 outError |-> TRUE, arg |-> ArgsType, reply |-> IntPtr]
FooType == [name |-> "Foo", exported |-> TRUE,
            methods |-> {RPCMethod("Sum"), RPCMethod("Fail"),
                         [RPCMethod("Helper") EXCEPT !.numIn = 2]}]

(* server.Register(&foo), as startRpcServer does.                          *)
MCServer == Svc!RegisterAll(<< [type |-> FooType, ptr |-> TRUE] >>)

MCMethods == {<<"Foo", "Sum">>, <<"Foo", "Fail">>}
(* A call of Foo.Helper, which Foo has but registerMethods skipped.        *)
MCMethodsUnresolved == MCMethods \cup {<<"Foo", "Helper">>}
MCMethodsSum == {<<"Foo", "Sum">>}
(* The names findService resolves after the registration, written out so *)
(* that TLC does not recompute them in every state; the ASSUME checks the  *)
(* list against Service.                                                   *)
MCRegistered == {<<"Foo", "Sum">>, <<"Foo", "Fail">>}
ASSUME MCRegistered = {sm \in MCMethodsUnresolved : Svc!FindService(MCServer.map, sm) = "nil"}
MCFailing == {<<"Foo", "Fail">>}
=============================================================================
