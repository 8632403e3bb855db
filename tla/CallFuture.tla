------------------------------ MODULE CallFuture ------------------------------
(***************************************************************************)
(* What a geerpc Call promises its caller, as a one-shot result slot per   *)
(* caller (the future of spec section 10): the caller issues the call,     *)
(* some party fills the slot once, and the caller either takes the value   *)
(* or, when its ctx has a deadline, gives up.  A slot is written at most   *)
(* once; what the caller takes is what the slot holds.                    *)
(***************************************************************************)
CONSTANTS
  Callers,    \* the callers, one call each
  Deadline,   \* the callers whose ctx can expire
  Values,     \* what can be put in a slot
  CtxError,   \* what a caller that gives up gets, not in Values
  None

VARIABLES
  st,    \* "idle", "waiting", "returned"
  slot,  \* the result slot: None until filled
  got    \* what the caller got: None before it returns

fvars == <<st, slot, got>>

Init ==
  /\ st = [c \in Callers |-> "idle"]
  /\ slot = [c \in Callers |-> None]
  /\ got = [c \in Callers |-> None]

(* The caller issues the call; the slot may be filled at once, when the    *)
(* call is refused before it is sent.                                      *)
Issue(c) ==
  /\ st[c] = "idle"
  /\ st' = [st EXCEPT ![c] = "waiting"]
  /\ \/ UNCHANGED slot
     \/ \E v \in Values : slot' = [slot EXCEPT ![c] = v]
  /\ UNCHANGED got

(* The empty slots of some issued calls are filled, each once; one party  *)
(* may fill several at a time.                                             *)
Fill ==
  /\ slot' \in [Callers -> Values \cup {None}]
  /\ slot' # slot
  /\ \A c \in Callers : slot'[c] # slot[c] => st[c] # "idle" /\ slot[c] = None
  /\ UNCHANGED <<st, got>>

(* The caller takes the value in the slot.                                 *)
Take(c) ==
  /\ st[c] = "waiting"
  /\ slot[c] # None
  /\ st' = [st EXCEPT ![c] = "returned"]
  /\ got' = [got EXCEPT ![c] = slot[c]]
  /\ UNCHANGED slot

(* A caller with a deadline gives up waiting.                              *)
GiveUp(c) ==
  /\ c \in Deadline
  /\ st[c] = "waiting"
  /\ st' = [st EXCEPT ![c] = "returned"]
  /\ got' = [got EXCEPT ![c] = CtxError]
  /\ UNCHANGED slot

Next == Fill \/ \E c \in Callers : Issue(c) \/ Take(c) \/ GiveUp(c)

Spec == Init /\ [][Next]_fvars

=============================================================================
