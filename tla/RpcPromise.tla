----------------------------- MODULE RpcPromise -----------------------------
(***************************************************************************)
(* What BaileysBridge.call promises its callers, whatever happens to the   *)
(* bridge: a call is settled once; an answer is the bridge's own answer to *)
(* that very call; a failure says nothing about whether the bridge has     *)
(* performed it, or will.                                                  *)
(***************************************************************************)
CONSTANT Calls

VARIABLES
    status,  \* call -> what its caller knows of it
    handled  \* the calls the bridge has performed

vars == <<status, handled>>

Init ==
    /\ status = [c \in Calls |-> "idle"]
    /\ handled = {}

Become(c, from, to) ==
    /\ status[c] = from
    /\ status' = [status EXCEPT ![c] = to]
    /\ UNCHANGED handled

Ask(c) == Become(c, "idle", "asked")

Refuse(c) == Become(c, "idle", "refused")

(* Even after the caller has given up.                                     *)
Handle(c) ==
    /\ status[c] \in {"asked", "failed"}
    /\ handled' = handled \cup {c}
    /\ UNCHANGED status

Answer(c) == c \in handled /\ Become(c, "asked", "answered")

Fail(c) == Become(c, "asked", "failed")

Next ==
    \E c \in Calls : Ask(c) \/ Refuse(c) \/ Handle(c) \/ Answer(c) \/ Fail(c)

Spec == Init /\ [][Next]_vars
=============================================================================
