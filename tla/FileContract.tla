---------------------------- MODULE FileContract ----------------------------
(***************************************************************************)
(* What the Files API promises of an uploaded file, whatever goroutines    *)
(* and restarts it takes: it is settled once (docs/DESIGN.md:323-336),     *)
(* once gone it stays gone, and its bytes are not removed while a request  *)
(* uses them.                                                              *)
(***************************************************************************)
CONSTANTS Files, Users

VARIABLES
    state,      \* files -> "none", "pending", "processed", "failed", "gone"
    stored,     \* files -> whether the uploaded bytes are kept
    using       \* files -> the requests that use them

vars == <<state, stored, using>>

Init ==
    /\ state = [f \in Files |-> "none"]
    /\ stored = [f \in Files |-> FALSE]
    /\ using = [f \in Files |-> {}]

Upload(f) ==
    /\ state[f] = "none"
    /\ state' = [state EXCEPT ![f] = "pending"]
    /\ stored' = [stored EXCEPT ![f] = TRUE]
    /\ UNCHANGED using

Settle(f) ==
    /\ state[f] = "pending"
    /\ \E s \in {"processed", "failed"} : state' = [state EXCEPT ![f] = s]
    /\ UNCHANGED <<stored, using>>

(* Deleted or expired, whatever became of it before *)
Vanish(f) ==
    /\ state[f] \in {"pending", "processed", "failed"}
    /\ state' = [state EXCEPT ![f] = "gone"]
    /\ UNCHANGED <<stored, using>>

StartUse(f, u) ==
    /\ stored[f]
    /\ using' = [using EXCEPT ![f] = @ \cup {u}]
    /\ UNCHANGED <<state, stored>>

EndUse(f, u) ==
    /\ using' = [using EXCEPT ![f] = @ \ {u}]
    /\ UNCHANGED <<state, stored>>

Purge(f) ==
    /\ state[f] = "gone"
    /\ using[f] = {}
    /\ stored' = [stored EXCEPT ![f] = FALSE]
    /\ UNCHANGED <<state, using>>

(* The process ends, and with it every use. *)
Restart ==
    /\ using' = [f \in Files |-> {}]
    /\ UNCHANGED <<state, stored>>

Next ==
    \/ \E f \in Files : Upload(f) \/ Settle(f) \/ Vanish(f) \/ Purge(f)
    \/ \E f \in Files, u \in Users : StartUse(f, u) \/ EndUse(f, u)
    \/ Restart

Spec == Init /\ [][Next]_vars
=============================================================================
