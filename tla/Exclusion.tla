------------------------------ MODULE Exclusion ------------------------------
(***************************************************************************)
(* What a lock promises to the code between lock and unlock: at most one   *)
(* process is inside, and it leaves before another one enters.             *)
(***************************************************************************)
CONSTANT Process

VARIABLE inside   \* the processes between lock and unlock

Init == inside = {}

Enter(p) == inside = {} /\ inside' = {p}

Leave(p) == inside = {p} /\ inside' = {}

Next == \E p \in Process : Enter(p) \/ Leave(p)

Spec == Init /\ [][Next]_inside

=============================================================================
