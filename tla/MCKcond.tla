------------------------------ MODULE MCKcond ------------------------------
(* Small instances of Kcond: three tasks besides idle_task, kernel *)
(* threads (k) and user tasks (u).                                         *)
EXTENDS Kcond

CONSTANTS idle, k1, k2, u1

MCTask == {idle, k1, k2, u1}

=============================================================================
