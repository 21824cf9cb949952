------------------------------- MODULE MCKsem -------------------------------
(* Small instances of Ksem: three tasks besides idle_task. *)
EXTENDS Ksem

CONSTANTS idle, k1, k2, u1

MCTask == {idle, k1, k2, u1}

=============================================================================
