------------------------------ MODULE MCRwLock ------------------------------
(***************************************************************************)
(* Small instances of the two reader-writer locks.  The specifications     *)
(* share no variable; a behaviour of MCSpec is one of either, the other    *)
(* lock staying unused.                                                    *)
(***************************************************************************)
EXTENDS RwLockWp, RwLockRp

CONSTANTS t1, t2, t3, t4

MCProcess == {t1, t2, t3}

MCMoreProcesses == MCProcess \cup {t4}

MCInit == WpInit /\ RpInit

MCNext ==
  \/ WpNext /\ RpInit /\ UNCHANGED rpVars
  \/ RpNext /\ WpInit /\ UNCHANGED wpVars

MCSpec == MCInit /\ [][MCNext]_<<wpVars, rpVars>> /\ WpFairness

=============================================================================
