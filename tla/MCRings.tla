------------------------------ MODULE MCRings ------------------------------
(***************************************************************************)
(* The two ring buffers of the kernel: the plain one, and the one of a     *)
(* worker thread, with the thread, IRQ handlers and a task around it.  The *)
(* specifications share no variable; a behaviour of MCSpec is one of       *)
(* either, the other staying in its initial state.                         *)
(***************************************************************************)
EXTENDS RingBuf, Wth

CONSTANTS irq1, task1, worker, idle, nojob

MCClient == {task1}

MCInit == RingInit /\ WthInit

RingUnused == RingInit /\ buf = [i \in Index |-> CHOOSE b \in Byte : TRUE]

MCNext ==
  \/ RingNext /\ WthInit /\ UNCHANGED wthVars
  \/ WthNext /\ RingUnused /\ UNCHANGED ringVars

MCSpec == MCInit /\ [][MCNext]_<<ringVars, wthVars>> /\ WthFairness

=============================================================================
