------------------------------- MODULE Monitor -------------------------------
(***************************************************************************)
(* What a kmutex and a kcond promise together to the code that uses them:  *)
(* at most one process is inside; a process that waits leaves and joins    *)
(* the queue in one step; a signal goes to the first process of the queue; *)
(* a process that left the queue comes back inside when it can.  A signal  *)
(* (as in kill) or a timeout takes an interruptible process off the queue  *)
(* at any moment.                                                          *)
(*                                                                         *)
(* Kcond implements this (see ConditionVariable there); the modules of the *)
(* code that uses mutexes and conditions build on it.                      *)
(***************************************************************************)
EXTENDS WaitLists

CONSTANTS
  Process,
  Interruptible   \* the processes that can be sent a signal or use a timeout

VARIABLES
  inside,   \* the process between lock and unlock, as a set
  waitQ     \* the processes in kcond_wait that have not been woken up

monitorVars == <<inside, waitQ>>

MonitorInit == inside = {} /\ waitQ = <<>>

(* kmutex_lock returns, or kcond_wait does. *)
Enter(p) == inside = {} /\ ~InList(waitQ, p) /\ inside' = {p} /\ UNCHANGED waitQ

(* kmutex_unlock. *)
Leave(p) == inside = {p} /\ inside' = {} /\ UNCHANGED waitQ

(* kcond_wait starts. *)
Wait(p) == inside = {p} /\ inside' = {} /\ waitQ' = Append(waitQ, p)

(* kcond_signal_one and kcond_signal_all. *)
SignalOne == waitQ' = IF waitQ = <<>> THEN <<>> ELSE Tail(waitQ)
SignalAll == waitQ' = <<>>

(* signal_wakeup_task. *)
Interrupt(p) ==
  /\ p \in Interruptible /\ InList(waitQ, p)
  /\ waitQ' = Unlink(waitQ, p)
  /\ UNCHANGED inside

(* tick_all_timers: several timeouts expire at once. *)
TimeOut(S) ==
  /\ S \subseteq Interruptible
  /\ waitQ' = Reduced(waitQ, {p \in Process : InList(waitQ, p)} \ S)
  /\ UNCHANGED inside

MonitorNext ==
  \/ \E p \in Process : Enter(p) \/ Leave(p) \/ Wait(p) \/ Interrupt(p)
  \/ \E S \in SUBSET Interruptible : TimeOut(S)
  \/ (SignalOne \/ SignalAll) /\ UNCHANGED inside

MonitorSpec == MonitorInit /\ [][MonitorNext]_monitorVars

=============================================================================
