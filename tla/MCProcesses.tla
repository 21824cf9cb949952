----------------------------- MODULE MCProcesses -----------------------------
(***************************************************************************)
(* The life cycle of three processes, with a bounded number of signals and *)
(* of calls that change a setting (forks, exits, waits and SIGCONT are not *)
(* bounded) and one more SIGKILL, for a process that runs a handler; and   *)
(* the signals of one process.  The two specifications share no variable;  *)
(* a behaviour is one of either, the other staying in its initial state.   *)
(***************************************************************************)
EXTENDS Processes, Signals, TLC

CONSTANTS p1, p2, p3, MaxEvents

VARIABLE events

vars == <<proc, events, sigVars>>

MCPid == {p1, p2, p3}

MCGroup == {p2}

Asks(who, opts) == [who |-> who, opts |-> opts]

MCRequest ==
    (p1 :> {Asks(<<"group", p1>>, {}), Asks(<<"any">>, {"nohang"})} @@
     p2 :> {Asks(<<"any">>, {"stopped", "continued"}), Asks(<<"pid", p3>>, {})} @@
     p3 :> {})

MCOwnGroup == [p \in MCPid |-> {Asks(<<"own group">>, {})}]

MCInit == ProcInit /\ SigInit /\ events = 0

Step(p) == SigInit /\ KernelStep(p) /\ UNCHANGED <<events, sigVars>>

MCNext ==
    \/ \E p \in Pid :
          \/ Step(p)
          \/ /\ SigInit
             /\ UserStep(p) \/ SendContinue(p)
             /\ UNCHANGED <<events, sigVars>>
          \/ /\ SigInit
             /\ \/ events < MaxEvents /\ Event(p)
                \/ events = MaxEvents /\ proc[p].handler /\ SendDeadly(p, "SIGKILL")
             /\ events' = events + 1
             /\ UNCHANGED sigVars
    \/ ProcInit /\ events = 0 /\ SigNext /\ UNCHANGED <<proc, events>>

MCSpec == MCInit /\ [][MCNext]_vars /\ \A p \in Pid : WF_vars(Step(p))
=============================================================================
