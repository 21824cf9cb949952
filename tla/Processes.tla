------------------------------ MODULE Processes ------------------------------
(***************************************************************************)
(* The life cycle of the user processes: fork, vfork, execve, exit, wait4, *)
(* and the signals that end, stop, continue or interrupt a process         *)
(* (kernel/fork.c, exit.c, waitpid.c, process.c, signal.c).                *)
(*                                                                         *)
(* A process has a single thread.  One step is what a system call does     *)
(* with the preemption disabled; between two steps any other process that  *)
(* the scheduler may pick can run, so the scheduler itself is left out.    *)
(* The order of a parent's list of children is left out too: wait4 may     *)
(* report any of the children that changed.                                *)
(* A signal that comes during a system call other than wait4 and vfork is  *)
(* taken to come after it.  The signals are SIGKILL, the others that kill  *)
(* and the ones with a handler, and none is masked: module Signals has     *)
(* the masks and the order of delivery.                                    *)
(***************************************************************************)
EXTENDS FiniteSets, Naturals

CONSTANTS Pid,         \* the pids in use
          init,        \* pid 1
          Group,       \* the arguments of setpgid
          Request,     \* the arguments of wait4 each process uses
          Disposition  \* what SIGCHLD may be set to

\* tid > 0, tid < -1, tid = -1 and tid = 0 (waitpid.c)
WaitTarget == {<<"pid", c>> : c \in Pid} \cup {<<"group", g>> : g \in Pid}
                \cup {<<"any">>, <<"own group">>}

\* "stopped" stands for WUNTRACED, "continued" for WCONTINUED
WaitRequest == [who  : WaitTarget,
                opts : SUBSET {"stopped", "continued", "nohang"}]

ASSUME ProcessAssumption ==
    /\ init \in Pid
    /\ Group \subseteq Pid
    /\ Request \in [Pid -> SUBSET WaitRequest]
    /\ Disposition \subseteq {"DFL", "IGN", "HANDLER"}

VARIABLE proc   \* struct task and struct process of each pid

NoRequest == [who |-> <<"any">>, opts |-> {}]

ProcessRecord ==
    [state        : {"FREE", "RUNNABLE", "SLEEPING", "DYING", "ZOMBIE"},
     parent       : Pid,      \* pi->parent_pid
     pgid         : Pid,
     stopped      : BOOLEAN,
     wasStopped   : BOOLEAN,  \* wait4 reported the stop, not yet the continuation
     vforked      : BOOLEAN,  \* after vfork(), before execve()
     vforkStopped : BOOLEAN,  \* stopped because of its vforked child
     sigchld      : {"DFL", "IGN", "HANDLER"},
     autoReap     : BOOLEAN,  \* pi->automatic_reaping
     pending      : SUBSET {"SIGKILL", "deadly", "caught"},
     handler      : BOOLEAN,  \* nested_sig_handlers > 0
     execed       : BOOLEAN,  \* pi->did_call_execve
     moved        : BOOLEAN,  \* setpgid was called on it after its end (for the
                              \* properties; the code has no such field)
     pc           : {"user", "vfork", "wait4", "woken"},
     req          : WaitRequest]

ProcTypeOK == proc \in [Pid -> ProcessRecord]

Blank == [state |-> "FREE", parent |-> init, pgid |-> init, stopped |-> FALSE,
          wasStopped |-> FALSE, vforked |-> FALSE, vforkStopped |-> FALSE,
          sigchld |-> "DFL", autoReap |-> FALSE, pending |-> {}, handler |-> FALSE,
          execed |-> FALSE, moved |-> FALSE, pc |-> "user", req |-> NoRequest]

\* Only init exists; its parent, the kernel's process, is written init here.
ProcInit ==
    proc = [p \in Pid |-> IF p = init
                          THEN [Blank EXCEPT !.state = "RUNNABLE", !.execed = TRUE]
                          ELSE Blank]

-----------------------------------------------------------------------------
\* The scheduler may pick p.
Selectable(p) == proc[p].state = "RUNNABLE" /\ ~proc[p].stopped

\* process_signals finds nothing to do: in a handler only SIGKILL counts.
Quiet(p) ==
    \/ proc[p].pending = {}
    \/ proc[p].handler /\ "SIGKILL" \notin proc[p].pending

\* p runs its program: signals are delivered before it gets there.
InUserMode(p) == Selectable(p) /\ proc[p].pc = "user" /\ Quiet(p)

Exists(p) == proc[p].state # "FREE"

Child(p, c) == c # init /\ Exists(c) /\ proc[c].parent = p

\* Signals reach p: it is neither a zombie nor dying.
Signalled(p) == proc[p].state \in {"RUNNABLE", "SLEEPING"}

\* waitpid_should_skip_child says no
Matches(p, c) ==
    LET who == proc[p].req.who
    IN  CASE who[1] = "pid"       -> c = who[2]
          [] who[1] = "group"     -> proc[c].pgid = who[2]
          [] who[1] = "own group" -> proc[c].pgid = proc[p].pgid
          [] who[1] = "any"       -> TRUE

Waited(p) == {c \in Pid : Child(p, c) /\ Matches(p, c)}

\* get_task_if_changed
NewlyStopped(p, c) ==
    proc[c].stopped /\ ~proc[c].wasStopped /\ "stopped" \in proc[p].req.opts

NewlyContinued(p, c) ==
    ~proc[c].stopped /\ proc[c].wasStopped /\ "continued" \in proc[p].req.opts

Changed(p, c) ==
    proc[c].state = "ZOMBIE" \/ NewlyStopped(p, c) \/ NewlyContinued(p, c)

-----------------------------------------------------------------------------
(***************************************************************************)
(* wake_up_tasks_waiting_on: who hears of it when the processes of C, with *)
(* the parents par, die, stop or continue.  The event wakes those asleep   *)
(* in a wait4 for it, and the parents get SIGCHLD.                         *)
(***************************************************************************)
\* Mutant: only a death ends the sleep.
IsGoodReason_Died(q, r) == r = "died"

IsGoodReason(q, r) == r = "died" \/ r \in proc[q].req.opts

\* Mutant: tid < -1
WaitsOnMultiple_OffByOne(q) == proc[q].req.who[1] = "group"

\* is_waiting_on_multiple_children: tid < 0
WaitsOnMultiple(q) == proc[q].req.who[1] \in {"any", "group"}

WokenBy(C, r, par) ==
    {q \in Pid : /\ proc[q].state = "SLEEPING"
                 /\ IsGoodReason(q, r)
                 /\ \E c \in C :
                       \/ proc[q].req.who = <<"pid", c>>
                       \/ par[c] = q /\ WaitsOnMultiple(q) /\ Matches(q, c)}

\* Those whose handler of SIGCHLD will run
Catching(C, par) ==
    {q \in Pid : /\ Signalled(q) /\ proc[q].sigchld = "HANDLER"
                 /\ \E c \in C : par[c] = q}

Wake(P) == IF P.state = "SLEEPING"
           THEN [P EXCEPT !.state = "RUNNABLE", !.pc = "woken"] ELSE P

\* add_pending_sig and signal_wakeup_task: a process that waits for its
\* vforked child is not disturbed
Post(P, sig) ==
    LET Q == [P EXCEPT !.pending = @ \cup {sig}]
    IN  IF P.vforkStopped THEN Q ELSE [Wake(Q) EXCEPT !.stopped = FALSE]

\* q after the event
Told(q, C, r, par) ==
    LET P == IF q \in WokenBy(C, r, par) THEN Wake(proc[q]) ELSE proc[q]
    IN  IF q \in Catching(C, par) THEN Post(P, "caught") ELSE P

Parents == [c \in Pid |-> proc[c].parent]

\* unblock_parent_of_vforked_child, for the parent of p
Unblock(P) == [P EXCEPT !.stopped = FALSE, !.vforkStopped = FALSE]

-----------------------------------------------------------------------------
(***************************************************************************)
(* fork and vfork: allocate_new_process makes the child a copy of its      *)
(* parent, was_stopped, the disposition of SIGCHLD and the handler that    *)
(* runs included; the signals pending are not.                             *)
(***************************************************************************)
Forked(p, vfork) ==
    [proc[p] EXCEPT !.parent = p, !.vforked = vfork, !.autoReap = FALSE,
                    !.pending = {}, !.execed = FALSE]

Fork(p, c) ==
    /\ InUserMode(p) /\ ~Exists(c)
    /\ proc' = [proc EXCEPT ![c] = Forked(p, FALSE)]

Vfork(p, c) ==
    /\ InUserMode(p) /\ ~Exists(c)
    /\ proc' = [proc EXCEPT
                  ![c] = Forked(p, TRUE),
                  ![p] = [@ EXCEPT !.stopped = TRUE, !.vforkStopped = TRUE, !.pc = "vfork"]]

\* The parent runs again.
VforkReturn(p) ==
    /\ Selectable(p) /\ proc[p].pc = "vfork"
    /\ proc' = [proc EXCEPT ![p].pc = "user"]

\* The pending signals have lost their handlers.
Uncaught(S) == IF "caught" \in S THEN (S \ {"caught"}) \cup {"deadly"} ELSE S

\* execve_final_steps: the handlers are reset, a vforked child lets its
\* parent go.
Execve(p) ==
    LET Q == [proc EXCEPT ![p].vforked = FALSE, ![p].execed = TRUE,
                          ![p].handler = FALSE, ![p].pending = Uncaught(@),
                          ![p].sigchld = IF @ = "HANDLER" THEN "DFL" ELSE @]
    IN  /\ InUserMode(p)
        /\ proc' = IF proc[p].vforked
                   THEN [Q EXCEPT ![proc[p].parent] = Unblock(@)] ELSE Q

-----------------------------------------------------------------------------
(***************************************************************************)
(* terminate_process, up to close_all_handles(), which runs with the       *)
(* preemption enabled, and from there to the end.  The death of init is a  *)
(* panic, which the model leaves out.                                      *)
(***************************************************************************)
Dies(p) ==
    /\ p # init
    /\ proc' = [proc EXCEPT ![p].state = "DYING", ![p].pending = {},
                            ![p].handler = FALSE]

Exit(p) == InUserMode(p) /\ Dies(p)

\* Nobody is to wait for p: free_mem_for_zombie_task removes it.
ReapedAtExit(p) == proc[p].autoReap \/ proc[proc[p].parent].sigchld = "IGN"

\* Mutant: init gets the dead children only.
Orphans_OnlyDead(p) == {c \in Pid : Child(p, c) /\ proc[c].state = "ZOMBIE"}

Orphans(p) == {c \in Pid : Child(p, c)}

\* Those whose death the parents hear of
Dead(p) == {p} \cup {c \in Orphans(p) : proc[c].state = "ZOMBIE"}

Terminate(p) ==
    LET par == [c \in Pid |-> IF c \in Orphans(p) THEN init ELSE proc[c].parent]
        Other(q) ==
           LET P == [Told(q, Dead(p), "died", par) EXCEPT
                        !.parent = par[q],
                        !.autoReap = @ \/ (q \in Orphans(p) /\ proc[p].sigchld = "IGN")]
           IN  IF proc[p].vforked /\ q = proc[p].parent THEN Unblock(P) ELSE P
    IN  /\ proc[p].state = "DYING"
        /\ proc' = [q \in Pid |->
                      IF q # p THEN Other(q)
                      ELSE IF ReapedAtExit(p) THEN Blank
                      ELSE [proc[p] EXCEPT !.state = "ZOMBIE"]]

-----------------------------------------------------------------------------
(***************************************************************************)
(* sys_wait4.                                                              *)
(***************************************************************************)
CallWait4(p, r) ==
    /\ InUserMode(p)
    /\ proc' = [proc EXCEPT ![p].pc = "wait4", ![p].req = r]

InWait4(p) == Selectable(p) /\ proc[p].pc = "wait4"

Returned(p) == [proc[p] EXCEPT !.pc = "user", !.req = NoRequest]

\* A child changed: a zombie is removed, was_stopped follows what was reported.
Wait4Reports(p) ==
    /\ InWait4(p)
    /\ \E c \in {d \in Waited(p) : Changed(p, d)} :
          proc' = [proc EXCEPT
                     ![p] = Returned(p),
                     ![c] = IF proc[c].state = "ZOMBIE" THEN Blank
                            ELSE [proc[c] EXCEPT !.wasStopped = ~@]]

\* -ECHILD, and 0 for WNOHANG
Wait4Nothing(p) ==
    /\ InWait4(p)
    /\ \A c \in Waited(p) : ~Changed(p, c)
    /\ Waited(p) = {} \/ "nohang" \in proc[p].req.opts
    /\ proc' = [proc EXCEPT ![p] = Returned(p)]

Wait4Sleeps(p) ==
    /\ InWait4(p)
    /\ \A c \in Waited(p) : ~Changed(p, c)
    /\ Waited(p) # {} /\ "nohang" \notin proc[p].req.opts
    /\ proc' = [proc EXCEPT ![p].state = "SLEEPING"]

\* Mutant: no look at the signals
Wait4Woken_Loops(p) ==
    /\ Selectable(p) /\ proc[p].pc = "woken"
    /\ proc' = [proc EXCEPT ![p].pc = "wait4"]

\* -EINTR when pending_signals says so, which it never does in a handler;
\* else the loop starts again
Wait4Woken(p) ==
    /\ Selectable(p) /\ proc[p].pc = "woken"
    /\ proc' = [proc EXCEPT ![p] = IF proc[p].pending # {} /\ ~proc[p].handler
                                   THEN Returned(p) ELSE [@ EXCEPT !.pc = "wait4"]]

-----------------------------------------------------------------------------
(***************************************************************************)
(* Signals.  init only gets the ones it has a handler for.                 *)
(***************************************************************************)
\* action_terminate
SendDeadly(q, sig) ==
    /\ q # init /\ Signalled(q)
    /\ proc' = [proc EXCEPT ![q] = Post(@, sig)]

\* A signal with a handler
SendCaught(q) ==
    /\ Signalled(q)
    /\ proc' = [proc EXCEPT ![q] = Post(@, "caught")]

\* What action_stop and action_continue share
Sets(q, stops, r) ==
    /\ q # init /\ Signalled(q)
    /\ proc' = [s \in Pid |-> IF s = q THEN [proc[q] EXCEPT !.stopped = stops]
                              ELSE Told(s, {q}, r, Parents)]

SendStop(q) == Sets(q, TRUE, "stopped")

\* Mutant: SIGCONT also ends the stop that vfork made.
SendContinue_Vforked(q) == Sets(q, FALSE, "continued")

SendContinue(q) == ~proc[q].vforkStopped /\ Sets(q, FALSE, "continued")

\* process_signals takes one of the signals: SIGKILL before all others, else
\* any.  It kills p, one with a handler too when the user stack cannot take
\* the frame or the handler has been removed since, or its handler runs.
TakesSignal(p) ==
    \/ Dies(p)
    \/ /\ "SIGKILL" \notin proc[p].pending /\ "caught" \in proc[p].pending
       /\ \E last \in BOOLEAN :
             proc' = [proc EXCEPT ![p].handler = TRUE,
                                  ![p].pending = IF last THEN @ \ {"caught"} ELSE @]

\* before p runs in user mode
Deliver(p) ==
    /\ Selectable(p) /\ proc[p].pc = "user" /\ ~Quiet(p)
    /\ TakesSignal(p)

\* sys_rt_sigreturn: the next signal, or back to where the first one came in
HandlerReturns(p) ==
    /\ InUserMode(p) /\ proc[p].handler
    /\ IF proc[p].pending # {} THEN TakesSignal(p)
       ELSE proc' = [proc EXCEPT ![p].handler = FALSE]

\* sys_rt_sigaction on SIGCHLD
SetSigchld(p, h) ==
    /\ InUserMode(p)
    /\ proc' = [proc EXCEPT ![p].sigchld = h]

\* sys_setpgid, on p or on any process that has not called execve, a dead one
\* included, in the one session of the model
SetPgid(p, c, g) ==
    /\ InUserMode(p)
    /\ c = p \/ (Exists(c) /\ ~proc[c].execed)
    /\ proc' = [proc EXCEPT ![c].pgid = g, ![c].moved = (proc[c].state = "ZOMBIE")]

-----------------------------------------------------------------------------
KernelStep(p) ==
    VforkReturn(p) \/ Terminate(p) \/ Wait4Reports(p) \/ Wait4Nothing(p)
       \/ Wait4Sleeps(p) \/ Wait4Woken(p) \/ Deliver(p)

UserStep(p) ==
    \/ \E c \in Pid : Fork(p, c) \/ Vfork(p, c)
    \/ Execve(p)
    \/ Exit(p)
    \/ \E r \in Request[p] : CallWait4(p, r)
    \/ HandlerReturns(p)

\* The calls that change a setting, and the signals but SIGCONT
Event(p) ==
    \/ \E h \in Disposition : SetSigchld(p, h)
    \/ \E c \in Pid, g \in Group : SetPgid(p, c, g)
    \/ \E sig \in {"SIGKILL", "deadly"} : SendDeadly(p, sig)
    \/ SendCaught(p) \/ SendStop(p)

ProcNext ==
    \E p \in Pid : KernelStep(p) \/ UserStep(p) \/ Event(p) \/ SendContinue(p)

ProcSpec == ProcInit /\ [][ProcNext]_proc

\* A process the scheduler may pick gets to run: the scheduler takes the task
\* with the least run time.  Nothing makes a program call anything, or makes
\* anyone send a signal.
ProcFairSpec == ProcSpec /\ \A p \in Pid : WF_proc(KernelStep(p))

-----------------------------------------------------------------------------
(***************************************************************************)
(* Every process has a parent that can wait for it: exit hands the         *)
(* children over to init before it makes their parent a zombie             *)
(* (handle_children_of_dying_process, exit.c:68).                          *)
(***************************************************************************)
ParentIsThere ==
    \A c \in Pid : Exists(c) => proc[proc[c].parent].state \notin {"FREE", "ZOMBIE"}

(***************************************************************************)
(* A process is held by vfork exactly while its one vforked child lives    *)
(* and has not called execve, whatever signals either of them gets: what   *)
(* unblock_parent_of_vforked_child (process.c:545-547) and                 *)
(* vforked_child_transfer_dispose_mi assert, and why the two never use     *)
(* their address space at the same time.                                   *)
(***************************************************************************)
Holds(c, p) ==
    proc[c].state \notin {"FREE", "ZOMBIE"} /\ proc[c].vforked /\ proc[c].parent = p

VforkHolds ==
    \A p \in Pid :
       /\ proc[p].vforkStopped <=> \E c \in Pid : Holds(c, p)
       /\ \A c, d \in Pid : Holds(c, p) /\ Holds(d, p) => c = d
       /\ proc[p].vforkStopped => /\ proc[p].state = "RUNNABLE"
                                  /\ proc[p].stopped
                                  /\ proc[p].pc = "vfork"

ReportsNothing(p) ==
    /\ \A c \in Waited(p) :
          proc[c].state = "ZOMBIE" => proc[c].moved /\ proc[p].req.who[1] = "group"
    /\ proc[p].req.who[1] \in {"pid", "any"} =>
          /\ Waited(p) # {}
          /\ p # init => \A c \in Waited(p) :
                            NewlyStopped(p, c) => proc[c].vforkStopped

(***************************************************************************)
(* Nobody sleeps in wait4 next to a child it waits for that is dead        *)
(* already, no matter who that child's parent was when it died, nor, init  *)
(* aside, next to one that a signal has just stopped when it asked for     *)
(* that; and a child waited for by its pid has not been freed: its         *)
(* tasks_waiting_list holds the sleeper (wake_up_tasks_waiting_on,         *)
(* waitpid.c:131).  A child that waits for its own vforked child is        *)
(* stopped too, and nobody is told; nor is anybody told when sys_setpgid   *)
(* moves a zombie into the group that its parent sleeps on.                *)
(***************************************************************************)
NothingToReport ==
    \A p \in Pid : proc[p].state = "SLEEPING" => ReportsNothing(p)

(***************************************************************************)
(* A death is final: a dying process gets to its end, where only           *)
(* ReapedAtExit makes it vanish, and the status of a zombie is there until *)
(* its parent of that moment takes it, in the wait4 that returns it        *)
(* (terminate_process, exit.c:321; sys_wait4, waitpid.c:283).              *)
(***************************************************************************)
DeathIsFinal(p) ==
    /\ proc[p].state = "DYING" =>
          \/ proc'[p].state = "DYING"
          \/ proc'[p] = IF ReapedAtExit(p) THEN Blank ELSE [proc[p] EXCEPT !.state = "ZOMBIE"]
    /\ proc[p].state = "ZOMBIE" =>
          \/ proc'[p].state = "ZOMBIE"
          \/ LET q == proc[p].parent
             IN  InWait4(q) /\ Matches(q, p) /\ proc'[q] = Returned(q) /\ proc'[p] = Blank

DeathsAreFinal == [][\A p \in Pid : DeathIsFinal(p)]_proc

(***************************************************************************)
(* The inductive invariants: init lives, a parent is another process, and  *)
(* (for NothingToReport) nobody waits for its own group, wait4(0, ...).    *)
(***************************************************************************)
InitLives ==
    /\ proc[init].state \in {"RUNNABLE", "SLEEPING"}
    /\ proc[init].parent = init /\ ~proc[init].vforked

ParentIsOther == \A p \in Pid : p # init => proc[p].parent # p

LifeInv == ProcTypeOK /\ InitLives /\ ParentIsOther /\ ParentIsThere /\ VforkHolds

NoOwnGroup == \A p \in Pid : \A r \in Request[p] : r.who[1] # "own group"

WaitInv == (\A p \in Pid : proc[p].req.who[1] # "own group") /\ NothingToReport

(***************************************************************************)
(* A death is reported to whoever sleeps in wait4 for it: when a child     *)
(* starts dying its parent gets out of wait4, unless somebody stops the    *)
(* parent or moves the child out of the group it waits for.  A child that  *)
(* is reaped as it exits does not end the wait.                            *)
(***************************************************************************)
DeathIsReported ==
    \A c \in Pid \ {init} :
       LET p == proc[c].parent
       IN  (/\ proc[c].state = "DYING" /\ ~ReapedAtExit(c)
            /\ proc[p].state = "SLEEPING" /\ c \in Waited(p))
              ~> (proc[p].pc = "user" \/ proc[p].stopped \/ c \notin Waited(p))

(***************************************************************************)
(* SIGKILL ends the process, in a handler, from a stop, a vfork or, when   *)
(* no handler runs, a sleep in wait4 as well (process_signals and          *)
(* signal_wakeup_task, signal.c:163, 220), unless the process is stopped   *)
(* again or its vforked child goes on holding it.  sys_wait4 is where it   *)
(* need not: it looks for signals only after its sleep, so that one that   *)
(* comes as the process is about to look at its children does not end the  *)
(* wait, and in a handler it finds none and sleeps again.                  *)
(***************************************************************************)
KillIsDelivered ==
    \A p \in Pid \ {init} :
       (/\ "SIGKILL" \in proc[p].pending
        /\ proc[p].pc # "wait4" /\ (proc[p].pc = "woken" => ~proc[p].handler))
          ~> (~Signalled(p) \/ proc[p].stopped)
=============================================================================
