------------------------------ MODULE Signals ------------------------------
(***************************************************************************)
(* The signals of one process: what is pending, what is masked, which      *)
(* handlers run (kernel/signal.c, setup_sig_handler in                     *)
(* kernel/arch/i386/process32.c, execve_final_steps in kernel/execve.c).   *)
(*                                                                         *)
(* pause, sigprocmask, sigsuspend and sigreturn run with the preemption    *)
(* disabled, the delivery of signals at their end included: each is one    *)
(* step.  sigaction and execve can be preempted before they change         *)
(* anything.  A signal arrives while the process is preempted or asleep.   *)
(* Signals that stop a process are in module Processes.                    *)
(***************************************************************************)
EXTENDS FiniteSets, Integers

CONSTANTS Sig,          \* signal numbers
          SIGKILL,
          Deadly,       \* those whose default action is action_terminate
          HwFault,      \* those a hardware fault may cause
          Caught,       \* those the program sets handlers for
          Ignored,      \* those the program sets to SIG_IGN
          Blocked       \* those the program masks

ASSUME SignalAssumption ==
    /\ Sig \subseteq 1 .. 64
    /\ SIGKILL \in Deadly
    /\ {Deadly, HwFault, Caught, Ignored, Blocked} \subseteq SUBSET Sig
    /\ SIGKILL \notin Caught \cup Ignored \cup Blocked

VARIABLES sig,   \* the fields of struct task and struct process about signals
          asked, \* the mask the program last asked for with sigprocmask
          panic  \* an ASSERT failed

sigVars == <<sig, asked, panic>>

NoCall == <<0, "none">>
ExecveCall == <<0, "execve">>

SigState ==
    [pending : SUBSET Sig,       \* sa_pending
     fault   : SUBSET Sig,       \* sa_fault_pending
     mask    : SUBSET Sig,       \* sa_mask
     oldMask : SUBSET Sig,       \* sa_old_mask
     suspend : BOOLEAN,          \* in_sigsuspend
     nested  : 0 .. 2,           \* nested_sig_handlers
     stack   : BOOLEAN,          \* the user stack can take a signal frame
     handler : [Sig -> {"DFL", "IGN", "CUSTOM"}],
     at      : {"user", "preempted", "call", "paused", "awake", "dead"},
     call    : {NoCall, ExecveCall}
                 \cup (Sig \X {"DFL", "IGN", "CUSTOM"})]   \* sigaction

SigTypeOK == sig \in SigState /\ asked \in SUBSET Sig /\ panic \in BOOLEAN

SigInit ==
    /\ sig = [pending |-> {}, fault |-> {}, mask |-> {}, oldMask |-> {},
              suspend |-> FALSE, nested |-> 0, stack |-> TRUE,
              handler |-> [s \in Sig |-> "DFL"], at |-> "user", call |-> NoCall]
    /\ asked = {}
    /\ panic = FALSE

-----------------------------------------------------------------------------
\* get_first_pending_sig: the first signal of each word, if it is not masked
Word(s) == (s - 1) \div 32

FirstPending(T) ==
    LET firsts == {s \in T.pending :
                      /\ \A r \in T.pending : Word(r) = Word(s) => s <= r
                      /\ s \notin T.mask}
    IN  IF firsts = {} THEN -1 ELSE CHOOSE s \in firsts : \A r \in firsts : s <= r

\* pending_signals
PendingSignals(T) == T.nested = 0 /\ T.pending \ T.mask # {}

Killed(T) ==
    [T EXCEPT !.at = "dead", !.pending = {}, !.fault = {}, !.nested = 0, !.call = NoCall]

\* setup_sig_handler, after del_pending_sig: the first handler needs a frame
\* for the registers, the next ones take its place
Handle(T, s) ==
    IF T.nested = 0 /\ ~T.stack THEN Killed(T)
    ELSE [T EXCEPT !.pending = @ \ {s}, !.fault = @ \ {s}, !.nested = @ + 1]

\* process_signals returns false
NothingToProcess(T, inReturn) ==
    /\ SIGKILL \notin T.pending
    /\ \/ T.nested > 0 /\ ~inReturn
       \/ FirstPending([T EXCEPT !.mask = @ \ T.fault]) = -1

\* process_signals; the trampoline to a system call that kills a process not
\* yet running is taken at once
ProcessSignals(T, inReturn) ==
    LET U == [T EXCEPT !.mask = @ \ T.fault]
        s == FirstPending(U)
    IN  IF SIGKILL \in U.pending THEN Killed(U)
        ELSE IF NothingToProcess(T, inReturn) THEN U
        ELSE IF U.handler[s] = "DFL" THEN Killed(U)
        ELSE Handle(U, s)

Runs == sig.at = "user" /\ ~panic

Returns(T) == ProcessSignals([T EXCEPT !.at = "user"], FALSE)

\* do_syscall: the signals are processed, the call is made, whatever came of
\* that, and the signals are processed again.  The call finds the process in
\* state Entered and leaves it in state U.
Entered == Returns(sig)

Syscall(U) ==
    /\ Runs
    /\ sig' = IF Entered.at = "dead" THEN Entered ELSE U

-----------------------------------------------------------------------------
\* do_send_signal, to the process when it is not running
Pends(T, s) == T.handler[s] = "CUSTOM" \/ (T.handler[s] = "DFL" /\ s \in Deadly)

Arrive(s) ==
    /\ sig.at # "dead" /\ ~panic
    /\ Pends(sig, s)
    /\ sig' = [sig EXCEPT
                 !.pending = @ \cup {s},
                 !.at = CASE @ = "user" -> "preempted"
                          [] @ = "paused" /\ s \notin sig.mask -> "awake"
                          [] OTHER -> @]
    /\ UNCHANGED <<asked, panic>>

\* switch_to_task, to a process that was in user mode
Resume ==
    /\ sig.at = "preempted" /\ ~panic
    /\ sig' = Returns(sig)
    /\ UNCHANGED <<asked, panic>>

\* A hardware fault in user mode: handle_fault sends the signal and
\* fault_entry processes it, unmasked; in a handler it waits for the return,
\* and the instruction runs again.
Fault(s) ==
    /\ Runs
    /\ Pends(sig, s)
    /\ sig' = Returns([sig EXCEPT !.pending = @ \cup {s}, !.fault = @ \cup {s}])
    /\ asked' = IF sig.suspend THEN asked ELSE asked \ {s}
    /\ UNCHANGED panic

\* The program moves its stack pointer, to memory it can write or not.
MoveStack(b) ==
    /\ Runs
    /\ sig' = [sig EXCEPT !.stack = b]
    /\ UNCHANGED <<asked, panic>>

\* A system call that runs with the preemption enabled has begun.
Begin(call) ==
    /\ Syscall([Entered EXCEPT !.at = "call", !.call = call])
    /\ UNCHANGED <<asked, panic>>

InCall == sig.at = "call" /\ ~panic

\* sys_rt_sigaction
SigAction(s, h) ==
    /\ InCall /\ sig.call = <<s, h>>
    /\ sig' = Returns([sig EXCEPT !.handler[s] = h, !.call = NoCall])
    /\ UNCHANGED <<asked, panic>>

\* sys_rt_sigprocmask; a change made while sigsuspend's mask is in force goes
\* away with it, and a fault not yet delivered is unmasked again at once
SigProcMask(m) ==
    /\ Syscall(Returns([Entered EXCEPT !.mask = m]))
    /\ asked' = IF sig.suspend THEN asked ELSE m \ sig.fault
    /\ UNCHANGED panic

\* Mutant: sleeps.
Sleeps_Blindly(T) == [T EXCEPT !.at = "paused"]

\* sys_pause: sleeps unless a signal is pending
Sleeps(T) == IF PendingSignals(T) THEN Returns(T) ELSE [T EXCEPT !.at = "paused"]

Pause == Syscall(Sleeps(Entered)) /\ UNCHANGED <<asked, panic>>

PauseWakes ==
    /\ sig.at = "awake" /\ ~panic
    /\ sig' = Sleeps(sig)
    /\ UNCHANGED <<asked, panic>>

\* sys_rt_sigsuspend, which a handler is refused
Suspends(T, m) ==
    IF T.nested > 0 \/ T.suspend THEN Returns(T)
    ELSE Sleeps([T EXCEPT !.oldMask = T.mask, !.suspend = TRUE, !.mask = m])

SigSuspend(m) ==
    /\ Syscall(Suspends(Entered, m))
    /\ panic' = (Entered.at = "user" /\ Entered.nested = 0 /\ Entered.suspend)
    /\ UNCHANGED asked

\* Mutant: the mask of sigsuspend stays.
Restored_KeepsMask(T) == [T EXCEPT !.suspend = FALSE]

\* sys_rt_sigreturn: another handler, or back to where the first one came in
Restored(T) ==
    IF T.suspend
    THEN [T EXCEPT !.mask = T.oldMask, !.oldMask = {}, !.suspend = FALSE] ELSE T

SigReturn ==
    /\ Runs /\ sig.nested > 0
    /\ LET T == ProcessSignals(sig, TRUE)
           U == IF NothingToProcess(sig, TRUE) THEN Restored(T) ELSE T
       IN  sig' = IF U.at = "dead" THEN U ELSE [U EXCEPT !.nested = @ - 1]
    /\ UNCHANGED <<asked, panic>>

\* execve_final_steps: the pending signals and the mask stay.
SigExecve ==
    /\ InCall /\ sig.call = ExecveCall
    /\ sig' = Returns([sig EXCEPT
                 !.call = NoCall,
                 !.nested = 0, !.suspend = FALSE, !.oldMask = {}, !.stack = TRUE,
                 !.handler = [s \in Sig |-> IF @[s] = "IGN" THEN "IGN" ELSE "DFL"]])
    /\ asked' = sig.mask
    /\ UNCHANGED panic

SigNext ==
    \/ \E s \in Sig : Arrive(s)
    \/ \E s \in HwFault : Fault(s)
    \/ \E b \in BOOLEAN : MoveStack(b)
    \/ \E s \in Caught : Begin(<<s, "CUSTOM">>)
    \/ \E s \in Ignored : Begin(<<s, "IGN">>)
    \/ \E s \in Caught \cup Ignored : Begin(<<s, "DFL">>)
    \/ Begin(ExecveCall)
    \/ \E s \in Sig, h \in {"DFL", "IGN", "CUSTOM"} : SigAction(s, h)
    \/ \E m \in SUBSET Blocked : SigProcMask(m) \/ SigSuspend(m)
    \/ Resume \/ Pause \/ PauseWakes \/ SigReturn \/ SigExecve

SigSpec == SigInit /\ [][SigNext]_sigVars

-----------------------------------------------------------------------------
(***************************************************************************)
(* sigsuspend never finds the mask of an earlier sigsuspend in force       *)
(* (signal.c:782).                                                         *)
(***************************************************************************)
NoNestedSuspend == ~panic

(***************************************************************************)
(* The program runs with the mask it asked for: the one of sigsuspend is   *)
(* gone once the handlers that ended it have returned, however many of     *)
(* them ran one after the other, and handlers do not nest (sched.h:118).   *)
(***************************************************************************)
MaskIsRestored ==
    sig.at = "user" => /\ sig.nested <= 1
                       /\ sig.nested = 0 => sig.mask = asked /\ ~sig.suspend

(***************************************************************************)
(* No signal is lost between the change of the mask and the sleep of       *)
(* sigsuspend: when no handler is under way nobody sleeps there, or in     *)
(* pause, on a signal that could be delivered (sys_pause, signal.c:833).   *)
(* With one under way pending_signals always says no (signal.c:441): a     *)
(* pause called in a handler, or by a process whose entry into the kernel  *)
(* has just set one up, sleeps on whatever is pending, SIGKILL included.   *)
(***************************************************************************)
NoSleepOnSignal ==
    (sig.at = "paused" /\ sig.nested = 0) => sig.pending \subseteq sig.mask

-----------------------------------------------------------------------------
\* The inductive invariants.  The first one needs nothing; the second one
\* needs NothingHides: no signal that the program masks is lower than one of
\* the same word that can be pending, so that get_first_pending_sig finds
\* every signal that it should deliver.
SleepInv == SigTypeOK /\ sig.nested <= 1 /\ NoSleepOnSignal

NothingHides ==
    \A b \in Blocked, s \in Deadly \cup Caught : Word(s) = Word(b) => s <= b

\* Nothing is pending, caught or masked that the program did not ask for; a
\* is the mask it asked for.
ProgramInv(T, a) ==
    /\ T.pending \subseteq Deadly \cup Caught
    /\ \A s \in Sig : T.handler[s] = "CUSTOM" => s \in Caught
    /\ \A s \in Sig : T.call = <<s, "CUSTOM">> => s \in Caught
    /\ T.mask \subseteq Blocked /\ T.oldMask \subseteq Blocked /\ a \subseteq Blocked

\* A fault is unmasked and pending, and waits only for handlers; sigsuspend
\* has kept the mask that the program asked for.
MaskInv(T, a) ==
    /\ T.fault \subseteq T.pending \ T.mask
    /\ T.at # "dead" =>
         /\ T.nested = 0 => T.fault = {}
         /\ a = IF T.suspend THEN T.oldMask ELSE T.mask
         /\ T.at \in {"user", "preempted", "call"} /\ T.nested = 0 => ~T.suspend

SigInv == SleepInv /\ ProgramInv(sig, asked) /\ MaskInv(sig, asked) /\ ~panic
=============================================================================
