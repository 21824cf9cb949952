-------------------------------- MODULE Wth --------------------------------
(***************************************************************************)
(* A worker thread (kernel/wth.c, kernel/wth_aux.c) over its ring of jobs: *)
(* IRQ handlers and tasks enqueue jobs, the worker runs them and goes to   *)
(* sleep when there are none, tasks wait until it has nothing to do.       *)
(*                                                                         *)
(* One CPU: IRQ handlers nest on top of the current task.  A step is one   *)
(* access to memory that an IRQ handler shares with what it interrupts, or *)
(* one region with preemption disabled where nothing is shared with IRQs.  *)
(* KRN_RESCHED_ENABLE_PREEMPT is off, as it is by default.                 *)
(***************************************************************************)
EXTENDS SafeRingBuf, WaitLists

CONSTANTS
  Irq,      \* the IRQ lines whose handlers enqueue jobs
  Client,   \* the tasks that enqueue jobs and wait for completion
  Worker,   \* t->task
  Idle      \* idle_task

(* The tasks and the IRQ lines are apart; they are the producers of the    *)
(* ring, and their jobs carry their names.                                 *)
ASSUME WthAssumption ==
  /\ Worker # Idle /\ {Worker, Idle} \cap (Irq \cup Client) = {} /\ Irq \cap Client = {}
  /\ Producer = Irq \cup Client /\ Producer \subseteq Job

VARIABLES
  stack,        \* the IRQ handlers in progress, the interrupted ones first
  cur,          \* __current
  state,        \* task->state
  needResched,  \* __need_resched
  waiting,      \* t->waiting_for_jobs
  completionQ,  \* t->completion
  pc

cpuVars == <<stack, cur, state, needResched>>
wthVars == <<safeVars, cpuVars, waiting, completionQ, pc>>

Task == Client \cup {Worker, Idle}

(* A producer is in the ring ("write"), then looks at waiting_for_jobs     *)
(* ("check"), and may be in wth_wakeup.  The worker: see WthRun.  A client *)
(* in wth_wait_for_completion is at the test, before kcond_wait or in it.  *)
Enqueueing == {"write", "check", "wakeup", "cas", "end"}
Running == {"start", "read", "job", "blocked", "empty", "look", "signal", "schedule"}
Waiting == {"test", "wait", "woken"}

WthTypeOK ==
  /\ SafeTypeOK
  /\ stack \in Seq(Irq) /\ Distinct(stack)
  /\ cur \in Task /\ state \in [Task -> {"RUNNABLE", "RUNNING", "SLEEPING"}]
  /\ needResched \in BOOLEAN /\ waiting \in BOOLEAN
  /\ completionQ \in Seq(Client) /\ Distinct(completionQ)
  /\ pc \in [Irq \cup Task -> {"out"} \cup Enqueueing \cup Running \cup Waiting]

(* wth_create_thread, when nothing fails, as init_worker_threads calls it. *)
WthInit ==
  /\ SafeInit
  /\ stack = <<>> /\ cur = Idle /\ needResched = FALSE
  /\ state = [t \in Task |-> IF t = Idle THEN "RUNNING" ELSE "RUNNABLE"]
  /\ waiting = FALSE /\ completionQ = <<>>
  /\ pc = [c \in Irq \cup Task |-> IF c = Worker THEN "start" ELSE "out"]

(* Context c is the one that the CPU executes, and is at l. *)
At(c, l) == pc[c] = l /\ c = (IF stack = <<>> THEN cur ELSE stack[Len(stack)])

Goto(c, l) == pc' = [pc EXCEPT ![c] = l]

-----------------------------------------------------------------------------
(* The scheduler.                                                          *)

(* wth_get_runnable_thread comes first; then a RUNNABLE task, or the       *)
(* current one; then idle_task.                                            *)
Selectable(st) ==
  LET ready == {t \in Client : st[t] = "RUNNABLE"}
               \cup {t \in {cur} \ {Idle} : st[t] = "RUNNING"}
  IN  IF st[Worker] = "RUNNABLE" THEN {Worker}
      ELSE IF ready = {} THEN {Idle} ELSE ready

(* do_schedule, in task states st.  A current task that is selected again  *)
(* keeps its state.                                                        *)
DoSchedule(st) ==
  /\ \E t \in Selectable(st) :
       /\ cur' = t
       /\ state' = IF t = cur THEN st
                   ELSE [u \in Task |-> IF u = t THEN "RUNNING"
                                        ELSE IF u = cur /\ st[u] = "RUNNING" THEN "RUNNABLE"
                                        ELSE st[u]]
  /\ needResched' = FALSE

(* Mutant: disable_preemption is not respected. *)
IrqExit_Preempts(below, st, resched) ==
  IF resched /\ below = <<>>
  THEN DoSchedule(st)
  ELSE state' = st /\ needResched' = resched /\ UNCHANGED cur

(* The end of irq_entry: reschedule if no other IRQ handler and no         *)
(* disable_preemption was interrupted.                                     *)
IrqExit(below, st, resched) ==
  IF resched /\ below = <<>> /\ pc[cur] \notin Enqueueing
  THEN DoSchedule(st)
  ELSE state' = st /\ needResched' = resched /\ UNCHANGED cur

(* Mutant: a timeout wakes nobody up. *)
TimerIrq_NoTimers(timeout, S) ==
  /\ S = {}
  /\ IrqExit(stack, state, needResched \/ state[cur] # "RUNNING" \/ (timeout /\ cur # Worker))
  /\ UNCHANGED <<safeVars, stack, waiting, completionQ, pc>>

(* The timer IRQ: sched_account_ticks (the time slice of a task that is    *)
(* not a worker may be over) and tick_all_timers, which wakes up some of   *)
(* the clients in kcond_wait.                                              *)
TimerIrq(timeout, S) ==
  /\ \A c \in S : pc[c] = "woken" /\ state[c] = "SLEEPING"
  /\ IrqExit(stack,
             [t \in Task |-> IF t \in S THEN "RUNNABLE" ELSE state[t]],
             needResched \/ state[cur] # "RUNNING" \/ (timeout /\ cur # Worker) \/ S # {})
  /\ UNCHANGED <<safeVars, stack, waiting, completionQ, pc>>

-----------------------------------------------------------------------------
(* wth_enqueue_on, in an IRQ handler or in a task.                         *)

(* The IRQ comes: interrupts are enabled everywhere but inside a step. *)
Interrupt(i) ==
  /\ ~InList(stack, i)
  /\ SafeWriteBegin(i, i)
  /\ stack' = Append(stack, i) /\ Goto(i, "write")
  /\ UNCHANGED <<cur, state, needResched, waiting, completionQ>>

CallEnqueue(c) ==
  /\ At(c, "out") /\ SafeWriteBegin(c, c)
  /\ Goto(c, "write")
  /\ UNCHANGED <<cpuVars, waiting, completionQ>>

(* Mutant: the worker is woken up only if the ring was not empty. *)
RingWrite_NotEmpty(c) ==
  /\ At(c, "write") /\ Write(c)
  /\ Goto(c, IF w'[c].pc # "out" THEN "write"
             ELSE IF w[c].pc = "store" /\ ~IsEmpty(w[c].cs) THEN "check" ELSE "end")
  /\ UNCHANGED <<cpuVars, waiting, completionQ>>

(* safe_ringbuf_write_elem; when it is done, what it returns decides. *)
RingWrite(c) ==
  /\ At(c, "write") /\ Write(c)
  /\ Goto(c, IF w'[c].pc # "out" THEN "write"
             ELSE IF w[c].pc = "store" /\ IsEmpty(w[c].cs) THEN "check" ELSE "end")
  /\ UNCHANGED <<cpuVars, waiting, completionQ>>

(* Mutant: the worker is woken up also when it sleeps for another reason. *)
CheckWaiting_Always(c) ==
  /\ At(c, "check")
  /\ Goto(c, "wakeup")
  /\ UNCHANGED <<safeVars, cpuVars, waiting, completionQ>>

CheckWaiting(c) ==
  /\ At(c, "check")
  /\ Goto(c, IF waiting THEN "wakeup" ELSE "end")
  /\ UNCHANGED <<safeVars, cpuVars, waiting, completionQ>>

(* Mutant: waiting_for_jobs stays set. *)
WthWakeup_KeepsFlag(c) ==
  /\ At(c, "wakeup")
  /\ Goto(c, "cas")
  /\ UNCHANGED <<safeVars, cpuVars, waiting, completionQ>>

(* wth_wakeup: the flag, and then the state of the worker.  The request to *)
(* reschedule comes with the latter: an interrupt between the two does not *)
(* switch, because the handler is nested or the client is not preemptible. *)
WthWakeup(c) ==
  /\ At(c, "wakeup")
  /\ waiting' = FALSE
  /\ Goto(c, "cas")
  /\ UNCHANGED <<safeVars, cpuVars, completionQ>>

WthWakeupCas(c) ==
  /\ At(c, "cas")
  /\ state' = [state EXCEPT ![Worker] = IF @ = "SLEEPING" THEN "RUNNABLE" ELSE @]
  /\ needResched' = (needResched \/ cur # Worker)
  /\ Goto(c, "end")
  /\ UNCHANGED <<safeVars, stack, cur, waiting, completionQ>>

(* pop_nested_interrupt: the handler on top is done. *)
Popped(q) == SubSeq(q, 1, Len(q) - 1)

(* The handler returns; a task only enables preemption. *)
EnqueueEnd(c) ==
  /\ At(c, "end")
  /\ Goto(c, "out")
  /\ IF c \in Irq
     THEN stack' = Popped(stack) /\ IrqExit(stack', state, needResched)
     ELSE UNCHANGED cpuVars
  /\ UNCHANGED <<safeVars, waiting, completionQ>>

Enqueue(c) ==
  RingWrite(c) \/ CheckWaiting(c) \/ WthWakeup(c) \/ WthWakeupCas(c) \/ EnqueueEnd(c)

-----------------------------------------------------------------------------
(* wth_run.                                                                *)

WthStart ==
  /\ At(Worker, "start")
  /\ waiting' = FALSE /\ Goto(Worker, "read")
  /\ UNCHANGED <<safeVars, cpuVars, completionQ>>

(* safe_ringbuf_read_elem in wth_process_single_job. *)
RingRead ==
  /\ At(Worker, "read") /\ Read
  /\ Goto(Worker, IF rd'.pc # "out" THEN "read" ELSE IF rd.pc = "cas" THEN "job" ELSE "empty")
  /\ UNCHANGED <<cpuVars, waiting, completionQ>>

(* The job ends. *)
JobEnds ==
  /\ At(Worker, "job")
  /\ Goto(Worker, "read")
  /\ UNCHANGED <<safeVars, cpuVars, waiting, completionQ>>

(* The job waits for something, say a mutex, and gets it. *)
JobSleeps ==
  /\ At(Worker, "job")
  /\ Goto(Worker, "blocked")
  /\ DoSchedule([state EXCEPT ![Worker] = "SLEEPING"])
  /\ UNCHANGED <<safeVars, stack, waiting, completionQ>>

JobIsWoken ==
  /\ pc[Worker] = "blocked" /\ cur # Worker
  /\ Goto(Worker, "job")
  /\ state' = [state EXCEPT ![Worker] = "RUNNABLE"]
  /\ UNCHANGED <<safeVars, stack, cur, needResched, waiting, completionQ>>

(* Mutant: the look at the ring and the sleep are not one step. *)
WthEmpty_NoCheck ==
  /\ At(Worker, "empty")
  /\ state' = [state EXCEPT ![Worker] = "SLEEPING"] /\ waiting' = TRUE
  /\ Goto(Worker, "look")
  /\ UNCHANGED <<safeVars, stack, cur, needResched, completionQ>>

(* The last look at the ring, with interrupts disabled. *)
WthEmpty ==
  /\ At(Worker, "empty")
  /\ IF IsEmpty(stat)
     THEN state' = [state EXCEPT ![Worker] = "SLEEPING"] /\ waiting' = TRUE
     ELSE UNCHANGED <<state, waiting>>
  /\ Goto(Worker, "look")
  /\ UNCHANGED <<safeVars, stack, cur, needResched, completionQ>>

WthLook ==
  /\ At(Worker, "look")
  /\ Goto(Worker, IF waiting THEN "signal" ELSE "start")
  /\ UNCHANGED <<safeVars, cpuVars, waiting, completionQ>>

(* kcond_signal_all: those that a timeout has woken up stay in the list. *)
WthSignal ==
  /\ At(Worker, "signal")
  /\ state' = [t \in Task |-> IF InList(completionQ, t) /\ state[t] = "SLEEPING"
                              THEN "RUNNABLE" ELSE state[t]]
  /\ completionQ' = SelectSeq(completionQ, LAMBDA c : state[c] # "SLEEPING")
  /\ Goto(Worker, "schedule")
  /\ UNCHANGED <<safeVars, stack, cur, needResched, waiting>>

WthSchedule ==
  /\ At(Worker, "schedule")
  /\ Goto(Worker, "start")
  /\ DoSchedule(state)
  /\ UNCHANGED <<safeVars, stack, waiting, completionQ>>

WthRun ==
  \/ WthStart \/ RingRead \/ JobEnds \/ WthEmpty \/ WthLook \/ WthSignal \/ WthSchedule

-----------------------------------------------------------------------------
(* wth_wait_for_completion.                                                *)

CallWait(c) ==
  /\ At(c, "out")
  /\ Goto(c, "test")
  /\ UNCHANGED <<safeVars, cpuVars, waiting, completionQ>>

TestWaiting(c) ==
  /\ At(c, "test")
  /\ Goto(c, IF waiting THEN "out" ELSE "wait")
  /\ UNCHANGED <<safeVars, cpuVars, waiting, completionQ>>

(* kcond_wait without a mutex; TimerIrq has the end of the timeout. *)
KcondWait(c) ==
  /\ At(c, "wait")
  /\ completionQ' = Append(completionQ, c)
  /\ Goto(c, "woken")
  /\ DoSchedule([state EXCEPT ![c] = "SLEEPING"])
  /\ UNCHANGED <<safeVars, stack, waiting>>

KcondWoken(c) ==
  /\ At(c, "woken")
  /\ completionQ' = Unlink(completionQ, c)
  /\ Goto(c, "test")
  /\ UNCHANGED <<safeVars, cpuVars, waiting>>

WaitForCompletion(c) == TestWaiting(c) \/ KcondWait(c) \/ KcondWoken(c)

WthNext ==
  \/ \E timeout \in BOOLEAN, S \in SUBSET Client : TimerIrq(timeout, S)
  \/ \E i \in Irq : Interrupt(i) \/ Enqueue(i)
  \/ WthRun \/ JobSleeps \/ JobIsWoken
  \/ \E c \in Client : CallEnqueue(c) \/ Enqueue(c) \/ CallWait(c) \/ WaitForCompletion(c)

WthSpec == WthInit /\ [][WthNext]_wthVars

-----------------------------------------------------------------------------
(* The worker and the tasks keep to what safe_ringbuf.h asks for, so that  *)
(* the panic of begin_debug_read_checks is never reached: nobody reads the *)
(* ring while a write is interrupted.                                      *)
RingIsUsedAsDocumented == SafeSpec

(* The worker sleeps, or is about to, and not in a job. *)
Asleep == state[Worker] = "SLEEPING" /\ pc[Worker] # "blocked"

(* A job is not left in the ring of a sleeping worker: when there is one,  *)
(* somebody in wth_enqueue_on is about to wake the worker up, also between *)
(* the two steps of wth_wakeup, when waiting_for_jobs is reset already.    *)
NoJobForgotten ==
  Jobs # <<>> /\ Asleep =>
    \E c \in Irq \cup Client : pc[c] \in {"write", "check", "wakeup", "cas"}

(* When wth_wait_for_completion returns, there is no job in the ring and   *)
(* none is running, although waiting_for_jobs is read without a lock.      *)
CompletionIsReal ==
  [][\A c \in Client :
       pc[c] = "test" /\ pc'[c] = "out" => Jobs = <<>> /\ pc[Worker] \notin {"job", "blocked"}]_wthVars

(* A job that sleeps is not woken up by the arrival of another job, but by *)
(* what it waits for: "we don't care whether atomic_cas_strong() succeeded" *)
(* relies on waiting_for_jobs.                                             *)
JobSleepsUndisturbed ==
  [][pc[Worker] = "blocked" /\ pc'[Worker] = "blocked" => state'[Worker] = "SLEEPING"]_wthVars

(* Every context goes on when it gets the CPU again and again, what a job  *)
(* waits for happens, timeouts expire, and a task that is ready again and  *)
(* again is eventually picked.                                             *)
WthFairness ==
  /\ SF_wthVars(WthRun) /\ WF_wthVars(JobIsWoken)
  /\ \A i \in Irq : SF_wthVars(Enqueue(i))
  /\ \A c \in Client :
       /\ SF_wthVars(Enqueue(c) \/ WaitForCompletion(c))
       /\ SF_wthVars(TimerIrq(TRUE, {c}))
  /\ \A t \in Client \cup {Worker} : SF_wthVars(cur # t /\ TimerIrq(TRUE, {}) /\ cur' = t)

WthFairSpec == WthSpec /\ WthFairness

(* A job that has been accepted is run, also when IRQ handlers keep the    *)
(* ring full and make the consumer's CAS fail again and again.             *)
JobsAreRun == Jobs # <<>> ~> pc[Worker] = "job"

(* wth_wait_for_completion ends when the worker has nothing to do any      *)
(* more: the flag is tested and the wait begun in two steps, so that the   *)
(* signal may be missed, and the timeout must make up for it.              *)
CompletionIsSeen ==
  \A c \in Client : <>[]waiting => []<>(pc[c] \notin Waiting)

-----------------------------------------------------------------------------
(* The inductive invariant.  A handler is in progress exactly while it     *)
(* enqueues, and a task that enqueues cannot be preempted.                 *)
PlacesInv ==
  /\ stack \in Seq(Irq) /\ Distinct(stack)
  /\ cur \in Task /\ state \in [Task -> {"RUNNABLE", "RUNNING", "SLEEPING"}]
  /\ pc \in [Irq \cup Task -> {"out"} \cup Enqueueing \cup Running \cup Waiting]
  /\ pc[Worker] \in Running /\ pc[Idle] = "out"
  /\ \A i \in Irq : pc[i] \in {"out"} \cup Enqueueing /\ (pc[i] # "out" <=> InList(stack, i))
  /\ \A c \in Client :
       pc[c] \in {"out"} \cup Enqueueing \cup Waiting /\ (pc[c] \in Enqueueing => c = cur)

(* The writes nest as the contexts do: a write that began later is one of  *)
(* a handler on top of the writer that began earlier.                      *)
WritesNest ==
  \A i, j \in 1..Len(writers) : i < j =>
    \E k \in 1..Len(stack) :
      stack[k] = writers[j] /\ \A l \in k..Len(stack) : stack[l] # writers[i]

NestInv == WritesNest /\ \A p \in Producer : pc[p] = "write" <=> IsWriting(p)

(* The worker has announced that it waits for jobs, and whoever put a job  *)
(* into the empty ring since then has still to look at the flag.           *)
WakeInv ==
  /\ waiting \in BOOLEAN
  /\ pc[Worker] = "blocked" => state[Worker] = "SLEEPING"
  /\ waiting \/ (\E c \in Irq \cup Client : pc[c] \in {"wakeup", "cas"}) =>
       pc[Worker] \in {"start", "look", "signal", "schedule"}
  /\ waiting /\ ~IsEmpty(stat) =>
       \E c \in Irq \cup Client :
         \/ pc[c] = "write" /\ Storing(c) /\ IsEmpty(w[c].cs)
         \/ pc[c] \in {"check", "wakeup"}

(* Whoever resets the flag of a sleeping worker goes on to wake it up.     *)
AsleepInv ==
  /\ Asleep => waiting \/ \E c \in Irq \cup Client : pc[c] = "cas"
  /\ cur = Worker /\ pc[Worker] = "start" => state[Worker] # "SLEEPING"

WthInv == SafeInv /\ PlacesInv /\ NestInv /\ WakeInv /\ AsleepInv

=============================================================================
