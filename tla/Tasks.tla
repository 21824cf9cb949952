------------------------------- MODULE Tasks -------------------------------
(***************************************************************************)
(* What the blocking primitives of the kernel share: the current task, the *)
(* task states, the wait objects (kernel/wobj.c), the wake-up timers       *)
(* (kernel/timer.c) and the scheduler as the primitives see it             *)
(* (do_schedule in kernel/sched.c); and the two ways to sleep that need    *)
(* nothing else: kernel_sleep (kernel/timer.c) and pause (kernel/signal.c). *)
(*                                                                         *)
(* There is one CPU.  A step of the model is one region in which           *)
(* preemption is disabled; the timer IRQ can come between any two of them. *)
(* Which RUNNABLE task do_schedule picks is left open here.                *)
(***************************************************************************)
EXTENDS WaitLists

CONSTANTS
  Task,      \* the tasks, idle_task included
  Idle,      \* idle_task
  UserTask,  \* the tasks that can be sent a signal (not kernel threads)
  TimedTask, \* the tasks that sleep with a wake-up timer
  MaxTicks   \* bound on the length of a timeout, in ticks

ASSUME TaskAssumption ==
  /\ Idle \in Task
  /\ UserTask \subseteq Task \ {Idle}
  /\ TimedTask \subseteq Task \ {Idle}
  /\ MaxTicks \in Nat \ {0}

(* No task that can be sent a signal sleeps with a timer. *)
NoTimedUser == UserTask \cap TimedTask = {}

VARIABLES
  cur,         \* __current
  state,       \* task->state
  wobj,        \* task->wobj.type; "NONE" iff task->wobj.__ptr is NULL
  timer,       \* task->ticks_before_wake_up
  timerReady,  \* task->timer_ready
  pending,     \* the tasks, not in a signal handler, with pending_signals()
  pc,          \* where each task is
  panic        \* an ASSERT failed: the kernel is in panic() and has stopped

taskVars == <<cur, state, wobj, timer, timerReady, pending, panic>>

(* A task becomes a ZOMBIE in kernel/exit.c, which is not part of this model. *)
TaskState == {"RUNNABLE", "RUNNING", "SLEEPING"}

WobjType == {"NONE", "KMUTEX", "KCOND", "SEM"}

(* "out": in no blocking function; "nap": asleep in kernel_sleep;          *)
(* "pause": asleep in sys_pause; "lock": asleep in kmutex_lock; "cs":      *)
(* between lock and unlock; "wait": asleep in kcond_wait; "relock": at the *)
(* end of kcond_wait, about to call kmutex_lock; "sem": asleep in          *)
(* ksem_wait.                                                              *)
Location == {"out", "nap", "pause", "lock", "cs", "wait", "relock", "sem"}

TasksTypeOK ==
  /\ cur \in Task
  /\ state \in [Task -> TaskState]
  /\ wobj \in [Task -> WobjType]
  /\ timer \in [Task -> 0..MaxTicks]
  /\ timerReady \in [Task -> BOOLEAN]
  /\ pending \subseteq UserTask
  /\ pc \in [Task -> Location]
  /\ panic \in BOOLEAN

TasksInit ==
  /\ cur = Idle
  /\ state = [t \in Task |-> IF t = Idle THEN "RUNNING" ELSE "RUNNABLE"]
  /\ wobj = [t \in Task |-> "NONE"]
  /\ timer = [t \in Task |-> 0]
  /\ timerReady = [t \in Task |-> FALSE]
  /\ pending = {}
  /\ pc = [t \in Task |-> "out"]
  /\ panic = FALSE

(* Task t is executing, with preemption enabled. *)
Running(t) == t = cur /\ state[t] = "RUNNING" /\ ~panic

At(t, l) == t # Idle /\ Running(t) /\ pc[t] = l

Goto(t, l) == pc' = [pc EXCEPT ![t] = l]

(* A failed ASSERT. *)
Panic ==
  panic' = TRUE /\ UNCHANGED <<cur, state, wobj, timer, timerReady, pending, pc>>

-----------------------------------------------------------------------------
(* Wait objects.                                                           *)

(* The ASSERTs of prepare_to_wait_on, wait_obj_set and task_change_state.  *)
CanPrepareToWait(t) == state[t] # "SLEEPING" /\ wobj[t] = "NONE"

(* wake_up(t): the new task states.  `t` may be NULL, and is not touched   *)
(* when it is the current task.                                            *)
WakeUp(st, t) ==
  [u \in Task |-> IF u = t /\ u # cur THEN "RUNNABLE" ELSE st[u]]

(* wait_obj_reset(&t->wobj). *)
WaitObjReset(wo, t) == [u \in Task |-> IF u = t THEN "NONE" ELSE wo[u]]

-----------------------------------------------------------------------------
(* Timers.                                                                 *)

(* Mutant: the timer expires but its task is not made RUNNABLE. *)
TickAllTimers_NoWakeUp ==
  /\ ~panic
  /\ \E t \in Task : timer[t] > 0
  /\ timer' = [t \in Task |-> IF timer[t] > 0 THEN timer[t] - 1 ELSE 0]
  /\ timerReady' = [t \in Task |-> timer[t] = 1 \/ timerReady[t]]
  /\ UNCHANGED <<cur, state, wobj, pending, pc, panic>>

(* tick_all_timers(), called by the timer IRQ handler at any moment.  The  *)
(* wait object of a task woken this way is not reset.                      *)
TickAllTimers ==
  /\ ~panic
  /\ \E t \in Task : timer[t] > 0
  /\ timer' = [t \in Task |-> IF timer[t] > 0 THEN timer[t] - 1 ELSE 0]
  /\ timerReady' = [t \in Task |-> timer[t] = 1 \/ timerReady[t]]
  /\ state' = [t \in Task |-> IF timer[t] = 1 /\ state[t] = "SLEEPING"
                              THEN "RUNNABLE" ELSE state[t]]
  /\ UNCHANGED <<cur, wobj, pending, pc, panic>>

-----------------------------------------------------------------------------
(* The scheduler.                                                          *)

(* sched_do_select_runnable_task: who may run next; idle_task runs only    *)
(* when nobody else can.                                                   *)
Selectable ==
  LET ready == {t \in Task \ {Idle} : state[t] \in {"RUNNABLE", "RUNNING"}}
  IN  IF ready = {} THEN {Idle} ELSE ready

(* sched_should_return_immediately: the timer of the current task fired    *)
(* before it gave up the CPU, so it does not sleep at all.                 *)
ReturnImmediately ==
  /\ timerReady[cur]
  /\ state' = [state EXCEPT ![cur] = "RUNNING"]
  /\ timerReady' = [timerReady EXCEPT ![cur] = FALSE]
  /\ UNCHANGED cur

(* switch_to_task(t); a preempted task stays RUNNABLE. *)
SwitchTo(t) ==
  /\ ~timerReady[cur]
  /\ t \in Selectable
  /\ cur' = t
  /\ state' = [u \in Task |-> IF u = t THEN "RUNNING"
                              ELSE IF u = cur /\ state[u] = "RUNNING"
                              THEN "RUNNABLE" ELSE state[u]]
  /\ timerReady' = [timerReady EXCEPT ![t] = FALSE]

(* do_schedule(): called by a task that goes to sleep (its state is no     *)
(* longer RUNNING and preemption is disabled) or on the way out of an IRQ  *)
(* (it is RUNNING and is preempted).                                       *)
DoSchedule ==
  /\ ~panic
  /\ ReturnImmediately \/ \E t \in Task : SwitchTo(t)
  /\ UNCHANGED <<wobj, timer, pending, pc, panic>>

(* panic(): the machine stops. *)
Halted == panic /\ UNCHANGED <<taskVars, pc>>

-----------------------------------------------------------------------------
(* Sleeping without a wait object.                                         *)

(* kernel_sleep(n) for 0 < n < 2^32: do_sleep_internal. *)
KernelSleep(t, n) ==
  /\ At(t, "out")
  /\ state' = [state EXCEPT ![t] = "SLEEPING"]
  /\ timer' = [timer EXCEPT ![t] = n]
  /\ Goto(t, "nap")
  /\ UNCHANGED <<cur, wobj, timerReady, pending, panic>>

(* kernel_sleep returns: the timer expired, or a signal came. *)
KernelSleepWoken(t) ==
  /\ At(t, "nap")
  /\ Goto(t, "out")
  /\ UNCHANGED taskVars

(* Mutant: sys_pause goes to sleep without looking at the signals. *)
SysPause_NoCheck(t) ==
  /\ t \in UserTask
  /\ \/ At(t, "pause") /\ Goto(t, "out") /\ UNCHANGED state
     \/ /\ At(t, "out") /\ Goto(t, "pause")
        /\ state' = [state EXCEPT ![t] = "SLEEPING"]
  /\ UNCHANGED <<cur, wobj, timer, timerReady, pending, panic>>

(* The loop of sys_pause, which runs with preemption disabled between the  *)
(* check for pending signals and the sleep, called outside a signal        *)
(* handler: in one, pending_signals() is false whatever is pending.        *)
SysPause(t) ==
  /\ t \in UserTask
  /\ At(t, "out") \/ At(t, "pause")
  /\ IF t \in pending
     THEN Goto(t, "out") /\ UNCHANGED state
     ELSE Goto(t, "pause") /\ state' = [state EXCEPT ![t] = "SLEEPING"]
  /\ UNCHANGED <<cur, wobj, timer, timerReady, pending, panic>>

(* signal_wakeup_task leaves alone the tasks that wait for a mutex or a    *)
(* semaphore.                                                              *)
SignalWakesUp(u) ==
  /\ state[u] = "SLEEPING"
  /\ wobj[u] \notin {"KMUTEX", "SEM"}

(* send_signal2 with a signal that the task catches, unless the task is in *)
(* a wait list from which it is to be removed (see Kcond).                 *)
SendSignal(u) ==
  /\ cur # Idle /\ Running(cur)
  /\ pending' = pending \cup {u}
  /\ SignalWakesUp(u) => wobj[u] = "NONE"
  /\ state' = IF SignalWakesUp(u) THEN WakeUp(state, u) ELSE state
  /\ UNCHANGED <<cur, wobj, timer, timerReady, pc, panic>>

(* process_signals, on the way back to user mode. *)
ProcessSignals(t) ==
  /\ At(t, "out") /\ t \in pending
  /\ pending' = pending \ {t}
  /\ UNCHANGED <<cur, state, wobj, timer, timerReady, pc, panic>>

TaskStep(t) == KernelSleepWoken(t) \/ SysPause(t) \/ ProcessSignals(t)

TasksNext ==
  \/ TickAllTimers \/ DoSchedule \/ Halted
  \/ \E t \in Task : TaskStep(t)
  \/ \E t \in TimedTask, n \in 1..MaxTicks : KernelSleep(t, n)
  \/ \E u \in UserTask : SendSignal(u)

=============================================================================
