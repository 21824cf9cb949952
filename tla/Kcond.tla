-------------------------------- MODULE Kcond --------------------------------
(***************************************************************************)
(* kernel/kcond.c: a condition variable, used with the mutex of Kmutex.    *)
(* Tasks wait with or without a timeout, and signal with or without the    *)
(* mutex.                                                                  *)
(***************************************************************************)
EXTENDS Kmutex

VARIABLE condQ   \* c->wait_list

kcondVars == <<kmutexVars, condQ>>

KcondTypeOK == KmutexTypeOK /\ condQ \in Seq(Task)

KcondInit == KmutexInit /\ condQ = <<>>

-----------------------------------------------------------------------------
(* Mutant: a new waiter is put at the head of the wait list. *)
KcondWait_AddHead(t, n) ==
  /\ At(t, "cs") /\ lockCount <= 1
  /\ condQ' = <<t>> \o condQ
  /\ timer' = IF n > 0 THEN [timer EXCEPT ![t] = n] ELSE timer
  /\ HandOver([state EXCEPT ![t] = "SLEEPING"], [wobj EXCEPT ![t] = "KCOND"])
  /\ Goto(t, "wait")
  /\ UNCHANGED <<cur, timerReady, pending, panic>>

(* kcond_wait up to the point where the task sleeps.  n = 0 stands for     *)
(* KCOND_WAIT_FOREVER.  Preemption is disabled from prepare_to_wait_on to  *)
(* the sleep, so that unlocking and going to sleep are one step.           *)
KcondWait(t, n) ==
  /\ At(t, "cs") /\ lockCount <= 1
  /\ IF ~CanPrepareToWait(t) \/ ~CanUnlock(t) THEN KmutexPanic /\ UNCHANGED condQ
     ELSE /\ condQ' = Append(condQ, t)
          /\ timer' = IF n > 0 THEN [timer EXCEPT ![t] = n] ELSE timer
          /\ HandOver([state EXCEPT ![t] = "SLEEPING"],
                      [wobj EXCEPT ![t] = "KCOND"])
          /\ Goto(t, "wait")
          /\ UNCHANGED <<cur, timerReady, pending, panic>>

(* Mutant: the wait object of a timed-out task is not reset. *)
KcondWaitWoken_NoReset(t) ==
  /\ At(t, "wait")
  /\ Goto(t, "relock")
  /\ UNCHANGED <<taskVars, mutexVars, condQ>>

(* kcond_wait after the sleep: wait_obj_reset, and then kmutex_lock. *)
KcondWaitWoken(t) ==
  /\ At(t, "wait")
  /\ wobj' = WaitObjReset(wobj, t)
  /\ condQ' = Unlink(condQ, t)
  /\ Goto(t, "relock")
  /\ UNCHANGED <<cur, state, timer, timerReady, pending, panic, mutexVars>>

(* Mutant: the timer of a signalled task is not cancelled. *)
SignalInt_NoCancel(S) ==
  /\ state' = [u \in Task |-> IF u \in S THEN "RUNNABLE" ELSE state[u]]
  /\ wobj' = [u \in Task |-> IF u \in S THEN "NONE" ELSE wobj[u]]
  /\ UNCHANGED <<cur, timer, timerReady, pending, panic, mutexVars, pc>>

(* kcond_signal_int on every task of S: cancel its timer and wake it up.   *)
SignalInt(S) ==
  /\ state' = [u \in Task |-> IF u \in S THEN "RUNNABLE" ELSE state[u]]
  /\ wobj' = [u \in Task |-> IF u \in S THEN "NONE" ELSE wobj[u]]
  /\ timer' = [u \in Task |-> IF u \in S THEN 0 ELSE timer[u]]
  /\ timerReady' = [u \in Task |-> timerReady[u] /\ ~(u \in S /\ timer[u] > 0)]
  /\ UNCHANGED <<cur, pending, panic, mutexVars, pc>>

(* The ASSERT of kcond_signal_int. *)
SignalPanics(S) == \E u \in S : wobj[u] # "KCOND"

(* kcond_signal_one: only the first waiter is considered; when it is not   *)
(* asleep the signal is lost.                                              *)
KcondSignalOne(t) ==
  /\ At(t, "cs") \/ At(t, "out")
  /\ condQ # <<>> /\ state[Head(condQ)] = "SLEEPING"
  /\ IF SignalPanics({Head(condQ)}) THEN KmutexPanic /\ UNCHANGED condQ
     ELSE SignalInt({Head(condQ)}) /\ condQ' = Tail(condQ)

(* kcond_signal_all: the waiters that are no longer asleep stay queued.    *)
KcondSignalAll(t) ==
  /\ At(t, "cs") \/ At(t, "out")
  /\ LET asleep == {u \in Task : InList(condQ, u) /\ state[u] = "SLEEPING"}
         kept == {u \in Task : InList(condQ, u)} \ asleep
     IN  /\ asleep # {}
         /\ IF SignalPanics(asleep) THEN KmutexPanic /\ UNCHANGED condQ
            ELSE /\ SignalInt(asleep)
                 /\ \E rest \in ListsOf(kept, Len(condQ)) :
                      ListReduced(condQ, kept, rest) /\ condQ' = rest

(* Mutant: wake_up leaves the task in the wait list. *)
SendSignalToWaiter_NoUnlink(u) ==
  /\ cur # Idle /\ Running(cur)
  /\ SignalWakesUp(u) /\ wobj[u] = "KCOND"
  /\ pending' = pending \cup {u}
  /\ state' = WakeUp(state, u)
  /\ wobj' = WaitObjReset(wobj, u)
  /\ UNCHANGED <<cur, timer, timerReady, panic, mutexVars, pc, condQ>>

(* A signal sent to a task that sleeps in kcond_wait: wake_up(). *)
SendSignalToWaiter(u) ==
  /\ cur # Idle /\ Running(cur)
  /\ SignalWakesUp(u) /\ wobj[u] = "KCOND"
  /\ pending' = pending \cup {u}
  /\ state' = WakeUp(state, u)
  /\ wobj' = WaitObjReset(wobj, u)
  /\ condQ' = Unlink(condQ, u)
  /\ UNCHANGED <<cur, timer, timerReady, panic, mutexVars, pc>>

-----------------------------------------------------------------------------
KcondStep(t) ==
  \/ KcondWait(t, 0)
  \/ t \in TimedTask /\ \E n \in 1..MaxTicks : KcondWait(t, n)
  \/ KcondWaitWoken(t)
  \/ KcondSignalOne(t) \/ KcondSignalAll(t)

KcondNext ==
  \/ KmutexNext /\ UNCHANGED condQ
  \/ \E t \in Task : KcondStep(t)
  \/ \E u \in UserTask : SendSignalToWaiter(u)

KcondSpec == KcondInit /\ [][KcondNext]_kcondVars

-----------------------------------------------------------------------------
(* No ASSERT of wobj.c, kmutex.c, kcond.c, sched.c or timer.c that is      *)
(* evaluated on these paths ever fails; in particular a task that comes    *)
(* back from kmutex_lock owns the mutex.                                   *)
NoAssertFails == ~panic

(* Nobody sleeps unattended: a sleeping task is in the wait list its wait  *)
(* object names, from where an unlock or a signal will find it, or has an  *)
(* armed timer, or is in sys_pause and no signal has come since it looked. *)
(* And a task that is not asleep is in no mutex wait list.                 *)
SleepersCanBeWoken ==
  \A t \in Task :
    /\ state[t] = "SLEEPING" =>
         \/ timer[t] > 0
         \/ wobj[t] = "KMUTEX" /\ InList(mutexQ, t)
         \/ wobj[t] = "KCOND" /\ InList(condQ, t)
         \/ pc[t] = "pause" /\ t \notin pending
    /\ InList(mutexQ, t) => state[t] = "SLEEPING" /\ owner # NULL

(* The mutex is never given to a task that cannot go on: an owner that is  *)
(* still inside kmutex_lock is awake and in no wait list.                  *)
OwnerIsAwake ==
  owner # NULL /\ pc[owner] # "cs" =>
    /\ pc[owner] = "lock"
    /\ state[owner] # "SLEEPING"
    /\ wobj[owner] = "NONE" /\ ~InList(mutexQ, owner)

(* A wake-up timer is armed only while its task sleeps, so that it cannot  *)
(* go off during a later, unrelated wait.                                  *)
NoStaleTimer ==
  \A t \in Task : timer[t] > 0 \/ timerReady[t] => pc[t] \in {"nap", "wait"}

(* Seen by their callers, kmutex_lock, kmutex_trylock, kmutex_unlock and   *)
(* kcond_wait implement mutual exclusion.                                  *)
Lock == INSTANCE Exclusion WITH Process <- Task,
                                inside <- {t \in Task : pc[t] = "cs"}

MutualExclusion == Lock!Spec

(* And together with kcond_signal_one and kcond_signal_all they implement  *)
(* a monitor: a signal sent after kcond_wait has given up the mutex finds  *)
(* the waiter, waiters are signalled in the order in which they came, and  *)
(* only a wait that has a timeout or can be interrupted by a signal ends   *)
(* by itself.  A waiter that has timed out is still in the list, but its   *)
(* wait is over.                                                           *)
Asleep == {t \in Task : InList(condQ, t) /\ state[t] = "SLEEPING"}

Sleepers == Reduced(condQ, Asleep)

Mon == INSTANCE Monitor WITH Process <- Task,
                             Interruptible <- UserTask \cup TimedTask,
                             inside <- {t \in Task : pc[t] = "cs"},
                             waitQ <- Sleepers

ConditionVariable == Mon!MonitorSpec

-----------------------------------------------------------------------------
(* Liveness.                                                               *)

(* What is assumed: timer IRQs keep coming; do_schedule eventually picks   *)
(* every task that stays ready (it prefers the lowest vruntime, which grows *)
(* with use); a task that keeps getting the CPU goes on, and unlocks as     *)
(* often as it has locked.                                                 *)
OnlyTasks == UNCHANGED <<mutexVars, condQ>>

(* Going on, at each place where a task has no choice, and unlocking. *)
Progress(t) ==
  \/ KmutexLockWoken(t) /\ UNCHANGED condQ
  \/ KmutexUnlock(t) /\ UNCHANGED condQ
  \/ KcondWaitWoken(t)
  \/ At(t, "relock") /\ KmutexLock(t) /\ UNCHANGED condQ
  \/ At(t, "pause") /\ SysPause(t) /\ OnlyTasks

(* The last unlock of a mutex that was locked several times. *)
Release(t) == KmutexUnlock(t) /\ owner' # t /\ UNCHANGED condQ

Fairness ==
  /\ WF_kcondVars(TickAllTimers /\ OnlyTasks)
  /\ \A t \in Task \ {Idle} :
       /\ SF_kcondVars(DoSchedule /\ cur' = t /\ OnlyTasks)
       /\ SF_kcondVars(Progress(t))
       /\ SF_kcondVars(Release(t))

KcondFairSpec == KcondSpec /\ Fairness

(* Nobody starves in kmutex_lock: whoever waits for the mutex gets it,     *)
(* even though trylock and late comers compete for it.                     *)
LockIsGranted == \A t \in Task : pc[t] \in {"lock", "relock"} ~> pc[t] = "cs"

(* kcond_wait with a timeout returns, with the mutex, even when nobody     *)
(* ever signals; and a task in sys_pause that is sent a signal comes back. *)
BoundedWaitEnds ==
  \A t \in Task :
    /\ pc[t] = "wait" /\ timer[t] > 0 ~> pc[t] = "cs"
    /\ pc[t] = "pause" /\ t \in pending ~> pc[t] = "out"

-----------------------------------------------------------------------------
(* The inductive invariant.                                                *)

(* A task that is outside the blocking functions is awake and has neither  *)
(* a wait object nor a timer.                                              *)
AwakeInv ==
  \A t \in Task :
    pc[t] \in {"out", "cs", "relock"} =>
      state[t] # "SLEEPING" /\ wobj[t] = "NONE"

(* An armed timer belongs to a task that sleeps for a bounded time; an     *)
(* expired one to a task that has not been scheduled since.                *)
TimerInv ==
  \A t \in Task :
    /\ timer[t] > 0 => /\ t \in TimedTask
                       /\ state[t] = "SLEEPING" /\ pc[t] \in {"nap", "wait"}
    /\ timerReady[t] => state[t] = "RUNNABLE" /\ pc[t] \in {"nap", "wait"}
    /\ pc[t] = "nap" => wobj[t] = "NONE" /\ (state[t] = "SLEEPING" => timer[t] > 0)
    /\ pc[t] = "pause" => wobj[t] = "NONE" /\ (state[t] = "SLEEPING" => t \notin pending)

(* The owner is inside or on its way in, the other tasks in kmutex_lock    *)
(* are asleep in the wait list.                                            *)
MutexInv ==
  /\ \A t \in Task :
       /\ pc[t] = "cs" => owner = t
       /\ pc[t] = "lock" => IF owner = t
                            THEN state[t] # "SLEEPING" /\ wobj[t] = "NONE"
                            ELSE /\ state[t] = "SLEEPING" /\ wobj[t] = "KMUTEX"
                                 /\ InList(mutexQ, t)
       /\ owner = t => pc[t] \in {"cs", "lock"}
       /\ InList(mutexQ, t) => pc[t] = "lock" /\ owner # t
  /\ Distinct(mutexQ)
  /\ mutexQ # <<>> => owner # NULL
  /\ lockCount = 0 <=> owner = NULL \/ ~Recursive
  /\ owner # NULL /\ pc[owner] = "lock" => lockCount = FirstCount

(* The wait list of the condition holds the tasks in kcond_wait that have  *)
(* not been signalled; those that sleep are among them.                    *)
CondInv ==
  /\ \A t \in Task :
       /\ pc[t] = "wait" => IF InList(condQ, t)
                            THEN wobj[t] = "KCOND"
                            ELSE wobj[t] = "NONE" /\ state[t] # "SLEEPING"
       /\ InList(condQ, t) => pc[t] = "wait"
  /\ Distinct(condQ)

SchedInv ==
  /\ \A t \in Task : state[t] = "RUNNING" => t = cur
  /\ pc[Idle] = "out"
  /\ \A t \in Task : pc[t] # "sem"

KcondInv ==
  /\ KcondTypeOK /\ ~panic
  /\ SchedInv /\ AwakeInv /\ TimerInv /\ MutexInv /\ CondInv

=============================================================================
