-------------------------------- MODULE Ksem --------------------------------
(***************************************************************************)
(* kernel/ksem.c: a counting semaphore.  Unlike kmutex_unlock, ksem_signal *)
(* does not hand anything over: it adds to the counter and wakes up the    *)
(* waiters that the counter could serve, and each of them looks again when *)
(* it runs.  A task that never slept may have been faster.                 *)
(***************************************************************************)
EXTENDS Tasks, Integers, FiniteSets

CONSTANTS
  SemInit,    \* the initial value of the counter
  SemMax,     \* s->max
  WaitUnits,  \* the numbers of units that tasks wait for
  SignalUnits, \* the numbers of units that tasks signal
  WaitTicks   \* the timeouts of ksem_wait, 0 for KSEM_WAIT_FOREVER

ASSUME KsemAssumption ==
  /\ SemMax \in Nat \ {0} /\ SemInit \in 0..SemMax
  /\ WaitUnits \subseteq Nat \ {0} /\ SignalUnits \subseteq Nat \ {0}
  /\ WaitTicks \subseteq 0..MaxTicks

VARIABLES
  counter,  \* s->counter
  semQ,     \* s->wait_list
  want,     \* the units each task asked for last; wo->extra while it is queued
  slack     \* get_ticks() >= end_ticks iff timer <= slack; -1: no timeout

semVars == <<counter, semQ, want, slack>>
ksemVars == <<taskVars, pc, semVars>>

KsemTypeOK ==
  /\ TasksTypeOK
  /\ counter \in 0..SemMax
  /\ semQ \in Seq(Task)
  /\ want \in [Task -> Nat]
  /\ slack \in [Task -> {-1, 0, 1}]

KsemInit ==
  /\ TasksInit
  /\ counter = SemInit
  /\ semQ = <<>>
  /\ want = [t \in Task |-> 0]
  /\ slack = [t \in Task |-> -1]

KsemPanic == Panic /\ UNCHANGED semVars

-----------------------------------------------------------------------------
(* prepare_to_wait_on and enter_sleep_wait_state. *)
SemSleep(t) ==
  IF ~CanPrepareToWait(t)
  THEN panic' = TRUE /\ UNCHANGED <<state, wobj, pc, semQ>>
  ELSE /\ semQ' = Append(semQ, t)
       /\ wobj' = [wobj EXCEPT ![t] = "SEM"]
       /\ state' = [state EXCEPT ![t] = "SLEEPING"]
       /\ Goto(t, "sem")
       /\ UNCHANGED panic

(* ksem_wait(s, u, n) of a task that gets the units at once. *)
KsemWaitFree(t, u) ==
  /\ At(t, "out") /\ u <= SemMax /\ counter >= u
  /\ counter' = counter - u
  /\ UNCHANGED <<taskVars, pc, semQ, want, slack>>

(* ksem_wait(s, u, n) of a task that has to wait.  When a tick comes       *)
(* between reading the clock and arming the timer, the timer goes off one  *)
(* tick after the deadline.                                                *)
KsemWaitBusy(t, u, n) ==
  /\ At(t, "out") /\ u <= SemMax /\ counter < u
  /\ want' = [want EXCEPT ![t] = u]
  /\ IF n = 0
     THEN UNCHANGED timer /\ slack' = [slack EXCEPT ![t] = -1]
     ELSE /\ timer' = [timer EXCEPT ![t] = n]
          /\ \E late \in {0, 1} : late < n /\ slack' = [slack EXCEPT ![t] = late]
  /\ SemSleep(t)
  /\ UNCHANGED <<cur, timerReady, pending, counter>>

(* task_cancel_wakeup_timer. *)
CancelTimer(t) ==
  /\ timer' = [timer EXCEPT ![t] = 0]
  /\ timerReady' = [timerReady EXCEPT ![t] = timerReady[t] /\ timer[t] = 0]

(* Mutant: a woken task takes its units without looking at the counter,    *)
(* as if ksem_signal had reserved them.                                    *)
KsemWoken_NoRecheck(t) ==
  /\ At(t, "sem")
  /\ counter' = counter - want[t]
  /\ Goto(t, "out")
  /\ UNCHANGED <<taskVars, semQ, want, slack>>

(* The loop of ksem_do_wait once the task runs again: there are units, or  *)
(* it is too late, or it sleeps once more.                                 *)
KsemWoken(t) ==
  /\ At(t, "sem")
  /\ LET served == counter >= want[t]
         late == timer[t] <= slack[t]
     IN  IF served \/ late
         THEN /\ counter' = IF served THEN counter - want[t] ELSE counter
              /\ IF slack[t] >= 0 THEN CancelTimer(t) ELSE UNCHANGED <<timer, timerReady>>
              /\ Goto(t, "out")
              /\ UNCHANGED <<state, wobj, semQ, panic>>
         ELSE SemSleep(t) /\ UNCHANGED <<timer, timerReady, counter>>
  /\ UNCHANGED <<cur, pending, want, slack>>

-----------------------------------------------------------------------------
(* The walk of ksem_signal over the wait list, with c units in the         *)
(* counter: what is left for the i-th waiter.                              *)
Left(c) ==
  LET left[i \in 1..Len(semQ) + 1] ==
        IF i = 1 THEN c
        ELSE LET w == want[semQ[i - 1]]
             IN  IF w <= left[i - 1] THEN left[i - 1] - w ELSE left[i - 1]
  IN  left

(* The waiters that ksem_signal wakes up. *)
Served(c) == {semQ[i] : i \in {j \in 1..Len(semQ) : want[semQ[j]] <= Left(c)[j]}}

(* Mutant: only the first waiter is considered, as in kcond_signal_one. *)
KsemSignal_HeadOnly(t, u) ==
  /\ At(t, "out") /\ u <= SemMax /\ counter <= SemMax - u
  /\ counter' = counter + u
  /\ IF semQ = <<>> \/ want[Head(semQ)] > counter + u
     THEN UNCHANGED <<state, wobj, semQ>>
     ELSE /\ state' = WakeUp(state, Head(semQ))
          /\ wobj' = WaitObjReset(wobj, Head(semQ))
          /\ semQ' = Tail(semQ)
  /\ UNCHANGED <<cur, timer, timerReady, pending, pc, panic, want, slack>>

(* Mutant: nobody is woken up. *)
KsemSignal_NoWakeUp(t, u) ==
  /\ At(t, "out") /\ u <= SemMax /\ counter <= SemMax - u
  /\ counter' = counter + u
  /\ UNCHANGED <<taskVars, pc, semQ, want, slack>>

(* ksem_signal(s, u), unless it fails with -EINVAL or -EDQUOT. *)
KsemSignal(t, u) ==
  /\ At(t, "out") /\ u <= SemMax /\ counter <= SemMax - u
  /\ LET woken == Served(counter + u)
     IN  IF \E w \in woken : wobj[w] # "SEM" THEN KsemPanic
         ELSE /\ counter' = counter + u
              /\ state' = [w \in Task |-> IF w \in woken \ {cur} THEN "RUNNABLE" ELSE state[w]]
              /\ wobj' = [w \in Task |-> IF w \in woken THEN "NONE" ELSE wobj[w]]
              /\ LET kept == {w \in Task : InList(semQ, w)} \ woken
                 IN  \E rest \in ListsOf(kept, Len(semQ)) :
                       ListReduced(semQ, kept, rest) /\ semQ' = rest
              /\ UNCHANGED <<cur, timer, timerReady, pending, pc, panic, want, slack>>

-----------------------------------------------------------------------------
KsemStep(t) ==
  \/ \E u \in SignalUnits : KsemSignal(t, u)
  \/ \E u \in WaitUnits : KsemWaitFree(t, u)
  \/ \E u \in WaitUnits, n \in WaitTicks : (n > 0 => t \in TimedTask) /\ KsemWaitBusy(t, u, n)
  \/ KsemWoken(t)

KsemNext ==
  \/ \E t \in Task : KsemStep(t)
  \/ TasksNext /\ UNCHANGED semVars

KsemSpec == KsemInit /\ [][KsemNext]_ksemVars

-----------------------------------------------------------------------------
(* No ASSERT of ksem.c or wobj.c fails; in particular a task that starts   *)
(* to wait is in no wait list (wobj.c:20).                                 *)
NoAssertFails == ~panic

(* What each task in ksem_wait is waiting for. *)
Asked == [t \in Task |-> IF pc[t] = "sem" THEN want[t] ELSE 0]

Sem == INSTANCE Semaphore WITH
         Client <- Task, Start <- SemInit, Max <- SemMax, TakeUnits <- WaitUnits,
         GiveUnits <- SignalUnits, units <- counter, asked <- Asked

(* Whatever the timeouts and the signals do to the sleeping tasks, the     *)
(* units are right: ksem_wait takes all that it asked for or nothing, and  *)
(* nothing only when there is not enough.                                  *)
UnitsAreAccountedFor == Sem!Spec

(* Its inductive invariant. *)
UnitsInv ==
  /\ counter \in 0..SemMax
  /\ pc \in [Task -> Location] /\ want \in [Task -> Nat]
  /\ \A t \in Task : pc[t] = "sem" => want[t] \in WaitUnits

(* The tasks that were woken up in ksem_wait and have not looked yet. *)
Awake == {t \in Task : pc[t] = "sem" /\ state[t] # "SLEEPING"}

(* While someone sleeps in the list, every unit in the counter has a task  *)
(* that is awake inside ksem_wait and will look at it.                     *)
UnitsAreWatched == semQ # <<>> => counter <= Cardinality(Awake)

(* Nobody waits for more than one unit. *)
OneEach == \A t \in Task : want[t] <= 1

(* No lost wake-up, although the units are not reserved for the tasks that *)
(* ksem_signal wakes up (ksem.c:108): while there are units that a         *)
(* sleeping task could have, at least as many tasks are awake and about to *)
(* look at the counter, as long as each waits for one unit.                *)
SingleUnitsAreWatched == []OneEach => []UnitsAreWatched

(* A task sleeps in ksem_wait iff it is in the wait list: a signal (as in  *)
(* kill) does not wake it up, and it cannot be there twice.                *)
SleepersAreQueued ==
  /\ \A t \in Task : InList(semQ, t) <=> pc[t] = "sem" /\ state[t] = "SLEEPING"
  /\ Distinct(semQ)

(* The inductive invariant, without timeouts: what holds of each task, and *)
(* of the whole.                                                           *)
SemTaskInv(t) ==
  /\ pc[t] \in {"out", "nap", "pause", "sem"}
  /\ state[t] = "RUNNING" => t = cur
  /\ pc[t] = "out" => state[t] # "SLEEPING"
  /\ InList(semQ, t) <=> pc[t] = "sem" /\ state[t] = "SLEEPING"
  /\ wobj[t] = IF InList(semQ, t) THEN "SEM" ELSE "NONE"
  /\ timer[t] > 0 => t \in TimedTask /\ pc[t] = "nap" /\ state[t] = "SLEEPING"
  /\ timerReady[t] => pc[t] = "nap" /\ state[t] = "RUNNABLE"
  /\ slack[t] = -1

SemInv ==
  /\ KsemTypeOK /\ ~panic
  /\ pc[Idle] = "out"
  /\ Distinct(semQ)
  /\ \A t \in Task : SemTaskInv(t)

(* With it, what keeps the units watched while everybody waits for one.    *)
WatchInv ==
  /\ UnitsAreWatched
  /\ \A t \in Task : pc[t] = "sem" => want[t] # 0

SemFairness ==
  /\ WF_ksemVars(TickAllTimers /\ UNCHANGED semVars)
  /\ \A t \in Task \ {Idle} :
       /\ SF_ksemVars(DoSchedule /\ cur' = t /\ UNCHANGED semVars)
       /\ SF_ksemVars(KsemWoken(t))

KsemFairSpec == KsemSpec /\ SemFairness

(* A task that waits for one unit, as the others do, can be overtaken any  *)
(* number of times, but it cannot be forgotten: when from some time on     *)
(* there are always units, everybody in ksem_wait comes out.               *)
SingleWaitersAreServed ==
  []OneEach /\ <>[](counter > 0) => \A t \in Task : pc[t] = "sem" ~> pc[t] = "out"

=============================================================================
