----------------------------- MODULE KsemProofs -----------------------------
(***************************************************************************)
(* Proofs about Ksem for any numbers of tasks and units: its wait list     *)
(* without timeouts, and its units with any.                               *)
(***************************************************************************)
EXTENDS Ksem, WaitListsProofs, FiniteSetTheorems

(* The semaphore starts in the invariant. *)
LEMMA SemInitInv == KsemInit => SemInv
<1> SUFFICES ASSUME KsemInit PROVE SemInv
  OBVIOUS
<1> USE TaskAssumption, KsemAssumption DEF KsemInit, TasksInit
<1>1. KsemTypeOK
  <2>1. timerReady \in [Task -> BOOLEAN] /\ panic \in BOOLEAN
    BY Zenon
  <2>2. timer \in [Task -> 0..MaxTicks] /\ want \in [Task -> Nat]
    OBVIOUS
  <2>3. state \in [Task -> TaskState] /\ wobj \in [Task -> WobjType]
    BY Zenon DEF TaskState, WobjType
  <2>4. slack \in [Task -> {-1, 0, 1}] /\ semQ \in Seq(Task)
    OBVIOUS
  <2>. QED
    BY Zenon, <2>1, <2>2, <2>3, <2>4 DEF KsemTypeOK, TasksTypeOK, Location
<1>2. \A t \in Task : SemTaskInv(t)
  BY DEF SemTaskInv, InList
<1>. QED
  BY <1>1, <1>2 DEF SemInv, Distinct

(* The timer IRQ wakes up only tasks that are in kernel_sleep, never one   *)
(* that waits for the semaphore.                                           *)
LEMMA SemTickInv ==
  ASSUME SemInv, TickAllTimers, UNCHANGED semVars
  PROVE  SemInv'
<1> USE TaskAssumption, KsemAssumption
<1>1. /\ UNCHANGED <<cur, wobj, pending, pc, panic, counter, semQ, want, slack>>
      /\ KsemTypeOK /\ ~panic /\ pc[Idle] = "out" /\ Distinct(semQ)
  BY Zenon DEF TickAllTimers, semVars, SemInv
<1>2. KsemTypeOK'
  BY SMTT(60), <1>1 DEF KsemTypeOK, TasksTypeOK, TaskState, TickAllTimers
<1>3. ASSUME NEW t \in Task PROVE SemTaskInv(t)'
  <2>1. SemTaskInv(t) /\ timer[t] \in 0..MaxTicks
    BY Zenon, <1>1 DEF SemInv, KsemTypeOK, TasksTypeOK
  <2>2. /\ timer'[t] = IF timer[t] > 0 THEN timer[t] - 1 ELSE 0
        /\ timerReady'[t] <=> (timer[t] = 1 \/ timerReady[t])
        /\ state'[t] = IF timer[t] = 1 /\ state[t] = "SLEEPING"
                       THEN "RUNNABLE" ELSE state[t]
    BY ZenonT(60) DEF TickAllTimers
  <2>. QED
    BY SMTT(60), <1>1, <2>1, <2>2 DEF SemTaskInv
<1>. QED
  BY Zenon, <1>1, <1>2, <1>3 DEF SemInv

(* Neither does the scheduler. *)
LEMMA SemScheduleInv ==
  ASSUME SemInv, DoSchedule, UNCHANGED semVars
  PROVE  SemInv'
<1> USE TaskAssumption, KsemAssumption
<1>1. /\ UNCHANGED <<wobj, timer, pending, pc, panic, counter, semQ, want, slack>>
      /\ KsemTypeOK /\ ~panic /\ pc[Idle] = "out" /\ Distinct(semQ)
      /\ \A t \in Task : SemTaskInv(t)
  BY Zenon DEF DoSchedule, semVars, SemInv
<1>2. KsemTypeOK'
  BY ZenonT(60), <1>1 DEF KsemTypeOK, TasksTypeOK, TaskState, DoSchedule, ReturnImmediately,
              SwitchTo, Selectable
<1>3. \A t \in Task : /\ (state[t] = "SLEEPING") <=> (state'[t] = "SLEEPING")
                      /\ timerReady'[t] => timerReady[t] /\ state'[t] = "RUNNABLE"
                      /\ state'[t] = "RUNNING" => t = cur'
  BY SMTT(60), <1>1 DEF KsemTypeOK, TasksTypeOK, TaskState, SemTaskInv, DoSchedule,
              ReturnImmediately, SwitchTo, Selectable
<1>4. ASSUME NEW t \in Task PROVE SemTaskInv(t)'
  BY Zenon, <1>1, <1>3 DEF SemTaskInv
<1>. QED
  BY Zenon, <1>1, <1>2, <1>4 DEF SemInv

(* kernel_sleep, sys_pause and process_signals do not touch the semaphore. *)
LEMMA SemSleepInv ==
  ASSUME SemInv, NEW t \in Task, UNCHANGED semVars,
         \/ TaskStep(t)
         \/ t \in TimedTask /\ \E n \in 1..MaxTicks : KernelSleep(t, n)
  PROVE  SemInv'
<1> USE TaskAssumption, KsemAssumption
<1>0. /\ t # Idle /\ t = cur /\ state[t] = "RUNNING" /\ ~panic
      /\ pc[t] \in {"out", "nap", "pause"}
      /\ KsemTypeOK /\ pc[Idle] = "out" /\ Distinct(semQ)
      /\ \A u \in Task : SemTaskInv(u)
  BY Zenon DEF SemInv, TaskStep, KernelSleep, KernelSleepWoken, SysPause, ProcessSignals, At, Running
<1>1. /\ UNCHANGED <<cur, wobj, timerReady, panic, counter, semQ, want, slack>>
      /\ pending' \subseteq UserTask
  BY Zenon, <1>0 DEF TaskStep, KernelSleep, KernelSleepWoken, SysPause, ProcessSignals,
              taskVars, semVars, KsemTypeOK, TasksTypeOK
<1>2. /\ state' \in [Task -> TaskState] /\ pc' \in [Task -> Location]
      /\ timer' \in [Task -> 0..MaxTicks]
      /\ \A u \in Task \ {t} : state'[u] = state[u] /\ pc'[u] = pc[u] /\ timer'[u] = timer[u]
      /\ \/ pc'[t] = "out" /\ state'[t] = "RUNNING" /\ timer'[t] = timer[t]
         \/ pc'[t] = "pause" /\ state'[t] = "SLEEPING" /\ timer'[t] = timer[t]
         \/ pc'[t] = "nap" /\ state'[t] = "SLEEPING" /\ t \in TimedTask
  <2>1. CASE TaskStep(t)
    <3>. USE <1>0 DEF Goto, KsemTypeOK, TasksTypeOK, TaskState, Location
    <3>1. CASE KernelSleepWoken(t)
      BY Zenon, <3>1 DEF KernelSleepWoken, taskVars
    <3>2. CASE SysPause(t)
      <4>1. /\ timer' = timer
            /\ \/ pc' = [pc EXCEPT ![t] = "out"] /\ state' = state
               \/ /\ pc' = [pc EXCEPT ![t] = "pause"]
                  /\ state' = [state EXCEPT ![t] = "SLEEPING"]
        BY Zenon, <3>2 DEF SysPause
      <4>2. CASE pc' = [pc EXCEPT ![t] = "out"] /\ state' = state
        BY Zenon, <4>1, <4>2
      <4>3. CASE /\ pc' = [pc EXCEPT ![t] = "pause"]
                 /\ state' = [state EXCEPT ![t] = "SLEEPING"]
        BY Zenon, <4>1, <4>3
      <4>. QED
        BY Zenon, <4>1, <4>2, <4>3
    <3>3. CASE ProcessSignals(t)
      BY Zenon, <3>3 DEF ProcessSignals, At
    <3>. QED
      BY Zenon, <2>1, <3>1, <3>2, <3>3 DEF TaskStep
  <2>2. CASE t \in TimedTask /\ \E n \in 1..MaxTicks : KernelSleep(t, n)
    BY SMTT(60), <1>0, <2>2 DEF KernelSleep, Goto, KsemTypeOK, TasksTypeOK, TaskState, Location
  <2>. QED
    BY Zenon, <2>1, <2>2
<1>3. KsemTypeOK'
  BY Zenon, <1>0, <1>1, <1>2 DEF KsemTypeOK, TasksTypeOK
<1>4. ASSUME NEW u \in Task PROVE SemTaskInv(u)'
  <2>1. SemTaskInv(u) /\ timer[u] \in 0..MaxTicks
    BY Zenon, <1>0 DEF KsemTypeOK, TasksTypeOK
  <2>2. CASE u = t
    BY Zenon, <1>0, <1>1, <1>2, <2>1, <2>2 DEF SemTaskInv
  <2>3. CASE u # t
    BY <1>0, <1>1, <1>2, <2>1, <2>3 DEF SemTaskInv
  <2>. QED
    BY Zenon, <2>2, <2>3
<1>. QED
  BY Zenon, <1>0, <1>1, <1>2, <1>3, <1>4 DEF SemInv

(* A signal sent with send_signal2 leaves a task in ksem_wait asleep.      *)
LEMMA SemSendSignalInv ==
  ASSUME NoTimedUser, SemInv, NEW u \in UserTask, SendSignal(u), UNCHANGED semVars
  PROVE  SemInv'
<1> USE TaskAssumption, KsemAssumption
<1>0. /\ KsemTypeOK /\ ~panic /\ pc[Idle] = "out" /\ Distinct(semQ) /\ u \in Task
      /\ \A t \in Task : SemTaskInv(t)
      /\ UNCHANGED <<cur, wobj, timer, timerReady, pc, panic, counter, semQ, want, slack>>
      /\ pending' \subseteq UserTask
  BY Zenon DEF SemInv, SendSignal, semVars, KsemTypeOK, TasksTypeOK
<1>1. /\ state' \in [Task -> TaskState]
      /\ \A t \in Task \ {u} : state'[t] = state[t]
      /\ \/ state'[u] = state[u]
         \/ state[u] = "SLEEPING" /\ wobj[u] = "NONE" /\ state'[u] = "RUNNABLE"
  BY Zenon, <1>0 DEF SendSignal, SignalWakesUp, WakeUp, KsemTypeOK, TasksTypeOK, TaskState
<1>2. KsemTypeOK'
  BY Zenon, <1>0, <1>1 DEF KsemTypeOK, TasksTypeOK
<1>3. ASSUME NEW t \in Task PROVE SemTaskInv(t)'
  <2>1. SemTaskInv(t)
    BY Zenon, <1>0
  <2>2. CASE t = u
    <3>1. ~(timer[t] > 0)
      BY Zenon, <2>1, <2>2 DEF SemTaskInv, NoTimedUser
    <3>. QED
      BY Zenon, <1>0, <1>1, <2>1, <2>2, <3>1 DEF SemTaskInv
  <2>3. CASE t # u
    BY Zenon, <1>0, <1>1, <2>1, <2>3 DEF SemTaskInv
  <2>. QED
    BY Zenon, <2>2, <2>3
<1>. QED
  BY Zenon, <1>0, <1>2, <1>3 DEF SemInv

(* Joining the wait list: the ASSERTs of prepare_to_wait_on hold, because  *)
(* a task that runs is in no list.                                         *)
LEMMA SemSleepLemma ==
  ASSUME SemInv, NEW t \in Task \ {Idle}, t = cur, state[t] = "RUNNING",
         SemSleep(t), UNCHANGED <<cur, timer, timerReady, pending, counter>>,
         want' \in [Task -> Nat], slack' = slack
  PROVE  SemInv'
<1> USE TaskAssumption, KsemAssumption
<1>0. /\ KsemTypeOK /\ ~panic /\ pc[Idle] = "out" /\ Distinct(semQ)
      /\ \A u \in Task : SemTaskInv(u)
      /\ ~InList(semQ, t) /\ wobj[t] = "NONE"
  BY Zenon DEF SemInv, SemTaskInv
<1>1. /\ semQ' = Append(semQ, t) /\ pc' = [pc EXCEPT ![t] = "sem"] /\ panic' = panic
      /\ wobj' = [wobj EXCEPT ![t] = "SEM"] /\ state' = [state EXCEPT ![t] = "SLEEPING"]
  BY Zenon, <1>0 DEF SemSleep, CanPrepareToWait, Goto
<1>2. /\ semQ' \in Seq(Task) /\ Distinct(semQ')
      /\ \A u : InList(semQ', u) <=> u = t \/ InList(semQ, u)
  BY Zenon, <1>0, <1>1, AppendLemma DEF KsemTypeOK
<1>3. KsemTypeOK'
  BY Zenon, <1>0, <1>1, <1>2 DEF KsemTypeOK, TasksTypeOK, TaskState, WobjType, Location
<1>4. ASSUME NEW u \in Task PROVE SemTaskInv(u)'
  <2>1. SemTaskInv(u)
    BY Zenon, <1>0
  <2>2. CASE u = t
    BY Zenon, <1>0, <1>1, <1>2, <2>1, <2>2 DEF SemTaskInv, KsemTypeOK, TasksTypeOK
  <2>3. CASE u # t
    BY SMTT(60), <1>0, <1>1, <1>2, <2>1, <2>3 DEF SemTaskInv, KsemTypeOK, TasksTypeOK
  <2>. QED
    BY Zenon, <2>2, <2>3
<1>. QED
  BY SMTT(60), <1>0, <1>1, <1>2, <1>3, <1>4 DEF SemInv, KsemTypeOK, TasksTypeOK

(* ksem_wait: a waiter is served, or it joins the list. *)
LEMMA KsemWaitInv ==
  ASSUME WaitTicks = {0}, SemInv, NEW t \in Task,
         \/ \E u \in WaitUnits : KsemWaitFree(t, u)
         \/ \E u \in WaitUnits, n \in WaitTicks : KsemWaitBusy(t, u, n)
         \/ KsemWoken(t)
  PROVE  SemInv'
<1> USE TaskAssumption, KsemAssumption
<1>0. /\ t # Idle /\ t = cur /\ state[t] = "RUNNING" /\ ~panic
      /\ KsemTypeOK /\ pc[Idle] = "out" /\ Distinct(semQ)
      /\ \A u \in Task : SemTaskInv(u)
      /\ counter \in 0..SemMax /\ want[t] \in Nat
      /\ slack[t] = -1 /\ ~(timer[t] <= slack[t])
  BY SMTT(60) DEF SemInv, KsemWaitFree, KsemWaitBusy, KsemWoken, At, Running, SemTaskInv,
         KsemTypeOK, TasksTypeOK
<1>1. CASE \/ \E u \in WaitUnits : KsemWaitFree(t, u)
           \/ KsemWoken(t) /\ counter >= want[t]
  <2>1. /\ UNCHANGED <<cur, state, wobj, timer, timerReady, pending, panic, semQ, want, slack>>
        /\ counter' \in 0..SemMax
        /\ pc' = [pc EXCEPT ![t] = "out"]
    <3>1. CASE \E u \in WaitUnits : KsemWaitFree(t, u)
      BY SMTT(60), <1>0, <3>1 DEF KsemWaitFree, At, taskVars, KsemTypeOK, TasksTypeOK
    <3>2. CASE KsemWoken(t) /\ counter >= want[t]
      BY SMTT(60), <1>0, <3>2 DEF KsemWoken, Goto
    <3>. QED
      BY Zenon, <1>1, <3>1, <3>2
  <2>2. KsemTypeOK'
    BY Zenon, <1>0, <2>1 DEF KsemTypeOK, TasksTypeOK, Location
  <2>3. ASSUME NEW u \in Task PROVE SemTaskInv(u)'
    BY Zenon, <1>0, <2>1 DEF SemTaskInv, KsemTypeOK, TasksTypeOK
  <2>. QED
    <3>1. ~panic' /\ pc'[Idle] = "out" /\ Distinct(semQ)'
      BY Zenon, <1>0, <2>1 DEF KsemTypeOK, TasksTypeOK
    <3>. QED
      BY ZenonT(60), <2>2, <2>3, <3>1 DEF SemInv
<1>2. CASE \/ \E u \in WaitUnits, n \in WaitTicks : KsemWaitBusy(t, u, n)
           \/ KsemWoken(t) /\ ~(counter >= want[t])
  <2>1. /\ SemSleep(t) /\ UNCHANGED <<cur, timer, timerReady, pending, counter>>
        /\ want' \in [Task -> Nat]
    BY SMTT(60), <1>0, <1>2 DEF KsemWaitBusy, KsemWoken, KsemTypeOK
  <2>2. slack' = slack
    BY SMTT(60), <1>0, <1>2 DEF KsemWaitBusy, KsemWoken, KsemTypeOK
  <2>. QED
    BY Zenon, <1>0, <2>1, <2>2, SemSleepLemma
<1>. QED
  BY Zenon, <1>1, <1>2

(* ksem_signal takes the tasks it wakes up out of the list, and keeps the  *)
(* others in order; they are all waiting for the semaphore.                *)
LEMMA KsemSignalInv ==
  ASSUME SemInv, NEW t \in Task, NEW u \in SignalUnits, KsemSignal(t, u)
  PROVE  SemInv'
<1> USE TaskAssumption, KsemAssumption
<1>. DEFINE woken == Served(counter + u)
            kept == {w \in Task : InList(semQ, w)} \ woken
<1>0. /\ t = cur /\ state[t] = "RUNNING" /\ ~panic
      /\ KsemTypeOK /\ pc[Idle] = "out" /\ Distinct(semQ)
      /\ \A w \in Task : SemTaskInv(w)
  <2>1. At(t, "out")
    BY ZenonT(60) DEF KsemSignal
  <2>. QED
    BY ZenonT(60), <2>1 DEF SemInv, At, Running
<1>1. \A w \in woken : /\ w \in Task /\ InList(semQ, w) /\ w # cur
                       /\ pc[w] = "sem" /\ state[w] = "SLEEPING" /\ wobj[w] = "SEM"
  <2>1. \A w \in woken : w \in Task /\ InList(semQ, w)
    BY SMTT(60), <1>0 DEF Served, InList, KsemTypeOK
  <2>. HIDE DEF woken
  <2>. QED
    BY Zenon, <1>0, <2>1 DEF SemTaskInv
<1>2. /\ counter' \in 0..SemMax
      /\ UNCHANGED <<cur, timer, timerReady, pending, pc, panic, want, slack>>
      /\ state' = [w \in Task |-> IF w \in woken \ {cur} THEN "RUNNABLE" ELSE state[w]]
      /\ wobj' = [w \in Task |-> IF w \in woken THEN "NONE" ELSE wobj[w]]
  <2>1. ~ \E w \in woken : wobj[w] # "SEM"
    BY ZenonT(60), <1>1
  <2>2. /\ u <= SemMax /\ counter <= SemMax - u /\ counter' = counter + u
        /\ UNCHANGED <<cur, timer, timerReady, pending, pc, panic, want, slack>>
        /\ state' = [w \in Task |-> IF w \in woken \ {cur} THEN "RUNNABLE" ELSE state[w]]
        /\ wobj' = [w \in Task |-> IF w \in woken THEN "NONE" ELSE wobj[w]]
    BY ZenonT(60), <2>1 DEF KsemSignal
  <2>. HIDE DEF woken
  <2>3. counter' \in 0..SemMax
    BY SMTT(60), <1>0, <2>2 DEF KsemTypeOK
  <2>. QED
    BY ZenonT(60), <2>2, <2>3
<1>3. PICK rest \in ListsOf(kept, Len(semQ)) : ListReduced(semQ, kept, rest) /\ semQ' = rest
  BY ZenonT(60), <1>1 DEF KsemSignal
<1>4. kept \in SUBSET Task /\ \A w \in Task : w \in kept <=> InList(semQ, w) /\ w \notin woken
  BY Zenon
<1>. HIDE DEF woken, kept
<1>5. /\ semQ' \in Seq(Task) /\ Distinct(semQ')
      /\ \A w \in Task : InList(semQ', w) <=> InList(semQ, w) /\ w \notin woken
  BY Zenon, <1>0, <1>3, <1>4, ReducedLemma DEF KsemTypeOK
<1>6. KsemTypeOK'
  BY Zenon, <1>0, <1>2, <1>5 DEF KsemTypeOK, TasksTypeOK, TaskState, WobjType
<1>7. ASSUME NEW w \in Task PROVE SemTaskInv(w)'
  <2>1. SemTaskInv(w)
    BY Zenon, <1>0
  <2>2. CASE w \in woken
    BY SMTT(60), <1>0, <1>1, <1>2, <1>5, <2>1, <2>2 DEF SemTaskInv
  <2>3. CASE w \notin woken
    BY SMTT(60), <1>0, <1>2, <1>5, <2>1, <2>3 DEF SemTaskInv
  <2>. QED
    BY Zenon, <2>2, <2>3
<1>8. ~panic' /\ pc'[Idle] = "out"
  BY Zenon, <1>0, <1>2
<1>. QED
  BY ZenonT(60), <1>5, <1>6, <1>7, <1>8 DEF SemInv

(* Every step preserves the invariant. *)
LEMMA SemNextInv ==
  ASSUME NoTimedUser, WaitTicks = {0}, SemInv, [KsemNext]_ksemVars
  PROVE  SemInv'
<1>1. CASE \E t \in Task : KsemStep(t)
  BY Zenon, <1>1, KsemWaitInv, KsemSignalInv DEF KsemStep
<1>2. CASE TasksNext /\ UNCHANGED semVars
  <2>1. ~Halted
    BY Zenon DEF Halted, SemInv
  <2>2. CASE TickAllTimers \/ DoSchedule
    BY Zenon, <1>2, <2>2, SemTickInv, SemScheduleInv
  <2>3. CASE \/ \E t \in Task : TaskStep(t)
             \/ \E t \in TimedTask, n \in 1..MaxTicks : KernelSleep(t, n)
    <3>1. \A t \in TimedTask : t \in Task
      BY Zenon, TaskAssumption
    <3>. QED
      BY Zenon, <1>2, <2>3, <3>1, SemSleepInv
  <2>4. CASE \E u \in UserTask : SendSignal(u)
    BY Zenon, <1>2, <2>4, SemSendSignalInv
  <2>. QED
    BY Zenon, <1>2, <2>1, <2>2, <2>3, <2>4 DEF TasksNext
<1>3. CASE UNCHANGED ksemVars
  <2>. USE <1>3 DEF ksemVars, taskVars, semVars
  <2>1. KsemTypeOK' /\ ~panic' /\ pc'[Idle] = "out" /\ Distinct(semQ')
    BY Zenon DEF SemInv, KsemTypeOK, TasksTypeOK
  <2>2. \A t \in Task : SemTaskInv(t)'
    BY Zenon DEF SemInv, SemTaskInv
  <2>. QED
    BY Zenon, <2>1, <2>2 DEF SemInv
<1>. QED
  BY Zenon, <1>1, <1>2, <1>3 DEF KsemNext

(* Every reachable state of the semaphore satisfies the inductive          *)
(* invariant, for any numbers of tasks and units, when ksem_wait is called *)
(* without a timeout.                                                      *)
THEOREM SemInvariance ==
  ASSUME NoTimedUser, WaitTicks = {0}
  PROVE  KsemSpec => []SemInv
<1>1. KsemInit => SemInv
  BY Zenon, SemInitInv
<1>2. SemInv /\ [KsemNext]_ksemVars => SemInv'
  BY Zenon, SemNextInv
<1>. QED
  BY <1>1, <1>2, PTL DEF KsemSpec

(* KsemTypeOK: the types; in particular 0 <= s->counter <= s->max. *)
THEOREM SemTypeCorrect ==
  ASSUME NoTimedUser, WaitTicks = {0}
  PROVE  KsemSpec => []KsemTypeOK
<1>1. SemInv => KsemTypeOK
  BY Zenon DEF SemInv
<1>. QED
  BY <1>1, SemInvariance, PTL

(* No ASSERT of ksem_wait, ksem_signal and prepare_to_wait_on fails. *)
THEOREM SemAssertsHold ==
  ASSUME NoTimedUser, WaitTicks = {0}
  PROVE  KsemSpec => []NoAssertFails
<1>1. SemInv => NoAssertFails
  BY Zenon DEF SemInv, NoAssertFails
<1>. QED
  BY <1>1, SemInvariance, PTL

(* A task sleeps in ksem_wait exactly while it is in the wait list. *)
THEOREM SemSleepersQueued ==
  ASSUME NoTimedUser, WaitTicks = {0}
  PROVE  KsemSpec => []SleepersAreQueued
<1>1. SemInv => SleepersAreQueued
  BY Zenon DEF SemInv, SemTaskInv, SleepersAreQueued
<1>. QED
  BY <1>1, SemInvariance, PTL

(* The walk of ksem_signal: the first waiter finds c units, and each of    *)
(* the others what the one before it has left.                             *)
LEMMA LeftLemma ==
  ASSUME semQ \in Seq(Task), want \in [Task -> Nat], NEW c \in Nat
  PROVE  /\ Left(c) \in [1..Len(semQ) + 1 -> Nat]
         /\ Left(c)[1] = c
         /\ \A i \in 1..Len(semQ) :
              Left(c)[i + 1] = IF want[semQ[i]] <= Left(c)[i]
                               THEN Left(c)[i] - want[semQ[i]] ELSE Left(c)[i]
<1> DEFINE After(l, i) == IF want[semQ[i]] <= l THEN l - want[semQ[i]] ELSE l
           Walk(n, f) == /\ f \in [1..n + 1 -> Nat] /\ f[1] = c
                         /\ \A i \in 1..n : f[i + 1] = After(f[i], i)
           bad == {n \in 0..Len(semQ) : ~\E f : Walk(n, f)}
<1>0. Len(semQ) \in Nat /\ \A i \in 1..Len(semQ) : want[semQ[i]] \in Nat
  BY SMTT(60)
<1>1. bad = {}
  <2> SUFFICES ASSUME bad # {} PROVE FALSE
    BY Zenon
  <2>1. PICK n \in bad : \A m \in bad : n <= m
    <3>1. bad \in SUBSET Nat
      BY <1>0
    <3> HIDE DEF bad
    <3>. QED
      BY Zenon, <3>1, LeastLemma
  <2>2. n \in 0..Len(semQ) /\ ~\E f : Walk(n, f)
    BY ZenonT(60), <2>1
  <2>3. n # 0
    <3>1. Walk(0, [i \in 1..1 |-> c])
      BY SMTT(60)
    <3>. QED
      BY ZenonT(60), <2>2, <3>1
  <2>4. n - 1 \in 0..Len(semQ) /\ n - 1 \notin bad
    <3>1. n - 1 \in 0..Len(semQ) /\ ~(n <= n - 1)
      BY SMTT(60), <1>0, <2>2, <2>3
    <3>. QED
      BY ZenonT(60), <2>1, <3>1
  <2>5. PICK f : Walk(n - 1, f)
    BY ZenonT(60), <2>4
  <2>6. /\ f \in [1..n -> Nat] /\ f[1] = c
        /\ \A i \in 1..n - 1 : f[i + 1] = After(f[i], i)
        /\ n \in 1..Len(semQ)
    BY <1>0, <2>2, <2>3, <2>5
  <2> DEFINE g == [i \in 1..n + 1 |-> IF i <= n THEN f[i] ELSE After(f[n], n)]
  <2>7. After(f[n], n) \in Nat
    BY SMTT(60), <1>0, <2>6
  <2>8. g \in [1..n + 1 -> Nat] /\ g[1] = c
    <3> HIDE DEF After
    <3>. QED
      BY SMTT(60), <2>6, <2>7
  <2>9. ASSUME NEW i \in 1..n PROVE g[i + 1] = After(g[i], i)
    <3>1. CASE i < n
      <4>1. i \in 1..n - 1 /\ i + 1 \in 1..n + 1 /\ i + 1 <= n /\ i \in 1..n + 1 /\ i <= n
        BY SMTT(60), <2>6, <3>1
      <4> HIDE DEF After
      <4>. QED
        BY Zenon, <2>6, <4>1
    <3>2. CASE i = n
      <4>1. n + 1 \in 1..n + 1 /\ ~(n + 1 <= n) /\ n \in 1..n + 1 /\ n <= n
        BY <2>6
      <4> HIDE DEF After
      <4>. QED
        BY Zenon, <3>2, <4>1
    <3>. QED
      BY SMTT(60), <2>6, <3>1, <3>2
  <2>. QED
    BY ZenonT(60), <2>2, <2>8, <2>9
<1>2. PICK f : Walk(Len(semQ), f)
  <2> HIDE DEF Walk
  <2>. QED
    BY <1>0, <1>1
<1> DEFINE Body(h) == [i \in 1..Len(semQ) + 1 |->
                         IF i = 1 THEN c
                         ELSE LET w == want[semQ[i - 1]]
                              IN  IF w <= h[i - 1] THEN h[i - 1] - w ELSE h[i - 1]]
<1>3. Left(c) = CHOOSE h : h = Body(h)
  BY Zenon DEF Left
<1>4. f = Body(f)
  <2>1. f \in [1..Len(semQ) + 1 -> Nat]
    BY SMTT(60), <1>2
  <2>2. ASSUME NEW i \in 1..Len(semQ) + 1 PROVE f[i] = Body(f)[i]
    <3>1. CASE i = 1
      BY SMTT(60), <1>2, <3>1
    <3>2. CASE i # 1
      <4>1. i - 1 \in 1..Len(semQ) /\ (i - 1) + 1 = i
        BY SMTT(60), <1>0, <3>2
      <4>2. f[i] = After(f[i - 1], i - 1)
        BY SMTT(60), <1>2, <4>1
      <4>. QED
        BY <3>2, <4>2
    <3>. QED
      BY SMTT(60), <3>1, <3>2
  <2>. QED
    BY <2>1, <2>2
<1>5. Left(c) = Body(Left(c))
  <2> HIDE DEF Body
  <2>. QED
    BY SMTT(60), <1>3, <1>4
<1> DEFINE L == Left(c)
<1>6. L = Body(L)
  BY ZenonT(60), <1>5
<1> HIDE DEF L
<1>7. DOMAIN L = 1..Len(semQ) + 1 /\ L[1] = c
  <2>1. Body(L)[1] = c
    BY <1>0
  <2>2. DOMAIN Body(L) = 1..Len(semQ) + 1
    OBVIOUS
  <2> HIDE DEF Body
  <2>. QED
    BY <1>6, <2>1, <2>2
<1>8. ASSUME NEW i \in 1..Len(semQ) PROVE L[i + 1] = After(L[i], i)
  <2>1. i + 1 \in 1..Len(semQ) + 1 /\ i + 1 # 1 /\ (i + 1) - 1 = i
    BY SMTT(60), <1>0
  <2>2. Body(L)[i + 1] = After(L[i], i)
    BY Zenon, <2>1
  <2> HIDE DEF Body, After
  <2>. QED
    BY <1>6, <2>2
<1>9. \A i \in 1..Len(semQ) + 1 : L[i] = f[i]
  <2> DEFINE diff == {i \in 1..Len(semQ) + 1 : L[i] # f[i]}
  <2> SUFFICES ASSUME diff # {} PROVE FALSE
    BY SMTT(60)
  <2>1. PICK i \in diff : \A j \in diff : i <= j
    <3>1. diff \in SUBSET Nat
      BY SMTT(60), <1>0
    <3> HIDE DEF diff
    <3>. QED
      BY Zenon, <3>1, LeastLemma
  <2>2. i \in 1..Len(semQ) + 1 /\ L[i] # f[i] /\ i # 1
    BY Zenon, <1>2, <1>7, <2>1
  <2>3. i - 1 \in 1..Len(semQ) /\ (i - 1) + 1 = i /\ ~(i <= i - 1) /\ i - 1 \in 1..Len(semQ) + 1
    BY SMTT(60), <1>0, <2>2
  <2>4. L[i - 1] = f[i - 1]
    BY Zenon, <2>1, <2>3
  <2>5. L[i] = After(L[i - 1], i - 1) /\ f[i] = After(f[i - 1], i - 1)
    <3>1. L[(i - 1) + 1] = After(L[i - 1], i - 1) /\ f[(i - 1) + 1] = After(f[i - 1], i - 1)
      <4> HIDE DEF After
      <4>. QED
        BY SMTT(60), <1>2, <1>8, <2>3
    <3> HIDE DEF After
    <3>. QED
      BY SMTT(60), <2>3, <3>1
  <2>. QED
    BY <2>2, <2>4, <2>5
<1>10. L \in [1..Len(semQ) + 1 -> Nat] /\ \A i \in 1..Len(semQ) : L[i + 1] = After(L[i], i)
  <2>1. \A i \in 1..Len(semQ) + 1 : L[i] \in Nat
    BY ZenonT(60), <1>2, <1>9
  <2>2. L = [i \in 1..Len(semQ) + 1 |-> L[i]]
    <3>1. Body(L) = [i \in 1..Len(semQ) + 1 |-> Body(L)[i]]
      BY Zenon
    <3> HIDE DEF Body
    <3>. QED
      BY <1>6, <3>1
  <2>. QED
    BY ZenonT(60), <1>8, <2>1, <2>2
<1>. QED
  BY Zenon, <1>7, <1>10 DEF L

(* When a waiter for one unit is left asleep, ksem_signal has woken up a   *)
(* task for each of the c units.                                           *)
LEMMA ServedLemma ==
  ASSUME IsFiniteSet(Task), semQ \in Seq(Task), Distinct(semQ), want \in [Task -> Nat],
         \A t \in Task : InList(semQ, t) => want[t] = 1,
         NEW c \in Nat, \E t \in Task : InList(semQ, t) /\ t \notin Served(c)
  PROVE  c <= Cardinality(Served(c))
<1> DEFINE L == Left(c)
           n == Len(semQ)
           missed == {i \in 1..n : ~(1 <= L[i])}
<1>0. n \in Nat /\ \A i \in 1..n : semQ[i] \in Task /\ want[semQ[i]] = 1
  BY SMTT(60) DEF InList
<1>1. /\ L \in [1..n + 1 -> Nat] /\ L[1] = c
      /\ \A i \in 1..n : L[i + 1] = IF 1 <= L[i] THEN L[i] - 1 ELSE L[i]
  <2>1. /\ L \in [1..n + 1 -> Nat] /\ L[1] = c
        /\ \A i \in 1..n : L[i + 1] = IF want[semQ[i]] <= L[i]
                                      THEN L[i] - want[semQ[i]] ELSE L[i]
    BY LeftLemma
  <2> HIDE DEF L, n
  <2>. QED
    BY ZenonT(60), <1>0, <2>1
<1>2. Served(c) = {semQ[i] : i \in {j \in 1..n : 1 <= L[j]}}
  <2>1. Served(c) = {semQ[i] : i \in {j \in 1..n : want[semQ[j]] <= L[j]}}
    BY Zenon DEF Served
  <2> HIDE DEF L, n
  <2>. QED
    BY ZenonT(60), <1>0, <2>1
<1>3. PICK t \in Task : InList(semQ, t) /\ t \notin Served(c)
  BY Zenon
<1>4. missed # {}
  <2>1. PICK i \in 1..n : semQ[i] = t
    BY Zenon, <1>3 DEF InList
  <2> HIDE DEF L, n
  <2>. QED
    BY <1>2, <1>3, <2>1
<1> HIDE DEF L, n
<1>5. PICK j \in missed : \A i \in missed : j <= i
  <2>1. missed \in SUBSET Nat
    BY SMTT(60), <1>0
  <2> HIDE DEF missed
  <2>. QED
    BY SMTT(60), <1>4, <2>1, LeastLemma
<1>6. /\ j \in 1..n /\ ~(1 <= L[j]) /\ L[j] \in Nat
      /\ \A i \in 1..j - 1 : i \in 1..n /\ 1 <= L[i] /\ L[i] \in Nat
  <2>1. j \in 1..n /\ ~(1 <= L[j]) /\ L[j] \in Nat
    BY <1>0, <1>1, <1>5
  <2>2. ASSUME NEW i \in 1..j - 1 PROVE i \in 1..n /\ 1 <= L[i] /\ L[i] \in Nat
    <3>1. i \in 1..n /\ ~(j <= i) /\ L[i] \in Nat
      BY SMTT(60), <1>0, <1>1, <2>1
    <3>. QED
      BY SMTT(60), <1>5, <3>1
  <2>. QED
    BY Zenon, <2>1, <2>2
<1>7. L[j] = c - (j - 1)
  <2> DEFINE diff == {i \in 1..j : L[i] # c - (i - 1)}
  <2> SUFFICES ASSUME diff # {} PROVE FALSE
    BY <1>6
  <2>1. PICK i \in diff : \A k \in diff : i <= k
    <3>1. diff \in SUBSET Nat
      BY SMTT(60), <1>6
    <3> HIDE DEF diff
    <3>. QED
      BY Zenon, <3>1, LeastLemma
  <2>2. i \in 1..j /\ L[i] # c - (i - 1) /\ i # 1
    BY SMTT(60), <1>1, <2>1
  <2>3. i - 1 \in 1..j - 1 /\ ~(i <= i - 1) /\ i - 1 \in 1..j /\ (i - 1) + 1 = i
    BY SMTT(60), <1>6, <2>2
  <2>4. L[i - 1] = c - ((i - 1) - 1)
    BY SMTT(60), <2>1, <2>3
  <2>5. L[i] = L[i - 1] - 1
    <3>1. i - 1 \in 1..n /\ 1 <= L[i - 1]
      BY SMTT(60), <1>6, <2>3
    <3>2. L[(i - 1) + 1] = L[i - 1] - 1
      BY SMTT(60), <1>1, <3>1
    <3>. QED
      BY SMTT(60), <2>3, <3>2
  <2>. QED
    BY SMTT(60), <1>6, <2>2, <2>4, <2>5
<1>8. c <= j - 1
  BY SMTT(60), <1>6, <1>7
<1> DEFINE first == [i \in 1..c |-> semQ[i]]
<1>9. first \in Injection(1..c, Served(c))
  <2>1. ASSUME NEW i \in 1..c PROVE i \in 1..n /\ semQ[i] \in Served(c)
    BY SMTT(60), <1>2, <1>6, <1>8
  <2>2. first \in [1..c -> Served(c)]
    BY SMTT(60), <2>1
  <2>3. \A i, k \in 1..c : first[i] = first[k] => i = k
    BY SMTT(60), <2>1 DEF Distinct, n
  <2>. QED
    BY SMTT(60), <2>2, <2>3 DEF Injection, IsInjective
<1>10. IsFiniteSet(Served(c))
  <2>1. Served(c) \in SUBSET Task
    BY SMTT(60), <1>0, <1>2
  <2>. QED
    BY SMTT(60), <2>1, FS_Subset
<1>11. Cardinality(1..c) <= Cardinality(Served(c))
  <2> HIDE DEF first
  <2>. QED
    BY SMTT(60), <1>9, <1>10, FS_Injection
<1>12. Cardinality(1..c) = c
  BY SMTT(60), FS_Interval
<1>. QED
  BY SMTT(60), <1>11, <1>12

(* The tasks that are awake in ksem_wait are those not in the wait list.   *)
LEMMA AwakeLemma ==
  ASSUME SemInv
  PROVE  Awake = {t \in Task : pc[t] = "sem" /\ ~InList(semQ, t)}
BY Zenon DEF SemInv, SemTaskInv, Awake

(* The units stay watched while neither they nor the waiters change.       *)
LEMMA WatchFrame ==
  ASSUME SemInv, SemInv', WatchInv, UNCHANGED <<counter, semQ, want>>,
         \A t \in Task : pc'[t] = "sem" <=> pc[t] = "sem"
  PROVE  WatchInv'
<1>1. Awake = {t \in Task : pc[t] = "sem" /\ ~InList(semQ, t)}
  BY Zenon, AwakeLemma
<1>2. Awake' = {t \in Task : pc'[t] = "sem" /\ ~InList(semQ', t)}
  <2>1. \A t \in Task : InList(semQ', t) <=> pc'[t] = "sem" /\ state'[t] = "SLEEPING"
    BY SMTT(60) DEF SemInv, SemTaskInv
  <2>. QED
    BY SMTT(60), <2>1 DEF Awake
<1>3. Awake' = Awake
  BY SMTT(60), <1>1, <1>2
<1>. QED
  BY SMTT(60), <1>3 DEF WatchInv, UnitsAreWatched

(* ksem_wait: whoever takes a unit stops watching one, and whoever sleeps  *)
(* has seen that there is none.                                            *)
LEMMA WatchWait ==
  ASSUME WaitTicks = {0}, IsFiniteSet(Task), SemInv, SemInv', WatchInv, OneEach, OneEach',
         NEW t \in Task,
         \/ \E u \in WaitUnits : KsemWaitFree(t, u)
         \/ \E u \in WaitUnits, n \in WaitTicks : KsemWaitBusy(t, u, n)
         \/ KsemWoken(t)
  PROVE  WatchInv'
<1> USE TaskAssumption, KsemAssumption
<1>0. /\ KsemTypeOK /\ counter \in Nat /\ want[t] \in Nat /\ want[t] <= 1 /\ want'[t] <= 1
      /\ pc \in [Task -> Location] /\ ~panic' /\ ~(timer[t] <= slack[t])
      /\ \A w \in Task : pc[w] = "sem" => want[w] # 0
  <2>1. KsemTypeOK /\ counter \in Nat /\ want[t] \in Nat
    BY SMTT(60) DEF SemInv, KsemTypeOK
  <2>2. pc \in [Task -> Location] /\ ~panic' /\ ~(timer[t] <= slack[t])
    <3>1. pc \in [Task -> Location] /\ ~panic' /\ slack[t] = -1
      BY ZenonT(60) DEF SemInv, SemTaskInv, KsemTypeOK, TasksTypeOK
    <3>2. timer[t] \in 0..MaxTicks
      BY SMTT(60), <2>1 DEF KsemTypeOK, TasksTypeOK
    <3>3. ~(timer[t] <= slack[t])
      BY SMTT(60), <3>1, <3>2
    <3>. QED
      BY ZenonT(60), <3>1, <3>3
  <2>. QED
    BY SMTT(60), <2>1, <2>2 DEF OneEach, WatchInv
<1>a. IsFiniteSet(Awake) /\ IsFiniteSet(Awake') /\ Cardinality(Awake) \in Nat
      /\ Cardinality(Awake') \in Nat
  <2>1. Awake \in SUBSET Task /\ Awake' \in SUBSET Task
    BY Zenon DEF Awake
  <2>. QED
    BY SMTT(60), <2>1, FS_Subset, FS_CardinalityType
<1>1. CASE \E u \in WaitUnits : KsemWaitFree(t, u)
  <2>1. PICK u \in WaitUnits : KsemWaitFree(t, u)
    BY SMTT(60), <1>1
  <2>2. UNCHANGED <<state, pc, semQ, want>> /\ counter' = counter - u /\ u \in Nat
    BY SMTT(60), <2>1 DEF KsemWaitFree, taskVars
  <2>3. Awake' = Awake
    BY SMTT(60), <2>2 DEF Awake
  <2>. QED
    BY SMTT(60), <1>0, <1>a, <2>2, <2>3 DEF WatchInv, UnitsAreWatched
<1>2. CASE \E u \in WaitUnits, n \in WaitTicks : KsemWaitBusy(t, u, n)
  <2>1. PICK u \in WaitUnits, n \in WaitTicks : KsemWaitBusy(t, u, n)
    BY SMTT(60), <1>2
  <2>2. /\ want' = [want EXCEPT ![t] = u] /\ counter' = counter /\ counter < u
        /\ u \in Nat /\ u # 0
    BY SMTT(60), <2>1 DEF KsemWaitBusy
  <2>3. pc' = [pc EXCEPT ![t] = "sem"]
    <3>1. SemSleep(t)
      BY SMTT(60), <2>1 DEF KsemWaitBusy
    <3>. QED
      BY SMTT(60), <1>0, <3>1 DEF SemSleep, Goto
  <2>4. want'[t] = u /\ \A w \in Task \ {t} : want'[w] = want[w] /\ pc'[w] = pc[w]
    BY SMTT(60), <1>0, <2>2, <2>3 DEF KsemTypeOK
  <2>5. counter' = 0
    BY SMTT(60), <1>0, <2>2, <2>4
  <2>6. \A w \in Task : pc'[w] = "sem" => want'[w] # 0
    BY SMTT(60), <1>0, <2>2, <2>4
  <2>. QED
    BY SMTT(60), <1>a, <2>5, <2>6 DEF WatchInv, UnitsAreWatched
<1>3. CASE KsemWoken(t)
  <2>1. t \in Awake /\ pc[t] = "sem" /\ want' = want
    BY ZenonT(60), <1>3 DEF KsemWoken, At, Running, Awake
  <2>2. want[t] = 1
    <3>1. want[t] \in Nat /\ want[t] <= 1 /\ want[t] # 0
      BY ZenonT(60), <1>0, <2>1
    <3>. QED
      BY SMTT(60), <3>1
  <2>3. CASE counter >= want[t]
    <3>1. /\ counter' = counter - want[t] /\ pc' = [pc EXCEPT ![t] = "out"]
          /\ state' = state /\ semQ' = semQ
      BY ZenonT(60), <1>3, <2>3 DEF KsemWoken, Goto
    <3>2. pc'[t] = "out" /\ \A w \in Task \ {t} : pc'[w] = pc[w]
      BY ZenonT(60), <1>0, <3>1
    <3>3. Awake' = Awake \ {t}
      BY ZenonT(60), <3>1, <3>2 DEF Awake
    <3>4. Cardinality(Awake') = Cardinality(Awake) - 1
      BY SMTT(60), <1>a, <2>1, <3>3, FS_RemoveElement
    <3>5. \A w \in Task : pc'[w] = "sem" => want'[w] # 0
      BY SMTT(60), <1>0, <2>1, <3>2
    <3>6. semQ # <<>> => counter <= Cardinality(Awake)
      BY ZenonT(60) DEF WatchInv, UnitsAreWatched
    <3>7. counter \in Nat /\ counter' = counter - 1 /\ semQ' = semQ
      BY ZenonT(60), <1>0, <2>2, <3>1
    <3>8. semQ' # <<>> => counter' <= Cardinality(Awake')
      BY SMTT(60), <1>a, <3>4, <3>6, <3>7
    <3>. QED
      BY ZenonT(60), <3>5, <3>8 DEF WatchInv, UnitsAreWatched
  <2>4. CASE ~(counter >= want[t])
    <3>1. SemSleep(t) /\ counter' = counter
      BY ZenonT(60), <1>0, <1>3, <2>4 DEF KsemWoken
    <3>2. pc' = [pc EXCEPT ![t] = "sem"]
      BY ZenonT(60), <1>0, <3>1 DEF SemSleep, Goto
    <3>3. counter' = 0
      BY SMTT(60), <1>0, <2>2, <2>4, <3>1
    <3>4. \A w \in Task : pc'[w] = "sem" => want'[w] # 0
      BY SMTT(60), <1>0, <2>1, <3>2
    <3>. QED
      BY <1>a, <3>3, <3>4 DEF WatchInv, UnitsAreWatched
  <2>. QED
    BY <2>3, <2>4
<1>. QED
  BY SMTT(60), <1>1, <1>2, <1>3

(* ksem_signal: whoever it leaves asleep could not have had a unit.        *)
LEMMA WatchSignal ==
  ASSUME IsFiniteSet(Task), SemInv, SemInv', WatchInv, OneEach,
         NEW t \in Task, NEW u \in SignalUnits, KsemSignal(t, u)
  PROVE  WatchInv'
<1> USE TaskAssumption, KsemAssumption
<1>. DEFINE woken == Served(counter + u)
            kept == {w \in Task : InList(semQ, w)} \ woken
<1>0. /\ semQ \in Seq(Task) /\ Distinct(semQ) /\ want \in [Task -> Nat]
      /\ counter + u \in Nat /\ ~panic'
  <2>1. semQ \in Seq(Task) /\ Distinct(semQ) /\ want \in [Task -> Nat] /\ counter \in 0..SemMax
    BY ZenonT(60) DEF SemInv, KsemTypeOK
  <2>2. counter + u \in Nat
    BY <2>1
  <2>3. ~panic'
    BY ZenonT(60) DEF SemInv
  <2>. QED
    BY ZenonT(60), <2>1, <2>2, <2>3
<1>1. \A w \in Task : InList(semQ, w) => pc[w] = "sem" /\ want[w] = 1
  <2>1. ASSUME NEW w \in Task, InList(semQ, w) PROVE pc[w] = "sem" /\ want[w] = 1
    <3>1. pc[w] = "sem"
      BY ZenonT(60), <2>1 DEF SemInv, SemTaskInv
    <3>. QED
      BY <1>0, <3>1 DEF WatchInv, OneEach
  <2>. QED
    BY SMTT(60), <2>1
<1>2. woken \in SUBSET Task /\ \A w \in woken : InList(semQ, w)
  BY SMTT(60), <1>0 DEF Served, InList
<1>3. ~\E w \in woken : wobj[w] # "SEM"
  <2>1. \A w \in Task : InList(semQ, w) => wobj[w] = "SEM"
    BY ZenonT(60) DEF SemInv, SemTaskInv
  <2> HIDE DEF woken
  <2>. QED
    BY ZenonT(60), <1>2, <2>1
<1>4. /\ counter' = counter + u /\ pc' = pc /\ want' = want
      /\ \E rest \in ListsOf(kept, Len(semQ)) : ListReduced(semQ, kept, rest) /\ semQ' = rest
  BY ZenonT(60), <1>3 DEF KsemSignal
<1>. HIDE DEF woken
<1>5. \A w \in Task : InList(semQ', w) <=> InList(semQ, w) /\ w \notin woken
  <2>1. PICK rest \in ListsOf(kept, Len(semQ)) : ListReduced(semQ, kept, rest) /\ semQ' = rest
    BY ZenonT(60), <1>4
  <2>2. kept \in SUBSET Task /\ \A w \in Task : w \in kept <=> InList(semQ, w) /\ w \notin woken
    OBVIOUS
  <2> HIDE DEF kept
  <2>. QED
    BY <1>0, <2>1, <2>2, ReducedLemma
<1>6. woken \in SUBSET Awake'
  <2>1. \A w \in Task : InList(semQ', w) <=> pc'[w] = "sem" /\ state'[w] = "SLEEPING"
    BY ZenonT(60) DEF SemInv, SemTaskInv
  <2>. QED
    BY ZenonT(60), <1>1, <1>2, <1>4, <1>5, <2>1 DEF Awake
<1>7. ASSUME semQ' # <<>> PROVE counter' <= Cardinality(Awake')
  <2>1. PICK w \in Task : InList(semQ', w)
    <3>1. semQ' \in Seq(Task)
      BY ZenonT(60) DEF SemInv, KsemTypeOK
    <3>2. Len(semQ') \in Nat /\ Len(semQ') # 0
      BY SMTT(60), <1>7, <3>1, LenLemma
    <3>3. 1 \in 1..Len(semQ') /\ semQ'[1] \in Task
      BY <3>1, <3>2, LenLemma
    <3>. QED
      BY <3>3 DEF InList
  <2>2. counter + u <= Cardinality(woken)
    <3>1. InList(semQ, w) /\ w \notin woken
      BY <1>5, <2>1
    <3>2. \E v \in Task : InList(semQ, v) /\ v \notin Served(counter + u)
      BY ZenonT(60), <3>1 DEF woken
    <3>3. \A v \in Task : InList(semQ, v) => want[v] = 1
      BY ZenonT(60), <1>1
    <3>. QED
      BY ZenonT(60), <1>0, <3>2, <3>3, ServedLemma DEF woken
  <2>3. IsFiniteSet(Awake') /\ Cardinality(Awake') \in Nat
    <3>1. Awake' \in SUBSET Task
      BY SMTT(60) DEF Awake
    <3>. QED
      BY SMTT(60), <3>1, FS_Subset, FS_CardinalityType
  <2>4. IsFiniteSet(woken) /\ Cardinality(woken) <= Cardinality(Awake') /\ Cardinality(woken) \in Nat
    BY SMTT(60), <1>6, <2>3, FS_Subset, FS_CardinalityType
  <2>. QED
    BY SMTT(60), <1>0, <1>4, <2>2, <2>3, <2>4
<1>8. \A w \in Task : pc'[w] = "sem" => want'[w] # 0
  BY <1>4 DEF WatchInv
<1>. QED
  BY <1>7, <1>8 DEF WatchInv, UnitsAreWatched

(* While everybody waits for one unit, every step keeps the units watched. *)
LEMMA WatchNext ==
  ASSUME NoTimedUser, WaitTicks = {0}, IsFiniteSet(Task),
         SemInv, SemInv', WatchInv, OneEach, OneEach', [KsemNext]_ksemVars
  PROVE  WatchInv'
<1>1. CASE \E t \in Task : KsemStep(t)
  BY <1>1, WatchWait, WatchSignal DEF KsemStep
<1>2. CASE TasksNext /\ UNCHANGED semVars
  <2>0. UNCHANGED <<counter, semQ, want>>
    BY SMTT(60), <1>2 DEF semVars
  <2>1. \A t \in Task : pc'[t] = "sem" <=> pc[t] = "sem"
    <3>0. pc \in [Task -> Location] /\ TimedTask \subseteq Task
      BY ZenonT(60), TaskAssumption DEF SemInv, KsemTypeOK, TasksTypeOK
    <3>1. CASE TickAllTimers \/ DoSchedule \/ Halted \/ \E u \in UserTask : SendSignal(u)
      BY <3>1 DEF TickAllTimers, DoSchedule, Halted, SendSignal, taskVars
    <3>2. ASSUME NEW t \in Task, TaskStep(t) \/ \E n \in 1..MaxTicks : KernelSleep(t, n)
          PROVE  \A w \in Task : pc'[w] = "sem" <=> pc[w] = "sem"
      <4>1. pc[t] \in {"out", "nap", "pause"}
        BY SMTT(60), <3>2 DEF TaskStep, KernelSleep, KernelSleepWoken, SysPause, ProcessSignals, At
      <4>2. \/ pc' = pc \/ \E l \in {"out", "nap", "pause"} : pc' = [pc EXCEPT ![t] = l]
        BY <3>2 DEF TaskStep, KernelSleep, KernelSleepWoken, SysPause, ProcessSignals, Goto
      <4>. QED
        BY SMTT(60), <3>0, <4>1, <4>2
    <3>. QED
      BY <1>2, <3>0, <3>1, <3>2 DEF TasksNext
  <2>. QED
    BY ZenonT(60), <2>0, <2>1, WatchFrame
<1>3. CASE UNCHANGED ksemVars
  <2>1. UNCHANGED <<counter, semQ, want, pc>>
    BY <1>3 DEF ksemVars, semVars
  <2>. QED
    BY ZenonT(60), <2>1, WatchFrame
<1>. QED
  BY SMTT(60), <1>1, <1>2, <1>3 DEF KsemNext

(* SingleUnitsAreWatched: no unit that ksem_signal adds is forgotten while *)
(* a task sleeps in ksem_wait, for any number of tasks, when each waits    *)
(* for one unit and without a timeout.                                     *)
THEOREM SemUnitsWatched ==
  ASSUME NoTimedUser, WaitTicks = {0}, IsFiniteSet(Task)
  PROVE  KsemSpec => SingleUnitsAreWatched
<1>1. KsemInit => WatchInv
  BY DEF KsemInit, TasksInit, WatchInv, UnitsAreWatched
<1>2. SemInv /\ SemInv' /\ WatchInv /\ OneEach /\ OneEach' /\ [KsemNext]_ksemVars => WatchInv'
  BY WatchNext
<1>3. WatchInv => UnitsAreWatched
  BY Zenon DEF WatchInv
<1>. QED
  BY <1>1, <1>2, <1>3, SemInvariance, PTL DEF KsemSpec, SingleUnitsAreWatched

-----------------------------------------------------------------------------
(* The units of the semaphore, with any timeouts.                          *)

(* A task that calls ksem_wait takes its units at once or asks for them. *)
LEMMA UnitsWaitStep ==
  ASSUME UnitsInv, NEW t \in Task,
         \/ \E u \in WaitUnits : KsemWaitFree(t, u)
         \/ \E u \in WaitUnits, n \in WaitTicks : KsemWaitBusy(t, u, n)
  PROVE  UnitsInv' /\ [Sem!Next]_<<counter, Asked>>
<1> USE KsemAssumption DEF UnitsInv
<1>1. ASSUME NEW u \in WaitUnits, KsemWaitFree(t, u)
      PROVE  UnitsInv' /\ Sem!TakeNow(t, u)
  <2>1. /\ UNCHANGED <<pc, want>> /\ pc[t] = "out" /\ counter >= u /\ counter' = counter - u
    BY Zenon, <1>1 DEF KsemWaitFree, At
  <2>2. UnitsInv' /\ u <= counter
    BY <2>1
  <2>3. Asked' = Asked
    BY Zenon, <2>1 DEF Asked
  <2>4. Asked[t] = 0
    BY SMT, <2>1 DEF Asked
  <2>. QED
    BY Zenon, <2>1, <2>2, <2>3, <2>4 DEF Sem!TakeNow
<1>2. ASSUME NEW u \in WaitUnits, NEW n \in WaitTicks, KsemWaitBusy(t, u, n)
      PROVE  UnitsInv' /\ (UNCHANGED <<counter, Asked>> \/ Sem!Ask(t, u))
  <2>1. /\ counter' = counter /\ pc[t] = "out" /\ u <= SemMax
        /\ want' = [want EXCEPT ![t] = u]
        /\ pc' = pc \/ pc' = [pc EXCEPT ![t] = "sem"]
    BY Zenon, <1>2 DEF KsemWaitBusy, SemSleep, Goto, At
  <2>2. UnitsInv'
    BY <2>1 DEF Location
  <2>3. CASE pc' = pc
    <3>1. Asked' = Asked
      BY <2>1, <2>3 DEF Asked
    <3>. QED
      BY Zenon, <2>1, <2>2, <3>1
  <2>4. CASE pc' = [pc EXCEPT ![t] = "sem"]
    <3>1. Asked' = [Asked EXCEPT ![t] = u] /\ Asked[t] = 0
      BY ZenonT(60), <2>1, <2>4 DEF Asked
    <3>. QED
      BY Zenon, <2>1, <2>2, <3>1 DEF Sem!Ask, Asked
  <2>. QED
    BY Zenon, <2>1, <2>3, <2>4
<1>. QED
  BY Zenon, <1>1, <1>2 DEF Sem!Next

(* A task that looks again in ksem_wait takes all the units it asked for,  *)
(* gives up because there are fewer, or goes on asking for the same.       *)
LEMMA UnitsWokenStep ==
  ASSUME UnitsInv, NEW t \in Task, KsemWoken(t)
  PROVE  UnitsInv' /\ [Sem!Next]_<<counter, Asked>>
<1> USE KsemAssumption DEF UnitsInv
<1>1. /\ want' = want /\ pc[t] = "sem" /\ want[t] \in WaitUnits /\ want[t] # 0
      /\ \/ /\ counter >= want[t] /\ counter' = counter - want[t]
            /\ pc' = [pc EXCEPT ![t] = "out"]
         \/ /\ ~(counter >= want[t]) /\ counter' = counter
            /\ pc' = [pc EXCEPT ![t] = "out"]
         \/ counter' = counter /\ (pc' = pc \/ pc' = [pc EXCEPT ![t] = "sem"])
  <2>1. want' = want /\ pc[t] = "sem"
    BY Zenon DEF KsemWoken, At
  <2>2. want[t] \in WaitUnits /\ want[t] # 0
    BY <2>1
  <2>. QED
    BY Zenon, <2>1, <2>2 DEF KsemWoken, SemSleep, Goto
<1>2. UnitsInv'
  BY <1>1 DEF Location
<1>3. CASE pc' = [pc EXCEPT ![t] = "out"]
  <2>1. Asked' = [Asked EXCEPT ![t] = 0] /\ Asked[t] = want[t]
    BY ZenonT(60), <1>1, <1>3 DEF Asked
  <2>2. CASE counter >= want[t] /\ counter' = counter - want[t]
    <3>1. Asked[t] # 0 /\ Asked[t] <= counter
      BY <2>1, <2>2, <1>1
    <3>. QED
      BY Zenon, <1>2, <2>1, <2>2, <3>1 DEF Sem!Get, Sem!Next, Asked
  <2>3. CASE ~(counter >= want[t]) /\ counter' = counter
    <3>1. Asked[t] > counter
      BY <2>1, <2>3, <1>1
    <3>. QED
      BY Zenon, <1>2, <2>1, <2>3, <3>1 DEF Sem!GiveUp, Sem!Next, Asked
  <2>. QED
    BY <1>1, <1>3, <2>2, <2>3
<1>4. CASE counter' = counter /\ (pc' = pc \/ pc' = [pc EXCEPT ![t] = "sem"])
  <2>1. Asked' = Asked
    BY <1>1, <1>4 DEF Asked
  <2>. QED
    BY Zenon, <1>2, <1>4, <2>1
<1>. QED
  BY Zenon, <1>1, <1>3, <1>4

(* ksem_signal adds its units, up to s->max, and changes no request. *)
LEMMA UnitsSignalStep ==
  ASSUME UnitsInv, NEW t \in Task, NEW u \in SignalUnits, KsemSignal(t, u)
  PROVE  UnitsInv' /\ [Sem!Next]_<<counter, Asked>>
<1> USE KsemAssumption DEF UnitsInv
<1>1. /\ pc[t] = "out" /\ counter <= SemMax - u /\ UNCHANGED <<pc, want>>
      /\ counter' = counter \/ counter' = counter + u
  BY Zenon DEF KsemSignal, KsemPanic, Panic, semVars, At
<1>2. UnitsInv' /\ counter + u <= SemMax /\ Asked[t] = 0
  BY <1>1 DEF Asked
<1>3. Asked' = Asked
  BY Zenon, <1>1 DEF Asked
<1>. QED
  BY Zenon, <1>1, <1>2, <1>3 DEF Sem!Give, Sem!Next, Asked

(* Neither the scheduler, nor a timer, nor a signal, nor a task that sleeps *)
(* elsewhere changes the units or a request.                                *)
LEMMA UnitsOtherStep ==
  ASSUME UnitsInv, TasksNext, UNCHANGED semVars
  PROVE  UnitsInv' /\ [Sem!Next]_<<counter, Asked>>
<1>1. UNCHANGED <<counter, want>>
  BY Zenon DEF semVars
<1>2. \/ pc' = pc
      \/ \E t \in Task, l \in {"out", "nap", "pause"} :
           pc[t] # "sem" /\ pc' = [pc EXCEPT ![t] = l]
  <2>1. CASE TickAllTimers \/ DoSchedule \/ Halted \/ \E u \in UserTask : SendSignal(u)
    BY Zenon, <2>1 DEF TickAllTimers, DoSchedule, Halted, SendSignal
  <2>2. ASSUME NEW t \in Task, TaskStep(t) \/ \E n \in 1..MaxTicks : KernelSleep(t, n)
        PROVE  \/ pc' = pc
               \/ \E l \in {"out", "nap", "pause"} : pc[t] # "sem" /\ pc' = [pc EXCEPT ![t] = l]
    <3>1. CASE ProcessSignals(t)
      BY Zenon, <3>1 DEF ProcessSignals
    <3>2. CASE KernelSleepWoken(t)
      <4>1. pc[t] = "nap" /\ pc' = [pc EXCEPT ![t] = "out"]
        BY Zenon, <3>2 DEF KernelSleepWoken, Goto, At
      <4>. QED
        BY Zenon, <4>1
    <3>3. CASE SysPause(t)
      <4>1. /\ pc[t] = "out" \/ pc[t] = "pause"
            /\ pc' = [pc EXCEPT ![t] = "out"] \/ pc' = [pc EXCEPT ![t] = "pause"]
        BY Zenon, <3>3 DEF SysPause, Goto, At
      <4>. QED
        BY Zenon, <4>1
    <3>4. CASE \E n \in 1..MaxTicks : KernelSleep(t, n)
      <4>1. pc[t] = "out" /\ pc' = [pc EXCEPT ![t] = "nap"]
        BY Zenon, <3>4 DEF KernelSleep, Goto, At
      <4>. QED
        BY Zenon, <4>1
    <3>. QED
      BY Zenon, <2>2, <3>1, <3>2, <3>3, <3>4 DEF TaskStep
  <2>3. TimedTask \subseteq Task
    BY Zenon, TaskAssumption
  <2>. QED
    BY Zenon, <2>1, <2>2, <2>3 DEF TasksNext
<1>3. Asked' = Asked /\ UnitsInv'
  <2>1. CASE pc' = pc
    BY Zenon, <1>1, <2>1 DEF Asked, UnitsInv
  <2>2. ASSUME NEW t \in Task, NEW l \in {"out", "nap", "pause"},
               pc[t] # "sem", pc' = [pc EXCEPT ![t] = l]
        PROVE  Asked' = Asked /\ UnitsInv'
    BY <1>1, <2>2 DEF Asked, UnitsInv, Location
  <2>. QED
    BY Zenon, <1>2, <2>1, <2>2
<1>. QED
  BY Zenon, <1>1, <1>3

(* ksem.c implements a counting semaphore whatever the timeouts are and    *)
(* whichever tasks get signals: a wait takes all its units or none, and    *)
(* none only when there are fewer; the counter stays within s->max.  The   *)
(* defects of the timed wait are in the wait list, never in the units.     *)
THEOREM KsemImplementsSemaphore == KsemSpec => UnitsAreAccountedFor
<1>1. KsemInit => UnitsInv /\ Sem!Init
  <2> SUFFICES ASSUME KsemInit PROVE UnitsInv /\ Sem!Init
    OBVIOUS
  <2>1. \A t \in Task : pc[t] = "out" /\ want[t] = 0
    BY Zenon DEF KsemInit, TasksInit
  <2>2. /\ counter \in 0..SemMax /\ pc \in [Task -> Location] /\ want \in [Task -> Nat]
        /\ "out" # "sem"
    BY SMT, KsemAssumption DEF KsemInit, TasksInit, Location
  <2>3. UnitsInv
    BY Zenon, <2>1, <2>2 DEF UnitsInv
  <2>4. Asked = [t \in Task |-> 0]
    BY SMT, <2>1 DEF Asked
  <2>. QED
    BY Zenon, <2>3, <2>4 DEF KsemInit, Sem!Init
<1>2. UnitsInv /\ [KsemNext]_ksemVars => UnitsInv' /\ [Sem!Next]_<<counter, Asked>>
  <2> SUFFICES ASSUME UnitsInv, [KsemNext]_ksemVars
               PROVE  UnitsInv' /\ [Sem!Next]_<<counter, Asked>>
    OBVIOUS
  <2>1. CASE UNCHANGED ksemVars
    BY Zenon, <2>1 DEF ksemVars, semVars, UnitsInv, Asked
  <2>2. CASE KsemNext
    BY Zenon, <2>2, UnitsWaitStep, UnitsWokenStep, UnitsSignalStep, UnitsOtherStep
       DEF KsemNext, KsemStep
  <2>. QED
    BY Zenon, <2>1, <2>2
<1>. QED
  BY <1>1, <1>2, PTL DEF KsemSpec, UnitsAreAccountedFor, Sem!Spec, Asked

=============================================================================
